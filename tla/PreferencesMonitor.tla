------------------------- MODULE PreferencesMonitor -------------------------
(***************************************************************************)
(* The PreferencesMonitor plugin of configd: a session of SCPreferences    *)
(* that is told of commits and applies and copies the stored preferences   *)
(* to the Setup: keys of the dynamic store.  What was announced while it   *)
(* was busy reaches it as one notification.  No interface is excluded or   *)
(* configured in advance, so it stores no preferences of its own; the file *)
(* system can be written.                                                  *)
(***************************************************************************)
EXTENDS Preferences

VARIABLES mon,     \* the copy of the plugin's session
          setup,   \* the keys under Setup:
          primed,  \* the plugins have been primed
          since    \* history: what the file held since an apply was asked for

mvars == <<vars, mon, setup, primed, since>>

(* load_PreferencesMonitor() looks at the preferences before it waits.     *)
MInit == Init /\ mon = Accessed(Fresh) /\ setup = {} /\ primed = FALSE /\ since = {}

(* Keys that the preferences do not have are removed, the others set.      *)
updateSCDynamicStore(prefs) ==
  LET removedPrefsKeys == setup \ prefs
  IN setup' = (setup \ removedPrefsKeys) \cup prefs

(* A commit is only looked at; an apply ends with the copy dropped.        *)
updateConfiguration(notification) ==
  LET m == IF "commit" \in notification THEN Accessed(mon) ELSE mon
  IN \/ "apply" \notin notification /\ mon' = m /\ UNCHANGED setup
     \/ "apply" \in notification /\ updateSCDynamicStore(Accessed(m).prefs) /\ mon' = Fresh

prime == /\ ~primed /\ primed' = TRUE
         /\ updateConfiguration({"apply"}) /\ UNCHANGED <<vars, since>>

prefsNotify == /\ primed /\ told # {} /\ told' = {}
               /\ updateConfiguration(told)
               /\ UNCHANGED <<lockVars, pc, call, mem, fileVars, primed, since>>

Sessions ==
  /\ Next /\ UNCHANGED <<mon, setup, primed>>
  /\ since' = IF "apply" \in told' \ told THEN {Parsed(file.prefs)}
                                            ELSE since \cup {Parsed(file'.prefs)}

MNext == Sessions \/ prime \/ prefsNotify

MSpec == MInit /\ [][MNext]_mvars

(* SCPreferences.h says of SCPreferencesApplyChanges() that it requests    *)
(* that the currently stored configuration preferences be applied: when    *)
(* the plugin handles an apply, Setup: becomes what the file holds, or has *)
(* held at some time since the request.                                    *)
AppliesStored == [][primed /\ "apply" \in told /\ told' = {} => setup' \in since]_mvars
=============================================================================
