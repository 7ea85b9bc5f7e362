------------------------- MODULE PreferencesService -------------------------
(***************************************************************************)
(* What SCPreferences promises to sessions that share one preferences      *)
(* file: what a session stores replaces exactly the preferences that the   *)
(* session has read or stored before, so no update of another session is   *)
(* ever overwritten unseen.                                                *)
(***************************************************************************)
CONSTANTS Session, Nothing

VARIABLES stored,  \* the preferences in the file
          base     \* those a session's copy comes from, or Nothing

Read(s) == base' = [base EXCEPT ![s] = stored] /\ UNCHANGED stored

Forget(s) == base' = [base EXCEPT ![s] = Nothing] /\ UNCHANGED stored

Store(s) == /\ base[s] = stored
            /\ base' = [base EXCEPT ![s] = stored']

ServiceInit == base = [s \in Session |-> Nothing]

ServiceNext == \E s \in Session : Read(s) \/ Forget(s) \/ Store(s)

Service == ServiceInit /\ [][ServiceNext]_<<stored, base>>
=============================================================================
