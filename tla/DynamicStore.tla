---------------------------- MODULE DynamicStore ----------------------------
(***************************************************************************)
(* The dynamic store server of configd: keys with values, sessions that    *)
(* write them, session keys that go away with the session that created     *)
(* them, and sessions that watch keys and patterns and are told of changes.*)
(*                                                                         *)
(* The server is one thread: it handles one message, then pushes the       *)
(* notifications the message caused.  Within one message several keys may  *)
(* be set, removed and flagged; the indexes (who watches which key, which  *)
(* keys a pattern matches, which keys a session owns) are brought up to    *)
(* date step by step, so the store is a record that the operators below    *)
(* transform one after the other.                                          *)
(***************************************************************************)
EXTENDS Naturals, FiniteSets

CONSTANTS Session, NullSession, Key, Pattern, NoValue, None,
          Matches,     \* the keys a pattern matches
          BadPattern,  \* the patterns that do not compile
          Writable,    \* the keys a session (or the shared one) may write
          Notifiers,   \* the ways to be notified that a session uses
          QLimit       \* messages the port of a client holds

ASSUME StoreConstants ==
  /\ NullSession \notin Session /\ {None, NoValue} \cap (Session \cup {NullSession}) = {}
  /\ IsFiniteSet(Pattern)
  /\ Matches \in [Pattern -> SUBSET Key]
  /\ BadPattern \subseteq Pattern
  /\ Writable \in [Session \cup {NullSession} -> SUBSET Key]
  /\ Notifiers \in [Session -> SUBSET {"MachPort", "FD", "Signal"}]
  /\ QLimit \in Nat \ {0}

VARIABLES db,     \* the store and its indexes
          kicks,  \* notifications in the port of a session's client
          phase   \* what the server loop does next

vars == <<db, kicks, phase>>

-----------------------------------------------------------------------------
Writer == Session \cup {NullSession}

(* The value of a key stands for the session that stored it as temporary;  *)
(* any other value is that of NullSession.                                 *)
Value == Writer

Count == [Key -> Nat]

Store == [open : SUBSET Session, useSessionKeys : [Session -> BOOLEAN],
          data : [Key -> Value \cup {NoValue}], owner : [Key -> Session \cup {None}],
          sessionKeys : [Session -> SUBSET Key], refs : [Session -> Count],
          keys : [Session -> SUBSET Key], patterns : [Session -> SUBSET Pattern],
          pSessions : [Pattern -> SUBSET Session], pKeys : [Pattern -> SUBSET Key],
          changedKeys : SUBSET Key, deferredRemovals : SUBSET Key,
          removedSessionKeys : SUBSET (Session \X Key),
          pending : [Session -> SUBSET Key], needs : SUBSET Session,
          notify : [Session -> {"NotRegistered", "MachPort", "FD", "Signal"}],
          handle : [Session -> BOOLEAN]]

EmptyStore ==
  [open |-> {}, useSessionKeys |-> [s \in Session |-> FALSE],
   data |-> [k \in Key |-> NoValue], owner |-> [k \in Key |-> None],
   sessionKeys |-> [s \in Session |-> {}],
   refs |-> [s \in Session |-> [k \in Key |-> 0]],
   keys |-> [s \in Session |-> {}], patterns |-> [s \in Session |-> {}],
   pSessions |-> [p \in Pattern |-> {}], pKeys |-> [p \in Pattern |-> {}],
   changedKeys |-> {}, deferredRemovals |-> {}, removedSessionKeys |-> {},
   pending |-> [s \in Session |-> {}], needs |-> {},
   notify |-> [s \in Session |-> "NotRegistered"],
   handle |-> [s \in Session |-> FALSE]]

Stored(d) == {k \in Key : d.data[k] # NoValue}

-----------------------------------------------------------------------------
(* Watchers.  A session watches a key once for the key itself and once for *)
(* each of its patterns that lists the key.                                *)
addWatcher(d, s, K) ==
  [d EXCEPT !.refs[s] = [k \in Key |-> IF k \in K THEN @[k] + 1 ELSE @[k]]]

(* A count that is zero stays zero: the session is not among the watchers. *)
Less(n, m) == IF n > m THEN n - m ELSE 0

removeWatcher(d, s, K) ==
  [d EXCEPT !.refs[s] = [k \in Key |-> IF k \in K THEN Less(@[k], 1) ELSE @[k]]]

(* The number of patterns of session s that list key k in the index K.     *)
Hits(d, K, s, k) == Cardinality({p \in Pattern : s \in d.pSessions[p] /\ k \in K[p]})

patternAddKey(d, K) ==
  LET new == [p \in Pattern |-> IF d.pSessions[p] = {} THEN {} ELSE K \cap Matches[p]]
  IN [d EXCEPT !.pKeys = [p \in Pattern |-> @[p] \cup new[p]],
               !.refs = [s \in Session |-> [k \in Key |-> @[s][k] + Hits(d, new, s, k)]]]

patternRemoveKey(d, K) ==
  LET old == [p \in Pattern |-> d.pKeys[p] \cap K]
  IN [d EXCEPT !.pKeys = [p \in Pattern |-> @[p] \ old[p]],
               !.refs = [s \in Session |->
                           [k \in Key |-> Less(@[s][k], Hits(d, old, s, k))]]]

(* A new pattern lists the keys that have a value.                         *)
patternAddSession(d, s, P) ==
  LET K == [p \in Pattern |-> IF p \notin P THEN {} ELSE
                               IF d.pSessions[p] # {} THEN d.pKeys[p] ELSE Matches[p] \cap Stored(d)]
      e == [d EXCEPT !.pSessions = [p \in Pattern |-> IF p \in P THEN @[p] \cup {s} ELSE @[p]],
                     !.pKeys = [p \in Pattern |-> IF p \in P THEN K[p] ELSE @[p]]]
  IN [e EXCEPT !.refs[s] = [k \in Key |-> @[k] + Hits(e, K, s, k)]]

(* A pattern without sessions is forgotten.                                *)
patternRemoveSession(d, s, P) ==
  LET K == [p \in Pattern |-> IF p \in P THEN d.pKeys[p] ELSE {}]
  IN [d EXCEPT !.refs[s] = [k \in Key |-> Less(@[k], Hits(d, K, s, k))],
               !.pSessions = [p \in Pattern |-> IF p \in P THEN @[p] \ {s} ELSE @[p]],
               !.pKeys = [p \in Pattern |-> IF p \in P /\ d.pSessions[p] \subseteq {s} THEN {} ELSE @[p]]]

-----------------------------------------------------------------------------
(* Writes.  A session that uses session keys may replace only the keys it  *)
(* created; any other writer turns a session key of another session into  *)
(* an ordinary one.                                                        *)
(* A key that was removed by the same request is still listed.             *)
Unlisted_Any(d, new) == new
Unlisted(d, new) == new \ d.deferredRemovals

SetValue(d, w, temp, K, val) ==
  LET ok == {k \in K : temp => d.data[k] = NoValue \/ d.owner[k] = w}
      new == ok \ Stored(d)
      stolen == {k \in ok \ new : ~temp /\ d.owner[k] \notin {None, w}}
      e == [d EXCEPT
             !.data = [k \in Key |-> IF k \in ok THEN val[k] ELSE @[k]],
             !.owner = [k \in Key |-> IF temp /\ k \in new THEN w
                                      ELSE IF k \in stolen THEN None ELSE @[k]],
             !.sessionKeys = [s \in Session |-> IF temp /\ s = w THEN @[s] \cup new ELSE @[s]],
             !.removedSessionKeys = @ \cup {<<d.owner[k], k>> : k \in stolen},
             !.deferredRemovals = @ \ new,
             !.changedKeys = @ \cup ok]
  IN patternAddKey(e, Unlisted(d, new))

RemoveValue_StaysListed(d, K) ==
  [d EXCEPT !.data = [k \in Key |-> IF k \in K THEN NoValue ELSE @[k]],
            !.owner = [k \in Key |-> IF k \in K THEN None ELSE @[k]],
            !.removedSessionKeys = @ \cup {<<d.owner[k], k>> : k \in {j \in K : d.owner[j] # None}},
            !.changedKeys = @ \cup (K \cap Stored(d))]
RemoveValue(d, K) ==
  LET old == K \cap Stored(d)
  IN [d EXCEPT
       !.data = [k \in Key |-> IF k \in old THEN NoValue ELSE @[k]],
       !.owner = [k \in Key |-> IF k \in old THEN None ELSE @[k]],
       !.removedSessionKeys = @ \cup {<<d.owner[k], k>> : k \in {j \in old : d.owner[j] # None}},
       !.deferredRemovals = @ \cup old,
       !.changedKeys = @ \cup old]

(* A key without a value is given one and loses it again.                  *)
NotifyValue(d, w, temp, K) ==
  LET new == K \ Stored(d)
      val == [k \in K |-> IF k \in new THEN NullSession ELSE d.data[k]]
  IN RemoveValue(SetValue(d, w, temp, K, val), new)

-----------------------------------------------------------------------------
(* The end of a request: tell the watchers, then drop the removed keys     *)
(* from the patterns and from the lists of session keys.                   *)
notifyWatchers(d) ==
  LET hit == [s \in Session |-> {k \in d.changedKeys : d.refs[s][k] > 0}]
  IN [d EXCEPT !.pending = [s \in Session |-> @[s] \cup hit[s]],
               !.needs = @ \cup {s \in Session : hit[s] # {}},
               !.changedKeys = {}]

processDeferredRemovals_Again(d) == patternRemoveKey(d, d.deferredRemovals)
processDeferredRemovals(d) ==
  [patternRemoveKey(d, d.deferredRemovals) EXCEPT !.deferredRemovals = {}]

cleanupRemovedSessionKeys_Not(d) == [d EXCEPT !.removedSessionKeys = {}]
cleanupRemovedSessionKeys(d) ==
  [d EXCEPT !.sessionKeys = [s \in Session |-> {k \in @[s] : <<s, k>> \notin d.removedSessionKeys}],
            !.removedSessionKeys = {}]

Push_Early(d) == cleanupRemovedSessionKeys(notifyWatchers(processDeferredRemovals(d)))
Push(d) == cleanupRemovedSessionKeys(processDeferredRemovals(notifyWatchers(d)))

-----------------------------------------------------------------------------
(* The lists of keys and patterns that a session watches.                  *)
AddWatchedKeys(d, s, K) ==
  addWatcher([d EXCEPT !.keys[s] = @ \cup K], s, K)

RemoveWatchedKeys(d, s, K) ==
  removeWatcher([d EXCEPT !.keys[s] = @ \ K], s, K)

AddWatchedPatterns(d, s, P) ==
  patternAddSession([d EXCEPT !.patterns[s] = @ \cup P], s, P)

RemoveWatchedPatterns(d, s, P) ==
  patternRemoveSession([d EXCEPT !.patterns[s] = @ \ P], s, P)

(* The lists are replaced: what is not kept is removed, then what is new   *)
(* is added, keys before patterns.                                         *)
SetNotificationKeys(d, s, K, P) ==
  LET e == AddWatchedKeys(RemoveWatchedKeys(d, s, d.keys[s] \ K), s, K \ d.keys[s])
  IN AddWatchedPatterns(RemoveWatchedPatterns(e, s, d.patterns[s] \ P), s, P \ d.patterns[s])

NotifyCancel(d, s) ==
  [d EXCEPT !.notify[s] = "NotRegistered", !.handle[s] = FALSE, !.needs = @ \ {s}]

(* Changes that are pending when a notifier is registered are pushed, be   *)
(* it by port, by file or by signal.                                       *)
NotifyVia_NoPush(d, s, how) == [d EXCEPT !.notify[s] = how, !.handle[s] = TRUE]
NotifyVia(d, s, how) ==
  [d EXCEPT !.notify[s] = how, !.handle[s] = TRUE,
            !.needs = @ \cup IF d.pending[s] = {} THEN {} ELSE {s}]

isMySessionKey(d, s, k) == d.owner[k] = s

Close_WatchersLast(d, s) ==
  LET e == NotifyCancel(d, s)
      mine == {k \in e.sessionKeys[s] : isMySessionKey(e, s, k)}
      f == Push(RemoveValue(e, mine))
  IN RemoveWatchedPatterns(RemoveWatchedKeys(f, s, d.keys[s]), s, d.patterns[s])
Close(d, s) ==
  LET e == NotifyCancel(RemoveWatchedPatterns(RemoveWatchedKeys(d, s, d.keys[s]), s, d.patterns[s]), s)
      mine == {k \in e.sessionKeys[s] : isMySessionKey(e, s, k)}
  IN Push(RemoveValue(e, mine))

(* The session is forgotten with everything the server knew of it.         *)
cleanupSession(d, s) ==
  [Close(d, s) EXCEPT !.open = @ \ {s}, !.pending[s] = {}, !.sessionKeys[s] = {},
                      !.useSessionKeys[s] = FALSE]

-----------------------------------------------------------------------------
(* The requests.  The server handles one and then pushes notifications.    *)
Init == db = EmptyStore /\ kicks = [s \in Session |-> 0] /\ phase = "event"

Apply(d) == phase = "event" /\ phase' = "push" /\ db' = d

Handle(d) == Apply(d) /\ UNCHANGED kicks

(* The notification port of the client is a new one, or is gone.           *)
HandleNewPort(s, d) == Apply(d) /\ kicks' = [kicks EXCEPT ![s] = 0]

hasWriteAccess(w, K) == K \subseteq Writable[w]

(* A session, or the one shared by all the callers that have none.         *)
Speaks(w) == w \in db.open \cup {NullSession}

Temp(w) == w \in Session /\ db.useSessionKeys[w]

(* An open that fails (a bad name, no memory, no notice of the client's    *)
(* death to be had) leaves no session: it changes nothing.                 *)
configopen(s, temp) ==
  /\ s \notin db.open
  /\ Handle([db EXCEPT !.open = @ \cup {s}, !.useSessionKeys[s] = temp])

Val(w, temp) == [k \in Key |-> IF temp THEN w ELSE NullSession]

configset(w, k) ==
  /\ Speaks(w) /\ hasWriteAccess(w, {k})
  /\ Handle(Push(SetValue(db, w, Temp(w), {k}, Val(w, Temp(w)))))

(* Only a key that has no value is added, if need be as a session key.     *)
AddValue(w, temp, k) ==
  /\ Speaks(w) /\ hasWriteAccess(w, {k})
  /\ k \notin Stored(db)
  /\ Handle(Push(SetValue(db, w, temp, {k}, Val(w, temp))))

configadd(w, k) == AddValue(w, Temp(w), k)

configadd_s(s, k) == s \in Session /\ AddValue(s, TRUE, k)

configremove(w, k) ==
  /\ Speaks(w) /\ hasWriteAccess(w, {k})
  /\ k \in Stored(db)
  /\ Handle(Push(RemoveValue(db, {k})))

confignotify(w, k) ==
  /\ Speaks(w) /\ hasWriteAccess(w, {k})
  /\ Handle(Push(NotifyValue(db, w, Temp(w), {k})))

(* Many keys at once: nothing is done unless every key may be written.     *)
SetMultiple(d, w, S, R, N) ==
  NotifyValue(RemoveValue(SetValue(d, w, Temp(w), S, Val(w, Temp(w))), R), w, Temp(w), N)

configset_m(w, S, R, N) ==
  /\ Speaks(w) /\ hasWriteAccess(w, S \cup R \cup N)
  /\ Handle(Push(SetMultiple(db, w, S, R, N)))

notifyadd(s, k) ==
  /\ s \in db.open /\ k \notin db.keys[s]
  /\ Handle(AddWatchedKeys(db, s, {k}))

notifyaddPattern(s, p) ==
  /\ s \in db.open /\ p \notin db.patterns[s] \cup BadPattern
  /\ Handle(AddWatchedPatterns(db, s, {p}))

notifyremove(s, k) ==
  /\ s \in db.open /\ k \in db.keys[s]
  /\ Handle(RemoveWatchedKeys(db, s, {k}))

notifyremovePattern(s, p) ==
  /\ s \in db.open /\ p \in db.patterns[s]
  /\ Handle(RemoveWatchedPatterns(db, s, {p}))

notifyset(s, K, P) ==
  /\ s \in db.open /\ P \cap BadPattern = {}
  /\ Handle(SetNotificationKeys(db, s, K, P))

(* A list with a key twice stops after it: what comes later in the list,   *)
(* and every pattern, is left as it was.  A pattern that does not compile  *)
(* (or that is listed twice) stops the list of patterns.                   *)
Refused(d, s, K, P) ==
  {<<(K \cap d.keys[s]) \cup Q, d.patterns[s]>> : Q \in (SUBSET (K \ d.keys[s])) \ {{}}}
  \cup {<<K, Q>> : Q \in {R \in SUBSET (P \ BadPattern) :
                            /\ d.patterns[s] \cap P \subseteq R
                            /\ P \cap BadPattern # {} \/ ~(R \subseteq d.patterns[s])}}

notifysetFails(s, K, P) ==
  /\ s \in db.open
  /\ \E r \in Refused(db, s, K, P) : Handle(SetNotificationKeys(db, s, r[1], r[2]))

notifychanges(s) ==
  /\ s \in db.open
  /\ Handle([db EXCEPT !.pending[s] = {}])

notifyvia(s, how) ==
  /\ s \in db.open /\ db.notify[s] = "NotRegistered"
  /\ HandleNewPort(s, NotifyVia(db, s, how))

notifycancel(s) == s \in db.open /\ Handle(NotifyCancel(db, s))

(* The last send right to the session is gone.                             *)
noSenders(s) == s \in db.open /\ HandleNewPort(s, cleanupSession(db, s))

-----------------------------------------------------------------------------
(* One message to every session that needs it; one that finds the port     *)
(* full is dropped.  A write that fails ends the notifications by file.    *)
pushNotifications ==
  /\ phase = "push"
  /\ \E broken \in SUBSET {s \in db.needs : db.notify[s] # "MachPort"} :
       LET sent == {s \in db.needs \ broken : db.handle[s]}
           room(s) == IF db.notify[s] = "Signal" THEN 1 ELSE QLimit
       IN /\ kicks' = [s \in Session |-> IF s \in sent /\ kicks[s] < room(s)
                                         THEN kicks[s] + 1 ELSE kicks[s]]
          /\ db' = [db EXCEPT !.needs = {},
                              !.handle = [s \in Session |-> @[s] /\ s \notin broken]]
  /\ phase' = "event"

(* The client takes a message from its port (external).                    *)
Receive(s) == /\ kicks[s] > 0
              /\ kicks' = [kicks EXCEPT ![s] = @ - 1]
              /\ UNCHANGED <<db, phase>>

-----------------------------------------------------------------------------
Write(w) ==
  \/ \E k \in Key : \/ configset(w, k) \/ configadd(w, k) \/ configadd_s(w, k)
                    \/ configremove(w, k) \/ confignotify(w, k)
  \/ \E S, R, N \in SUBSET Key : configset_m(w, S, R, N)

Watch(s) ==
  \/ \E k \in Key : notifyadd(s, k) \/ notifyremove(s, k)
  \/ \E p \in Pattern : notifyaddPattern(s, p) \/ notifyremovePattern(s, p)
  \/ \E K \in SUBSET Key, P \in SUBSET Pattern : notifyset(s, K, P) \/ notifysetFails(s, K, P)

Attend(s) ==
  \/ \E temp \in BOOLEAN : configopen(s, temp)
  \/ \E how \in Notifiers[s] : notifyvia(s, how)
  \/ notifychanges(s) \/ notifycancel(s) \/ noSenders(s)

Next == \/ \E w \in Writer : Write(w)
        \/ \E s \in Session : Watch(s) \/ Attend(s) \/ Receive(s)
        \/ pushNotifications

Spec == Init /\ [][Next]_vars

-----------------------------------------------------------------------------
(* Every field of the store has its type, and nothing of a request is left *)
(* over once it has been handled.                                          *)
TypeOK == /\ db \in Store
          /\ kicks \in [Session -> 0 .. QLimit]
          /\ phase \in {"event", "push"}
          /\ db.changedKeys = {} /\ db.deferredRemovals = {} /\ db.removedSessionKeys = {}

(* The reference counts of _addWatcher() and _removeWatcher() never drift: *)
(* a session counts once for a key it watches and once for each of its     *)
(* patterns that lists the key, whatever was removed, added again or       *)
(* flagged in one request.                                                 *)
WatcherCounts ==
  \A s \in Session, k \in Key :
    db.refs[s][k] = (IF k \in db.keys[s] THEN 1 ELSE 0)
                    + Cardinality({p \in db.patterns[s] : k \in db.pKeys[p]})

(* The list of keys of a watched pattern is the list of the keys that have *)
(* a value and match it, although keys are added to it at once and removed *)
(* only at the end of a request.                                           *)
PatternIndex ==
  \A p \in Pattern :
    /\ db.pSessions[p] = {s \in Session : p \in db.patterns[s]}
    /\ db.pKeys[p] = IF db.pSessions[p] = {} THEN {} ELSE Matches[p] \cap Stored(db)

(* The two records of who owns a session key agree: the mark on the key    *)
(* and the remove-on-close list of the session.  A marked key has a value  *)
(* and a session that will remove it.                                      *)
SessionKeysTracked ==
  /\ \A s \in Session : db.sessionKeys[s] = {k \in Key : db.owner[k] = s}
  /\ \A k \in Key : db.owner[k] # None => k \in Stored(db) /\ db.owner[k] \in db.open

(* Nothing refers to a session that is closed: pushNotifications() asserts *)
(* that every session it is to notify still exists.                        *)
ClosedForgotten ==
  \A s \in Session \ db.open :
    /\ s \notin db.needs /\ db.pending[s] = {} /\ db.notify[s] = "NotRegistered"
    /\ \A k \in Key : db.refs[s][k] = 0
    /\ \A p \in Pattern : s \notin db.pSessions[p]

(* The server keeps the promise of StoreService: each request changes the  *)
(* keys it says, and exactly the sessions that watch a changed key, by     *)
(* name or by pattern, get it on their list of changes.                    *)
Interest == [s \in Session |-> db.keys[s] \cup UNION {Matches[p] : p \in db.patterns[s]}]

Promise == INSTANCE StoreService WITH data <- db.data, interest <- Interest, pending <- db.pending

KeepsPromise == Promise!Service
=============================================================================
