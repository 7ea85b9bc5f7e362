---------------------------- MODULE StoreClient ----------------------------
(***************************************************************************)
(* Clients of the dynamic store that are notified of changes, and the      *)
(* death and restart of configd under them.  A client that meets a dead    *)
(* server opens a new session in the middle of the call; a client whose    *)
(* notification port lost its sender cancels, sets its keys again and      *)
(* registers again, in three requests between which configd may die once   *)
(* more.                                                                   *)
(*                                                                         *)
(* A request and its answer are one step: whether a server that dies over  *)
(* a request had handled it makes no difference, its store dies with it.   *)
(* A client makes its calls on the thread, or the serial queue, that also  *)
(* runs its callbacks.                                                     *)
(***************************************************************************)
EXTENDS DynamicStore

CONSTANTS Kinds,       \* the ways the clients are notified
          MaxCrashes   \* how often configd may die

ASSUME ClientConstants == /\ Kinds \subseteq {"RunLoop", "Dispatch"}
                          /\ MaxCrashes \in Nat

VARIABLES cl,       \* the SCDynamicStoreRef of each client
          up,       \* configd answers
          crashes   \* how often it died

cvars == <<db, kicks, phase, cl, up, crashes>>

Kind == {"NotRegistered", "RunLoop", "Dispatch"}

(* server: the port of the session, or of a dead one.  source: the run     *)
(* loop source or the queue.  port: the notification port, with the notice *)
(* that it lost its sender in lost.  signalled: the source is to perform.  *)
(* job: the block on the queue.  behind: how the client was registered     *)
(* when configd died, until it is called back.                             *)
Client == [server : {"none", "null", "live", "stale"}, status : Kind,
           keys : SUBSET Key, patterns : SUBSET Pattern,
           source : BOOLEAN, port : BOOLEAN, lost : BOOLEAN,
           signalled : BOOLEAN, job : {"none", "perform", "restore"},
           pc : {"idle", "keys", "notifier"}, was : Kind,
           force : BOOLEAN, behind : Kind]

NoClient == [server |-> "none", status |-> "NotRegistered", keys |-> {}, patterns |-> {},
             source |-> FALSE, port |-> FALSE, lost |-> FALSE, signalled |-> FALSE,
             job |-> "none", pc |-> "idle", was |-> "NotRegistered",
             force |-> FALSE, behind |-> "NotRegistered"]

CInit == Init /\ cl = [s \in Session |-> NoClient] /\ up = TRUE /\ crashes = 0

-----------------------------------------------------------------------------
(* Requests.  A dead name makes the call reconnect and try again; when     *)
(* configd cannot be found the session has no server any more.             *)
Open(s) == [db EXCEPT !.open = @ \cup {s}]

Reaches(s) == cl[s].server = "live" \/ (cl[s].server = "stale" /\ up)

Misses(s) == cl[s].server = "stale" /\ ~up

HasServer(s) == cl[s].server \in {"live", "stale"}

Reached(s) == IF cl[s].server = "live" THEN db ELSE Open(s)

Put(s, c) == cl' = [cl EXCEPT ![s] = c] /\ UNCHANGED <<up, crashes>>

Keep == UNCHANGED <<db, kicks, phase>>

(* The request leaves the store d and the client c.                        *)
Ask(s, d, c) == Reaches(s) /\ Handle(d) /\ Put(s, [c EXCEPT !.server = "live"])

(* A request fails only because configd is gone: other errors of Mach are  *)
(* left out.                                                               *)
CheckRetryAndHandleError(s, c) == Misses(s) /\ Keep /\ Put(s, [c EXCEPT !.server = "null"])

(* Calls of the client: not while the library restores its notifications.  *)
Idle(s) == cl[s].pc = "idle"

SCDynamicStoreCreate(s) ==
  /\ cl[s].server = "none" /\ up /\ s \notin db.open
  /\ Handle(Open(s)) /\ Put(s, [NoClient EXCEPT !.server = "live"])

(* Any call that asks only for a value: all it may change is the session.  *)
SCDynamicStoreCopyValue(s) ==
  /\ Idle(s) /\ cl[s].server = "stale"
  /\ Ask(s, Reached(s), cl[s]) \/ CheckRetryAndHandleError(s, cl[s])

(* The keys are remembered once the server has them, and not if it refuses *)
(* the lists half way.                                                     *)
SCDynamicStoreSetNotificationKeys(s, K, P) ==
  /\ Idle(s) /\ HasServer(s)
  /\ \/ Ask(s, SetNotificationKeys(Reached(s), s, K, P), [cl[s] EXCEPT !.keys = K, !.patterns = P])
     \/ \E r \in Refused(Reached(s), s, K, P) :
          Ask(s, SetNotificationKeys(Reached(s), s, r[1], r[2]), cl[s])
     \/ CheckRetryAndHandleError(s, cl[s])

(* A new port is given to the server, unless it notifies the session       *)
(* already: c is the client that has it, f the one that has not.  A        *)
(* message to a port that was closed before counts for this one: it tells  *)
(* of nothing new.                                                         *)
acquireNotifyPort(s, c, f) ==
  \/ /\ Reached(s).notify[s] = "NotRegistered"
     /\ Ask(s, NotifyVia(Reached(s), s, "MachPort"), [c EXCEPT !.port = TRUE])
  \/ /\ Reached(s).notify[s] # "NotRegistered"
     /\ Ask(s, Reached(s), f)
  \/ CheckRetryAndHandleError(s, f)

(* The client is to be called back without keys.  On a queue the block     *)
(* goes on to perform, in a run loop the source is signalled if there is   *)
(* one.                                                                    *)
pushDisconnect_NoForce(c) ==
  [c EXCEPT !.pc = "idle", !.was = "NotRegistered",
            !.job = IF @ = "restore" THEN "perform" ELSE @,
            !.signalled = IF c.job = "restore" THEN @ ELSE c.source]
pushDisconnect(c) ==
  [c EXCEPT !.pc = "idle", !.was = "NotRegistered", !.force = TRUE,
            !.job = IF @ = "restore" THEN "perform" ELSE @,
            !.signalled = IF c.job = "restore" THEN @ ELSE c.source]

(* To register is the last step of a restoration.                          *)
Registered(s, c) == IF cl[s].pc = "notifier" THEN pushDisconnect(c) ELSE c

(* A source is made and added to the run loop, which schedules it.         *)
rlsSchedule(s) ==
  LET c == [cl[s] EXCEPT !.source = TRUE]
  IN acquireNotifyPort(s, Registered(s, [c EXCEPT !.status = "RunLoop"]), Registered(s, c))

SCDynamicStoreCreateRunLoopSource(s) ==
  /\ Idle(s) /\ HasServer(s) /\ "RunLoop" \in Kinds
  /\ cl[s].status # "Dispatch" /\ ~cl[s].source
  /\ rlsSchedule(s)

SetDispatchQueue(s) ==
  LET c == [cl[s] EXCEPT !.status = "Dispatch", !.source = TRUE]
  IN acquireNotifyPort(s, Registered(s, c), Registered(s, cl[s]))

SCDynamicStoreSetDispatchQueue(s) ==
  /\ Idle(s) /\ HasServer(s) /\ "Dispatch" \in Kinds
  /\ cl[s].status = "NotRegistered" /\ ~cl[s].source
  /\ SetDispatchQueue(s)

-----------------------------------------------------------------------------
(* The end of notifications.  For a queue the server is not told; for a    *)
(* run loop it is, and the status stays as it was when it cannot be.       *)
Closed(c) == [c EXCEPT !.source = FALSE, !.port = FALSE, !.lost = FALSE, !.signalled = FALSE]

NoMessages(s) == kicks' = [kicks EXCEPT ![s] = 0]

(* What the caller, ReconnectNotifications() or the client, goes on with.  *)
Cancelled(s, reconnect, c) ==
  IF reconnect
  THEN [c EXCEPT !.was = cl[s].status,
                 !.pc = IF c.keys \cup c.patterns = {} THEN "notifier" ELSE "keys"]
  ELSE [c EXCEPT !.behind = "NotRegistered"]

rlsCancel(s, reconnect) ==
  LET c == Cancelled(s, reconnect, Closed(cl[s]))
      off == [c EXCEPT !.status = "NotRegistered"]
  IN \/ /\ cl[s].server = "live"
        /\ HandleNewPort(s, NotifyCancel(db, s)) /\ Put(s, off)
     \/ /\ cl[s].server = "stale" /\ up
        /\ HandleNewPort(s, Open(s)) /\ Put(s, [c EXCEPT !.server = "live"])
     \/ /\ ~Reaches(s) /\ NoMessages(s) /\ UNCHANGED <<db, phase>>
        /\ Put(s, IF Misses(s) THEN [c EXCEPT !.server = "null"] ELSE off)

SetDispatchQueueNULL(s, reconnect) ==
  /\ NoMessages(s) /\ UNCHANGED <<db, phase>>
  /\ Put(s, Cancelled(s, reconnect, [Closed(cl[s]) EXCEPT !.status = "NotRegistered"]))

NotifyCancelThen(s, reconnect) ==
  \/ /\ cl[s].status = "NotRegistered" \/ (cl[s].status = "RunLoop" /\ ~cl[s].source)
     /\ Keep /\ Put(s, Cancelled(s, reconnect, cl[s]))
  \/ cl[s].status = "RunLoop" /\ cl[s].source /\ rlsCancel(s, reconnect)
  \/ cl[s].status = "Dispatch" /\ SetDispatchQueueNULL(s, reconnect)

SCDynamicStoreNotifyCancel(s) ==
  /\ Idle(s) /\ cl[s].status # "NotRegistered"
  /\ NotifyCancelThen(s, FALSE)

(* The client drops the session; a source, a queue or a block holds a      *)
(* reference to it.                                                        *)
SCDynamicStoreDeallocate(s) ==
  /\ Idle(s) /\ cl[s].server # "none" /\ cl[s].job = "none" /\ ~cl[s].source
  /\ Keep /\ Put(s, NoClient)

-----------------------------------------------------------------------------
(* configd has died: the notifications are set up again, in steps, and the *)
(* client is told by a callback without keys.                              *)
ReconnectNotifications(s) == NotifyCancelThen(s, TRUE)

ReconnectKeys(s) ==
  /\ cl[s].pc = "keys"
  /\ \/ Ask(s, SetNotificationKeys(Reached(s), s, cl[s].keys, cl[s].patterns),
                [cl[s] EXCEPT !.pc = "notifier"])
     \/ CheckRetryAndHandleError(s, pushDisconnect(cl[s]))
     \/ ~HasServer(s) /\ Keep /\ Put(s, pushDisconnect(cl[s]))

ReconnectNotifier(s) ==
  /\ cl[s].pc = "notifier"
  /\ \/ cl[s].was = "RunLoop" /\ HasServer(s) /\ rlsSchedule(s)
     \/ cl[s].was = "Dispatch" /\ HasServer(s) /\ SetDispatchQueue(s)
     \/ /\ cl[s].was = "NotRegistered" \/ ~HasServer(s)
        /\ Keep /\ Put(s, pushDisconnect(cl[s]))

-----------------------------------------------------------------------------
(* The messages of the port, in order: changes, then the loss of the       *)
(* sender.  A run loop handles them at once, a queue by a block.           *)
Take(s) == kicks' = [kicks EXCEPT ![s] = @ - 1] /\ UNCHANGED <<db, phase>>

rlsCallback(s) ==
  /\ Idle(s) /\ cl[s].port /\ cl[s].status = "RunLoop"
  /\ \/ kicks[s] > 0 /\ Take(s) /\ Put(s, [cl[s] EXCEPT !.signalled = cl[s].source])
     \/ kicks[s] = 0 /\ cl[s].lost /\ ReconnectNotifications(s)

EventHandler(s) ==
  /\ Idle(s) /\ cl[s].port /\ cl[s].status = "Dispatch" /\ cl[s].job = "none"
  /\ \/ kicks[s] > 0 /\ Take(s) /\ Put(s, [cl[s] EXCEPT !.job = "perform"])
     \/ /\ kicks[s] = 0 /\ cl[s].lost
        /\ Keep /\ Put(s, [cl[s] EXCEPT !.job = "restore", !.lost = FALSE])

Block(s) == Idle(s) /\ cl[s].job = "restore" /\ ReconnectNotifications(s)

(* The changes are fetched; the client is called unless there are none.    *)
Performed(c, changed) ==
  [c EXCEPT !.force = FALSE, !.behind = IF c.force \/ changed # {} THEN "NotRegistered" ELSE @]

rlsPerform(s, c) ==
  \/ Ask(s, [Reached(s) EXCEPT !.pending[s] = {}], Performed(c, Reached(s).pending[s]))
  \/ CheckRetryAndHandleError(s, Performed(c, {}))
  \/ ~HasServer(s) /\ Keep /\ Put(s, Performed(c, {}))

Perform(s) ==
  /\ Idle(s)
  /\ \/ cl[s].signalled /\ rlsPerform(s, [cl[s] EXCEPT !.signalled = FALSE])
     \/ cl[s].job = "perform" /\ rlsPerform(s, [cl[s] EXCEPT !.job = "none"])

-----------------------------------------------------------------------------
(* configd dies with its store, and with its send rights; launchd starts   *)
(* it again.                                                               *)
Died_Silent(s) ==
  [cl[s] EXCEPT !.server = IF @ = "live" THEN "stale" ELSE @,
                !.behind = IF cl[s].port THEN cl[s].status ELSE @]
Died(s) ==
  [cl[s] EXCEPT !.server = IF @ = "live" THEN "stale" ELSE @,
                !.lost = @ \/ (cl[s].port /\ db.notify[s] = "MachPort"),
                !.behind = IF cl[s].port THEN cl[s].status ELSE @]

Crash == /\ up /\ crashes < MaxCrashes
         /\ up' = FALSE /\ crashes' = crashes + 1
         /\ db' = EmptyStore /\ phase' = "event"
         /\ cl' = [s \in Session |-> Died(s)]
         /\ UNCHANGED kicks

Restart == ~up /\ up' = TRUE /\ UNCHANGED <<db, kicks, phase, cl, crashes>>

(* The server on its own: another process writes, a client that is gone    *)
(* leaves a session behind, and notifications are pushed.                  *)
Serve == /\ up
         /\ \/ \E k \in Key : configset(NullSession, k) \/ configremove(NullSession, k)
            \/ \E s \in Session : cl[s].server = "none" /\ noSenders(s)
            \/ pushNotifications
         /\ UNCHANGED <<cl, up, crashes>>

Use(s) == \/ SCDynamicStoreCreate(s) \/ SCDynamicStoreCopyValue(s)
          \/ \E K \in SUBSET Key, P \in SUBSET Pattern :
               K \cup P # {} /\ SCDynamicStoreSetNotificationKeys(s, K, P)
          \/ SCDynamicStoreCreateRunLoopSource(s) \/ SCDynamicStoreSetDispatchQueue(s)
          \/ SCDynamicStoreNotifyCancel(s) \/ SCDynamicStoreDeallocate(s)

Run(s) == \/ rlsCallback(s) \/ EventHandler(s) \/ Block(s) \/ Perform(s)
          \/ ReconnectKeys(s) \/ ReconnectNotifier(s)

CNext == Serve \/ Crash \/ Restart \/ \E s \in Session : Use(s) \/ Run(s)

CSpec == CInit /\ [][CNext]_cvars

(* configd pushes what it has to push, launchd restarts it, and the run    *)
(* loop and the queue of a client go on: strongly, for their requests wait *)
(* in a port from which configd takes them in turn, between those of       *)
(* others.                                                                 *)
FairCSpec ==
  /\ CSpec
  /\ WF_cvars(Restart)
  /\ WF_cvars(pushNotifications /\ UNCHANGED <<cl, up, crashes>>)
  /\ \A s \in Session : SF_cvars(Run(s)) /\ SF_cvars(Perform(s))

-----------------------------------------------------------------------------
(* The clients and the server have their types.                            *)
CTypeOK == /\ TypeOK
           /\ cl \in [Session -> Client]
           /\ up \in BOOLEAN /\ crashes \in 0 .. MaxCrashes

(* A client never waits on a port to which nobody will send: the server    *)
(* holds the port and serves the session, or the notice that it died is    *)
(* in the port or being handled, however deaths, reconnects by other calls *)
(* and registrations interleave.                                           *)
PortHeld ==
  \A s \in Session : cl[s].port =>
    \/ cl[s].server = "live" /\ db.notify[s] = "MachPort"
    \/ cl[s].lost \/ cl[s].job = "restore"

(* A change is never left waiting: while a client is registered and the    *)
(* server has changes for it, a message, a callback or a push is under     *)
(* way, although messages that find the port full are dropped.             *)
Awake(s) == \/ s \in db.needs \/ kicks[s] > 0 \/ cl[s].signalled
            \/ cl[s].job # "none" \/ cl[s].lost

NoLostWakeup ==
  \A s \in Session : cl[s].port /\ Idle(s) /\ db.pending[s] # {} => Awake(s)

(* What the server has for a registered client is fetched in the end.      *)
ChangesFetched ==
  \A s \in Session : (cl[s].port /\ db.pending[s] # {}) ~> (~cl[s].port \/ db.pending[s] = {})

(* A client that was notified on a queue when configd died is called back  *)
(* (pushDisconnect() says: push empty notification), even if configd       *)
(* cannot be found when the library reconnects.                            *)
QueueTold == \A s \in Session : cl[s].behind = "Dispatch" ~> cl[s].behind # "Dispatch"
=============================================================================
