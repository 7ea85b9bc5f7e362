-------------------------- MODULE StoreClientProofs --------------------------
(***************************************************************************)
(* Clients of the dynamic store, for any number of them and of deaths of   *)
(* configd: a client never waits on a port that nobody holds, and never    *)
(* sleeps while the server has changes for it.                             *)
(***************************************************************************)
EXTENDS StoreClient, StoreProofs

\* What the server and client s know of each other: c is the client, d the store, n the
\* number of messages in the port.  A client that has a port has a source to be called
\* through, is registered and is not being restored.
Fit(s, c, d, n) ==
  /\ c.server = "live" => s \in d.open
  /\ d.notify[s] = "MachPort" => d.handle[s]
  /\ c.port =>
       /\ c.source /\ c.status # "NotRegistered" /\ c.pc = "idle" /\ c.server # "none"
       /\ (c.server = "live" /\ d.notify[s] = "MachPort") \/ c.lost \/ c.job = "restore"
       /\ d.pending[s] # {} =>
            s \in d.needs \/ n > 0 \/ c.signalled \/ c.job # "none" \/ c.lost

\* The inductive invariant.  A server that is dead has no sessions and nothing for them.
CInv ==
  /\ IInv
  /\ cl \in [Session -> Client] /\ up \in BOOLEAN /\ crashes \in 0 .. MaxCrashes
  /\ ~up => \A s \in Session : cl[s].server # "live" /\ db.pending[s] = {}
  /\ \A s \in Session : Fit(s, cl[s], db, kicks[s])

-----------------------------------------------------------------------------
(* Steps of one client *)

\* Nothing of the clients has changed in the store, but sessions may have been opened.
Joined(d, r) ==
  /\ d.open \subseteq r.open /\ r.pending = d.pending /\ r.needs = d.needs
  /\ r.notify = d.notify /\ r.handle = d.handle

\* A client that has been left alone still fits.
LEMMA OthersFit ==
  ASSUME NEW s \in Session, NEW c, NEW d, NEW r, NEW n, NEW X, s \notin X,
         Fit(s, c, d, n), Roused(d, X, r), s \in d.open => s \in r.open
  PROVE  Fit(s, c, r, n)
BY DEF Fit, Roused

\* Client s makes a step that leaves it as c.
LEMMA OneStep ==
  ASSUME CInv, NEW s \in Session, NEW c \in Client, Put(s, c),
         Sound(db'), AtRest(db'), phase' \in {"event", "push"},
         Roused(db, {s}, db'), db.open \subseteq db'.open,
         kicks' \in [Session -> 0 .. QLimit], \A x \in Session \ {s} : kicks'[x] = kicks[x],
         up \/ (UNCHANGED db /\ c.server # "live"), Fit(s, c, db', kicks'[s])
  PROVE  CInv'
<1>1. /\ cl \in [Session -> Client] /\ cl' = [cl EXCEPT ![s] = c] /\ up' = up /\ crashes' = crashes
      /\ up \in BOOLEAN /\ crashes \in 0 .. MaxCrashes
      /\ \A x \in Session : Fit(x, cl[x], db, kicks[x])
  BY DEF CInv, Put
<1>2. cl' \in [Session -> Client] /\ cl'[s] = c /\ \A x \in Session \ {s} : cl'[x] = cl[x]
  BY <1>1
<1>3. ASSUME NEW x \in Session PROVE Fit(x, cl'[x], db', kicks'[x])
  <2>1. CASE x = s
    BY <1>2, <2>1
  <2>2. CASE x # s
    BY <1>1, <1>2, <2>2, OthersFit
  <2> QED
    BY <2>1, <2>2
<1>4. ~up' => \A x \in Session : cl'[x].server # "live" /\ db'.pending[x] = {}
  BY <1>1, <1>2 DEF CInv
<1>5. IInv'
  BY DEF IInv
<1> QED
  BY <1>1, <1>2, <1>3, <1>4, <1>5 DEF CInv

\* The server is not asked.
LEMMA KeepStep ==
  ASSUME CInv, NEW s \in Session, NEW c \in Client, Keep, Put(s, c),
         c.server \in {cl[s].server, "none", "null"}, Fit(s, c, db, kicks[s])
  PROVE  CInv'
<1>1. /\ Sound(db) /\ AtRest(db) /\ phase \in {"event", "push"} /\ kicks \in [Session -> 0 .. QLimit]
      /\ up \in BOOLEAN /\ (~up => cl[s].server # "live")
  BY DEF CInv, IInv
<1>2. db' = db /\ kicks' = kicks /\ phase' = phase
  BY DEF Keep
<1>3. up \/ (UNCHANGED db /\ c.server # "live")
  BY <1>1, <1>2
<1>4. Roused(db, {s}, db')
  BY <1>2 DEF Roused
<1> QED
  BY <1>1, <1>2, <1>3, <1>4, OneStep

LEMMA MissStep ==
  ASSUME CInv, NEW s \in Session, NEW c \in Client, CheckRetryAndHandleError(s, c),
         Fit(s, [c EXCEPT !.server = "null"], db, kicks[s])
  PROVE  CInv'
<1> DEFINE b == [c EXCEPT !.server = "null"]
<1>1. b \in Client /\ b.server = "null" /\ Keep /\ Put(s, b)
  BY DEF Client, CheckRetryAndHandleError
<1> QED
  BY <1>1, KeepStep

LEMMA OpenSound ==
  ASSUME CInv, NEW s \in Session, NEW d, d = Open(s)
  PROVE  Sound(d) /\ AtRest(d) /\ s \in d.open /\ Joined(db, d)
<1> DEFINE O == db.open \cup {s}
<1>1. d = [db EXCEPT !.open = O] /\ Sound(db) /\ AtRest(db) /\ db \in Store /\ Vacant(db)
  BY DEF Open, Sound, CInv, IInv
<1>2. O \in SUBSET Session /\ db.open \subseteq O /\ s \in O
  BY <1>1 DEF Store
<1> HIDE DEF O
<1>3. d \in Store /\ SameStore(db, d) /\ Joined(db, d) /\ d.open = O
  BY <1>1, <1>2, ZenonT(60) DEF Store, SameStore, SameLists, SameIndex, SameKeys, Joined
<1>4. Vacant(d)
  BY <1>1, <1>2, <1>3 DEF Vacant, Joined, SameStore, SameLists
<1> QED
  BY <1>1, <1>2, <1>3, <1>4, AttendedSound

\* The session is open before its request is handled.
LEMMA ReachedSound ==
  ASSUME CInv, NEW s \in Session, Reaches(s), NEW d, d = Reached(s)
  PROVE  Sound(d) /\ AtRest(d) /\ s \in d.open /\ Joined(db, d) /\ up
<1>1. Sound(db) /\ AtRest(db) /\ Fit(s, cl[s], db, kicks[s]) /\ up \in BOOLEAN
  BY DEF CInv, IInv
<1>2. up
  BY <1>1 DEF CInv, Reaches
<1>3. CASE cl[s].server = "live"
  BY <1>1, <1>2, <1>3 DEF Reached, Joined, Fit
<1>4. CASE cl[s].server # "live"
  BY <1>2, <1>4, OpenSound DEF Reached
<1> QED
  BY <1>3, <1>4

\* The server is asked, which leaves the store r and the client c.
LEMMA AskStep ==
  ASSUME CInv, NEW s \in Session, NEW c \in Client, NEW r, Ask(s, r, c),
         Sound(r), AtRest(r), Roused(db, {s}, r), db.open \subseteq r.open,
         Fit(s, [c EXCEPT !.server = "live"], r, kicks[s])
  PROVE  CInv'
<1> DEFINE b == [c EXCEPT !.server = "live"]
<1>1. b \in Client /\ db' = r /\ phase' = "push" /\ kicks' = kicks /\ Put(s, b) /\ Reaches(s)
  BY DEF Client, Ask, Handle, Apply
<1>2. up
  BY <1>1, ReachedSound
<1>3. kicks \in [Session -> 0 .. QLimit]
  BY DEF CInv, IInv
<1> HIDE DEF b
<1> QED
  BY <1>1, <1>2, <1>3, OneStep DEF b

\* What the store after a request has of the sessions that did not make it.
LEMMA JoinedRoused ==
  ASSUME NEW d, NEW e, NEW r, NEW s, Joined(d, e), Roused(e, {s}, r)
  PROVE  Roused(d, {s}, r)
BY DEF Joined, Roused

\* The client b waits as the client c does.
Waits(c, b) ==
  /\ b.port = c.port /\ b.source = c.source /\ b.status = c.status /\ b.pc = c.pc
  /\ b.lost = c.lost /\ b.signalled = c.signalled /\ b.job = c.job

\* A client that reaches the server and waits as before fits.
LEMMA WaitsFit ==
  ASSUME CInv, NEW s \in Session, Reaches(s), NEW b, Waits(cl[s], b), b.server = "live",
         NEW d, s \in d.open, Joined(db, d)
  PROVE  Fit(s, b, d, kicks[s])
<1>1. Fit(s, cl[s], db, kicks[s])
  BY DEF CInv
<1> QED
  BY <1>1 DEF Fit, Waits, Joined, Reaches

\* One that has no port fits wherever it is.
LEMMA PortlessFit ==
  ASSUME CInv, NEW s \in Session, NEW b, ~b.port, NEW d,
         b.server = "live" => s \in d.open, d.notify[s] = "MachPort" => d.handle[s], NEW n
  PROVE  Fit(s, b, d, n)
BY DEF Fit

\* One that misses the server, which is dead and has nothing for it, fits as before.
LEMMA MissFit ==
  ASSUME CInv, NEW s \in Session, Misses(s), NEW b, Waits(cl[s], b), b.server = "null"
  PROVE  Fit(s, b, db, kicks[s])
<1>1. Fit(s, cl[s], db, kicks[s])
  BY DEF CInv
<1> QED
  BY <1>1 DEF Fit, Waits, Misses

LEMMA JoinedOne ==
  ASSUME NEW d, NEW s
  PROVE  Joined(db, d) => Roused(db, {s}, d) /\ db.open \subseteq d.open
BY DEF Joined, Roused

LEMMA CreateStep ==
  ASSUME CInv, NEW s \in Session, SCDynamicStoreCreate(s)
  PROVE  CInv'
<1> DEFINE c == [NoClient EXCEPT !.server = "live"]
<1>1. /\ db' = Open(s) /\ phase' = "push" /\ kicks' = kicks /\ Put(s, c) /\ up
  BY DEF SCDynamicStoreCreate, Handle, Apply
<1>2. c \in Client /\ c.port = FALSE /\ c.server = "live"
  BY DEF NoClient, Client, Kind
<1>3. Sound(db') /\ AtRest(db') /\ s \in db'.open /\ Joined(db, db')
  BY <1>1, OpenSound
<1>4. kicks \in [Session -> 0 .. QLimit] /\ Fit(s, cl[s], db, kicks[s])
  BY DEF CInv, IInv
<1> HIDE DEF c
<1>5. Fit(s, c, db', kicks'[s])
  BY <1>2, <1>3, <1>4 DEF Fit, Joined
<1> QED
  BY <1>1, <1>2, <1>3, <1>4, <1>5, JoinedOne, OneStep

LEMMA CopyStep ==
  ASSUME CInv, NEW s \in Session, SCDynamicStoreCopyValue(s)
  PROVE  CInv'
<1>1. cl[s] \in Client
  BY DEF CInv
<1>2. CASE Ask(s, Reached(s), cl[s])
  <2> DEFINE d == Reached(s)
             b == [cl[s] EXCEPT !.server = "live"]
  <2>1. Reaches(s)
    BY <1>2 DEF Ask
  <2>2. Sound(d) /\ AtRest(d) /\ s \in d.open /\ Joined(db, d)
    BY <2>1, ReachedSound
  <2>3. Waits(cl[s], b) /\ b.server = "live"
    BY <1>1 DEF Client, Waits
  <2> HIDE DEF d, b
  <2>4. Fit(s, b, d, kicks[s])
    BY <2>1, <2>2, <2>3, WaitsFit
  <2>5. Roused(db, {s}, d) /\ db.open \subseteq d.open
    BY <2>2, JoinedOne
  <2> QED
    BY <1>1, <1>2, <2>2, <2>4, <2>5, AskStep DEF b, d
<1>3. CASE CheckRetryAndHandleError(s, cl[s])
  <2> DEFINE b == [cl[s] EXCEPT !.server = "null"]
  <2>1. Waits(cl[s], b) /\ b.server = "null" /\ Misses(s)
    BY <1>1, <1>3 DEF Client, Waits, CheckRetryAndHandleError
  <2> HIDE DEF b
  <2>2. Fit(s, b, db, kicks[s])
    BY <2>1, MissFit
  <2> QED
    BY <1>1, <1>3, <2>2, MissStep DEF b
<1> QED
  BY <1>2, <1>3 DEF SCDynamicStoreCopyValue

\* The watch lists of a client are replaced and the client is left as c: by a call of
\* its own or by a restoration.
LEMMA KeysAsked ==
  ASSUME CInv, NEW s \in Session, NEW K \in SUBSET Key, NEW P \in SUBSET Pattern,
         NEW c \in Client, Ask(s, SetNotificationKeys(Reached(s), s, K, P), c),
         Waits(cl[s], c) \/ ~c.port
  PROVE  CInv'
<1> DEFINE d == Reached(s)
           r == SetNotificationKeys(d, s, K, P)
           b == [c EXCEPT !.server = "live"]
<1>1. Reaches(s)
  BY DEF Ask
<1>2. Sound(d) /\ AtRest(d) /\ s \in d.open /\ Joined(db, d)
  BY <1>1, ReachedSound
<1>3. b.server = "live" /\ (Waits(cl[s], b) \/ ~b.port)
  BY DEF Client, Waits
<1> HIDE DEF d, b
<1>4. Sound(r) /\ Rewatched(d, s, r)
  BY <1>2, ReplaceSound
<1>5. AtRest(r) /\ Joined(db, r) /\ s \in r.open
  BY <1>2, <1>4 DEF Rewatched, SameKeys, SameClients, AtRest, Joined
<1>6. Roused(db, {s}, r) /\ db.open \subseteq r.open
  BY <1>5, JoinedOne
<1>7. Fit(s, b, r, kicks[s])
  <2>1. CASE Waits(cl[s], b)
    BY <1>1, <1>3, <1>5, <2>1, WaitsFit
  <2>2. CASE ~b.port
    <3>1. r.notify[s] = "MachPort" => r.handle[s]
      BY <1>5 DEF CInv, Fit, Joined
    <3> QED
      BY <1>5, <2>2, <3>1, PortlessFit
  <2> QED
    BY <1>3, <2>1, <2>2
<1> HIDE DEF r
<1> QED
  BY <1>4, <1>5, <1>6, <1>7, AskStep DEF r, b, d

LEMMA KeysStep ==
  ASSUME CInv, NEW s \in Session, NEW K \in SUBSET Key, NEW P \in SUBSET Pattern,
         SCDynamicStoreSetNotificationKeys(s, K, P)
  PROVE  CInv'
<1>1. cl[s] \in Client
  BY DEF CInv
<1> DEFINE c == [cl[s] EXCEPT !.keys = K, !.patterns = P]
<1>2. c \in Client /\ Waits(cl[s], c)
  BY <1>1 DEF Client, Waits
<1> HIDE DEF c
<1>3. CASE Ask(s, SetNotificationKeys(Reached(s), s, K, P), c)
  BY <1>2, <1>3, KeysAsked
<1>4. CASE CheckRetryAndHandleError(s, cl[s])
  <2> DEFINE b == [cl[s] EXCEPT !.server = "null"]
  <2>1. Waits(cl[s], b) /\ b.server = "null" /\ Misses(s)
    BY <1>1, <1>4 DEF Client, Waits, CheckRetryAndHandleError
  <2> HIDE DEF b
  <2>2. Fit(s, b, db, kicks[s])
    BY <2>1, MissFit
  <2> QED
    BY <1>1, <1>4, <2>2, MissStep DEF b
<1>5. ASSUME NEW r \in Refused(Reached(s), s, K, P),
             Ask(s, SetNotificationKeys(Reached(s), s, r[1], r[2]), cl[s])
      PROVE  CInv'
  <2>1. Reached(s) \in Store
    BY <1>5, ReachedSound DEF Ask, Sound
  <2>2. Reached(s).keys[s] \in SUBSET Key /\ Reached(s).patterns[s] \in SUBSET Pattern
    BY <2>1 DEF Store
  <2>3. r[1] \in SUBSET Key /\ r[2] \in SUBSET Pattern
    BY <1>5, <2>2, RefusedLists
  <2>4. Waits(cl[s], cl[s])
    BY <1>1 DEF Client, Waits
  <2> QED
    BY <1>1, <1>5, <2>3, <2>4, KeysAsked
<1> QED
  BY <1>3, <1>4, <1>5 DEF SCDynamicStoreSetNotificationKeys, c

\* The registration of a client that had no port: c is the client that gets one.
LEMMA AcquireStep ==
  ASSUME CInv, NEW s \in Session, NEW c \in Client, NEW f \in Client, acquireNotifyPort(s, c, f),
         ~f.port, c.source, c.status # "NotRegistered", c.pc = "idle"
  PROVE  CInv'
<1> DEFINE d == Reached(s)
<1>1. Fit(s, cl[s], db, kicks[s])
  BY DEF CInv
<1>2. ASSUME Reaches(s)
      PROVE  Sound(d) /\ AtRest(d) /\ s \in d.open /\ Joined(db, d)
  BY <1>2, ReachedSound
<1> HIDE DEF d
<1>3. CASE Ask(s, NotifyVia(d, s, "MachPort"), [c EXCEPT !.port = TRUE])
  <2> DEFINE r == NotifyVia(d, s, "MachPort")
             p == [c EXCEPT !.port = TRUE]
             b == [p EXCEPT !.server = "live"]
  <2>1. Reaches(s)
    BY <1>3 DEF Ask
  <2>2. Sound(d) /\ AtRest(d) /\ s \in d.open /\ Joined(db, d) /\ d \in Store
    BY <1>2, <2>1 DEF Sound
  <2>3. Sound(r) /\ AtRest(r) /\ ViaResult(d, s, "MachPort", r)
    BY <2>2, ViaSound
  <2>4. /\ p \in Client /\ b.server = "live" /\ b.source /\ b.status # "NotRegistered"
        /\ b.pc = "idle"
    BY DEF Client
  <2> HIDE DEF r, p, b
  <2>5. r.open = d.open /\ r.pending = d.pending
    BY <2>3 DEF ViaResult
  <2>6. /\ r.notify[s] = "MachPort" /\ r.handle[s] /\ (r.pending[s] # {} => s \in r.needs)
        /\ \A x \in Session \ {s} : r.notify[x] = d.notify[x] /\ r.handle[x] = d.handle[x]
        /\ d.needs \subseteq r.needs
    BY <2>2, <2>3 DEF ViaResult, Store
  <2>7. Roused(db, {s}, r) /\ db.open \subseteq r.open
    BY <2>2, <2>5, <2>6 DEF Roused, Joined
  <2>8. Fit(s, b, r, kicks[s])
    BY <2>2, <2>4, <2>5, <2>6 DEF Fit
  <2> QED
    BY <1>3, <2>3, <2>4, <2>7, <2>8, AskStep DEF r, p, b
<1>4. CASE Ask(s, d, f)
  <2> DEFINE b == [f EXCEPT !.server = "live"]
  <2>1. Sound(d) /\ AtRest(d) /\ s \in d.open /\ Joined(db, d)
    BY <1>2, <1>4 DEF Ask
  <2>2. ~b.port
    BY DEF Client
  <2> HIDE DEF b
  <2>3. Fit(s, b, d, kicks[s])
    BY <1>1, <2>1, <2>2 DEF Fit, Joined
  <2> QED
    BY <1>4, <2>1, <2>3, JoinedOne, AskStep DEF b
<1>5. CASE CheckRetryAndHandleError(s, f)
  <2> DEFINE b == [f EXCEPT !.server = "null"]
  <2>1. ~b.port /\ b.server = "null"
    BY DEF Client
  <2> HIDE DEF b
  <2>2. Fit(s, b, db, kicks[s])
    BY <1>1, <2>1 DEF Fit
  <2> QED
    BY <1>5, <2>2, MissStep DEF b
<1> QED
  BY <1>3, <1>4, <1>5 DEF acquireNotifyPort, d

\* To be called back ends a restoration and leaves the port alone.
LEMMA DisconnectType ==
  ASSUME NEW c \in Client, NEW b, b = pushDisconnect(c)
  PROVE  /\ b \in Client /\ b.port = c.port /\ b.source = c.source /\ b.status = c.status
         /\ b.pc = "idle" /\ b.server = c.server
BY DEF pushDisconnect, Client, Kind

\* A client that registers has no port yet: it had no source, or is being restored.
LEMMA RegisterStep ==
  ASSUME CInv, NEW s \in Session, rlsSchedule(s) \/ SetDispatchQueue(s),
         (Idle(s) /\ ~cl[s].source) \/ cl[s].pc = "notifier"
  PROVE  CInv'
<1>1. cl[s] \in Client /\ Fit(s, cl[s], db, kicks[s])
  BY DEF CInv
<1>2. ~cl[s].port
  BY <1>1 DEF Fit, Idle
<1>3. ASSUME NEW c \in Client, NEW b, b = Registered(s, c), c.pc = cl[s].pc
      PROVE  /\ b \in Client /\ b.port = c.port /\ b.source = c.source /\ b.status = c.status
             /\ b.pc = "idle"
  <2>1. CASE cl[s].pc = "notifier"
    BY <1>3, <2>1, DisconnectType DEF Registered
  <2>2. CASE cl[s].pc # "notifier"
    BY <1>3, <2>2 DEF Registered, Idle
  <2> QED
    BY <2>1, <2>2
<1>4. CASE rlsSchedule(s)
  <2> DEFINE a == [cl[s] EXCEPT !.source = TRUE]
             e == [a EXCEPT !.status = "RunLoop"]
             c == Registered(s, e)
             f == Registered(s, a)
  <2>1. /\ a \in Client /\ ~a.port /\ a.pc = cl[s].pc
        /\ e \in Client /\ e.source /\ e.status = "RunLoop" /\ e.pc = cl[s].pc
    BY <1>1, <1>2 DEF Client, Kind
  <2>2. acquireNotifyPort(s, c, f)
    BY <1>4 DEF rlsSchedule
  <2> HIDE DEF a, e
  <2>3. c \in Client /\ c.source /\ c.status # "NotRegistered" /\ c.pc = "idle"
    BY <1>3, <2>1
  <2>4. f \in Client /\ ~f.port
    BY <1>3, <2>1
  <2> HIDE DEF c, f
  <2> QED
    BY <2>2, <2>3, <2>4, AcquireStep
<1>5. CASE SetDispatchQueue(s)
  <2> DEFINE e == [cl[s] EXCEPT !.status = "Dispatch", !.source = TRUE]
             c == Registered(s, e)
             f == Registered(s, cl[s])
  <2>1. e \in Client /\ e.source /\ e.status = "Dispatch" /\ e.pc = cl[s].pc
    BY <1>1 DEF Client, Kind
  <2>2. acquireNotifyPort(s, c, f)
    BY <1>5 DEF SetDispatchQueue
  <2> HIDE DEF e
  <2>3. c \in Client /\ c.source /\ c.status # "NotRegistered" /\ c.pc = "idle"
    BY <1>3, <2>1
  <2>4. f \in Client /\ ~f.port
    BY <1>1, <1>2, <1>3
  <2> HIDE DEF c, f
  <2> QED
    BY <2>2, <2>3, <2>4, AcquireStep
<1> QED
  BY <1>4, <1>5

-----------------------------------------------------------------------------
(* The end of notifications: the client has no port afterwards. *)

LEMMA CancelledType ==
  ASSUME NEW s \in Session, cl[s] \in Client, NEW reconnect \in BOOLEAN, NEW c \in Client,
         NEW b, b = Cancelled(s, reconnect, c)
  PROVE  b \in Client /\ b.port = c.port /\ b.server = c.server
BY ZenonT(60) DEF Cancelled, Client, Kind

\* The messages of the port are gone, the client is left as b without a port.
LEMMA GoneStep ==
  ASSUME CInv, NEW s \in Session, NEW b \in Client, Put(s, b), ~b.port,
         kicks' = [kicks EXCEPT ![s] = 0], phase' \in {"event", "push"},
         Sound(db'), AtRest(db'), Roused(db, {s}, db'), db.open \subseteq db'.open,
         db'.notify[s] = "MachPort" => db'.handle[s],
         b.server = "live" => s \in db'.open, up \/ (UNCHANGED db /\ b.server # "live")
  PROVE  CInv'
<1>1. kicks \in [Session -> 0 .. QLimit] /\ QLimit \in Nat
  BY StoreConstants DEF CInv, IInv
<1>2. kicks' \in [Session -> 0 .. QLimit] /\ \A x \in Session \ {s} : kicks'[x] = kicks[x]
  BY <1>1
<1>3. Fit(s, b, db', kicks'[s])
  BY DEF Fit
<1> QED
  BY <1>2, <1>3, OneStep

LEMMA RlsCancelStep ==
  ASSUME CInv, NEW s \in Session, NEW reconnect \in BOOLEAN, rlsCancel(s, reconnect)
  PROVE  CInv'
<1> DEFINE c == Cancelled(s, reconnect, Closed(cl[s]))
           off == [c EXCEPT !.status = "NotRegistered"]
<1>1. /\ cl[s] \in Client /\ Fit(s, cl[s], db, kicks[s]) /\ Sound(db) /\ AtRest(db) /\ db \in Store
      /\ phase \in {"event", "push"} /\ up \in BOOLEAN /\ (~up => cl[s].server # "live")
  BY DEF CInv, IInv, Sound
<1>2. Closed(cl[s]) \in Client /\ ~Closed(cl[s]).port /\ Closed(cl[s]).server = cl[s].server
  BY <1>1 DEF Closed, Client
<1>3. c \in Client /\ ~c.port /\ c.server = cl[s].server
  BY <1>1, <1>2, CancelledType
<1>4. CASE cl[s].server = "live" /\ HandleNewPort(s, NotifyCancel(db, s)) /\ Put(s, off)
  <2>1. off \in Client /\ ~off.port /\ off.server = "live"
    BY <1>3, <1>4 DEF Client, Kind
  <2> HIDE DEF off, c
  <2>2. /\ db' = NotifyCancel(db, s) /\ kicks' = [kicks EXCEPT ![s] = 0] /\ phase' = "push"
        /\ Put(s, off) /\ s \in db.open /\ up
    BY <1>1, <1>4 DEF HandleNewPort, Apply, Fit
  <2>3. Sound(db') /\ AtRest(db') /\ CancelResult(db, s, db')
    BY <1>1, <2>2, CancelSound
  <2>4. /\ db'.notify[s] = "NotRegistered" /\ db'.open = db.open
        /\ \A x \in Session \ {s} : db'.notify[x] = db.notify[x] /\ db'.handle[x] = db.handle[x]
    BY <1>1, <2>3 DEF CancelResult, Store
  <2>5. Roused(db, {s}, db')
    BY <2>3, <2>4 DEF CancelResult, Roused
  <2> QED
    BY <2>1, <2>2, <2>3, <2>4, <2>5, GoneStep
<1>5. CASE up /\ HandleNewPort(s, Open(s)) /\ Put(s, [c EXCEPT !.server = "live"])
  <2> DEFINE b == [c EXCEPT !.server = "live"]
  <2>1. b \in Client /\ ~b.port
    BY <1>3 DEF Client
  <2> HIDE DEF c, b
  <2>2. db' = Open(s) /\ kicks' = [kicks EXCEPT ![s] = 0] /\ phase' = "push" /\ Put(s, b) /\ up
    BY <1>5 DEF HandleNewPort, Apply, b
  <2>3. Sound(db') /\ AtRest(db') /\ s \in db'.open /\ Joined(db, db')
    BY <2>2, OpenSound
  <2>4. db'.notify[s] = "MachPort" => db'.handle[s]
    BY <1>1, <2>3 DEF Fit, Joined
  <2> QED
    BY <2>1, <2>2, <2>3, <2>4, JoinedOne, GoneStep
<1>6. CASE /\ ~Reaches(s) /\ NoMessages(s) /\ UNCHANGED <<db, phase>>
           /\ Put(s, IF Misses(s) THEN [c EXCEPT !.server = "null"] ELSE off)
  <2> DEFINE b == IF Misses(s) THEN [c EXCEPT !.server = "null"] ELSE off
  <2>1. b \in Client /\ ~b.port /\ b.server # "live"
    BY <1>3, <1>6 DEF Client, Kind, Reaches
  <2> HIDE DEF c, off, b
  <2>2. db' = db /\ phase' = phase /\ kicks' = [kicks EXCEPT ![s] = 0] /\ Put(s, b)
    BY <1>6 DEF NoMessages, b
  <2>3. Roused(db, {s}, db')
    BY <2>2 DEF Roused
  <2>4. db'.notify[s] = "MachPort" => db'.handle[s]
    BY <1>1, <2>2 DEF Fit
  <2> QED
    BY <1>1, <2>1, <2>2, <2>3, <2>4, GoneStep
<1> QED
  BY <1>4, <1>5, <1>6 DEF rlsCancel

LEMMA NotifyCancelStep ==
  ASSUME CInv, NEW s \in Session, NEW reconnect \in BOOLEAN, NotifyCancelThen(s, reconnect)
  PROVE  CInv'
<1>1. /\ cl[s] \in Client /\ Fit(s, cl[s], db, kicks[s]) /\ Sound(db) /\ AtRest(db)
      /\ phase \in {"event", "push"} /\ up \in BOOLEAN /\ (~up => cl[s].server # "live")
  BY DEF CInv, IInv
<1>2. CASE /\ cl[s].status = "NotRegistered" \/ (cl[s].status = "RunLoop" /\ ~cl[s].source)
           /\ Keep /\ Put(s, Cancelled(s, reconnect, cl[s]))
  <2> DEFINE b == Cancelled(s, reconnect, cl[s])
  <2>1. b \in Client /\ ~b.port /\ b.server = cl[s].server
    BY <1>1, <1>2, CancelledType DEF Fit
  <2> HIDE DEF b
  <2>2. Fit(s, b, db, kicks[s])
    BY <1>1, <2>1 DEF Fit
  <2> QED
    BY <1>2, <2>1, <2>2, KeepStep DEF b
<1>3. CASE rlsCancel(s, reconnect)
  BY <1>3, RlsCancelStep
<1>4. CASE SetDispatchQueueNULL(s, reconnect)
  <2> DEFINE e == [Closed(cl[s]) EXCEPT !.status = "NotRegistered"]
             b == Cancelled(s, reconnect, e)
  <2>1. e \in Client /\ ~e.port /\ e.server = cl[s].server
    BY <1>1 DEF Closed, Client, Kind
  <2> HIDE DEF e
  <2>2. b \in Client /\ ~b.port /\ b.server = cl[s].server
    BY <1>1, <2>1, CancelledType
  <2> HIDE DEF b
  <2>3. db' = db /\ phase' = phase /\ kicks' = [kicks EXCEPT ![s] = 0] /\ Put(s, b)
    BY <1>4 DEF SetDispatchQueueNULL, NoMessages, b, e
  <2>4. Roused(db, {s}, db')
    BY <2>3 DEF Roused
  <2>5. /\ db'.notify[s] = "MachPort" => db'.handle[s]
        /\ b.server = "live" => s \in db'.open
    BY <1>1, <2>2, <2>3 DEF Fit
  <2> QED
    BY <1>1, <2>2, <2>3, <2>4, <2>5, GoneStep
<1> QED
  BY <1>2, <1>3, <1>4 DEF NotifyCancelThen

LEMMA DeallocateStep ==
  ASSUME CInv, NEW s \in Session, SCDynamicStoreDeallocate(s)
  PROVE  CInv'
<1>1. NoClient \in Client /\ ~NoClient.port /\ NoClient.server = "none"
  BY DEF NoClient, Client, Kind
<1>2. Fit(s, cl[s], db, kicks[s]) /\ Keep /\ Put(s, NoClient)
  BY DEF CInv, SCDynamicStoreDeallocate
<1>3. Fit(s, NoClient, db, kicks[s])
  BY <1>1, <1>2 DEF Fit
<1> QED
  BY <1>1, <1>2, <1>3, KeepStep

\* A client that is being restored has no port: giving up leaves it so.
LEMMA GiveUpStep ==
  ASSUME CInv, NEW s \in Session, ~Idle(s), Put(s, pushDisconnect(cl[s])), Keep
  PROVE  CInv'
<1> DEFINE b == pushDisconnect(cl[s])
<1>1. cl[s] \in Client /\ Fit(s, cl[s], db, kicks[s])
  BY DEF CInv
<1>2. b \in Client /\ ~b.port /\ b.server = cl[s].server
  BY <1>1, DisconnectType DEF Fit, Idle
<1> HIDE DEF b
<1>3. Fit(s, b, db, kicks[s])
  BY <1>1, <1>2 DEF Fit
<1> QED
  BY <1>2, <1>3, KeepStep DEF b

LEMMA ReconnectKeysStep ==
  ASSUME CInv, NEW s \in Session, ReconnectKeys(s)
  PROVE  CInv'
<1>1. cl[s] \in Client /\ Fit(s, cl[s], db, kicks[s]) /\ cl[s].pc = "keys"
  BY DEF CInv, ReconnectKeys
<1>2. ~cl[s].port /\ ~Idle(s)
  BY <1>1 DEF Fit, Idle
<1>3. CASE Ask(s, SetNotificationKeys(Reached(s), s, cl[s].keys, cl[s].patterns),
               [cl[s] EXCEPT !.pc = "notifier"])
  <2> DEFINE c == [cl[s] EXCEPT !.pc = "notifier"]
  <2>1. c \in Client /\ ~c.port
    BY <1>1, <1>2 DEF Client
  <2>2. cl[s].keys \in SUBSET Key /\ cl[s].patterns \in SUBSET Pattern
    BY <1>1 DEF Client
  <2> HIDE DEF c
  <2> QED
    BY <1>3, <2>1, <2>2, KeysAsked DEF c
<1>4. CASE CheckRetryAndHandleError(s, pushDisconnect(cl[s]))
  <2> DEFINE c == pushDisconnect(cl[s])
             b == [c EXCEPT !.server = "null"]
  <2>1. c \in Client /\ ~c.port
    BY <1>1, <1>2, DisconnectType
  <2> HIDE DEF c
  <2>2. ~b.port /\ b.server = "null"
    BY <2>1 DEF Client
  <2> HIDE DEF b
  <2>3. Fit(s, b, db, kicks[s])
    BY <1>1, <2>2 DEF Fit
  <2> QED
    BY <1>4, <2>1, <2>3, MissStep DEF b, c
<1>5. CASE Keep /\ Put(s, pushDisconnect(cl[s]))
  BY <1>2, <1>5, GiveUpStep
<1> QED
  BY <1>3, <1>4, <1>5 DEF ReconnectKeys

LEMMA ReconnectNotifierStep ==
  ASSUME CInv, NEW s \in Session, ReconnectNotifier(s)
  PROVE  CInv'
<1>1. cl[s].pc = "notifier" /\ ~Idle(s)
  BY DEF ReconnectNotifier, Idle
<1>2. CASE rlsSchedule(s) \/ SetDispatchQueue(s)
  BY <1>1, <1>2, RegisterStep
<1>3. CASE Keep /\ Put(s, pushDisconnect(cl[s]))
  BY <1>1, <1>3, GiveUpStep
<1> QED
  BY <1>2, <1>3 DEF ReconnectNotifier

-----------------------------------------------------------------------------
(* Messages and callbacks *)

\* A message is taken from the port, and the client is to be called.
LEMMA TakeStep ==
  ASSUME CInv, NEW s \in Session, NEW c \in Client, kicks[s] > 0, Take(s), Put(s, c),
         cl[s].port, c.server = cl[s].server, c.port, c.source, c.status = cl[s].status,
         c.pc = cl[s].pc, c.lost = cl[s].lost, c.job = cl[s].job \/ cl[s].job = "none",
         c.signalled \/ c.job # "none"
  PROVE  CInv'
<1>1. /\ Fit(s, cl[s], db, kicks[s]) /\ Sound(db) /\ AtRest(db) /\ phase \in {"event", "push"}
      /\ kicks \in [Session -> 0 .. QLimit] /\ QLimit \in Nat
      /\ up \in BOOLEAN /\ (~up => cl[s].server # "live")
  BY StoreConstants DEF CInv, IInv
<1>2. db' = db /\ phase' = phase /\ kicks' = [kicks EXCEPT ![s] = @ - 1]
  BY DEF Take
<1>3. kicks' \in [Session -> 0 .. QLimit] /\ \A x \in Session \ {s} : kicks'[x] = kicks[x]
  BY <1>1, <1>2
<1>4. Roused(db, {s}, db')
  BY <1>2 DEF Roused
<1>5. Fit(s, c, db', kicks'[s])
  BY <1>1, <1>2 DEF Fit
<1> QED
  BY <1>1, <1>2, <1>3, <1>4, <1>5, OneStep

LEMMA CallbackStep ==
  ASSUME CInv, NEW s \in Session, rlsCallback(s)
  PROVE  CInv'
<1>1. cl[s] \in Client /\ cl[s].port /\ Fit(s, cl[s], db, kicks[s])
  BY DEF CInv, rlsCallback
<1>2. CASE kicks[s] > 0 /\ Take(s) /\ Put(s, [cl[s] EXCEPT !.signalled = cl[s].source])
  <2> DEFINE c == [cl[s] EXCEPT !.signalled = cl[s].source]
  <2>1. cl[s].source
    BY <1>1 DEF Fit
  <2>2. c \in Client /\ c.server = cl[s].server /\ c.port = cl[s].port /\ c.source = cl[s].source
    BY <1>1 DEF Client
  <2>3. /\ c.status = cl[s].status /\ c.pc = cl[s].pc /\ c.lost = cl[s].lost
        /\ c.job = cl[s].job /\ c.signalled = cl[s].source
    BY <1>1 DEF Client
  <2> HIDE DEF c
  <2> QED
    BY <1>1, <1>2, <2>1, <2>2, <2>3, TakeStep DEF c
<1>3. CASE ReconnectNotifications(s)
  BY <1>3, NotifyCancelStep DEF ReconnectNotifications
<1> QED
  BY <1>2, <1>3 DEF rlsCallback

LEMMA EventStep ==
  ASSUME CInv, NEW s \in Session, EventHandler(s)
  PROVE  CInv'
<1>1. cl[s] \in Client /\ cl[s].port /\ cl[s].job = "none" /\ Fit(s, cl[s], db, kicks[s])
  BY DEF CInv, EventHandler
<1>2. CASE kicks[s] > 0 /\ Take(s) /\ Put(s, [cl[s] EXCEPT !.job = "perform"])
  <2> DEFINE c == [cl[s] EXCEPT !.job = "perform"]
  <2>1. cl[s].source
    BY <1>1 DEF Fit
  <2>2. c \in Client /\ c.server = cl[s].server /\ c.port = cl[s].port /\ c.source = cl[s].source
    BY <1>1 DEF Client
  <2>3. c.status = cl[s].status /\ c.pc = cl[s].pc /\ c.lost = cl[s].lost /\ c.job = "perform"
    BY <1>1 DEF Client
  <2> HIDE DEF c
  <2> QED
    BY <1>1, <1>2, <2>1, <2>2, <2>3, TakeStep DEF c
<1>3. CASE Keep /\ Put(s, [cl[s] EXCEPT !.job = "restore", !.lost = FALSE])
  <2> DEFINE c == [cl[s] EXCEPT !.job = "restore", !.lost = FALSE]
  <2>1. /\ c \in Client /\ c.server = cl[s].server /\ c.port = cl[s].port
        /\ c.source = cl[s].source /\ c.status = cl[s].status /\ c.pc = cl[s].pc
        /\ c.job = "restore"
    BY <1>1 DEF Client
  <2> HIDE DEF c
  <2>2. Fit(s, c, db, kicks[s])
    BY <1>1, <2>1 DEF Fit
  <2> QED
    BY <1>3, <2>1, <2>2, KeepStep DEF c
<1> QED
  BY <1>2, <1>3 DEF EventHandler

\* The changes are fetched by a client that has taken note of the callback: nothing but
\* the job or the signal that led to it is gone.
LEMMA FetchStep ==
  ASSUME CInv, NEW s \in Session, NEW c \in Client, rlsPerform(s, c),
         c.server = cl[s].server, c.port = cl[s].port, c.source = cl[s].source,
         c.status = cl[s].status, c.pc = cl[s].pc, c.lost = cl[s].lost,
         cl[s].job = "restore" => c.job = "restore"
  PROVE  CInv'
<1>1. /\ cl[s] \in Client /\ Fit(s, cl[s], db, kicks[s]) /\ db \in Store
      /\ ~up => db.pending[s] = {}
  BY DEF CInv, IInv, Sound
<1>2. ASSUME NEW X, NEW b, b = Performed(c, X)
      PROVE  /\ b \in Client /\ b.server = c.server /\ b.port = c.port /\ b.source = c.source
             /\ b.status = c.status /\ b.pc = c.pc /\ b.lost = c.lost /\ b.job = c.job
  BY <1>2 DEF Performed, Client, Kind
<1>3. CASE Ask(s, [Reached(s) EXCEPT !.pending[s] = {}], Performed(c, Reached(s).pending[s]))
  <2> DEFINE d == Reached(s)
             e == Performed(c, d.pending[s])
             r == [d EXCEPT !.pending[s] = {}]
             b == [e EXCEPT !.server = "live"]
  <2>1. Reaches(s)
    BY <1>3 DEF Ask
  <2>2. Sound(d) /\ AtRest(d) /\ s \in d.open /\ Joined(db, d) /\ d \in Store
    BY <2>1, ReachedSound DEF Sound
  <2>3. /\ e \in Client /\ e.port = cl[s].port /\ e.source = cl[s].source /\ e.job = c.job
        /\ e.status = cl[s].status /\ e.pc = cl[s].pc /\ e.lost = cl[s].lost
    BY <1>2
  <2> HIDE DEF d, e
  <2>4. /\ b.port = cl[s].port /\ b.source = cl[s].source /\ b.status = cl[s].status
        /\ b.pc = cl[s].pc /\ b.lost = cl[s].lost /\ b.job = c.job /\ b.server = "live"
    BY <2>3 DEF Client
  <2> HIDE DEF b
  <2>5. Sound(r) /\ AtRest(r) /\ FetchResult(d, s, r)
    BY <2>2, FetchSound
  <2> HIDE DEF r
  <2>6. r.pending[s] = {} /\ \A x \in Session \ {s} : r.pending[x] = d.pending[x]
    BY <2>2, <2>5 DEF FetchResult, Store
  <2>7. Roused(db, {s}, r) /\ db.open \subseteq r.open /\ s \in r.open
    BY <2>2, <2>5, <2>6 DEF FetchResult, Joined, Roused
  <2>8. r.notify = db.notify /\ r.handle = db.handle
    BY <2>2, <2>5 DEF FetchResult, Joined
  <2>9. Fit(s, b, r, kicks[s])
    BY <1>1, <2>1, <2>4, <2>6, <2>7, <2>8 DEF Fit, Reaches
  <2> QED
    BY <1>3, <2>3, <2>5, <2>7, <2>9, AskStep DEF b, r, e, d
<1>4. CASE CheckRetryAndHandleError(s, Performed(c, {}))
  <2> DEFINE e == Performed(c, {})
             b == [e EXCEPT !.server = "null"]
  <2>1. /\ e \in Client /\ e.port = cl[s].port /\ e.source = cl[s].source /\ e.job = c.job
        /\ e.status = cl[s].status /\ e.pc = cl[s].pc /\ e.lost = cl[s].lost
    BY <1>2
  <2> HIDE DEF e
  <2>2. /\ b.port = cl[s].port /\ b.source = cl[s].source /\ b.status = cl[s].status
        /\ b.pc = cl[s].pc /\ b.lost = cl[s].lost /\ b.job = c.job /\ b.server = "null"
    BY <2>1 DEF Client
  <2> HIDE DEF b
  <2>3. Misses(s)
    BY <1>4 DEF CheckRetryAndHandleError
  <2>4. Fit(s, b, db, kicks[s])
    BY <1>1, <2>2, <2>3 DEF Fit, Misses
  <2> QED
    BY <1>4, <2>1, <2>4, MissStep DEF b, e
<1>5. CASE ~HasServer(s) /\ Keep /\ Put(s, Performed(c, {}))
  <2> DEFINE e == Performed(c, {})
  <2>1. /\ e \in Client /\ e.port = cl[s].port /\ e.source = cl[s].source /\ e.job = c.job
        /\ e.status = cl[s].status /\ e.pc = cl[s].pc /\ e.lost = cl[s].lost
        /\ e.server = cl[s].server
    BY <1>2
  <2> HIDE DEF e
  <2>2. Fit(s, e, db, kicks[s])
    BY <1>1, <1>5, <2>1 DEF Fit, HasServer
  <2> QED
    BY <1>5, <2>1, <2>2, KeepStep DEF e
<1> QED
  BY <1>3, <1>4, <1>5 DEF rlsPerform

LEMMA PerformStep ==
  ASSUME CInv, NEW s \in Session, Perform(s)
  PROVE  CInv'
<1>1. cl[s] \in Client
  BY DEF CInv
<1>2. CASE rlsPerform(s, [cl[s] EXCEPT !.signalled = FALSE])
  <2> DEFINE c == [cl[s] EXCEPT !.signalled = FALSE]
  <2>1. /\ c \in Client /\ c.server = cl[s].server /\ c.port = cl[s].port
        /\ c.source = cl[s].source /\ c.status = cl[s].status /\ c.pc = cl[s].pc
        /\ c.lost = cl[s].lost /\ c.job = cl[s].job
    BY <1>1 DEF Client
  <2> HIDE DEF c
  <2> QED
    BY <1>2, <2>1, FetchStep DEF c
<1>3. CASE cl[s].job = "perform" /\ rlsPerform(s, [cl[s] EXCEPT !.job = "none"])
  <2> DEFINE c == [cl[s] EXCEPT !.job = "none"]
  <2>1. /\ c \in Client /\ c.server = cl[s].server /\ c.port = cl[s].port
        /\ c.source = cl[s].source /\ c.status = cl[s].status /\ c.pc = cl[s].pc
        /\ c.lost = cl[s].lost
    BY <1>1 DEF Client
  <2> HIDE DEF c
  <2> QED
    BY <1>3, <2>1, FetchStep DEF c
<1> QED
  BY <1>2, <1>3 DEF Perform

-----------------------------------------------------------------------------
(* The server: its death, its restart and what it does for others *)

LEMMA CrashStep ==
  ASSUME CInv, Crash
  PROVE  CInv'
<1>1. /\ cl \in [Session -> Client] /\ kicks \in [Session -> 0 .. QLimit]
      /\ crashes \in 0 .. MaxCrashes /\ MaxCrashes \in Nat
  BY ClientConstants DEF CInv, IInv
<1>2. /\ db' = EmptyStore /\ phase' = "event" /\ kicks' = kicks /\ up' = FALSE
      /\ cl' = [s \in Session |-> Died(s)] /\ crashes' = crashes + 1 /\ crashes < MaxCrashes
  BY DEF Crash
<1>3. crashes' \in 0 .. MaxCrashes
  BY <1>1, <1>2
<1>4. Sound(db') /\ AtRest(db')
  BY <1>2, EmptySound
<1>5. ASSUME NEW s \in Session
      PROVE  db'.pending[s] = {} /\ db'.notify[s] = "NotRegistered"
  BY <1>2, <1>5 DEF EmptyStore
<1>6. ASSUME NEW s \in Session
      PROVE  cl'[s] \in Client /\ cl'[s].server # "live" /\ Fit(s, cl'[s], db', kicks'[s])
  <2> DEFINE c == Died(s)
  <2>1. cl[s] \in Client /\ Fit(s, cl[s], db, kicks[s])
    BY <1>1 DEF CInv
  <2>2. c \in Client
    BY <2>1, ZenonT(60) DEF Died, Client, Kind
  <2>3. /\ c.server # "live" /\ (c.server = "none" => cl[s].server = "none")
        /\ c.port = cl[s].port /\ c.source = cl[s].source /\ c.status = cl[s].status
        /\ c.pc = cl[s].pc /\ c.job = cl[s].job
    BY <2>1 DEF Died, Client
  <2>4. c.lost = (cl[s].lost \/ (cl[s].port /\ db.notify[s] = "MachPort"))
    BY <2>1 DEF Died, Client
  <2> HIDE DEF c
  <2>5. Fit(s, c, db', kicks'[s])
    BY <1>5, <2>1, <2>3, <2>4 DEF Fit
  <2>6. cl'[s] = c
    BY <1>2 DEF c
  <2> QED
    BY <2>2, <2>3, <2>5, <2>6
<1>7. cl' \in [Session -> Client]
  BY <1>2, <1>6
<1>8. IInv'
  BY <1>1, <1>2, <1>4 DEF IInv
<1> QED
  BY <1>2, <1>3, <1>5, <1>6, <1>7, <1>8 DEF CInv

LEMMA RestartStep ==
  ASSUME CInv, Restart
  PROVE  CInv'
<1>1. UNCHANGED <<db, kicks, phase, cl, crashes>> /\ up' = TRUE
  BY DEF Restart
<1>2. IInv'
  BY <1>1 DEF CInv, IInv
<1> QED
  BY <1>1, <1>2 DEF CInv

\* The server has served somebody else: the clients stay as they are.
LEMMA ServedStep ==
  ASSUME CInv, IInv', up, UNCHANGED <<cl, up, crashes>>,
         \A s \in Session : Fit(s, cl[s], db', kicks'[s])
  PROVE  CInv'
BY DEF CInv

LEMMA ServeStep ==
  ASSUME CInv, Serve
  PROVE  CInv'
<1>1. IInv /\ up /\ UNCHANGED <<cl, up, crashes>> /\ \A s \in Session : Fit(s, cl[s], db, kicks[s])
  BY DEF CInv, Serve
<1>2. kicks \in [Session -> 0 .. QLimit] /\ QLimit \in Nat \ {0} /\ db \in Store
  BY <1>1, StoreConstants DEF IInv, Sound
<1>3. ASSUME NEW k \in Key, configset(NullSession, k) \/ configremove(NullSession, k)
      PROVE  CInv'
  <2>1. NullSession \in Writer /\ Write(NullSession)
    BY <1>3 DEF Writer, Write
  <2>2. Written(db, db') /\ phase' = "push" /\ kicks' = kicks
    BY <1>1, <2>1, WriteStep
  <2>3. Sound(db') /\ AtRest(db') /\ db'.open = db.open /\ Roused(db, {}, db')
    BY <2>2 DEF Written
  <2>4. ASSUME NEW s \in Session PROVE Fit(s, cl[s], db', kicks'[s])
    BY <1>1, <2>2, <2>3, OthersFit
  <2>5. IInv'
    BY <1>2, <2>2, <2>3 DEF IInv
  <2> QED
    BY <1>1, <2>4, <2>5, ServedStep
<1>4. ASSUME NEW t \in Session, cl[t].server = "none", noSenders(t)
      PROVE  CInv'
  <2>1. Sound(db') /\ AtRest(db') /\ Ended(db, t, db') /\ phase' = "push"
        /\ kicks' = [kicks EXCEPT ![t] = 0]
    BY <1>1, <1>4, EndStep
  <2>2. Roused(db, {t}, db') /\ db'.open = db.open \ {t}
    BY <2>1 DEF Ended
  <2>3. kicks' \in [Session -> 0 .. QLimit] /\ \A x \in Session \ {t} : kicks'[x] = kicks[x]
    BY <1>2, <2>1
  <2>4. db'.notify[t] = "NotRegistered"
    BY <2>1, <2>2 DEF Sound, Vacant
  <2>5. ASSUME NEW s \in Session PROVE Fit(s, cl[s], db', kicks'[s])
    <3>1. CASE s = t
      BY <1>1, <1>4, <2>4, <3>1 DEF Fit
    <3>2. CASE s # t
      BY <1>1, <2>2, <2>3, <3>2, OthersFit
    <3> QED
      BY <3>1, <3>2
  <2>6. IInv'
    BY <2>1, <2>3 DEF IInv
  <2> QED
    BY <1>1, <2>5, <2>6, ServedStep
<1>5. CASE pushNotifications
  <2>1. IInv'
    BY <1>1, <1>5, PushStep, SMTT(30) DEF IInv
  <2>2. PICK broken \in SUBSET {s \in db.needs : db.notify[s] # "MachPort"} :
          LET sent == {s \in db.needs \ broken : db.handle[s]}
              room(s) == IF db.notify[s] = "Signal" THEN 1 ELSE QLimit
          IN /\ kicks' = [s \in Session |-> IF s \in sent /\ kicks[s] < room(s)
                                            THEN kicks[s] + 1 ELSE kicks[s]]
             /\ db' = [db EXCEPT !.needs = {},
                                 !.handle = [s \in Session |-> @[s] /\ s \notin broken]]
    BY <1>5, ZenonT(60) DEF pushNotifications
  <2>3. /\ db'.open = db.open /\ db'.notify = db.notify /\ db'.pending = db.pending
        /\ db'.handle = [s \in Session |-> db.handle[s] /\ s \notin broken]
    BY <1>2, <2>2 DEF Store
  <2>4. ASSUME NEW s \in Session PROVE Fit(s, cl[s], db', kicks'[s])
    <3>1. db'.notify[s] = "MachPort" => db'.handle[s]
      BY <1>1, <2>2, <2>3, ZenonT(60) DEF Fit
    <3>2. kicks[s] > 0 => kicks'[s] > 0
      BY <1>2, <2>2
    <3>3. db.notify[s] = "MachPort" /\ s \in db.needs => kicks'[s] > 0
      BY <1>1, <1>2, <2>2 DEF Fit
    <3>4. ASSUME cl[s].port
          PROVE  cl[s].lost \/ cl[s].job # "none" \/ db.notify[s] = "MachPort"
      BY <1>1, <3>4 DEF Fit
    <3> QED
      BY <1>1, <2>3, <3>1, <3>2, <3>3, <3>4 DEF Fit
  <2> QED
    BY <1>1, <2>1, <2>4, ServedStep
<1> QED
  BY <1>3, <1>4, <1>5 DEF Serve

-----------------------------------------------------------------------------

LEMMA ClientNextInv == CInv /\ [CNext]_cvars => CInv'
<1> SUFFICES ASSUME CInv, [CNext]_cvars PROVE CInv'
  OBVIOUS
<1>1. ASSUME NEW s \in Session, Use(s) PROVE CInv'
  <2>1. ASSUME NEW K \in SUBSET Key, NEW P \in SUBSET Pattern,
               SCDynamicStoreSetNotificationKeys(s, K, P)
        PROVE  CInv'
    BY <2>1, KeysStep
  <2>2. CASE SCDynamicStoreCreate(s) \/ SCDynamicStoreCopyValue(s)
    BY <2>2, CreateStep, CopyStep
  <2>3. CASE SCDynamicStoreCreateRunLoopSource(s) \/ SCDynamicStoreSetDispatchQueue(s)
    BY <2>3, RegisterStep DEF SCDynamicStoreCreateRunLoopSource, SCDynamicStoreSetDispatchQueue
  <2>4. CASE SCDynamicStoreNotifyCancel(s)
    BY <2>4, NotifyCancelStep DEF SCDynamicStoreNotifyCancel
  <2>5. CASE SCDynamicStoreDeallocate(s)
    BY <2>5, DeallocateStep
  <2> QED
    BY <1>1, <2>1, <2>2, <2>3, <2>4, <2>5 DEF Use
<1>2. ASSUME NEW s \in Session, Run(s) PROVE CInv'
  <2>1. CASE Block(s)
    BY <2>1, NotifyCancelStep DEF Block, ReconnectNotifications
  <2> QED
    BY <1>2, <2>1, CallbackStep, EventStep, PerformStep, ReconnectKeysStep, ReconnectNotifierStep
       DEF Run
<1>3. CASE Serve \/ Crash \/ Restart
  BY <1>3, ServeStep, CrashStep, RestartStep
<1>4. CASE UNCHANGED cvars
  BY <1>4 DEF cvars, CInv, IInv
<1> QED
  BY <1>1, <1>2, <1>3, <1>4 DEF CNext

LEMMA ClientInitInv == CInit => CInv
<1> SUFFICES ASSUME CInit PROVE CInv
  OBVIOUS
<1>1. /\ IInv /\ cl = [s \in Session |-> NoClient] /\ up = TRUE /\ crashes = 0 /\ db = EmptyStore
      /\ crashes \in 0 .. MaxCrashes
  BY InitInv, ClientConstants DEF CInit, Init
<1>2. NoClient \in Client /\ ~NoClient.port /\ NoClient.server = "none"
  BY DEF NoClient, Client, Kind
<1>3. \A s \in Session : db.notify[s] = "NotRegistered"
  BY <1>1 DEF EmptyStore
<1>4. \A s \in Session : cl[s] = NoClient
  BY <1>1
<1>5. ASSUME NEW s \in Session PROVE Fit(s, cl[s], db, kicks[s])
  BY <1>2, <1>3, <1>4 DEF Fit
<1>6. cl \in [Session -> Client]
  BY <1>1, <1>2
<1> QED
  BY <1>1, <1>5, <1>6 DEF CInv

-----------------------------------------------------------------------------
(* Theorems *)

\* Clients and server agree on who is registered, whatever dies and reconnects.
THEOREM ClientInvariance == CSpec => []CInv
BY ClientInitInv, ClientNextInv, PTL DEF CSpec

\* The clients, the store and the ports keep their types.
THEOREM ClientTypes == CSpec => []CTypeOK
<1>1. CInv => CTypeOK
  BY DEF CInv, CTypeOK, IInv, TypeOK, Sound, AtRest
<1> QED
  BY <1>1, ClientInvariance, PTL

\* A client never waits on a port to which nobody will send.
THEOREM PortSafety == CSpec => []PortHeld
<1>1. CInv => PortHeld
  BY DEF CInv, PortHeld, Fit
<1> QED
  BY <1>1, ClientInvariance, PTL

\* A registered client for which the server has changes is being woken.
THEOREM WakeupSafety == CSpec => []NoLostWakeup
<1>1. CInv => NoLostWakeup
  BY DEF CInv, NoLostWakeup, Awake, Fit
<1> QED
  BY <1>1, ClientInvariance, PTL

\* A restarted server has the same sound indexes: deaths, reconnects and abandoned
\* sessions leave nothing behind in them.
THEOREM StoreSurvives ==
  CSpec => [](WatcherCounts /\ PatternIndex /\ SessionKeysTracked /\ ClosedForgotten)
<1>1. CInv => IInv
  BY DEF CInv
<1> QED
  BY <1>1, ClientInvariance, InvCounts, InvIndex, InvOwners, InvClosed, PTL
=============================================================================
