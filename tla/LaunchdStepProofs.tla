--------------------------- MODULE LaunchdStepProofs ---------------------------
(***************************************************************************)
(* What a step of Launchd may never do, proved from the invariant of       *)
(* LaunchdProofs for every set of constants: respawn a job too early or    *)
(* while it is being unloaded, and end launchd -f -p while its process is  *)
(* there.                                                                  *)
(***************************************************************************)
EXTENDS LaunchdProofs

(* The throttle.  A timer is armed for the rest of the throttle interval    *)
(* while its job waits for it.  A `launchctl start' gives the job a process *)
(* and leaves the timer, which is then due before the interval is over, but *)
(* never after it; only KeepAlive jobs have one.                            *)
Due(j, tm) ==
  j.restart_timer # NULL =>
    /\ j.conf.keep_alive
    /\ tm[j.restart_timer].rem =< Interval - j.age
    /\ j.state = "LOADED" => tm[j.restart_timer].rem = Interval - j.age
    /\ "start" \notin Commands => j.state = "LOADED"

Throttled == \A o \in jobs : Due(heap[o], timer)

\* What the action properties ask of a step that gives o a process.
Timely(o) ==
  \/ ByHand
  \/ ~heap[o].pending_unload /\ (heap[o].age = Interval \/ LeftOver(o))

Respects == \A o \in Obj : Spawned(o) => Timely(o)

\* A step that concerns the job at o and its timer only.
LEMMA Elsewhere ==
  ASSUME IInv, Throttled, NEW o \in Obj,
         \A x \in Obj \ {o} : heap'[x] = heap[x],
         \A t \in Tid : timer[t].armed /\ timer[t].job # o => timer'[t] = timer[t],
         heap'[o] # NULL => Due(heap'[o], timer'),
         Spawned(o) => Timely(o)
  PROVE  Throttled' /\ Respects
<1>1. ASSUME NEW x \in jobs'
      PROVE  Due(heap'[x], timer')
  <2>1. CASE x = o
    BY <1>1, <2>1 DEF jobs
  <2>2. CASE x # o /\ heap'[x].restart_timer # NULL
    <3>1. x \in jobs /\ heap'[x] = heap[x]
      BY <1>1, <2>2 DEF jobs
    <3>2. heap[x].restart_timer \in Tid
      BY <2>2, <3>1, TableType DEF IInv, CoreInv, Job
    <3>3. timer'[heap[x].restart_timer] = timer[heap[x].restart_timer]
      BY <2>2, <3>1, <3>2 DEF IInv, CoreInv, TimerKnown
    <3> QED
      BY <3>1, <3>3 DEF Throttled, Due
  <2> QED
    BY <2>1, <2>2 DEF Due
<1>2. ASSUME NEW x \in Obj, Spawned(x)
      PROVE  Timely(x)
  BY <1>2 DEF Spawned
<1> QED
  BY <1>1, <1>2 DEF Throttled, Respects, Due

\* A step that changes no job and no timer.
LEMMA Quiet ==
  ASSUME Throttled, UNCHANGED <<heap, timer>>
  PROVE  Throttled' /\ Respects
BY DEF Throttled, Due, Respects, Spawned, jobs

\* job_spawn() leaves the job as it is given, or with a process.
LEMMA SpawnResult ==
  ASSUME NEW o \in Obj, heap \in [Obj -> Job \cup {NULL}], NEW j \in Job, NEW pr, NEW rc,
         job_spawn(o, j, pr, rc)
  PROVE  /\ heap'[o] \in Job /\ heap'[o].restart_timer = j.restart_timer
         /\ heap'[o].conf = j.conf /\ heap'[o].pending_unload = j.pending_unload
         /\ \/ heap'[o] = j
            \/ \E q \in Pid : heap'[o] = SpawnedJob(j, q)
         /\ \A x \in Obj \ {o} : heap'[x] = heap[x]
<1>1. PICK k : heap' = [heap EXCEPT ![o] = k] /\ (k = j \/ \E q \in Pid : k = SpawnedJob(j, q))
  <2>1. CASE heap' = [heap EXCEPT ![o] = j]
    BY <2>1
  <2>2. CASE \E q \in FreePid(pr) : heap' = [heap EXCEPT ![o] = SpawnedJob(j, q)]
    BY <2>2 DEF FreePid
  <2> QED
    BY <2>1, <2>2 DEF job_spawn
<1>2. \A q \in Pid :
        /\ SpawnedJob(j, q) \in Job /\ SpawnedJob(j, q).restart_timer = j.restart_timer
        /\ SpawnedJob(j, q).conf = j.conf
        /\ SpawnedJob(j, q).pending_unload = j.pending_unload
  BY JobType DEF SpawnedJob, Job
<1>3. /\ k \in Job /\ k.restart_timer = j.restart_timer /\ k.conf = j.conf
      /\ k.pending_unload = j.pending_unload
  BY <1>1, <1>2
<1> QED
  BY <1>1, <1>3

LEMMA LoadThrottle ==
  ASSUME IInv, Throttled, NEW f \in File, NEW o \in calloc, NEW err, Load(f, o, err),
         UNCHANGED timer
  PROVE  Throttled' /\ Respects
<1> DEFINE c == jobmgr_load_plist_file(f)
<1>0. heap \in [Obj -> Job \cup {NULL}]
  BY DEF IInv, TypeOK
<1>1. CASE UNCHANGED heap
  BY <1>1, Quiet
<1>2. CASE /\ c # NULL /\ o # NULL
           /\ \/ \E rc \in {0, 1} : job_spawn(o, NewJob(c), proc, rc)
              \/ heap' = [heap EXCEPT ![o] = NewJob(c)]
  <2>1. o \in Obj /\ o \notin jobs /\ NewJob(c) \in Job /\ NewJob(c).restart_timer = NULL
    BY <1>2, ConfType, JobType DEF calloc, NewJob
  <2>2. heap'[o].restart_timer = NULL /\ \A x \in Obj \ {o} : heap'[x] = heap[x]
    BY <1>0, <1>2, <2>1, SpawnResult
  <2>3. ~Spawned(o) /\ Due(heap'[o], timer')
    BY <2>1, <2>2 DEF Spawned, Due
  <2> QED
    BY <2>1, <2>2, <2>3, Elsewhere
<1> QED
  BY <1>1, <1>2 DEF Load

\* A timer that a reaped job still has is due no later than its respawn.
LEMMA ReapThrottle ==
  ASSUME IInv, Throttled, NEW q \in Pid, SigchldReap(q)
  PROVE  Throttled' /\ Respects
<1>0. heap \in [Obj -> Job \cup {NULL}] /\ timer \in [Tid -> Timer] /\ Interval \in Nat
  BY CoreAssumption DEF IInv, TypeOK
<1>1. CASE UNCHANGED <<heap, timer>>
  BY <1>1, Quiet
<1>2. ASSUME NEW o \in job_find_by_pid(q), job_reap(o, [proc EXCEPT ![q] = NoProc])
      PROVE  Throttled' /\ Respects
  <2> DEFINE j == Reaped(heap[o])
             pr == [proc EXCEPT ![q] = NoProc]
             r == heap[o].restart_timer
             tm == Cancel(r, timer)
  <2>1. o \in Obj /\ o \in jobs /\ heap[o] \in Job /\ heap[o].p = q /\ q # NULL
    BY TableType, CoreAssumption DEF job_find_by_pid, IInv, CoreInv
  <2>2. /\ j \in Job /\ j.restart_timer = r /\ j.age = heap[o].age /\ j.state = "LOADED"
        /\ j.pending_unload = heap[o].pending_unload /\ j.p = NULL
        /\ j.conf = heap[o].conf
        /\ j.age \in 0 .. Interval /\ r \in Tid \cup {NULL}
    BY <2>1, JobType, ZenonT(60) DEF Reaped, Job
  <2>3. r # NULL => /\ j.conf.keep_alive /\ "start" \in Commands
                    /\ timer[r].rem =< Interval - j.age
    BY <2>1, <2>2 DEF IInv, CoreInv, StateMatchesPid, Throttled, Due
  <2>4. /\ tm \in [Tid -> Timer]
        /\ \A t \in Tid : timer[t].armed /\ timer[t].job # o => tm[t] = timer[t]
    BY <2>1, CancelOwn DEF IInv
  <2> HIDE DEF j, r, tm
  <2>5. CASE heap' = [heap EXCEPT ![o] = NULL] /\ timer' = Cancel(j.restart_timer, timer)
    <3>1. timer' = tm /\ heap'[o] = NULL /\ \A x \in Obj \ {o} : heap'[x] = heap[x]
      BY <1>0, <2>1, <2>2, <2>5 DEF tm
    <3> QED
      BY <2>1, <2>4, <3>1, Elsewhere DEF Spawned
  <2>6. CASE heap' = [heap EXCEPT ![o] = j] /\ ~j.conf.keep_alive /\ UNCHANGED timer
    <3>1. heap'[o] = j /\ \A x \in Obj \ {o} : heap'[x] = heap[x]
      BY <1>0, <2>1, <2>6
    <3>2. Due(heap'[o], timer') /\ ~Spawned(o)
      BY <2>2, <2>3, <2>6, <3>1 DEF Due, Spawned
    <3> QED
      BY <2>1, <2>6, <3>1, <3>2, Elsewhere
  <2>7. CASE ~j.pending_unload /\ j.conf.keep_alive /\ schedule_respawn(o, j, pr)
    <3>1. CASE RespawnDelay(j) = 0 /\ UNCHANGED timer /\ \E rc \in {0, 1} : job_spawn(o, j, pr, rc)
      <4>1. heap[o].age = Interval /\ j.age = Interval
        BY <1>0, <2>2, <3>1 DEF RespawnDelay
      <4>2. r # NULL => timer[r].rem = 0
        BY <1>0, <2>2, <2>3, <4>1 DEF Timer
      <4>3. /\ heap'[o] = j \/ \E p \in Pid : heap'[o] = SpawnedJob(j, p)
            /\ \A x \in Obj \ {o} : heap'[x] = heap[x]
        BY <1>0, <2>1, <2>2, <3>1, SpawnResult
      <4>4. \A p \in Pid : /\ SpawnedJob(j, p).restart_timer = r /\ SpawnedJob(j, p).age = 0
                           /\ SpawnedJob(j, p).conf = j.conf
                           /\ SpawnedJob(j, p).state = "RUNNING"
        BY <2>2 DEF SpawnedJob, Job
      <4>5. Due(j, timer') /\ \A p \in Pid : Due(SpawnedJob(j, p), timer')
        BY <1>0, <2>2, <2>3, <3>1, <4>1, <4>2, <4>4 DEF Due
      <4>6. Due(heap'[o], timer')
        BY <4>3, <4>5
      <4>7. Timely(o)
        BY <2>2, <2>7, <4>1 DEF Timely
      <4> QED
        BY <2>1, <3>1, <4>3, <4>6, <4>7, Elsewhere
    <3>2. CASE \E t \in Tid :
                 /\ ~tm[t].armed
                 /\ timer' = [tm EXCEPT ![t] = NewTimer(o, RespawnDelay(j))]
                 /\ heap' = [heap EXCEPT ![o] = [j EXCEPT !.restart_timer = t]]
      <4>1. PICK t \in Tid :
                 /\ ~tm[t].armed
                 /\ timer' = [tm EXCEPT ![t] = NewTimer(o, RespawnDelay(j))]
                 /\ heap' = [heap EXCEPT ![o] = [j EXCEPT !.restart_timer = t]]
        BY <3>2
      <4>2. /\ timer'[t].rem = Interval - j.age
            /\ \A u \in Tid : timer[u].armed /\ timer[u].job # o => timer'[u] = timer[u]
        BY <1>0, <2>4, <4>1 DEF NewTimer, RespawnDelay
      <4>3. /\ heap'[o].restart_timer = t /\ heap'[o].state = "LOADED" /\ heap'[o].age = j.age
            /\ heap'[o].p = NULL /\ heap'[o].conf = j.conf
            /\ \A x \in Obj \ {o} : heap'[x] = heap[x]
        BY <1>0, <2>1, <2>2, <4>1 DEF Job
      <4>4. Due(heap'[o], timer') /\ ~Spawned(o)
        BY <1>0, <2>2, <2>7, <4>2, <4>3 DEF Due, Spawned
      <4> QED
        BY <2>1, <4>2, <4>3, <4>4, Elsewhere
    <3>3. CASE heap' = [heap EXCEPT ![o] = Detach(j)] /\ timer' = tm
      <4>1. /\ heap'[o].restart_timer = NULL /\ heap'[o].p = NULL
            /\ \A x \in Obj \ {o} : heap'[x] = heap[x]
        BY <1>0, <2>1, <2>2, <3>3 DEF Job, Detach
      <4> QED
        BY <2>1, <2>4, <3>3, <4>1, Elsewhere DEF Spawned, Due
    <3> QED
      BY <2>2, <2>7, <3>1, <3>2, <3>3 DEF schedule_respawn, tm
  <2> QED
    BY <1>2, <2>5, <2>6, <2>7 DEF job_reap, j, jobmgr_remove_and_free, jobmgr_free
<1> QED
  BY <1>1, <1>2 DEF SigchldReap

\* A due timer of a job that waits for it comes with the end of the throttle
\* interval; that of a running job does nothing.
LEMMA TimerThrottle ==
  ASSUME IInv, Throttled, NEW t \in Tid, TimerFires(t)
  PROVE  Throttled' /\ Respects
<1> DEFINE o == timer[t].job
           j == Detach(heap[o])
<1>1. /\ timer[t].armed /\ timer[t].rem = 0 /\ restart_timer_fired(t) /\ pc = "main"
      /\ o \in jobs /\ heap[o].restart_timer = t /\ t # NULL
  BY CoreAssumption DEF TimerFires, IInv, CoreInv, TimerSafe
<1>2. /\ o \in Obj /\ heap[o] \in Job /\ heap \in [Obj -> Job \cup {NULL}]
      /\ timer \in [Tid -> Timer] /\ Interval \in Nat
  BY <1>1, TableType, CoreAssumption DEF IInv, CoreInv, CoreTypeOK
<1>3. ~heap[o].pending_unload
  BY <1>1 DEF IInv, CoreInv, UnloadHasNoTimer
<1>4. /\ j \in Job /\ j.restart_timer = NULL /\ j.state = heap[o].state
      /\ j.p = heap[o].p /\ j.age = heap[o].age
      /\ j.pending_unload = heap[o].pending_unload
  BY <1>2, JobType DEF Job, Detach
<1>5. /\ timer' = Cancel(heap[o].restart_timer, Cancel(t, timer))
      /\ \E rc \in {0, 1} : job_spawn(o, j, proc, rc)
  BY <1>1, <1>3, <1>4 DEF restart_timer_fired
<1>6. \A u \in Tid : timer[u].armed /\ timer[u].job # o => timer'[u] = timer[u]
  BY <1>1, <1>2, <1>5 DEF Cancel
<1>7. heap'[o].restart_timer = NULL /\ \A x \in Obj \ {o} : heap'[x] = heap[x]
  BY <1>2, <1>4, <1>5, SpawnResult
<1>8. ASSUME Spawned(o) PROVE Timely(o)
  <2>1. CASE heap[o].state = "LOADED"
    <3>1. heap[o].age \in Nat /\ 0 = Interval - heap[o].age
      BY <1>1, <1>2, <2>1 DEF Throttled, Due, Job
    <3> QED
      BY <1>2, <1>3, <3>1 DEF Timely
  <2>2. CASE heap[o].state = "STOPPING"
    BY <1>1, <1>3, <2>2 DEF Timely, LeftOver
  <2>3. CASE heap[o].state = "RUNNING"
    <3>1. heap'[o] = j
      BY <1>2, <1>4, <1>5, <2>3 DEF job_spawn, CanSpawn
    <3> QED
      BY <1>4, <1>8, <3>1 DEF Spawned
  <2> QED
    BY <1>2, <2>1, <2>2, <2>3 DEF Job, JobState
<1> QED
  BY <1>2, <1>6, <1>7, <1>8, Elsewhere DEF Due

\* A `launchctl start' leaves the timer and begins a new interval.
LEMMA StartThrottle ==
  ASSUME IInv, Throttled, NEW l \in Label, NEW err, handle_start(l, err)
  PROVE  Throttled' /\ Respects
<1>1. CASE UNCHANGED coreVars
  BY <1>1, Quiet DEF coreVars
<1>2. ASSUME NEW o \in jobmgr_find_by_label(l), NEW rc \in {0, 1},
             job_spawn(o, heap[o], proc, rc), rc = 0 => err = "OK", UNCHANGED timer
      PROVE  Throttled' /\ Respects
  <2>1. /\ o \in jobs /\ o \in Obj /\ heap[o] \in Job /\ heap \in [Obj -> Job \cup {NULL}]
        /\ timer \in [Tid -> Timer] /\ Interval \in Nat /\ "start" \in Commands
    BY TableType, CoreAssumption DEF jobmgr_find_by_label, IInv, CoreInv, CoreTypeOK, handle_start
  <2>2. /\ heap'[o] = heap[o] \/ \E q \in Pid : heap'[o] = SpawnedJob(heap[o], q)
        /\ \A x \in Obj \ {o} : heap'[x] = heap[x]
    BY <1>2, <2>1, SpawnResult
  <2>3. \A q \in Pid : LET k == SpawnedJob(heap[o], q)
                       IN  /\ k.restart_timer = heap[o].restart_timer
                           /\ k.conf = heap[o].conf /\ k.age = 0 /\ k.state = "RUNNING"
    BY <2>1 DEF SpawnedJob, Job
  <2>4. heap[o].restart_timer # NULL =>
          /\ heap[o].conf.keep_alive
          /\ timer[heap[o].restart_timer].rem =< Interval - 0
    BY <2>1 DEF Throttled, Due, Job, Timer
  <2>5. Due(heap[o], timer') /\ \A q \in Pid : Due(SpawnedJob(heap[o], q), timer')
    BY <1>2, <2>1, <2>3, <2>4 DEF Throttled, Due
  <2>6. Due(heap'[o], timer')
    BY <2>2, <2>5
  <2>7. ASSUME Spawned(o) PROVE Timely(o)
    <3>1. CASE rc = 0
      BY <1>2, <3>1 DEF Timely, ByHand
    <3>2. CASE rc # 0
      <4>1. heap'[o] = heap[o]
        BY <1>2, <2>1, <3>2 DEF job_spawn
      <4> QED
        BY <2>7, <4>1 DEF Spawned
    <3> QED
      BY <3>1, <3>2
  <2> QED
    BY <1>2, <2>1, <2>2, <2>6, <2>7, Elsewhere
<1> QED
  BY <1>1, <1>2 DEF handle_start

LEMMA UnloadThrottle ==
  ASSUME IInv, Throttled, NEW o \in jobs, jobmgr_unload(o)
  PROVE  Throttled' /\ Respects
<1> DEFINE j == [Detach(heap[o]) EXCEPT !.pending_unload = TRUE]
<1>1. o \in Obj /\ heap[o] \in Job /\ heap \in [Obj -> Job \cup {NULL}]
  BY TableType DEF IInv, CoreInv, CoreTypeOK
<1>2. j \in Job /\ j.restart_timer = NULL /\ j.p = heap[o].p /\ j.age = heap[o].age
  BY <1>1 DEF Job, Detach
<1>3. timer' = Cancel(heap[o].restart_timer, timer)
  BY <1>2 DEF jobmgr_unload, jobmgr_remove_and_free, jobmgr_free, Cancel
<1>4. \A t \in Tid : timer[t].armed /\ timer[t].job # o => timer'[t] = timer[t]
  BY <1>3, CancelOwn DEF IInv
<1> HIDE DEF j
<1>5. CASE heap' = [heap EXCEPT ![o] = [j EXCEPT !.state = "STOPPING"]]
  <2>1. /\ heap'[o].restart_timer = NULL /\ heap'[o].p = heap[o].p /\ heap'[o].age = heap[o].age
        /\ \A x \in Obj \ {o} : heap'[x] = heap[x]
    BY <1>1, <1>2, <1>5 DEF Job
  <2> QED
    BY <1>1, <1>4, <2>1, Elsewhere DEF Spawned, Due
<1>6. CASE heap' = [heap EXCEPT ![o] = NULL]
  <2>1. heap'[o] = NULL /\ \A x \in Obj \ {o} : heap'[x] = heap[x]
    BY <1>1, <1>6
  <2> QED
    BY <1>1, <1>4, <2>1, Elsewhere DEF Spawned
<1> QED
  BY <1>5, <1>6 DEF jobmgr_unload, jobmgr_remove_and_free, jobmgr_free, j

LEMMA StopThrottle ==
  ASSUME IInv, Throttled, NEW l \in Label, NEW err, handle_stop(l, err)
  PROVE  Throttled' /\ Respects
<1>1. CASE UNCHANGED heap /\ UNCHANGED timer
  BY <1>1, Quiet
<1>2. ASSUME NEW o \in jobs, heap[o].state = "RUNNING",
             heap' = [heap EXCEPT ![o].state = "STOPPING"], UNCHANGED timer
      PROVE  Throttled' /\ Respects
  <2>1. o \in Obj /\ heap[o] \in Job /\ heap \in [Obj -> Job \cup {NULL}]
    BY TableType DEF IInv, CoreInv, CoreTypeOK
  <2>2. /\ heap'[o].restart_timer = heap[o].restart_timer /\ heap'[o].conf = heap[o].conf
        /\ heap'[o].p = heap[o].p /\ heap'[o].age = heap[o].age
        /\ heap'[o].state = "STOPPING"
        /\ \A x \in Obj \ {o} : heap'[x] = heap[x]
    BY <1>2, <2>1 DEF Job
  <2>3. Due(heap'[o], timer') /\ ~Spawned(o)
    BY <1>2, <2>2 DEF Throttled, Due, Spawned
  <2> QED
    BY <1>2, <2>1, <2>2, <2>3, Elsewhere
<1> QED
  BY <1>1, <1>2 DEF handle_stop, jobmgr_find_by_label, coreVars

\* The age of a job and its timer advance together.
LEMMA TickThrottle ==
  ASSUME IInv, Throttled, Tick
  PROVE  Throttled' /\ Respects
<1>0. heap \in [Obj -> Job \cup {NULL}] /\ timer \in [Tid -> Timer] /\ Interval \in Nat
  BY CoreAssumption DEF IInv, TypeOK
<1>1. ASSUME NEW x \in Obj, heap'[x] # NULL
      PROVE  /\ x \in jobs /\ heap[x] \in Job /\ heap'[x].restart_timer = heap[x].restart_timer
             /\ heap'[x].state = heap[x].state /\ heap'[x].p = heap[x].p
             /\ heap'[x].conf = heap[x].conf
             /\ heap'[x].age = IF heap[x].age = Interval THEN heap[x].age ELSE heap[x].age + 1
             /\ heap[x].age \in 0 .. Interval
  BY <1>0, <1>1 DEF Tick, jobs, Job
<1>2. ASSUME NEW t \in Tid
      PROVE  /\ timer[t].rem \in 0 .. Interval
             /\ timer'[t].rem = IF timer[t].rem = 0 THEN 0 ELSE timer[t].rem - 1
  BY <1>0, <1>2 DEF Tick, Timer
<1>3. ASSUME NEW x \in jobs', heap'[x].restart_timer # NULL
      PROVE  Due(heap'[x], timer')
  <2> DEFINE t == heap[x].restart_timer
  <2>1. x \in Obj /\ heap'[x] # NULL
    BY DEF jobs
  <2>2. t \in Tid /\ t # NULL
    BY <1>1, <1>3, <2>1 DEF Job
  <2>3. /\ heap[x].conf.keep_alive /\ timer[t].rem =< Interval - heap[x].age
        /\ heap[x].state = "LOADED" => timer[t].rem = Interval - heap[x].age
        /\ "start" \notin Commands => heap[x].state = "LOADED"
    BY <1>1, <2>1, <2>2 DEF Throttled, Due
  <2>4. /\ timer'[t].rem =< Interval - heap'[x].age
        /\ heap[x].state = "LOADED" => timer'[t].rem = Interval - heap'[x].age
    BY <1>0, <1>1, <1>2, <2>1, <2>2, <2>3
  <2> QED
    BY <1>1, <2>1, <2>3, <2>4 DEF Due
<1>4. ASSUME NEW x \in Obj, Spawned(x) PROVE FALSE
  BY <1>0, <1>1, <1>4 DEF Spawned
<1> QED
  BY <1>3, <1>4 DEF Throttled, Respects, Due

LEMMA NextThrottled ==
  ASSUME IInv, Throttled, [Next]_vars
  PROVE  Throttled' /\ Respects
<1>1. CASE LoadStartupPlist
  <2>1. CASE StartupPlist = NULL
    BY <1>1, <2>1, Quiet DEF LoadStartupPlist, coreVars
  <2>2. CASE StartupPlist # NULL
    BY <1>1, <2>2, LoadThrottle, LaunchdAssumption DEF LoadStartupPlist
  <2> QED
    BY <2>1, <2>2
<1>2. CASE ScanOne
  <2>1. Head(todo) \subseteq File
    BY <1>2 DEF ScanOne, IInv, TypeOK
  <2> QED
    BY <1>2, <2>1, LoadThrottle DEF ScanOne
<1>3. CASE \E f \in File, err \in Errno : handle_load(f, err)
  BY <1>3, LoadThrottle DEF handle_load
<1>4. CASE \E q \in Pid : SigchldReap(q)
  BY <1>4, ReapThrottle
<1>5. CASE \E t \in Tid : TimerFires(t)
  BY <1>5, TimerThrottle
<1>6. CASE \E l \in Label, err \in Errno : handle_unload(l, err)
  <2>1. CASE UNCHANGED coreVars
    BY <2>1, Quiet DEF coreVars
  <2> QED
    BY <1>6, <2>1, UnloadThrottle DEF handle_unload, jobmgr_find_by_label
<1>7. CASE \E l \in Label, err \in Errno : handle_start(l, err)
  BY <1>7, StartThrottle
<1>8. CASE \E l \in Label, err \in Errno : handle_stop(l, err)
  BY <1>8, StopThrottle
<1>9. CASE TimePasses
  BY <1>9, TickThrottle DEF TimePasses
<1>10. CASE \/ ScanDirDone \/ EnterMainLoop \/ SigchldBegin \/ SigchldReturn
            \/ launchd_shutdown \/ \E q \in Pid : ChildExits(q) \/ Reparent(q)
  BY <1>10, Quiet DEF ScanDirDone, EnterMainLoop, SigchldBegin, SigchldReturn, launchd_shutdown,
       ChildExits, Reparent, coreVars
<1>11. CASE UNCHANGED vars
  BY <1>11, Quiet DEF vars, coreVars
<1> QED
  BY <1>1, <1>2, <1>3, <1>4, <1>5, <1>6, <1>7, <1>8, <1>9, <1>10, <1>11 DEF Next

\* The invariant of the throttle holds in every reachable state.
LEMMA AlwaysThrottled == Spec => []Throttled
<1>1. Init => Throttled
  BY DEF Init, CoreInit, Throttled, jobs
<1>2. IInv /\ Throttled /\ [Next]_vars => Throttled'
  BY NextThrottled
<1> QED
  BY <1>1, <1>2, Invariance, PTL DEF Spec

\* A respawn launchd decides on itself comes a full throttle interval after
\* the last spawn, whatever clients start, stop, load and unload, except from
\* a timer that a `launchctl start' left and that fires while the job stops.
THEOREM ThrottleHolds == Spec => ThrottleKept
<1>1. IInv /\ Throttled /\ [Next]_vars =>
        [\A o \in Obj : Spawned(o) /\ ~ByHand /\ ~LeftOver(o) => heap[o].age = Interval]_vars
  BY NextThrottled DEF Respects, Timely
<1> QED
  BY <1>1, AlwaysThrottled, Invariance, PTL DEF Spec, ThrottleKept

\* Where no client uses `launchctl start', no respawn comes too early.
THEOREM ThrottleWithoutStart ==
  ASSUME "start" \notin Commands
  PROVE  Spec => RespawnThrottled
<1>1. Throttled => \A o \in jobs : ~LeftOver(o)
  BY DEF Throttled, Due, LeftOver
<1>2. IInv /\ Throttled /\ [Next]_vars =>
        [\A o \in Obj : Spawned(o) /\ ~ByHand => heap[o].age = Interval]_vars
  BY <1>1, NextThrottled DEF Respects, Timely, Spawned
<1> QED
  BY <1>2, AlwaysThrottled, Invariance, PTL DEF Spec, RespawnThrottled

\* A job that is being unloaded is not started again except by hand.
THEOREM UnloadIsFinal == Spec => NoRespawnAfterUnload
<1>1. IInv /\ Throttled /\ [Next]_vars =>
        [\A o \in Obj : Spawned(o) /\ ~ByHand => ~heap[o].pending_unload]_vars
  BY NextThrottled DEF Respects, Timely
<1> QED
  BY <1>1, AlwaysThrottled, Invariance, PTL DEF Spec, NoRespawnAfterUnload

-----------------------------------------------------------------------------
(* launchd -f -p.  Without a command socket no job is stopped or unloaded, *)
(* so launchd tracks every process it spawned, and the job of the -p plist *)
(* stays in the table until its end ends launchd.                          *)

Plain(o) == ~heap[o].pending_unload /\ heap[o].state # "STOPPING"

Tracked(q) == proc[q].st # "none" => \E o \in jobs : heap[o].p = q

HasSingleton ==
  /\ ~singleton_done
  /\ pc = "plist" => jobs = {}
  /\ pc # "plist" => /\ singleton \in jobs
                     /\ heap[singleton].conf = jobmgr_load_plist_file(StartupPlist)

Foreground ==
  ~DaemonMode /\ pc # "exited" =>
    (\A o \in jobs : Plain(o)) /\ (\A q \in Pid : Tracked(q)) /\ HasSingleton

\* Storing job k at o.
LEMMA StoreTracked ==
  ASSUME heap \in [Obj -> Job \cup {NULL}], NEW o \in Obj, NEW k \in Job,
         heap' = [heap EXCEPT ![o] = k], ~k.pending_unload, k.state # "STOPPING",
         \A x \in jobs : Plain(x),
         \A q \in Pid : proc'[q].st # "none" =>
           k.p = q \/ \E x \in jobs \ {o} : heap[x].p = q
  PROVE  /\ \A x \in jobs' : Plain(x)'
         /\ \A q \in Pid : Tracked(q)'
         /\ o \in jobs' /\ heap'[o].conf = k.conf
         /\ \A x \in jobs \ {o} : x \in jobs' /\ heap'[x].conf = heap[x].conf
<1>1. /\ k # NULL /\ heap'[o] = k /\ \A x \in Obj \ {o} : heap'[x] = heap[x]
  BY CoreAssumption
<1>2. jobs' = jobs \cup {o}
  BY <1>1 DEF jobs
<1>3. ASSUME NEW q \in Pid, proc'[q].st # "none" PROVE \E x \in jobs' : heap'[x].p = q
  <2>1. CASE k.p = q
    BY <1>1, <1>2, <2>1
  <2>2. CASE \E x \in jobs \ {o} : heap[x].p = q
    BY <1>1, <1>2, <2>2 DEF jobs
  <2> QED
    BY <1>3, <2>1, <2>2
<1>4. \A x \in jobs' : Plain(x)'
  BY <1>1, <1>2 DEF Plain, jobs
<1> QED
  BY <1>1, <1>2, <1>3, <1>4 DEF Tracked, jobs

\* job_spawn() of a job without a process.
LEMMA SpawnTracked ==
  ASSUME heap \in [Obj -> Job \cup {NULL}], NEW o \in Obj, NEW j \in Job,
         j.p = NULL, ~j.pending_unload, j.state # "STOPPING",
         \A x \in jobs : Plain(x), NEW pr \in [Pid -> Process],
         \A q \in Pid : pr[q].st # "none" => \E x \in jobs \ {o} : heap[x].p = q,
         NEW rc, job_spawn(o, j, pr, rc)
  PROVE  /\ \A x \in jobs' : Plain(x)'
         /\ \A q \in Pid : Tracked(q)'
         /\ o \in jobs' /\ heap'[o].conf = j.conf
         /\ \A x \in jobs \ {o} : x \in jobs' /\ heap'[x].conf = heap[x].conf
<1>1. CASE heap' = [heap EXCEPT ![o] = j] /\ proc' = pr
  BY <1>1, StoreTracked
<1>2. ASSUME NEW q \in Pid, heap' = [heap EXCEPT ![o] = SpawnedJob(j, q)],
             proc' = [pr EXCEPT ![q] = Child(j)]
      PROVE  /\ \A x \in jobs' : Plain(x)'
             /\ \A r \in Pid : Tracked(r)'
             /\ o \in jobs' /\ heap'[o].conf = j.conf
             /\ \A x \in jobs \ {o} : x \in jobs' /\ heap'[x].conf = heap[x].conf
  <2> DEFINE k == SpawnedJob(j, q)
  <2>1. /\ k \in Job /\ k.p = q /\ ~k.pending_unload /\ k.state # "STOPPING"
        /\ k.conf = j.conf
    BY JobType, ZenonT(60) DEF SpawnedJob, Job
  <2>2. \A r \in Pid : proc'[r].st # "none" => k.p = r \/ \E x \in jobs \ {o} : heap[x].p = r
    BY <1>2, <2>1
  <2> HIDE DEF k
  <2>3. heap' = [heap EXCEPT ![o] = k]
    BY <1>2 DEF k
  <2> QED
    BY <2>1, <2>2, <2>3, StoreTracked, ZenonT(60)
<1> QED
  BY <1>1, <1>2 DEF job_spawn, FreePid

\* Load() of a plist: the table grows, or stays as it is.
LEMMA LoadTracked ==
  ASSUME IInv, \A x \in jobs : Plain(x), \A q \in Pid : Tracked(q),
         NEW f \in File, NEW o \in calloc, NEW err, Load(f, o, err)
  PROVE  /\ \A x \in jobs' : Plain(x)'
         /\ \A q \in Pid : Tracked(q)'
         /\ \A x \in jobs : x \in jobs' /\ heap'[x].conf = heap[x].conf
         /\ err = "OK" => o \in jobs' /\ heap'[o].conf = jobmgr_load_plist_file(f)
<1> DEFINE c == jobmgr_load_plist_file(f)
<1>0. heap \in [Obj -> Job \cup {NULL}] /\ proc \in [Pid -> Process]
  BY DEF IInv, TypeOK
<1>1. CASE UNCHANGED <<heap, proc>> /\ err # "OK"
  BY <1>1 DEF jobs, Plain, Tracked
<1>2. CASE /\ c # NULL /\ o # NULL
           /\ \/ \E rc \in {0, 1} : job_spawn(o, NewJob(c), proc, rc)
              \/ heap' = [heap EXCEPT ![o] = NewJob(c)] /\ UNCHANGED proc
  <2>1. /\ o \in Obj /\ o \notin jobs /\ NewJob(c) \in Job /\ NewJob(c).p = NULL
        /\ ~NewJob(c).pending_unload /\ NewJob(c).state # "STOPPING" /\ NewJob(c).conf = c
    BY <1>2, ConfType, JobType DEF calloc, NewJob
  <2>2. \A q \in Pid : proc[q].st # "none" => \E x \in jobs \ {o} : heap[x].p = q
    BY <2>1 DEF Tracked
  <2>3. CASE \E rc \in {0, 1} : job_spawn(o, NewJob(c), proc, rc)
    BY <1>0, <2>1, <2>2, <2>3, SpawnTracked
  <2>4. CASE heap' = [heap EXCEPT ![o] = NewJob(c)] /\ UNCHANGED proc
    BY <1>0, <2>1, <2>2, <2>4, StoreTracked, ZenonT(60)
  <2> QED
    BY <1>2, <2>3, <2>4
<1> QED
  BY <1>1, <1>2 DEF Load

\* What ExitsAfterSingleton says of a step.
Leaves ==
  pc = "reap" /\ pc' = "exited" =>
    \A q \in Pid : proc'[q].st # "none" =>
      proc'[q].owner # jobmgr_load_plist_file(StartupPlist).label

LEMMA ReapTracked ==
  ASSUME IInv, ~DaemonMode, Foreground, NEW q \in Pid, SigchldReap(q)
  PROVE  Foreground' /\ Leaves
<1> DEFINE pr == [proc EXCEPT ![q] = NoProc]
<1>0. /\ heap \in [Obj -> Job \cup {NULL}] /\ proc \in [Pid -> Process]
      /\ pr \in [Pid -> Process] /\ pc = "reap" /\ proc[q].st = "zombie"
      /\ \A x \in jobs : Plain(x)
      /\ \A r \in Pid : Tracked(r)
      /\ ~singleton_done /\ singleton \in jobs
      /\ heap[singleton].conf = jobmgr_load_plist_file(StartupPlist)
  BY DEF IInv, TypeOK, SigchldReap, Foreground, HasSingleton, NoProc, Process
<1>1. PICK o \in jobs :
        /\ heap[o].p = q /\ job_reap(o, pr)
        /\ pc' = IF singleton_done' /\ ~DaemonMode THEN "exited" ELSE pc
  BY <1>0 DEF SigchldReap, job_find_by_pid, Tracked
<1> DEFINE j == Reaped(heap[o])
<1>2. /\ o \in Obj /\ heap[o] \in Job /\ j \in Job /\ j.p = NULL /\ j.conf = heap[o].conf
      /\ ~j.pending_unload /\ j.state = "LOADED"
  BY <1>0, <1>1, TableType, JobType, ZenonT(60) DEF IInv, CoreInv, Reaped, Job, Plain
<1>3. \A r \in Pid : pr[r].st # "none" =>
        r # q /\ pr[r] = proc[r] /\ \E x \in jobs \ {o} : heap[x].p = r
  <2>1. pr[q].st = "none"
    BY <1>0 DEF NoProc
  <2> QED
    BY <1>0, <1>1, <2>1 DEF Tracked
<1> HIDE DEF j, pr
<1>4. ASSUME UNCHANGED <<singleton, singleton_done>>,
             \A x \in jobs' : Plain(x)', \A r \in Pid : Tracked(r)',
             o \in jobs', heap'[o].conf = j.conf,
             \A x \in jobs \ {o} : x \in jobs' /\ heap'[x].conf = heap[x].conf
      PROVE  Foreground' /\ Leaves
  <2>1. pc' = "reap"
    BY <1>0, <1>1, <1>4
  <2>2. HasSingleton'
    BY <1>0, <1>2, <1>4, <2>1 DEF HasSingleton
  <2> QED
    BY <1>4, <2>1, <2>2 DEF Foreground, Leaves
<1>5. CASE schedule_respawn(o, j, pr) /\ UNCHANGED <<singleton, singleton_done>>
  <2>1. CASE \E rc \in {0, 1} : job_spawn(o, j, pr, rc)
    BY <1>0, <1>2, <1>3, <1>4, <1>5, <2>1, SpawnTracked
  <2>2. CASE proc' = pr /\ \E t \in Tid \cup {NULL} :
               heap' = [heap EXCEPT ![o] = [j EXCEPT !.restart_timer = t]]
    <3>1. PICK t \in Tid \cup {NULL} :
            heap' = [heap EXCEPT ![o] = [j EXCEPT !.restart_timer = t]]
      BY <2>2
    <3> DEFINE k == [j EXCEPT !.restart_timer = t]
    <3>2. /\ k \in Job /\ k.p = NULL /\ k.conf = j.conf /\ ~k.pending_unload
          /\ k.state = "LOADED"
      BY <1>2 DEF Job
    <3>3. heap' = [heap EXCEPT ![o] = k]
      BY <3>1
    <3>4. \A r \in Pid : proc'[r].st # "none" => \E x \in jobs \ {o} : heap[x].p = r
      BY <1>3, <2>2
    <3> HIDE DEF k
    <3>5. /\ \A x \in jobs' : Plain(x)'
          /\ \A r \in Pid : Tracked(r)'
          /\ o \in jobs' /\ heap'[o].conf = j.conf
          /\ \A x \in jobs \ {o} : x \in jobs' /\ heap'[x].conf = heap[x].conf
      BY <1>0, <1>2, <3>2, <3>3, <3>4, StoreTracked
    <3> QED
      BY <1>4, <1>5, <3>5
  <2> QED
    BY <1>5, <2>1, <2>2 DEF schedule_respawn, Detach
<1>6. CASE /\ heap' = [heap EXCEPT ![o] = j] /\ proc' = pr
           /\ singleton_done' = Done(o) /\ UNCHANGED singleton
  <2>1. CASE o = singleton
    <3>1. pc' = "exited"
      BY <1>1, <1>6, <2>1 DEF Done
    <3>2. ASSUME NEW r \in Pid, proc'[r].st # "none"
          PROVE  proc'[r].owner # jobmgr_load_plist_file(StartupPlist).label
      <4>1. PICK x \in jobs \ {o} : heap[x].p = r /\ proc'[r] = proc[r]
        BY <1>3, <1>6, <3>2
      <4>2. r # NULL
        BY CoreAssumption
      <4>3. proc[r].owner = heap[x].conf.label /\ heap[x].conf.label # heap[o].conf.label
        BY <1>1, <4>1, <4>2 DEF IInv, CoreInv, PidIsOurs, LabelsUnique
      <4> QED
        BY <1>0, <2>1, <4>1, <4>3
    <3> QED
      BY <3>1, <3>2 DEF Foreground, Leaves
  <2>2. CASE o # singleton
    <3>1. UNCHANGED <<singleton, singleton_done>>
      BY <1>0, <1>6, <2>2 DEF Done, IInv, TypeOK
    <3>2. \A r \in Pid : proc'[r].st # "none" => \E x \in jobs \ {o} : heap[x].p = r
      BY <1>3, <1>6
    <3>3. /\ \A x \in jobs' : Plain(x)'
          /\ \A r \in Pid : Tracked(r)'
          /\ o \in jobs' /\ heap'[o].conf = j.conf
          /\ \A x \in jobs \ {o} : x \in jobs' /\ heap'[x].conf = heap[x].conf
      BY <1>0, <1>2, <1>6, <3>2, StoreTracked, ZenonT(60)
    <3> QED
      BY <1>4, <3>1, <3>3
  <2> QED
    BY <2>1, <2>2
<1> QED
  BY <1>1, <1>2, <1>5, <1>6 DEF job_reap, j

LEMMA TimerTracked ==
  ASSUME IInv, ~DaemonMode, Foreground, NEW t \in Tid, TimerFires(t)
  PROVE  Foreground' /\ Leaves
<1> DEFINE o == timer[t].job
           j == Detach(heap[o])
<1>1. /\ restart_timer_fired(t) /\ o \in jobs /\ pc = "main" /\ UNCHANGED pc
      /\ heap \in [Obj -> Job \cup {NULL}] /\ proc \in [Pid -> Process]
      /\ \A x \in jobs : Plain(x)
      /\ \A r \in Pid : Tracked(r)
      /\ HasSingleton
  BY DEF TimerFires, IInv, CoreInv, TimerSafe, TypeOK, Foreground
<1>2. o \in Obj /\ heap[o] \in Job
  BY <1>1, TableType DEF IInv, CoreInv
<1>3. /\ j \in Job /\ j.p = heap[o].p /\ j.state = heap[o].state /\ j.conf = heap[o].conf
      /\ ~j.pending_unload /\ j.state # "STOPPING"
      /\ j.state = "LOADED" <=> j.p = NULL
  BY <1>1, <1>2, JobType DEF Detach, Job, Plain, IInv, CoreInv, StateMatchesPid
<1>4. /\ \E rc \in {0, 1} : job_spawn(o, j, proc, rc)
      /\ UNCHANGED <<singleton, singleton_done>>
  BY <1>1, <1>3 DEF restart_timer_fired
<1> HIDE DEF j, o
<1>5. /\ \A x \in jobs' : Plain(x)'
      /\ \A q \in Pid : Tracked(q)'
      /\ \A x \in jobs : x \in jobs' /\ heap'[x].conf = heap[x].conf
  <2>1. CASE j.state = "LOADED"
    <3>1. \A q \in Pid : proc[q].st # "none" => \E x \in jobs \ {o} : heap[x].p = q
      BY <1>1, <1>3, <2>1, CoreAssumption DEF Tracked
    <3> QED
      BY <1>1, <1>2, <1>3, <1>4, <2>1, <3>1, SpawnTracked
  <2>2. CASE j.state = "RUNNING"
    <3>1. heap' = [heap EXCEPT ![o] = j] /\ proc' = proc
      BY <1>4, <2>2 DEF job_spawn, CanSpawn
    <3>2. \A q \in Pid : proc'[q].st # "none" => j.p = q \/ \E x \in jobs \ {o} : heap[x].p = q
      BY <1>1, <1>3, <3>1 DEF Tracked
    <3> QED
      BY <1>1, <1>2, <1>3, <3>1, <3>2, StoreTracked, ZenonT(60)
  <2> QED
    BY <1>3, <2>1, <2>2 DEF Job, JobState
<1>6. HasSingleton'
  BY <1>1, <1>4, <1>5 DEF HasSingleton
<1> QED
  BY <1>1, <1>5, <1>6 DEF Foreground, Leaves

\* The passing of time changes nothing of a job but its age.
LEMMA TickKeeps ==
  ASSUME IInv, Tick
  PROVE  /\ jobs' = jobs
         /\ \A o \in jobs : /\ heap'[o].conf = heap[o].conf /\ heap'[o].p = heap[o].p
                            /\ heap'[o].state = heap[o].state
                            /\ heap'[o].pending_unload = heap[o].pending_unload
<1>0. heap \in [Obj -> Job \cup {NULL}]
  BY DEF IInv, TypeOK
<1>1. ASSUME NEW o \in Obj
      PROVE  /\ heap'[o] = NULL <=> heap[o] = NULL
             /\ heap[o] # NULL => /\ heap'[o].conf = heap[o].conf /\ heap'[o].p = heap[o].p
                                  /\ heap'[o].state = heap[o].state
                                  /\ heap'[o].pending_unload = heap[o].pending_unload
  <2>1. heap'[o] = IF heap[o] = NULL \/ heap[o].age = Interval THEN heap[o]
                   ELSE [heap[o] EXCEPT !.age = heap[o].age + 1]
    BY DEF Tick
  <2>2. heap[o] # NULL /\ heap[o].age # Interval => heap[o].age + 1 \in 0 .. Interval
    BY <1>0, CoreAssumption DEF Job
  <2>3. heap[o] # NULL => heap'[o] \in Job
    BY <1>0, <2>1, <2>2 DEF Job
  <2> QED
    BY <1>0, <2>1, <2>3, CoreAssumption DEF Job
<1> QED
  BY <1>1 DEF jobs

LEMMA NextForeground ==
  ASSUME IInv, Foreground, [Next]_vars
  PROVE  Foreground' /\ Leaves
<1>0. CASE DaemonMode
  <2>1. Foreground'
    BY <1>0 DEF Foreground
  <2>2. ~(pc = "reap" /\ pc' = "exited")
    BY <1>0 DEF Next, vars, coreVars, LoadStartupPlist, ScanOne, ScanDirDone, EnterMainLoop,
         SigchldBegin, SigchldReturn, SigchldReap, TimerFires, launchd_shutdown, handle_load,
         handle_unload, handle_start, handle_stop, ChildExits, Reparent, TimePasses
  <2> QED
    BY <2>1, <2>2 DEF Leaves
<1>1. CASE ~DaemonMode
  <2>0. Commands \subseteq {"shutdown"} /\ StartupPlist \in File /\ StartupPlist # NULL /\ ~Pid1
    BY <1>1, LaunchdAssumption
  <2>1. ASSUME UNCHANGED <<heap, singleton, singleton_done>>, pc # "plist", pc # "exited",
               pc' # "plist", \A q \in Pid : proc'[q].st # "none" => proc[q].st # "none"
        PROVE  Foreground'
    BY <1>1, <2>1 DEF Foreground, Plain, Tracked, HasSingleton, jobs
  <2>2. CASE LoadStartupPlist
    <3>1. /\ pc = "plist" /\ jobs = {} /\ UNCHANGED singleton_done /\ ~singleton_done
          /\ \A x \in jobs : Plain(x)
          /\ \A q \in Pid : Tracked(q)
      BY <1>1, <2>0, <2>2 DEF LoadStartupPlist, Foreground, HasSingleton
    <3>2. PICK o \in calloc, err \in Errno :
            /\ Load(StartupPlist, o, err)
            /\ pc' = IF err = "OK" THEN "scan" ELSE "exited"
            /\ singleton' = IF err = "EINVAL" THEN NULL ELSE o
      BY <2>0, <2>2 DEF LoadStartupPlist
    <3>3. CASE err = "OK"
      BY <2>0, <3>1, <3>2, <3>3, LoadTracked DEF Foreground, HasSingleton, Leaves
    <3>4. CASE err # "OK"
      BY <3>1, <3>2, <3>4 DEF Foreground, Leaves
    <3> QED
      BY <3>3, <3>4
  <2>3. CASE ScanOne
    <3>1. Head(todo) \subseteq File
      BY <2>3 DEF ScanOne, IInv, TypeOK
    <3>2. PICK f \in File, o \in calloc, err \in Errno : Load(f, o, err)
      BY <2>3, <3>1 DEF ScanOne
    <3>3. /\ pc = "scan" /\ UNCHANGED <<pc, singleton, singleton_done>> /\ HasSingleton
          /\ \A x \in jobs : Plain(x)
          /\ \A q \in Pid : Tracked(q)
      BY <1>1, <2>3 DEF ScanOne, Foreground
    <3>4. /\ \A x \in jobs' : Plain(x)'
          /\ \A q \in Pid : Tracked(q)'
          /\ \A x \in jobs : x \in jobs' /\ heap'[x].conf = heap[x].conf
      BY <3>2, <3>3, LoadTracked
    <3>5. HasSingleton'
      BY <3>3, <3>4 DEF HasSingleton
    <3> QED
      BY <3>3, <3>4, <3>5 DEF Foreground, Leaves
  <2>4. CASE ScanDirDone \/ EnterMainLoop \/ SigchldBegin \/ SigchldReturn \/ launchd_shutdown
    BY <2>1, <2>4 DEF ScanDirDone, EnterMainLoop, SigchldBegin, SigchldReturn, launchd_shutdown,
         coreVars, Leaves
  <2>5. CASE \E q \in Pid : SigchldReap(q)
    BY <1>1, <2>5, ReapTracked
  <2>6. CASE \E t \in Tid : TimerFires(t)
    BY <1>1, <2>6, TimerTracked
  <2>7. CASE \E q \in Pid : ChildExits(q)
    <3>1. /\ pc # "exited" /\ UNCHANGED <<heap, singleton, singleton_done, pc>>
          /\ \A q \in Pid : proc'[q].st # "none" => proc[q].st # "none"
      BY <2>7 DEF ChildExits, IInv, TypeOK, Process
    <3> QED
      BY <1>1, <3>1 DEF Foreground, Plain, Tracked, HasSingleton, jobs, Leaves
  <2>8. CASE TimePasses
    <3>1. /\ pc # "exited" /\ UNCHANGED <<proc, singleton, singleton_done, pc>> /\ Tick
      BY <2>8 DEF TimePasses, Tick
    <3>2. HasSingleton => HasSingleton'
      BY <3>1, TickKeeps DEF HasSingleton
    <3>3. \A x \in jobs : Plain(x) => Plain(x)'
      BY <3>1, TickKeeps DEF Plain
    <3>4. ASSUME NEW q \in Pid, Tracked(q) PROVE Tracked(q)'
      BY <3>1, <3>4, TickKeeps DEF Tracked
    <3> QED
      BY <1>1, <3>1, <3>2, <3>3, <3>4, TickKeeps DEF Foreground, Leaves
  <2>9. CASE UNCHANGED vars
    BY <2>9 DEF vars, coreVars, Foreground, Plain, Tracked, HasSingleton, jobs, Leaves
  <2> QED
    BY <2>0, <2>2, <2>3, <2>4, <2>5, <2>6, <2>7, <2>8, <2>9
    DEF Next, handle_load, handle_unload, handle_start, handle_stop, Reparent
<1> QED
  BY <1>0, <1>1

\* launchd -f -p ends itself only after the process of its job is gone: no
\* process of that label is left, not even one that was spawned meanwhile.
THEOREM SingletonGone == Spec => ExitsAfterSingleton
<1>1. Init => Foreground
  BY DEF Init, CoreInit, Foreground, HasSingleton, Tracked, NoProc, jobs
<1>2. IInv /\ Foreground /\ [Next]_vars => Foreground'
  BY NextForeground
<1>3. IInv /\ Foreground /\ [Next]_vars =>
        [pc = "reap" /\ pc' = "exited" =>
           \A q \in Pid : proc'[q].st # "none" =>
             proc'[q].owner # jobmgr_load_plist_file(StartupPlist).label]_vars
  BY NextForeground DEF Leaves
<1> QED
  BY <1>1, <1>2, <1>3, Invariance, PTL DEF Spec, ExitsAfterSingleton
=============================================================================
