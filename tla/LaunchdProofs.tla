---------------------------- MODULE LaunchdProofs ----------------------------
(***************************************************************************)
(* The safety invariants of Launchd, for every set of labels, plists,      *)
(* addresses, pids and timers, every throttle interval, every command set  *)
(* and every fault.                                                        *)
(*                                                                         *)
(* CoreInv is the inductive invariant of the job table.  A step that       *)
(* changes one job is shown to keep it in two moves: Fits(o, j, pr, tm)    *)
(* says what the new content j of *o must satisfy, next to the process     *)
(* table pr and the timers tm it goes with, for CoreInv to hold afterwards *)
(* (lemma UpdateInv); each handler then only has to establish Fits.        *)
(***************************************************************************)
EXTENDS Launchd, TLAPS

CoreTypeOK ==
  /\ heap \in [Obj -> Job \cup {NULL}]
  /\ timer \in [Tid -> Timer]
  /\ proc \in [Pid -> Process]

CoreInv ==
  /\ CoreTypeOK
  /\ LabelsUnique
  /\ PidIsOurs
  /\ StateMatchesPid
  /\ TimerSafe
  /\ TimerKnown
  /\ UnloadHasNoTimer
  /\ StoppingWasTermed
  /\ UntrackedWasTermed

IInv == CoreInv /\ TypeOK /\ ZombieSignalled

\* The processes and timers of the jobs other than o are left alone.
OthersKept(o, pr, tm) ==
  /\ pr \in [Pid -> Process]
  /\ tm \in [Tid -> Timer]
  /\ \A x \in jobs \ {o} : heap[x].p # NULL => pr[heap[x].p] = proc[heap[x].p]
  /\ \A t \in Tid : timer[t].armed /\ timer[t].job # o => tm[t] = timer[t]

Fits(o, j, pr, tm) ==
  /\ OthersKept(o, pr, tm)
  /\ j \in Job
  /\ \A x \in jobs \ {o} : heap[x].conf.label # j.conf.label
  /\ j.state = "LOADED" <=> j.p = NULL
  /\ j.p # NULL => pr[j.p].st # "none" /\ pr[j.p].owner = j.conf.label
  /\ j.pending_unload => j.restart_timer = NULL
  /\ j.restart_timer # NULL =>
       tm[j.restart_timer].armed /\ tm[j.restart_timer].job = o
  /\ \A t \in Tid : tm[t].armed =>
       \/ tm[t].job = o /\ j.restart_timer = t
       \/ tm[t] = timer[t] /\ timer[t].job # o
  /\ j.state = "STOPPING" => pr[j.p].termed
  /\ \A q \in Pid : pr[q].st = "live" /\ pr[q].owner # NULL =>
       \/ j.p = q
       \/ pr[q].termed
       \/ pr[q] = proc[q] /\ (heap[o] = NULL \/ heap[o].p # q)

\* The job at o is to be freed.
Gone(o, pr, tm) ==
  /\ OthersKept(o, pr, tm)
  /\ \A t \in Tid : tm[t].armed => tm[t] = timer[t] /\ timer[t].job # o
  /\ \A q \in Pid : pr[q].st = "live" /\ pr[q].owner # NULL =>
       pr[q].termed \/ (pr[q] = proc[q] /\ heap[o].p # q)

-----------------------------------------------------------------------------
(* Types of the pieces *)

\* What jobmgr_load_plist_file() returns is a complete configuration or NULL.
LEMMA ConfType ==
  ASSUME NEW f \in File
  PROVE  jobmgr_load_plist_file(f) \in JobConf \cup {NULL}
BY PlistAssumption
   DEF jobmgr_load_plist_file, nsdict_get_string, nsdict_get_bool,
       nsdict_get_argv, JobConf, RawPlist, RawArray, PlistAssumption

\* The constructors of Job records return Job records.
LEMMA JobType ==
  /\ \A c \in JobConf : NewJob(c) \in Job
  /\ \A j \in Job : Detach(j) \in Job /\ Reaped(j) \in Job
  /\ \A j \in Job, q \in Pid : SpawnedJob(j, q) \in Job
<1> USE CoreAssumption DEF CoreAssumption, Job, JobState
<1>1. \A c \in JobConf : NewJob(c) \in Job
  BY DEF NewJob
<1>2. \A j \in Job : Detach(j) \in Job
  BY DEF Detach
<1>3. \A j \in Job : Reaped(j) \in Job
  BY DEF Reaped
<1>4. \A j \in Job, q \in Pid : SpawnedJob(j, q) \in Job
  <2> SUFFICES ASSUME NEW j \in Job, NEW q \in Pid
               PROVE  SpawnedJob(j, q) \in Job
    OBVIOUS
  <2>1. 0 \in 0..Interval
    OBVIOUS
  <2>2. [j EXCEPT !.p = q, !.state = "RUNNING"] \in Job
    OBVIOUS
  <2>3. SpawnedJob(j, q) = [[j EXCEPT !.p = q, !.state = "RUNNING"] EXCEPT !.age = 0]
    BY DEF SpawnedJob
  <2> QED BY <2>1, <2>2, <2>3
<1> QED BY <1>1, <1>2, <1>3, <1>4

\* A job of the table is a Job.
LEMMA TableType ==
  ASSUME CoreTypeOK, NEW o \in jobs
  PROVE  o \in Obj /\ heap[o] \in Job
BY DEF CoreTypeOK, jobs

\* Cancelling a timer leaves a table of timers.
LEMMA CancelType ==
  ASSUME NEW tm \in [Tid -> Timer], NEW t \in Tid \cup {NULL}
  PROVE  Cancel(t, tm) \in [Tid -> Timer]
BY CoreAssumption DEF CoreAssumption, Cancel, Idle, Timer

-----------------------------------------------------------------------------
(* The two ways to change the table *)

\* Storing a job that fits keeps the invariant.
LEMMA UpdateInv ==
  ASSUME CoreInv, NEW o \in Obj, NEW j, Fits(o, j, proc', timer'),
         heap' = [heap EXCEPT ![o] = j]
  PROVE  CoreInv'
<1> USE DEF Fits, OthersKept, CoreInv
<1>1. j \in Job /\ j # NULL
  BY CoreAssumption DEF CoreAssumption
<1>2. CoreTypeOK'
  BY <1>1 DEF CoreTypeOK
<1>3. /\ jobs' = jobs \cup {o}
      /\ heap'[o] = j
      /\ \A x \in jobs \ {o} : heap'[x] = heap[x]
  BY <1>1 DEF jobs, CoreTypeOK
<1>4. \A x \in jobs : heap[x] \in Job
  BY TableType
<1>5. LabelsUnique'
  BY <1>3 DEF LabelsUnique
<1>6. PidIsOurs'
  BY <1>3, <1>4 DEF PidIsOurs
<1>7. StateMatchesPid'
  BY <1>3 DEF StateMatchesPid
<1>8. TimerSafe'
  BY <1>3 DEF TimerSafe
<1>9. TimerKnown'
  <2> SUFFICES ASSUME NEW x \in jobs', heap'[x].restart_timer # NULL
               PROVE  /\ timer'[heap'[x].restart_timer].armed
                      /\ timer'[heap'[x].restart_timer].job = x
    BY DEF TimerKnown
  <2>1. CASE x = o
    BY <2>1, <1>3
  <2>2. CASE x # o
    <3>1. x \in jobs \ {o} /\ heap'[x] = heap[x] /\ heap[x] \in Job
      BY <2>2, <1>3, <1>4
    <3> DEFINE t == heap[x].restart_timer
    <3>2. t \in Tid /\ timer[t].armed /\ timer[t].job = x
      BY <3>1 DEF TimerKnown, Job
    <3>3. timer'[t] = timer[t]
      BY <3>2, <2>2
    <3> QED BY <3>1, <3>2, <3>3
  <2> QED BY <2>1, <2>2
<1>10. UnloadHasNoTimer'
  BY <1>3 DEF UnloadHasNoTimer
<1>11. StoppingWasTermed'
  BY <1>3 DEF StoppingWasTermed
<1>12. UntrackedWasTermed'
  <2> SUFFICES ASSUME NEW q \in Pid, proc'[q].st = "live", proc'[q].owner # NULL,
                      ~proc'[q].termed
               PROVE  \E x \in jobs' : heap'[x].p = q
    BY DEF UntrackedWasTermed, job_find_by_pid
  <2>1. CASE j.p = q
    BY <2>1, <1>3
  <2>2. CASE proc'[q] = proc[q] /\ (heap[o] = NULL \/ heap[o].p # q)
    <3>1. PICK x \in jobs : heap[x].p = q
      BY <2>2 DEF UntrackedWasTermed, job_find_by_pid
    <3>2. x # o
      BY <3>1, <2>2 DEF jobs
    <3> QED BY <3>1, <3>2, <1>3
  <2> QED BY <2>1, <2>2
<1> QED
  BY <1>2, <1>5, <1>6, <1>7, <1>8, <1>9, <1>10, <1>11, <1>12

\* Freeing a job that is gone keeps the invariant.
LEMMA FreeInv ==
  ASSUME CoreInv, NEW o \in jobs, Gone(o, proc', timer'),
         heap' = [heap EXCEPT ![o] = NULL]
  PROVE  CoreInv'
<1> USE DEF Gone, OthersKept, CoreInv
<1>1. CoreTypeOK' /\ o \in Obj
  BY DEF CoreTypeOK, jobs
<1>2. jobs' = jobs \ {o} /\ \A x \in jobs \ {o} : heap'[x] = heap[x]
  BY DEF jobs, CoreTypeOK
<1>3. \A x \in jobs : heap[x] \in Job
  BY TableType
<1>4. LabelsUnique'
  BY <1>2 DEF LabelsUnique
<1>5. PidIsOurs'
  BY <1>2, <1>3 DEF PidIsOurs
<1>6. StateMatchesPid'
  BY <1>2 DEF StateMatchesPid
<1>7. TimerSafe'
  BY <1>2 DEF TimerSafe
<1>8. TimerKnown'
  <2> SUFFICES ASSUME NEW x \in jobs', heap'[x].restart_timer # NULL
               PROVE  /\ timer'[heap'[x].restart_timer].armed
                      /\ timer'[heap'[x].restart_timer].job = x
    BY DEF TimerKnown
  <2> DEFINE t == heap[x].restart_timer
  <2>1. x \in jobs \ {o} /\ heap'[x] = heap[x] /\ heap[x] \in Job
    BY <1>2, <1>3
  <2>2. t \in Tid /\ timer[t].armed /\ timer[t].job = x
    BY <2>1 DEF TimerKnown, Job
  <2>3. timer'[t] = timer[t]
    BY <2>1, <2>2
  <2> QED BY <2>1, <2>2, <2>3
<1>9. UnloadHasNoTimer'
  BY <1>2 DEF UnloadHasNoTimer
<1>10. StoppingWasTermed'
  BY <1>2, <1>3 DEF StoppingWasTermed
<1>11. UntrackedWasTermed'
  BY <1>2, <1>3 DEF UntrackedWasTermed, job_find_by_pid
<1> QED
  BY <1>1, <1>4, <1>5, <1>6, <1>7, <1>8, <1>9, <1>10, <1>11

-----------------------------------------------------------------------------
(* The supervisor *)

\* A job of the table fits where it is.
LEMMA SameFits ==
  ASSUME CoreInv, NEW o \in jobs
  PROVE  Fits(o, heap[o], proc, timer)
<1> USE DEF CoreInv
<1>1. heap[o] \in Job /\ o \in Obj
  BY TableType
<1>2. OthersKept(o, proc, timer)
  BY DEF OthersKept, CoreTypeOK
<1>3. \A x \in jobs \ {o} : heap[x].conf.label # heap[o].conf.label
  BY DEF LabelsUnique
<1>4. \A t \in Tid : timer[t].armed =>
        \/ timer[t].job = o /\ heap[o].restart_timer = t
        \/ timer[t] = timer[t] /\ timer[t].job # o
  BY DEF TimerSafe
<1>5. /\ heap[o].state = "STOPPING" => proc[heap[o].p].termed
      /\ \A q \in Pid : proc[q].st = "live" /\ proc[q].owner # NULL =>
           \/ heap[o].p = q
           \/ proc[q].termed
           \/ proc[q] = proc[q] /\ (heap[o] = NULL \/ heap[o].p # q)
  BY DEF StoppingWasTermed, StateMatchesPid
<1> QED
  BY <1>1, <1>2, <1>3, <1>4, <1>5
  DEF Fits, PidIsOurs, StateMatchesPid, UnloadHasNoTimer, TimerKnown

\* job_spawn(): no spawn, a new process, or a failed posix_spawn().
LEMMA SpawnInv ==
  ASSUME CoreInv, NEW o \in Obj, NEW j, NEW pr, NEW rc,
         Fits(o, j, pr, timer'), job_spawn(o, j, pr, rc)
  PROVE  CoreInv'
<1>1. CASE heap' = [heap EXCEPT ![o] = j] /\ proc' = pr
  BY <1>1, UpdateInv
<1>2. CASE /\ CanSpawn(j)
           /\ \E q \in FreePid(pr) :
                /\ heap' = [heap EXCEPT ![o] = SpawnedJob(j, q)]
                /\ proc' = [pr EXCEPT ![q] = Child(j)]
  <2>1. PICK q \in FreePid(pr) :
          /\ heap' = [heap EXCEPT ![o] = SpawnedJob(j, q)]
          /\ proc' = [pr EXCEPT ![q] = Child(j)]
    BY <1>2
  <2> DEFINE k == SpawnedJob(j, q)
  <2>2. /\ q \in Pid /\ pr[q].st = "none" /\ j \in Job
        /\ pr \in [Pid -> Process] /\ q # NULL
    BY CoreAssumption DEF CoreAssumption, FreePid, Fits, OthersKept
  <2>3. /\ k \in Job /\ k.p = q /\ k.state = "RUNNING" /\ k.conf = j.conf
        /\ k.restart_timer = j.restart_timer
        /\ k.pending_unload = j.pending_unload
    BY <2>2, JobType DEF SpawnedJob, Job
  <2>4. Child(j) \in Process /\ Child(j).st = "live"
        /\ Child(j).owner = j.conf.label
    BY <2>2 DEF Child, Process, Job, JobConf
  <2>5. \A x \in jobs \ {o} : heap[x].p # NULL => heap[x].p # q
    <3> SUFFICES ASSUME NEW x \in jobs \ {o}, heap[x].p = q PROVE FALSE
      OBVIOUS
    <3>1. pr[q] = proc[q]
      BY <2>2 DEF Fits, OthersKept
    <3>2. proc[q].st # "none"
      BY <2>2 DEF CoreInv, PidIsOurs
    <3> QED BY <2>2, <3>1, <3>2
  <2>6. OthersKept(o, proc', timer')
    <3>1. \A x \in jobs \ {o} : heap[x].p # NULL =>
            proc'[heap[x].p] = proc[heap[x].p]
      <4> SUFFICES ASSUME NEW x \in jobs \ {o}, heap[x].p # NULL
                   PROVE  proc'[heap[x].p] = proc[heap[x].p]
        OBVIOUS
      <4>1. heap[x].p \in Pid
        BY TableType DEF CoreInv, Job
      <4> QED BY <4>1, <2>1, <2>2, <2>5 DEF Fits, OthersKept
    <3> QED BY <3>1, <2>1, <2>2, <2>4 DEF Fits, OthersKept
  <2>7. \A r \in Pid : proc'[r].st = "live" /\ proc'[r].owner # NULL =>
          \/ k.p = r
          \/ proc'[r].termed
          \/ proc'[r] = proc[r] /\ (heap[o] = NULL \/ heap[o].p # r)
    <3> SUFFICES ASSUME NEW r \in Pid, r # q,
                        proc'[r].st = "live", proc'[r].owner # NULL
                 PROVE  \/ proc'[r].termed
                        \/ proc'[r] = proc[r] /\ (heap[o] = NULL \/ heap[o].p # r)
      BY <2>3
    <3>1. proc'[r] = pr[r]
      BY <2>1, <2>2
    <3>2. CASE j.p = r
      <4>1. j.state = "STOPPING"
        BY <3>2, <1>2, <2>2, CoreAssumption
        DEF CanSpawn, Fits, Job, JobState, CoreAssumption
      <4> QED BY <4>1, <3>1, <3>2 DEF Fits
    <3>3. CASE j.p # r
      BY <3>3, <3>1 DEF Fits
    <3> QED BY <3>2, <3>3
  <2>8. Fits(o, k, proc', timer')
    BY <2>1, <2>2, <2>3, <2>4, <2>6, <2>7 DEF Fits
  <2> QED BY <2>1, <2>8, UpdateInv
<1> QED BY <1>1, <1>2 DEF job_spawn

\* schedule_respawn(): a spawn at once, a timer, or a timer that could not be
\* created.
LEMMA RespawnInv ==
  ASSUME CoreInv, NEW o \in Obj, NEW j, NEW pr, ~j.pending_unload,
         Fits(o, j, pr, timer), schedule_respawn(o, j, pr)
  PROVE  CoreInv'
<1> DEFINE delay == RespawnDelay(j)
           tm    == Cancel(j.restart_timer, timer)
<1>1. CASE UNCHANGED timer /\ \E rc \in {0, 1} : job_spawn(o, j, pr, rc)
  BY <1>1, SpawnInv
<1>2. /\ j \in Job /\ j.restart_timer \in Tid \cup {NULL}
      /\ timer \in [Tid -> Timer] /\ tm \in [Tid -> Timer]
  BY CancelType DEF Fits, CoreInv, CoreTypeOK, Job
<1>3. \A t \in Tid : /\ tm[t].armed => tm[t] = timer[t] /\ timer[t].job # o
                     /\ timer[t].armed /\ timer[t].job # o => tm[t] = timer[t]
  <2> SUFFICES ASSUME NEW t \in Tid
               PROVE  /\ tm[t].armed => tm[t] = timer[t] /\ timer[t].job # o
                      /\ timer[t].armed /\ timer[t].job # o => tm[t] = timer[t]
    OBVIOUS
  <2>1. CASE j.restart_timer = t
    <3>1. tm[t] = Idle /\ timer[t].job = o
      BY <2>1, <1>2, CoreAssumption DEF Cancel, Fits, CoreAssumption
    <3> QED BY <3>1 DEF Idle
  <2>2. CASE j.restart_timer # t
    <3>1. tm[t] = timer[t]
      BY <2>2, <1>2 DEF Cancel
    <3> QED BY <3>1, <2>2 DEF Fits
  <2> QED BY <2>1, <2>2
<1>4. CASE /\ delay > 0 /\ proc' = pr
           /\ \E t \in Tid :
                /\ ~tm[t].armed
                /\ timer' = [tm EXCEPT ![t] = NewTimer(o, delay)]
                /\ heap' = [heap EXCEPT ![o] = [j EXCEPT !.restart_timer = t]]
  <2>1. PICK t \in Tid :
          /\ ~tm[t].armed
          /\ timer' = [tm EXCEPT ![t] = NewTimer(o, delay)]
          /\ heap' = [heap EXCEPT ![o] = [j EXCEPT !.restart_timer = t]]
    BY <1>4
  <2> DEFINE k == [j EXCEPT !.restart_timer = t]
  <2>2. /\ k \in Job /\ k.restart_timer = t /\ k.p = j.p /\ k.state = j.state
        /\ k.conf = j.conf /\ k.pending_unload = j.pending_unload
    BY <1>2 DEF Job
  <2>3. delay \in 0..Interval
    BY <1>2, <1>4, CoreAssumption DEF RespawnDelay, Job, CoreAssumption
  <2>4. NewTimer(o, delay) \in Timer
    BY <2>3 DEF NewTimer, Timer
  <2>5. timer' \in [Tid -> Timer]
    BY <2>1, <2>4, <1>2
  <2>6. timer'[t].armed /\ timer'[t].job = o /\ t # NULL
    BY <2>1, <1>2, CoreAssumption DEF NewTimer, CoreAssumption
  <2>7. \A u \in Tid : u # t => timer'[u] = tm[u]
    BY <2>1, <1>2
  <2>8. OthersKept(o, proc', timer')
    BY <1>3, <1>4, <2>1, <2>5, <2>7 DEF Fits, OthersKept
  <2>9. \A u \in Tid : timer'[u].armed =>
          \/ timer'[u].job = o /\ k.restart_timer = u
          \/ timer'[u] = timer[u] /\ timer[u].job # o
    BY <1>3, <2>2, <2>6, <2>7
  <2>10. Fits(o, k, proc', timer')
    BY <1>4, <2>2, <2>6, <2>8, <2>9 DEF Fits
  <2> QED BY <2>1, <2>10, UpdateInv
<1>5. CASE /\ proc' = pr /\ timer' = tm
           /\ heap' = [heap EXCEPT ![o] = Detach(j)]
  <2> DEFINE k == Detach(j)
  <2>1. /\ k \in Job /\ k.restart_timer = NULL /\ k.p = j.p
        /\ k.state = j.state /\ k.conf = j.conf
        /\ k.pending_unload = j.pending_unload
    BY <1>2, JobType DEF Job, Detach
  <2>2. OthersKept(o, proc', timer')
    BY <1>2, <1>3, <1>5 DEF Fits, OthersKept
  <2>3. Fits(o, k, proc', timer')
    BY <1>3, <1>5, <2>1, <2>2 DEF Fits
  <2> QED BY <1>5, <2>3, UpdateInv
<1> QED BY <1>1, <1>4, <1>5 DEF schedule_respawn

\* Cancelling the timer of a job of the table leaves none armed for it, and
\* the timers of the others alone.
LEMMA CancelOwn ==
  ASSUME CoreInv, NEW o \in jobs
  PROVE  LET tm == Cancel(heap[o].restart_timer, timer)
         IN  /\ tm \in [Tid -> Timer]
             /\ \A t \in Tid :
                  /\ tm[t].armed => tm[t] = timer[t] /\ timer[t].job # o
                  /\ timer[t].armed /\ timer[t].job # o => tm[t] = timer[t]
<1> DEFINE r  == heap[o].restart_timer
           tm == Cancel(r, timer)
<1>1. /\ r \in Tid \cup {NULL} /\ timer \in [Tid -> Timer]
      /\ tm \in [Tid -> Timer]
  BY TableType, CancelType DEF CoreInv, CoreTypeOK, Job
<1>2. ASSUME NEW t \in Tid
      PROVE  /\ tm[t].armed => tm[t] = timer[t] /\ timer[t].job # o
             /\ timer[t].armed /\ timer[t].job # o => tm[t] = timer[t]
  <2>1. CASE r = t
    <3>1. tm[t] = Idle /\ timer[t].job = o
      BY <2>1, <1>1, CoreAssumption
      DEF Cancel, CoreInv, TimerKnown, CoreAssumption
    <3> QED BY <3>1 DEF Idle
  <2>2. CASE r # t
    <3>1. tm[t] = timer[t]
      BY <2>2, <1>1 DEF Cancel
    <3> QED BY <3>1, <2>2 DEF CoreInv, TimerSafe
  <2> QED BY <2>1, <2>2
<1> QED BY <1>1, <1>2

\* The handler of a restart timer.
LEMMA TimerInv ==
  ASSUME CoreInv, NEW t \in Tid, timer[t].armed, restart_timer_fired(t)
  PROVE  CoreInv'
<1> DEFINE o  == timer[t].job
           j  == Detach(heap[o])
           tm == Cancel(heap[o].restart_timer, Cancel(t, timer))
<1>1. o \in jobs /\ heap[o].restart_timer = t
  BY DEF CoreInv, TimerSafe
<1>2. o \in Obj /\ heap[o] \in Job /\ timer \in [Tid -> Timer]
  BY <1>1, TableType DEF CoreInv, CoreTypeOK
<1>3. tm = Cancel(t, timer)
  BY <1>1, <1>2, CoreAssumption DEF Cancel, CoreAssumption
<1>4. /\ j \in Job /\ j.restart_timer = NULL /\ j.p = heap[o].p
      /\ j.state = heap[o].state /\ j.conf = heap[o].conf
      /\ j.pending_unload = heap[o].pending_unload
  BY <1>2, JobType DEF Job, Detach
<1>5. ~j.pending_unload
  BY <1>1, <1>4, CoreAssumption DEF CoreInv, UnloadHasNoTimer, CoreAssumption
<1>6. /\ timer' = tm
      /\ \E rc \in {0, 1} : job_spawn(o, j, proc, rc)
  BY <1>5 DEF restart_timer_fired
<1>7. Fits(o, heap[o], proc, timer)
  BY <1>1, SameFits
<1>8. OthersKept(o, proc, tm)
  BY <1>1, <1>3, <1>7, CancelOwn DEF Fits, OthersKept
<1>9. Fits(o, j, proc, timer')
  BY <1>1, <1>3, <1>4, <1>6, <1>7, <1>8, CancelOwn, SMTT(30) DEF Fits
<1> QED BY <1>2, <1>6, <1>9, SpawnInv

\* job_reap() of the process a job holds.
LEMMA ReapInv ==
  ASSUME CoreInv, NEW q \in Pid, NEW o \in job_find_by_pid(q),
         job_reap(o, [proc EXCEPT ![q] = NoProc])
  PROVE  CoreInv'
<1> DEFINE pr == [proc EXCEPT ![q] = NoProc]
           j  == Reaped(heap[o])
<1>1. o \in jobs /\ o \in Obj /\ heap[o] \in Job /\ heap[o].p = q /\ q # NULL
  BY TableType, CoreAssumption DEF job_find_by_pid, CoreInv, CoreAssumption
<1>2. /\ proc \in [Pid -> Process] /\ pr \in [Pid -> Process]
      /\ timer \in [Tid -> Timer] /\ pr[q] = NoProc
      /\ \A r \in Pid : r # q => pr[r] = proc[r]
  BY DEF CoreInv, CoreTypeOK, NoProc, Process
<1>3. /\ j \in Job /\ j.restart_timer = heap[o].restart_timer /\ j.p = NULL
      /\ j.state = "LOADED" /\ j.conf = heap[o].conf
      /\ j.pending_unload = heap[o].pending_unload
  BY <1>1, JobType DEF Job, Reaped
<1>4. Fits(o, heap[o], proc, timer)
  BY <1>1, SameFits
<1>5. \A x \in jobs \ {o} : heap[x].p # NULL => pr[heap[x].p] = proc[heap[x].p]
  <2> SUFFICES ASSUME NEW x \in jobs \ {o}, heap[x].p # NULL
               PROVE  heap[x].p \in Pid /\ heap[x].p # q
    BY <1>2
  <2>1. heap[x].p \in Pid
    BY TableType DEF CoreInv, Job
  <2>2. heap[x].p # q
    BY <1>1 DEF CoreInv, PidIsOurs, LabelsUnique
  <2> QED BY <2>1, <2>2
<1>6. OthersKept(o, pr, timer)
  BY <1>2, <1>5 DEF OthersKept
<1>7. \A r \in Pid : pr[r].st = "live" => pr[r] = proc[r] /\ heap[o].p # r
  BY <1>1, <1>2 DEF NoProc
<1>8. Fits(o, j, pr, timer)
  BY <1>3, <1>4, <1>6, <1>7 DEF Fits
<1>9. CASE j.pending_unload /\ jobmgr_remove_and_free(o, j, timer) /\ proc' = pr
  <2>1. /\ timer' = Cancel(heap[o].restart_timer, timer)
        /\ heap' = [heap EXCEPT ![o] = NULL]
    BY <1>9, <1>3 DEF jobmgr_remove_and_free, jobmgr_free
  <2>2. Gone(o, proc', timer')
    BY <1>1, <1>6, <1>7, <1>9, <2>1, CancelOwn DEF Gone, OthersKept
  <2> QED BY <1>1, <2>1, <2>2, FreeInv
<1>10. CASE ~j.pending_unload /\ schedule_respawn(o, j, pr)
  BY <1>1, <1>8, <1>10, RespawnInv
<1>11. CASE /\ heap' = [heap EXCEPT ![o] = j] /\ proc' = pr
            /\ UNCHANGED timer
  BY <1>1, <1>8, <1>11, UpdateInv
<1> QED BY <1>9, <1>10, <1>11 DEF job_reap

\* A SIGTERM only marks the process it is meant for.
LEMMA KillMarks ==
  ASSUME proc \in [Pid -> Process], NEW q \in Pid, NEW rc, kill(q, rc)
  PROVE  /\ proc' \in [Pid -> Process]
         /\ proc'[q].st = proc[q].st /\ proc'[q].owner = proc[q].owner
         /\ proc'[q].termed
         /\ \A r \in Pid : r # q => proc'[r] = proc[r]
<1> DEFINE w == [proc[q] EXCEPT !.termed = TRUE]
<1>1. proc' = [proc EXCEPT ![q] = w] /\ proc[q] \in Process
  BY DEF kill
<1>2. w \in Process /\ w.st = proc[q].st /\ w.owner = proc[q].owner /\ w.termed
  BY <1>1 DEF Process
<1>3. proc'[q] = w
  BY <1>1
<1> HIDE DEF w
<1> QED BY <1>1, <1>2, <1>3

\* jobmgr_unload(): the SIGTERM, or the removal of a job that is not RUNNING.
LEMMA UnloadInv ==
  ASSUME CoreInv, NEW o \in jobs, jobmgr_unload(o)
  PROVE  CoreInv'
<1> DEFINE tm == Cancel(heap[o].restart_timer, timer)
           j  == [Detach(heap[o]) EXCEPT !.pending_unload = TRUE]
<1>1. o \in Obj /\ heap[o] \in Job /\ proc \in [Pid -> Process]
  BY TableType DEF CoreInv, CoreTypeOK
<1>2. /\ j \in Job /\ j.restart_timer = NULL /\ j.p = heap[o].p
      /\ j.state = heap[o].state /\ j.conf = heap[o].conf
      /\ j.pending_unload = TRUE
  BY <1>1 DEF Job, Detach
<1>3. Fits(o, heap[o], proc, timer)
  BY SameFits
<1>4. CASE /\ j.state = "RUNNING" /\ j.p # NULL
           /\ \E rc \in {0, 1} : kill(j.p, rc)
           /\ heap' = [heap EXCEPT ![o] = [j EXCEPT !.state = "STOPPING"]]
           /\ timer' = tm
  <2> DEFINE k == [j EXCEPT !.state = "STOPPING"]
             q == heap[o].p
  <2>1. /\ k \in Job /\ k.restart_timer = NULL /\ k.p = q
        /\ k.state = "STOPPING" /\ k.conf = heap[o].conf
    BY <1>2 DEF Job, JobState
  <2>2. q \in Pid
    BY <1>1, <1>2, <1>4 DEF Job
  <2>3. /\ proc' \in [Pid -> Process]
        /\ proc'[q].st = proc[q].st /\ proc'[q].owner = proc[q].owner
        /\ proc'[q].termed
        /\ \A r \in Pid : r # q => proc'[r] = proc[r]
    BY <1>1, <1>2, <1>4, <2>2, KillMarks
  <2>4. OthersKept(o, proc', timer')
    <3>1. \A x \in jobs \ {o} : heap[x].p # NULL => heap[x].p \in Pid \ {q}
      <4> SUFFICES ASSUME NEW x \in jobs \ {o}, heap[x].p # NULL
                   PROVE  heap[x].p \in Pid \ {q}
        OBVIOUS
      <4>1. heap[x].p \in Pid
        BY TableType DEF CoreInv, Job
      <4>2. heap[x].p # q
        BY <1>2, <1>4 DEF CoreInv, PidIsOurs, LabelsUnique
      <4> QED BY <4>1, <4>2
    <3> QED BY <3>1, <2>3, <1>4, CancelOwn DEF OthersKept
  <2>5. Fits(o, k, proc', timer')
    <3>1. \A t \in Tid : timer'[t].armed =>
            timer'[t] = timer[t] /\ timer[t].job # o
      BY <1>4, CancelOwn
    <3>2. k.p # NULL /\ proc'[k.p].st # "none" /\ proc'[k.p].owner = k.conf.label
      BY <1>2, <1>3, <1>4, <2>1, <2>3 DEF Fits
    <3>3. \A r \in Pid : k.p = r \/ proc'[r] = proc[r]
      BY <2>1, <2>3
    <3> QED BY <1>3, <2>1, <2>3, <2>4, <3>1, <3>2, <3>3 DEF Fits
  <2> QED BY <1>1, <1>4, <2>5, UpdateInv
<1>5. CASE /\ j.state # "RUNNING" \/ j.p = NULL
           /\ jobmgr_remove_and_free(o, j, tm)
           /\ UNCHANGED proc
  <2>1. timer' = tm /\ heap' = [heap EXCEPT ![o] = NULL]
    BY <1>2, <1>5 DEF jobmgr_remove_and_free, jobmgr_free, Cancel
  <2>2. \A q \in Pid : q = heap[o].p => proc[q].termed
    <3> SUFFICES ASSUME heap[o].p \in Pid
                 PROVE  proc[heap[o].p].termed
      OBVIOUS
    <3>1. heap[o].p # NULL
      BY CoreAssumption DEF CoreAssumption
    <3>2. heap[o].state = "STOPPING"
      BY <3>1, <1>1, <1>2, <1>5 DEF CoreInv, StateMatchesPid, Job, JobState
    <3> QED BY <3>1, <3>2 DEF CoreInv, StoppingWasTermed
  <2>3. Gone(o, proc', timer')
    BY <1>5, <2>1, <2>2, <1>3, CancelOwn DEF Gone, Fits, OthersKept
  <2> QED BY <2>1, <2>3, FreeInv
<1> QED BY <1>4, <1>5 DEF jobmgr_unload

-----------------------------------------------------------------------------
(* The handlers *)

\* CoreInv is about heap, timer and proc alone.
LEMMA CoreStutter ==
  ASSUME CoreInv, UNCHANGED <<heap, timer, proc>>
  PROVE  CoreInv'
BY DEF CoreInv, CoreTypeOK, LabelsUnique, PidIsOurs, StateMatchesPid, TimerSafe,
       TimerKnown, UnloadHasNoTimer, StoppingWasTermed, UntrackedWasTermed,
       jobs, job_find_by_pid

\* Load(): a refused plist changes nothing, an accepted one is a new job.
LEMMA LoadInv ==
  ASSUME CoreInv, NEW f \in File, NEW o \in calloc, NEW err, Load(f, o, err),
         UNCHANGED timer
  PROVE  CoreInv'
<1> DEFINE c == jobmgr_load_plist_file(f)
           j == NewJob(c)
<1>1. CASE UNCHANGED <<heap, proc>>
  BY <1>1, CoreStutter
<1>2. CASE /\ c # NULL /\ o # NULL /\ jobmgr_insert(c)
           /\ \/ \E rc \in {0, 1} : job_spawn(o, j, proc, rc)
              \/ heap' = [heap EXCEPT ![o] = j] /\ UNCHANGED proc
  <2>1. o \in Obj /\ o \notin jobs /\ c \in JobConf /\ heap[o] = NULL
    BY <1>2, ConfType DEF calloc, jobs
  <2>2. /\ j \in Job /\ j.state = "LOADED" /\ j.p = NULL /\ j.conf = c
        /\ j.restart_timer = NULL
    BY <2>1, JobType DEF NewJob
  <2>3. \A x \in jobs \ {o} : heap[x].conf.label # j.conf.label
    BY <1>2, <2>2 DEF jobmgr_insert, jobmgr_find_by_label
  <2>4. OthersKept(o, proc, timer')
    BY DEF CoreInv, CoreTypeOK, OthersKept
  <2>5. \A t \in Tid : timer'[t].armed =>
          timer'[t] = timer[t] /\ timer[t].job # o
    BY <2>1 DEF CoreInv, TimerSafe
  <2>6. Fits(o, j, proc, timer')
    BY <2>1, <2>2, <2>3, <2>4, <2>5 DEF Fits
  <2>7. CASE \E rc \in {0, 1} : job_spawn(o, j, proc, rc)
    BY <2>1, <2>6, <2>7, SpawnInv
  <2>8. CASE heap' = [heap EXCEPT ![o] = j] /\ UNCHANGED proc
    BY <2>1, <2>6, <2>8, UpdateInv
  <2> QED BY <1>2, <2>7, <2>8
<1> QED BY <1>1, <1>2 DEF Load

\* `launchctl start', from whatever state.
LEMMA StartInv ==
  ASSUME CoreInv, NEW l, NEW err, handle_start(l, err)
  PROVE  CoreInv'
<1>1. CASE UNCHANGED coreVars
  BY <1>1, CoreStutter DEF coreVars
<1>2. CASE \E o \in jobmgr_find_by_label(l) :
             /\ \E rc \in {0, 1} : job_spawn(o, heap[o], proc, rc)
             /\ UNCHANGED timer
  <2>1. PICK o \in jobmgr_find_by_label(l) :
          /\ \E rc \in {0, 1} : job_spawn(o, heap[o], proc, rc)
          /\ UNCHANGED timer
    BY <1>2
  <2>2. o \in jobs /\ o \in Obj
    BY DEF jobmgr_find_by_label, jobs
  <2>3. Fits(o, heap[o], proc, timer')
    BY <2>1, <2>2, SameFits
  <2> QED BY <2>1, <2>2, <2>3, SpawnInv
<1> QED BY <1>1, <1>2 DEF handle_start

\* `launchctl stop'.
LEMMA StopInv ==
  ASSUME CoreInv, NEW l, NEW err, handle_stop(l, err)
  PROVE  CoreInv'
<1>1. CASE UNCHANGED coreVars
  BY <1>1, CoreStutter DEF coreVars
<1>2. CASE \E o \in jobmgr_find_by_label(l) :
             /\ heap[o].state = "RUNNING" /\ heap[o].p # NULL
             /\ \E rc \in {0, 1} :
                  /\ kill(heap[o].p, rc)
                  /\ heap' = IF rc = 0
                             THEN [heap EXCEPT ![o].state = "STOPPING"]
                             ELSE heap
             /\ UNCHANGED timer
  <2>1. PICK o \in jobmgr_find_by_label(l), rc \in {0, 1} :
          /\ heap[o].state = "RUNNING" /\ heap[o].p # NULL
          /\ kill(heap[o].p, rc)
          /\ heap' = IF rc = 0 THEN [heap EXCEPT ![o].state = "STOPPING"]
                     ELSE heap
          /\ UNCHANGED timer
    BY <1>2
  <2> DEFINE q == heap[o].p
             k == IF rc = 0 THEN [heap[o] EXCEPT !.state = "STOPPING"]
                  ELSE heap[o]
  <2>2. o \in jobs /\ o \in Obj /\ heap[o] \in Job /\ proc \in [Pid -> Process]
    BY TableType DEF jobmgr_find_by_label, CoreInv, CoreTypeOK
  <2>3. q \in Pid
    BY <2>1, <2>2 DEF Job
  <2>4. /\ proc' \in [Pid -> Process]
        /\ proc'[q].st = proc[q].st /\ proc'[q].owner = proc[q].owner
        /\ proc'[q].termed
        /\ \A r \in Pid : r # q => proc'[r] = proc[r]
    BY <2>1, <2>2, <2>3, KillMarks
  <2>5. /\ k \in Job /\ k.p = q /\ k.state # "LOADED"
        /\ k.conf = heap[o].conf /\ k.restart_timer = heap[o].restart_timer
        /\ k.pending_unload = heap[o].pending_unload
    BY <2>1, <2>2 DEF Job, JobState
  <2>6. heap' = [heap EXCEPT ![o] = k]
    <3>1. heap \in [Obj -> Job \cup {NULL}]
      BY DEF CoreInv, CoreTypeOK
    <3> QED BY <2>1, <2>2, <3>1
  <2>7. Fits(o, heap[o], proc, timer)
    BY <2>2, SameFits
  <2>8. \A x \in jobs \ {o} : heap[x].p # NULL => heap[x].p \in Pid \ {q}
    <3> SUFFICES ASSUME NEW x \in jobs \ {o}, heap[x].p # NULL
                 PROVE  heap[x].p \in Pid \ {q}
      OBVIOUS
    <3>1. heap[x].p \in Pid
      BY TableType DEF CoreInv, Job
    <3>2. heap[x].p # q
      BY <2>1, <2>2 DEF CoreInv, PidIsOurs, LabelsUnique
    <3> QED BY <3>1, <3>2
  <2>9. OthersKept(o, proc', timer')
    BY <2>1, <2>4, <2>7, <2>8 DEF Fits, OthersKept
  <2>10. \A r \in Pid : k.p = r \/ proc'[r] = proc[r]
    BY <2>4, <2>5
  <2>11. k.p # NULL /\ proc'[k.p].st # "none" /\ proc'[k.p].owner = k.conf.label
    BY <2>1, <2>4, <2>5, <2>7 DEF Fits
  <2> HIDE DEF k
  <2>12. Fits(o, k, proc', timer')
    BY <2>1, <2>4, <2>5, <2>7, <2>9, <2>10, <2>11 DEF Fits
  <2> QED BY <2>2, <2>6, <2>12, UpdateInv
<1> QED BY <1>1, <1>2 DEF handle_stop

\* A change of process q that no job holds, to something that is not a live
\* child of launchd.
LEMMA StrangerInv ==
  ASSUME CoreInv, NEW q \in Pid, NEW w \in Process,
         \A o \in jobs : heap[o].p # q,
         w.st # "live" \/ w.owner = NULL,
         proc' = [proc EXCEPT ![q] = w], UNCHANGED <<heap, timer>>
  PROVE  CoreInv'
<1> USE DEF CoreInv
<1>1. CoreTypeOK' /\ jobs' = jobs
  BY DEF CoreTypeOK, jobs
<1>2. /\ proc'[q] = w
      /\ \A r \in Pid : r # q => proc'[r] = proc[r]
  BY DEF CoreTypeOK
<1>3. \A o \in jobs : heap[o].p # NULL =>
        heap[o].p \in Pid /\ proc'[heap[o].p] = proc[heap[o].p]
  <2> SUFFICES ASSUME NEW o \in jobs, heap[o].p # NULL
               PROVE  heap[o].p \in Pid /\ proc'[heap[o].p] = proc[heap[o].p]
    OBVIOUS
  <2>1. heap[o].p \in Pid
    BY TableType DEF Job
  <2> QED BY <2>1, <1>2
<1>4. LabelsUnique' /\ StateMatchesPid' /\ UnloadHasNoTimer'
  BY <1>1 DEF LabelsUnique, StateMatchesPid, UnloadHasNoTimer
<1>5. TimerSafe' /\ TimerKnown'
  BY <1>1 DEF TimerSafe, TimerKnown
<1>6. PidIsOurs' /\ StoppingWasTermed'
  BY <1>1, <1>3 DEF PidIsOurs, StoppingWasTermed
<1>7. UntrackedWasTermed'
  BY <1>1, <1>2 DEF UntrackedWasTermed, job_find_by_pid
<1> QED BY <1>1, <1>4, <1>5, <1>6, <1>7

\* The exit of a child.
LEMMA ExitInv ==
  ASSUME CoreInv, NEW q \in Pid, ChildExits(q)
  PROVE  CoreInv'
<1> USE DEF CoreInv
<1>1. /\ proc \in [Pid -> Process] /\ proc[q] \in Process
      /\ proc' = [proc EXCEPT ![q] = [proc[q] EXCEPT !.st = "zombie"]]
      /\ UNCHANGED <<heap, timer>>
  BY DEF ChildExits, CoreTypeOK
<1> DEFINE w == [proc[q] EXCEPT !.st = "zombie"]
<1>2. /\ w \in Process /\ w.st = "zombie" /\ w.owner = proc[q].owner
      /\ w.termed = proc[q].termed
  BY <1>1 DEF Process
<1>3. CoreTypeOK' /\ jobs' = jobs
  BY <1>1, <1>2 DEF CoreTypeOK, jobs
<1>4. proc'[q] = w /\ \A r \in Pid : r # q => proc'[r] = proc[r]
  BY <1>1
<1>5. \A r \in Pid : /\ proc'[r].owner = proc[r].owner
                     /\ proc'[r].termed = proc[r].termed
                     /\ proc[r].st # "none" => proc'[r].st # "none"
                     /\ proc'[r].st = "live" => proc[r].st = "live"
  BY <1>2, <1>4
<1>6. \A o \in jobs : heap[o].p # NULL => heap[o].p \in Pid
  BY TableType DEF Job
<1>7. LabelsUnique' /\ StateMatchesPid' /\ UnloadHasNoTimer'
  BY <1>1, <1>3 DEF LabelsUnique, StateMatchesPid, UnloadHasNoTimer
<1>8. TimerSafe' /\ TimerKnown'
  BY <1>1, <1>3 DEF TimerSafe, TimerKnown
<1>9. PidIsOurs' /\ StoppingWasTermed'
  BY <1>1, <1>3, <1>5, <1>6 DEF PidIsOurs, StoppingWasTermed
<1>10. UntrackedWasTermed'
  BY <1>1, <1>3, <1>5 DEF UntrackedWasTermed, job_find_by_pid
<1> QED BY <1>3, <1>7, <1>8, <1>9, <1>10

\* A second passes: only ages and remaining delays change.
LEMMA TickInv ==
  ASSUME CoreInv, Tick
  PROVE  CoreInv'
<1> USE DEF CoreInv
<1> DEFINE Older(j) == [j EXCEPT !.age = @ + 1]
           Sooner(m) == [m EXCEPT !.rem = @ - 1]
<1>1. \A j \in Job : j.age # Interval =>
        /\ Older(j) \in Job /\ Older(j).conf = j.conf /\ Older(j).p = j.p
        /\ Older(j).state = j.state /\ Older(j).restart_timer = j.restart_timer
        /\ Older(j).pending_unload = j.pending_unload
  <2> SUFFICES ASSUME NEW j \in Job, j.age # Interval
               PROVE  /\ Older(j) \in Job /\ Older(j).conf = j.conf
                      /\ Older(j).p = j.p /\ Older(j).state = j.state
                      /\ Older(j).restart_timer = j.restart_timer
                      /\ Older(j).pending_unload = j.pending_unload
    OBVIOUS
  <2>1. j.age + 1 \in 0..Interval
    BY CoreAssumption DEF CoreAssumption, Job
  <2> QED BY <2>1 DEF Job
<1>2. \A m \in Timer : m.rem # 0 =>
        /\ Sooner(m) \in Timer /\ Sooner(m).armed = m.armed
        /\ Sooner(m).job = m.job
  <2> SUFFICES ASSUME NEW m \in Timer, m.rem # 0
               PROVE  /\ Sooner(m) \in Timer /\ Sooner(m).armed = m.armed
                      /\ Sooner(m).job = m.job
    OBVIOUS
  <2>1. m.rem - 1 \in 0..Interval
    BY CoreAssumption DEF CoreAssumption, Timer
  <2> QED BY <2>1 DEF Timer
<1>3. \A o \in Obj : heap[o] \in Job \cup {NULL}
  BY DEF CoreTypeOK
<1>4. \A t \in Tid : timer[t] \in Timer
  BY DEF CoreTypeOK
<1>5. \A o \in Obj : \/ heap'[o] = heap[o]
                     \/ /\ heap[o] \in Job /\ heap[o].age # Interval
                        /\ heap'[o] = Older(heap[o])
  BY <1>3 DEF Tick
<1>6. \A t \in Tid : \/ timer'[t] = timer[t]
                     \/ timer[t].rem # 0 /\ timer'[t] = Sooner(timer[t])
  BY DEF Tick
<1>7. \A o \in Obj :
        /\ heap'[o] \in Job \cup {NULL}
        /\ heap'[o] = NULL <=> heap[o] = NULL
        /\ heap[o] # NULL =>
             /\ heap'[o].conf = heap[o].conf /\ heap'[o].p = heap[o].p
             /\ heap'[o].state = heap[o].state
             /\ heap'[o].restart_timer = heap[o].restart_timer
             /\ heap'[o].pending_unload = heap[o].pending_unload
  <2>1. NULL \notin Job
    BY CoreAssumption DEF CoreAssumption
  <2> TAKE o \in Obj
  <2>2. CASE heap'[o] = heap[o]
    BY <2>2, <1>3
  <2>3. CASE /\ heap[o] \in Job /\ heap[o].age # Interval
             /\ heap'[o] = Older(heap[o])
    <3> HIDE DEF Older
    <3> QED BY <2>1, <2>3, <1>1
  <2> QED BY <2>2, <2>3, <1>5
<1>8. \A t \in Tid : /\ timer'[t] \in Timer
                     /\ timer'[t].armed = timer[t].armed
                     /\ timer'[t].job = timer[t].job
  BY <1>2, <1>4, <1>6
<1>9. heap' \in [Obj -> Job \cup {NULL}] /\ timer' \in [Tid -> Timer]
  <2>1. heap' = [o \in Obj |-> heap'[o]] /\ timer' = [t \in Tid |-> timer'[t]]
    BY DEF Tick
  <2> QED BY <2>1, <1>7, <1>8
<1>10. CoreTypeOK' /\ jobs' = jobs /\ proc' = proc
  BY <1>7, <1>9 DEF CoreTypeOK, Tick, jobs
<1>11. \A o \in jobs :
         /\ heap'[o].conf = heap[o].conf /\ heap'[o].p = heap[o].p
         /\ heap'[o].state = heap[o].state
         /\ heap'[o].restart_timer = heap[o].restart_timer
         /\ heap'[o].pending_unload = heap[o].pending_unload
  BY <1>7 DEF jobs
<1>12. LabelsUnique' /\ StateMatchesPid' /\ UnloadHasNoTimer'
  BY <1>10, <1>11 DEF LabelsUnique, StateMatchesPid, UnloadHasNoTimer
<1>13. TimerSafe'
  BY <1>8, <1>10, <1>11 DEF TimerSafe
<1>14. TimerKnown'
  <2> SUFFICES ASSUME NEW o \in jobs', heap'[o].restart_timer # NULL
               PROVE  /\ timer'[heap'[o].restart_timer].armed
                      /\ timer'[heap'[o].restart_timer].job = o
    BY DEF TimerKnown
  <2>1. o \in jobs /\ heap'[o].restart_timer = heap[o].restart_timer
    BY <1>10, <1>11
  <2>2. heap[o].restart_timer \in Tid
    BY <2>1, TableType DEF Job
  <2> QED BY <2>1, <2>2, <1>8 DEF TimerKnown
<1>15. PidIsOurs' /\ StoppingWasTermed'
  BY <1>10, <1>11 DEF PidIsOurs, StoppingWasTermed
<1>16. UntrackedWasTermed'
  BY <1>10, <1>11 DEF UntrackedWasTermed, job_find_by_pid
<1> QED BY <1>10, <1>12, <1>13, <1>14, <1>15, <1>16

-----------------------------------------------------------------------------
(* The specification *)

\* The invariant holds when main() begins.
LEMMA InitInv == Init => IInv
<1> SUFFICES ASSUME Init PROVE IInv
  OBVIOUS
<1>1. jobs = {}
  BY DEF Init, CoreInit, jobs
<1>2. \A t \in Tid : ~timer[t].armed
  BY DEF Init, CoreInit, Idle
<1>3. \A q \in Pid : proc[q].st = "none"
  BY DEF Init, CoreInit, NoProc
<1>4. CoreTypeOK
  BY CoreAssumption
  DEF CoreAssumption, Init, CoreInit, CoreTypeOK, Idle, Timer, NoProc, Process
<1>5. CoreInv
  BY <1>1, <1>2, <1>3, <1>4
  DEF CoreInv, LabelsUnique, PidIsOurs, StateMatchesPid, TimerSafe, TimerKnown,
      UnloadHasNoTimer, StoppingWasTermed, UntrackedWasTermed
<1>6. TypeOK
  BY <1>4, LaunchdAssumption
  DEF TypeOK, CoreTypeOK, Init, CoreInit, LaunchdAssumption
<1> QED BY <1>3, <1>5, <1>6 DEF IInv, ZombieSignalled

\* Every step keeps the table consistent.
LEMMA NextCoreInv == IInv /\ [Next]_vars => CoreInv'
<1> SUFFICES ASSUME IInv, [Next]_vars PROVE CoreInv'
  OBVIOUS
<1>0. CoreInv
  BY DEF IInv
<1>1. CASE UNCHANGED coreVars
  BY <1>0, <1>1, CoreStutter DEF coreVars
<1>2. CASE LoadStartupPlist
  <2>1. CASE StartupPlist # NULL
    <3>1. PICK o \in calloc, err \in Errno :
            Load(StartupPlist, o, err) /\ UNCHANGED timer
      BY <1>2, <2>1 DEF LoadStartupPlist
    <3>2. StartupPlist \in File
      BY <2>1, LaunchdAssumption DEF LaunchdAssumption
    <3> QED BY <1>0, <3>1, <3>2, LoadInv
  <2>2. CASE StartupPlist = NULL
    BY <1>1, <1>2, <2>2 DEF LoadStartupPlist
  <2> QED BY <2>1, <2>2
<1>3. CASE ScanOne
  <2>1. PICK f \in Head(todo), o \in calloc, err \in Errno :
          Load(f, o, err) /\ UNCHANGED timer
    BY <1>3 DEF ScanOne
  <2>2. Head(todo) \in SUBSET File
    BY <1>3 DEF ScanOne, IInv, TypeOK
  <2> QED BY <1>0, <2>1, <2>2, LoadInv
<1>4. CASE \E q \in Pid : SigchldReap(q)
  <2>1. PICK q \in Pid : SigchldReap(q)
    BY <1>4
  <2>2. CASE /\ job_find_by_pid(q) = {}
             /\ proc' = [proc EXCEPT ![q] = NoProc]
             /\ UNCHANGED <<heap, timer>>
    <3>1. \A o \in jobs : heap[o].p # q
      BY <2>2 DEF job_find_by_pid
    <3>2. NoProc \in Process /\ NoProc.st # "live"
      BY DEF NoProc, Process
    <3> QED BY <1>0, <2>2, <3>1, <3>2, StrangerInv
  <2>3. CASE \E o \in job_find_by_pid(q) :
               job_reap(o, [proc EXCEPT ![q] = NoProc])
    BY <1>0, <2>3, ReapInv
  <2> QED BY <2>1, <2>2, <2>3 DEF SigchldReap
<1>5. CASE \E t \in Tid : TimerFires(t)
  BY <1>0, <1>5, TimerInv DEF TimerFires
<1>6. CASE \E f \in File, err \in Errno : handle_load(f, err)
  BY <1>0, <1>6, LoadInv DEF handle_load
<1>7. CASE \E l \in Label, err \in Errno : handle_unload(l, err)
  <2>1. CASE \E l \in Label : \E o \in jobmgr_find_by_label(l) : jobmgr_unload(o)
    BY <1>0, <2>1, UnloadInv DEF jobmgr_find_by_label
  <2> QED BY <1>1, <1>7, <2>1 DEF handle_unload
<1>8. CASE \E l \in Label, err \in Errno : handle_start(l, err)
  BY <1>0, <1>8, StartInv
<1>9. CASE \E l \in Label, err \in Errno : handle_stop(l, err)
  BY <1>0, <1>9, StopInv
<1>10. CASE \E q \in Pid : ChildExits(q)
  BY <1>0, <1>10, ExitInv
<1>11. CASE \E q \in Pid : Reparent(q)
  <2>1. PICK q \in Pid : Reparent(q)
    BY <1>11
  <2> DEFINE w == [st |-> "live", owner |-> NULL, termed |-> FALSE]
  <2>2. w \in Process /\ w.owner = NULL
    BY DEF Process
  <2>3. \A o \in jobs : heap[o].p # q
    <3> SUFFICES ASSUME NEW o \in jobs, heap[o].p = q PROVE FALSE
      OBVIOUS
    <3>1. q # NULL
      BY CoreAssumption DEF CoreAssumption
    <3> QED BY <3>1, <1>0, <2>1 DEF CoreInv, PidIsOurs, Reparent
  <2>4. proc' = [proc EXCEPT ![q] = w] /\ UNCHANGED <<heap, timer>>
    BY <2>1 DEF Reparent
  <2> QED BY <1>0, <2>2, <2>3, <2>4, StrangerInv
<1>12. CASE TimePasses
  BY <1>0, <1>12, TickInv DEF TimePasses
<1>13. CASE \/ ScanDirDone \/ EnterMainLoop \/ SigchldBegin \/ SigchldReturn
            \/ launchd_shutdown
  BY <1>1, <1>13
  DEF ScanDirDone, EnterMainLoop, SigchldBegin, SigchldReturn, launchd_shutdown
<1>14. CASE UNCHANGED vars
  BY <1>1, <1>14 DEF vars
<1> QED
  BY <1>2, <1>3, <1>4, <1>5, <1>6, <1>7, <1>8, <1>9, <1>10, <1>11, <1>12,
     <1>13, <1>14 DEF Next

\* Every step keeps the types of the control state.
LEMMA NextTypeOK == IInv /\ [Next]_vars => TypeOK'
<1> SUFFICES ASSUME IInv, [Next]_vars PROVE TypeOK'
  OBVIOUS
<1>1. CoreTypeOK'
  BY NextCoreInv DEF CoreInv
<1>2. /\ singleton \in Obj \cup {NULL} /\ singleton_done \in BOOLEAN
      /\ pc \in {"plist", "scan", "ipc", "main", "reap", "exited"}
      /\ todo \in Seq(SUBSET File) /\ sigchld \in BOOLEAN
  BY DEF IInv, TypeOK
<1> SUFFICES
      /\ singleton' \in Obj \cup {NULL} /\ singleton_done' \in BOOLEAN
      /\ pc' \in {"plist", "scan", "ipc", "main", "reap", "exited"}
      /\ todo' \in Seq(SUBSET File) /\ sigchld' \in BOOLEAN
  BY <1>1 DEF TypeOK, CoreTypeOK
<1> USE <1>2
<1>3. CASE LoadStartupPlist
  BY <1>3 DEF LoadStartupPlist, coreVars, calloc
<1>4. CASE ScanOne
  <2>1. PICK f \in Head(todo) : todo' = [todo EXCEPT ![1] = @ \ {f}]
    BY <1>4 DEF ScanOne
  <2>2. todo' \in Seq(SUBSET File)
    BY <2>1, <1>4 DEF ScanOne
  <2> QED BY <1>4, <2>2 DEF ScanOne
<1>5. CASE ScanDirDone
  BY <1>5 DEF ScanDirDone, coreVars
<1>6. CASE EnterMainLoop \/ SigchldBegin \/ SigchldReturn \/ launchd_shutdown
  BY <1>6
  DEF EnterMainLoop, SigchldBegin, SigchldReturn, launchd_shutdown, coreVars
<1>7. CASE \E q \in Pid : SigchldReap(q)
  BY <1>7
  DEF SigchldReap, job_reap, jobmgr_remove_and_free, Done
<1>8. CASE \E t \in Tid : TimerFires(t)
  BY <1>8 DEF TimerFires, restart_timer_fired, jobmgr_remove_and_free, Done
<1>9. CASE \E f \in File, err \in Errno : handle_load(f, err)
  BY <1>9, SMTT(30) DEF handle_load
<1>10. CASE \E l \in Label, err \in Errno :
              handle_unload(l, err) \/ handle_start(l, err) \/ handle_stop(l, err)
  BY <1>10
  DEF handle_unload, handle_start, handle_stop, jobmgr_unload,
      jobmgr_remove_and_free, Done, coreVars
<1>11. CASE (\E q \in Pid : ChildExits(q) \/ Reparent(q)) \/ TimePasses
  BY <1>11 DEF ChildExits, Reparent, TimePasses, Tick
<1>12. CASE UNCHANGED vars
  BY <1>12 DEF vars, coreVars
<1> QED
  BY <1>3, <1>4, <1>5, <1>6, <1>7, <1>8, <1>9, <1>10, <1>11, <1>12 DEF Next

NoNewZombie(pr) == \A q \in Pid : proc'[q].st = "zombie" => pr[q].st = "zombie"

\* job_spawn() makes no zombie.
LEMMA SpawnZombies ==
  ASSUME NEW o, NEW j, NEW pr \in [Pid -> Process], NEW rc,
         job_spawn(o, j, pr, rc)
  PROVE  NoNewZombie(pr)
<1>1. CASE proc' = pr
  BY <1>1 DEF NoNewZombie
<1>2. CASE \E q \in FreePid(pr) : proc' = [pr EXCEPT ![q] = Child(j)]
  <2>1. PICK q \in FreePid(pr) : proc' = [pr EXCEPT ![q] = Child(j)]
    BY <1>2
  <2>2. Child(j).st = "live"
    BY DEF Child
  <2> QED BY <2>1, <2>2 DEF NoNewZombie
<1> QED BY <1>1, <1>2 DEF job_spawn

\* Every step keeps ZombieSignalled.
LEMMA NextZombies == IInv /\ [Next]_vars => ZombieSignalled'
<1> SUFFICES ASSUME IInv, [Next]_vars PROVE ZombieSignalled'
  OBVIOUS
<1>0. CoreInv /\ ZombieSignalled /\ proc \in [Pid -> Process]
  BY DEF IInv, CoreInv, CoreTypeOK
<1>1. ASSUME NoNewZombie(proc), UNCHANGED <<pc, sigchld>>
      PROVE  ZombieSignalled'
  BY <1>0, <1>1 DEF ZombieSignalled, NoNewZombie
<1>2. CASE UNCHANGED proc /\ UNCHANGED <<pc, sigchld>>
  BY <1>1, <1>2 DEF NoNewZombie
<1>3. ASSUME NEW f, NEW o, NEW err, Load(f, o, err)
      PROVE  NoNewZombie(proc)
  BY <1>0, <1>3, SpawnZombies DEF Load, NoNewZombie
<1>4. CASE LoadStartupPlist
  <2>1. CASE StartupPlist = NULL
    BY <1>0, <1>4, <2>1 DEF LoadStartupPlist, ZombieSignalled, coreVars
  <2>2. CASE StartupPlist # NULL
    <3>1. NoNewZombie(proc) /\ UNCHANGED sigchld /\ pc = "plist"
      BY <1>3, <1>4, <2>2 DEF LoadStartupPlist
    <3> QED BY <1>0, <3>1 DEF ZombieSignalled, NoNewZombie
  <2> QED BY <2>1, <2>2
<1>5. CASE ScanOne
  BY <1>1, <1>3, <1>5 DEF ScanOne
<1>6. CASE ScanDirDone \/ EnterMainLoop \/ launchd_shutdown \/ SigchldBegin
  BY <1>0, <1>6
  DEF ScanDirDone, EnterMainLoop, launchd_shutdown, SigchldBegin,
      ZombieSignalled, coreVars
<1>7. CASE SigchldReturn
  BY <1>7 DEF SigchldReturn, ZombieSignalled, coreVars
<1>8. CASE \E q \in Pid : SigchldReap(q)
  BY <1>8 DEF SigchldReap, ZombieSignalled
<1>9. CASE \E t \in Tid : TimerFires(t)
  <2>1. NoNewZombie(proc) /\ UNCHANGED <<pc, sigchld>>
    <3>1. CASE UNCHANGED proc
      BY <1>9, <3>1 DEF NoNewZombie, TimerFires
    <3>2. CASE \E o, j, rc : job_spawn(o, j, proc, rc)
      BY <1>0, <1>9, <3>2, SpawnZombies DEF TimerFires
    <3> QED BY <1>9, <3>1, <3>2 DEF TimerFires, restart_timer_fired
  <2> QED BY <1>1, <2>1
<1>10. CASE \E f \in File, err \in Errno : handle_load(f, err)
  BY <1>1, <1>3, <1>10 DEF handle_load
<1>11. CASE \E l \in Label, err \in Errno : handle_start(l, err)
  <2>1. NoNewZombie(proc) /\ UNCHANGED <<pc, sigchld>>
    <3>1. CASE UNCHANGED proc
      BY <1>11, <3>1 DEF NoNewZombie, handle_start
    <3>2. CASE \E o, j, rc : job_spawn(o, j, proc, rc)
      BY <1>0, <1>11, <3>2, SpawnZombies DEF handle_start
    <3> QED BY <1>11, <3>1, <3>2 DEF handle_start, coreVars
  <2> QED BY <1>1, <2>1
<1>12. ASSUME NEW q \in Pid, NEW rc, kill(q, rc)
       PROVE  NoNewZombie(proc)
  BY <1>0, <1>12, KillMarks DEF NoNewZombie
<1>13. \A o \in jobs : heap[o].p # NULL => heap[o].p \in Pid
  BY <1>0, TableType DEF CoreInv, Job
<1>14. CASE \E l \in Label, err \in Errno : handle_stop(l, err)
  <2>1. CASE \E o \in jobs, rc \in {0, 1} : heap[o].p # NULL /\ kill(heap[o].p, rc)
    BY <1>1, <1>12, <1>13, <1>14, <2>1 DEF handle_stop
  <2> QED
    BY <1>2, <1>14, <2>1 DEF handle_stop, jobmgr_find_by_label, coreVars
<1>15. CASE \E l \in Label, err \in Errno : handle_unload(l, err)
  <2>1. CASE \E o \in jobs, rc \in {0, 1} : heap[o].p # NULL /\ kill(heap[o].p, rc)
    BY <1>1, <1>12, <1>13, <1>15, <2>1 DEF handle_unload
  <2>2. CASE UNCHANGED proc
    BY <1>2, <1>15, <2>2 DEF handle_unload
  <2>3. ASSUME NEW o \in jobs, jobmgr_unload(o), ~UNCHANGED proc
        PROVE  \E rc \in {0, 1} : heap[o].p # NULL /\ kill(heap[o].p, rc)
    <3>1. heap[o] \in Job
      BY <1>0, TableType DEF CoreInv
    <3>2. [Detach(heap[o]) EXCEPT !.pending_unload = TRUE].p = heap[o].p
      BY <3>1 DEF Detach, Job
    <3> QED BY <2>3, <3>2 DEF jobmgr_unload
  <2> QED
    BY <1>15, <2>1, <2>2, <2>3 DEF handle_unload, jobmgr_find_by_label, coreVars
<1>16. CASE \E q \in Pid : ChildExits(q)
  BY <1>16 DEF ChildExits, ZombieSignalled
<1>17. CASE \E q \in Pid : Reparent(q)
  BY <1>0, <1>1, <1>17 DEF Reparent, NoNewZombie
<1>18. CASE TimePasses
  BY <1>2, <1>18 DEF TimePasses, Tick
<1>19. CASE UNCHANGED vars
  BY <1>2, <1>19 DEF vars, coreVars
<1> QED
  BY <1>4, <1>5, <1>6, <1>7, <1>8, <1>9, <1>10, <1>11, <1>14, <1>15, <1>16,
     <1>17, <1>18, <1>19 DEF Next

\* The inductive invariant holds in every reachable state.
THEOREM Invariance == Spec => []IInv
<1>1. IInv /\ [Next]_vars => IInv'
  BY NextCoreInv, NextTypeOK, NextZombies DEF IInv
<1> QED BY InitInv, <1>1, PTL DEF Spec

\* Every variable keeps its type.
THEOREM TypeCorrect == Spec => []TypeOK
BY Invariance, PTL DEF IInv

\* Labels identify jobs.
THEOREM LabelSafety == Spec => []LabelsUnique
BY Invariance, PTL DEF IInv, CoreInv

\* launchd signals and reaps only the processes it spawned for the job, and
\* RUNNING, STOPPING and LOADED mean what they say about the pid.
THEOREM PidSafety == Spec => [](PidIsOurs /\ StateMatchesPid)
BY Invariance, PTL DEF IInv, CoreInv

\* No restart timer outlives its job: the handler of an armed one finds the
\* job that armed it.
THEOREM TimerSafety == Spec => []TimerSafe
BY Invariance, PTL DEF IInv, CoreInv

\* No job holds a restart_timer that was cancelled, fired or given to another:
\* no timer is cancelled twice.
THEOREM TimerHeld == Spec => []TimerKnown
BY Invariance, PTL DEF IInv, CoreInv

\* jobmgr_unload() leaves no timer behind: the pending_unload branch of the
\* timer's handler is dead code.
THEOREM UnloadCancels == Spec => []UnloadHasNoTimer
BY Invariance, PTL DEF IInv, CoreInv

\* No exited child is forgotten.
THEOREM ReapSafety == Spec => []ZombieSignalled
BY Invariance, PTL DEF IInv

\* STOPPING means that kill(SIGTERM) was called on the very process the job
\* holds, whatever was started or reaped in between.
THEOREM StopSafety == Spec => []StoppingWasTermed
BY Invariance, PTL DEF IInv, CoreInv

\* kill(SIGTERM) was called on every live child that launchd no longer tracks.
THEOREM TrackSafety == Spec => []UntrackedWasTermed
BY Invariance, PTL DEF IInv, CoreInv

=============================================================================
