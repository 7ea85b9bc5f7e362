----------------------------- MODULE LaunchdCore -----------------------------
(***************************************************************************)
(* The job table and the supervisor of src/src/core.m: how a Job is        *)
(* inserted, spawned, reaped, respawned under the KeepAlive throttle,      *)
(* unloaded and freed.                                                     *)
(*                                                                         *)
(* Everything in core.m runs on the one main queue, so each operator below *)
(* is a part of one atomic step of a module that extends this one.  A      *)
(* function that is called half way through a handler takes what the       *)
(* handler has computed so far as parameters: j is the current content of  *)
(* *o, pr the process table and tm the timers.                             *)
(***************************************************************************)
EXTENDS LaunchdPlist, Naturals

CONSTANTS
  Obj,        \* heap addresses a Job may live at
  Pid,        \* the process ids the kernel hands out
  Tid,        \* dispatch timers
  Interval,   \* throttle_interval(), in seconds
  Faults      \* the calls that may fail: a subset of {"spawn","kill","timer"}

VARIABLES
  heap,           \* heap[o]: the Job linked into the table at o, or NULL
  timer,          \* timer[t]: the libdispatch timer t
  proc,           \* proc[q]: what the kernel knows of process q
  singleton,      \* the startup singleton, or NULL
  singleton_done  \* it is gone and will not be respawned

coreVars == <<heap, timer, proc, singleton, singleton_done>>

\* JOB_STATE_REMOVED is declared in core.h and never assigned.
JobState == {"LOADED", "RUNNING", "STOPPING"}

\* `age' is the number of whole seconds since last_spawn_at, counted no
\* further than Interval: all the code asks of last_spawn_at.
Job ==
  [ conf : JobConf, state : JobState, p : Pid \cup {NULL}, age : 0..Interval,
    pending_unload : BOOLEAN, restart_timer : Tid \cup {NULL} ]

\* A one-shot timer; `job' is the pointer its handler captured.
Timer == [ armed : BOOLEAN, job : Obj \cup {NULL}, rem : 0..Interval ]

\* `owner' is the label the process was spawned for (NULL: reparented to
\* launchd by the kernel), `termed' whether launchd called kill(SIGTERM) on it.
Process ==
  [ st : {"none", "live", "zombie"}, owner : Label \cup {NULL},
    termed : BOOLEAN ]

Idle   == [armed |-> FALSE, job |-> NULL, rem |-> 0]
NoProc == [st |-> "none", owner |-> NULL, termed |-> FALSE]

ASSUME CoreAssumption ==
  /\ Interval \in Nat
  /\ NULL \notin Obj \cup Pid \cup Tid \cup Job
  /\ Faults \subseteq {"spawn", "kill", "timer"}

CoreInit ==
  /\ heap = [o \in Obj |-> NULL]
  /\ timer = [t \in Tid |-> Idle]
  /\ proc = [q \in Pid |-> NoProc]
  /\ singleton = NULL
  /\ singleton_done = FALSE

-----------------------------------------------------------------------------
(* The table *)

jobs == {o \in Obj : heap[o] # NULL}

\* The lookups return the set of matching jobs; {} is NULL.
jobmgr_find_by_label(l) == {o \in jobs : heap[o].conf.label = l}

\* Mutant: a label may be inserted twice.
jobmgr_insert_Dup(c) == TRUE

\* jobmgr_insert() accepts a job with configuration c.
jobmgr_insert(c) == jobmgr_find_by_label(c.label) = {}

job_find_by_pid(q) == {o \in jobs : heap[o].p = q}

\* The Job calloc() and jobmgr_load_plist_file() leave: never spawned.
NewJob(c) ==
  [ conf |-> c, state |-> "LOADED", p |-> NULL, age |-> Interval,
    pending_unload |-> FALSE, restart_timer |-> NULL ]

\* Mutant: the timer keeps running.
Cancel_Not(t, tm) == tm

\* dispatch_source_cancel() on the main queue: the handler of a cancelled
\* timer does not run, even if the timer was due.
Cancel(t, tm) == IF t = NULL THEN tm ELSE [tm EXCEPT ![t] = Idle]

\* Mutant: the pointer outlives the timer.
Detach_Not(j) == j

\* `restart_timer = NULL', always next to a cancel.
Detach(j) == [j EXCEPT !.restart_timer = NULL]

\* Mutants: the end of any job is taken for that of the singleton, or its
\* end is not noticed.
Done_Any(o) == TRUE
Done_Never(o) == singleton_done

\* singleton_done after the end of job o.
Done(o) == singleton_done \/ o = singleton

jobmgr_free(o, j, tm) ==
  /\ timer' = Cancel(j.restart_timer, tm)
  /\ heap' = [heap EXCEPT ![o] = NULL]

jobmgr_remove_and_free(o, j, tm) ==
  /\ jobmgr_free(o, j, tm)
  /\ singleton' = IF o = singleton THEN NULL ELSE singleton
  /\ singleton_done' = Done(o)

-----------------------------------------------------------------------------
(* Spawn, respawn, reap *)

FreePid(pr) == {q \in Pid : pr[q].st = "none"}

\* Mutant: a second process for a job that runs.
CanSpawn_Running(j) == ~j.conf.disabled

CanSpawn(j) == ~j.conf.disabled /\ j.state # "RUNNING"

\* Mutant: a job that was stopping stays so with its new process.
SpawnedJob_StillStopping(j, q) ==
  [j EXCEPT !.p = q, !.age = 0,
            !.state = IF @ = "STOPPING" THEN @ ELSE "RUNNING"]

SpawnedJob(j, q) == [j EXCEPT !.p = q, !.state = "RUNNING", !.age = 0]

Child(j) == [st |-> "live", owner |-> j.conf.label, termed |-> FALSE]

\* rc = 0 also when there is nothing to do.  A failed posix_spawn() leaves
\* the job as it was.
job_spawn(o, j, pr, rc) ==
  \/ /\ ~CanSpawn(j)
     /\ rc = 0
     /\ heap' = [heap EXCEPT ![o] = j]
     /\ proc' = pr
  \/ /\ CanSpawn(j)
     /\ rc = 0
     /\ \E q \in FreePid(pr) :
          /\ heap' = [heap EXCEPT ![o] = SpawnedJob(j, q)]
          /\ proc' = [pr EXCEPT ![q] = Child(j)]
  \/ /\ CanSpawn(j)
     /\ "spawn" \in Faults \/ FreePid(pr) = {}
     /\ rc = 1
     /\ heap' = [heap EXCEPT ![o] = j]
     /\ proc' = pr

\* Mutants: the throttle is a second too long, or too short.
RespawnDelay_Long(j) == Interval + 1 - j.age
RespawnDelay_Short(j) == IF j.age + 1 < Interval THEN Interval - j.age - 1 ELSE 0

\* What is left of the throttle interval; 0 when it is over.
RespawnDelay(j) == Interval - j.age

\* Mutant: dispatch_activate() is forgotten.
NewTimer_Inactive(o, delay) == [armed |-> FALSE, job |-> o, rem |-> delay]

NewTimer(o, delay) == [armed |-> TRUE, job |-> o, rem |-> delay]

\* Spawn now if the throttle allows it, else arm a timer for the rest.
\* Neither a failed spawn nor a failed dispatch_source_create() is retried.
schedule_respawn(o, j, pr) ==
  LET delay == RespawnDelay(j)
      tm    == Cancel(j.restart_timer, timer)
  IN  \/ /\ delay = 0
         /\ \E rc \in {0, 1} : job_spawn(o, j, pr, rc)
         /\ UNCHANGED timer
      \/ /\ delay > 0
         /\ proc' = pr
         /\ \E t \in Tid :
              /\ ~tm[t].armed
              /\ timer' = [tm EXCEPT ![t] = NewTimer(o, delay)]
              /\ heap' = [heap EXCEPT ![o] = [j EXCEPT !.restart_timer = t]]
      \/ /\ delay > 0
         /\ "timer" \in Faults
         /\ proc' = pr
         /\ timer' = tm
         /\ heap' = [heap EXCEPT ![o] = Detach(j)]

\* The event handler of timer t.  The source never fires twice.
restart_timer_fired(t) ==
  LET o  == timer[t].job
      j  == Detach(heap[o])
      tm == Cancel(heap[o].restart_timer, Cancel(t, timer))
  IN  IF j.pending_unload
      THEN jobmgr_remove_and_free(o, j, tm) /\ UNCHANGED proc
      ELSE /\ \E rc \in {0, 1} : job_spawn(o, j, proc, rc)
           /\ timer' = tm
           /\ UNCHANGED <<singleton, singleton_done>>

\* Mutants: job_reap() forgets one of its assignments, or one too many.
Reaped_KeepsPid(j) == [j EXCEPT !.state = "LOADED"]
Reaped_KeepsState(j) == [j EXCEPT !.p = NULL]
Reaped_DropsUnload(j) ==
  [j EXCEPT !.p = NULL, !.state = "LOADED", !.pending_unload = FALSE]

Reaped(j) == [j EXCEPT !.p = NULL, !.state = "LOADED"]

\* waitpid() returned the process of job o; pr is the table without it.
job_reap(o, pr) ==
  LET j == Reaped(heap[o])
  IN  \/ /\ j.pending_unload
         /\ jobmgr_remove_and_free(o, j, timer)
         /\ proc' = pr
      \/ /\ ~j.pending_unload /\ j.conf.keep_alive
         /\ schedule_respawn(o, j, pr)
         /\ UNCHANGED <<singleton, singleton_done>>
      \/ /\ ~j.pending_unload /\ ~j.conf.keep_alive
         /\ heap' = [heap EXCEPT ![o] = j]
         /\ proc' = pr
         /\ singleton_done' = Done(o)
         /\ UNCHANGED <<timer, singleton>>

-----------------------------------------------------------------------------
(* Unload *)

\* kill(q, SIGTERM): a zombie still takes the signal, without effect.  The
\* process is marked whether or not the call succeeds.
kill(q, rc) ==
  /\ rc = 0 \/ (rc = 1 /\ "kill" \in Faults)
  /\ proc' = [proc EXCEPT ![q].termed = TRUE]

\* Mutant: the timer is left to the reap, which does not look at it.
jobmgr_unload_KeepsTimer(o) ==
  LET j  == [heap[o] EXCEPT !.pending_unload = TRUE]
  IN  \/ /\ j.state = "RUNNING" /\ j.p # NULL
         /\ \E rc \in {0, 1} : kill(j.p, rc)
         /\ heap' = [heap EXCEPT ![o] = [j EXCEPT !.state = "STOPPING"]]
         /\ UNCHANGED <<timer, singleton, singleton_done>>
      \/ /\ j.state # "RUNNING" \/ j.p = NULL
         /\ jobmgr_remove_and_free(o, j, timer)
         /\ UNCHANGED proc

jobmgr_unload(o) ==
  LET tm == Cancel(heap[o].restart_timer, timer)
      j  == [Detach(heap[o]) EXCEPT !.pending_unload = TRUE]
  IN  \/ /\ j.state = "RUNNING" /\ j.p # NULL
         /\ \E rc \in {0, 1} : kill(j.p, rc)
         /\ heap' = [heap EXCEPT ![o] = [j EXCEPT !.state = "STOPPING"]]
         /\ timer' = tm
         /\ UNCHANGED <<singleton, singleton_done>>
      \/ /\ j.state # "RUNNING" \/ j.p = NULL
         /\ jobmgr_remove_and_free(o, j, tm)
         /\ UNCHANGED proc

-----------------------------------------------------------------------------
(* Time: one second passes for the throttle and for the armed timers. *)

Tick ==
  /\ heap' = [o \in Obj |->
                IF heap[o] = NULL \/ heap[o].age = Interval THEN heap[o]
                ELSE [heap[o] EXCEPT !.age = @ + 1]]
  /\ timer' = [t \in Tid |->
                IF timer[t].rem = 0 THEN timer[t]
                ELSE [timer[t] EXCEPT !.rem = @ - 1]]
  /\ UNCHANGED <<proc, singleton, singleton_done>>

=============================================================================
