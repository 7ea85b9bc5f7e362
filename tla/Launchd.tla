------------------------------- MODULE Launchd -------------------------------
(***************************************************************************)
(* The launchd process: main() (src/src/launchd.c), the dispatch sources   *)
(* of src/src/runtime.c and the command handlers of src/src/ipc.c, over    *)
(* the supervisor of LaunchdCore, together with the kernel and the         *)
(* children around it.                                                     *)
(*                                                                         *)
(* Every handler runs to completion on the main queue, so each is one      *)
(* action.  The exception is the SIGCHLD handler, whose waitpid() loop the *)
(* exits of children interleave with: one action per iteration.            *)
(***************************************************************************)
EXTENDS LaunchdCore, Sequences

CONSTANTS
  StartupPlist,   \* the file given with -p, or NULL
  ScanDirs,       \* the directories to scan, in order: a sequence of sets
                  \* of files
  DaemonMode,     \* -d, or PID 1: the command socket is open
  Pid1,           \* orphans are reparented to this process
  Commands        \* the launchctl commands clients send

VARIABLES
  pc,        \* where the main thread is
  todo,      \* what is left of the directories to scan
  sigchld    \* the SIGCHLD source has an event pending

vars == <<coreVars, pc, todo, sigchld>>

Errno == {"OK", "EINVAL", "EEXIST", "ENOENT", "EALREADY", "ESRCH", "EIO",
          "EPERM"}

ASSUME LaunchdAssumption ==
  /\ StartupPlist \in File \cup {NULL}
  /\ NULL \notin File
  /\ ScanDirs \in Seq(SUBSET File)
  /\ DaemonMode \in BOOLEAN /\ Pid1 \in BOOLEAN
  /\ Commands \subseteq {"load", "unload", "start", "stop", "shutdown"}
  /\ DaemonMode \/ (Commands \subseteq {"shutdown"} /\ StartupPlist # NULL)
  /\ Pid1 => DaemonMode /\ StartupPlist = NULL

Init ==
  /\ CoreInit
  /\ pc = "plist"
  /\ todo = ScanDirs
  /\ sigchld = FALSE

-----------------------------------------------------------------------------
(* Loading a plist: -p, the directory scan and `launchctl load' share it. *)

\* Mutant: RunAtLoad is ignored.
AtLoad_Always(c) == ~c.disabled

AtLoad(c) == c.run_at_load /\ ~c.disabled

calloc == IF Obj \ jobs = {} THEN {NULL} ELSE Obj \ jobs

\* The plist f is parsed into the new object o.  jobmgr_insert() refuses a
\* label that is in the table; a job whose spawn fails stays loaded.
Load(f, o, err) ==
  LET c == jobmgr_load_plist_file(f)
  IN  \/ /\ c = NULL \/ o = NULL
         /\ err = "EINVAL"
         /\ UNCHANGED <<heap, proc>>
      \/ /\ c # NULL /\ o # NULL
         /\ ~jobmgr_insert(c)
         /\ err = "EEXIST"
         /\ UNCHANGED <<heap, proc>>
      \/ /\ c # NULL /\ o # NULL
         /\ jobmgr_insert(c)
         /\ AtLoad(c)
         /\ \E rc \in {0, 1} : /\ job_spawn(o, NewJob(c), proc, rc)
                               /\ err = IF rc = 0 THEN "OK" ELSE "EIO"
      \/ /\ c # NULL /\ o # NULL
         /\ jobmgr_insert(c)
         /\ ~AtLoad(c)
         /\ err = "OK"
         /\ heap' = [heap EXCEPT ![o] = NewJob(c)]
         /\ UNCHANGED proc

(* main() *)

\* main() returns 1 when the -p plist cannot be loaded or spawned.
LoadStartupPlist ==
  /\ pc = "plist"
  /\ \/ /\ StartupPlist = NULL
        /\ pc' = "scan"
        /\ UNCHANGED coreVars
     \/ /\ StartupPlist # NULL
        /\ \E o \in calloc, err \in Errno :
             /\ Load(StartupPlist, o, err)
             /\ pc' = IF err = "OK" THEN "scan" ELSE "exited"
             /\ singleton' = IF err = "EINVAL" THEN NULL ELSE o
             /\ UNCHANGED <<timer, singleton_done>>
  /\ UNCHANGED <<todo, sigchld>>

\* Mutant: a plist that is refused ends the scan of its directory.
ScanOne_Aborts ==
  /\ pc = "scan" /\ todo # <<>>
  /\ \E f \in Head(todo), o \in calloc, err \in Errno :
       /\ Load(f, o, err)
       /\ todo' = [todo EXCEPT ![1] = IF err = "OK" THEN @ \ {f} ELSE {}]
  /\ UNCHANGED <<timer, singleton, singleton_done, pc, sigchld>>

\* One iteration of the readdir() loop.  A plist that does not load, or does
\* not spawn, is skipped.  A directory that opendir() refuses is skipped as
\* an empty one is.
ScanOne ==
  /\ pc = "scan" /\ todo # <<>>
  /\ \E f \in Head(todo), o \in calloc, err \in Errno :
       /\ Load(f, o, err)
       /\ todo' = [todo EXCEPT ![1] = @ \ {f}]
  /\ UNCHANGED <<timer, singleton, singleton_done, pc, sigchld>>

\* The end of a directory, and after the last one of the scan.
ScanDirDone ==
  /\ pc = "scan"
  /\ \/ /\ todo # <<>> /\ Head(todo) = {}
        /\ todo' = Tail(todo)
        /\ UNCHANGED pc
     \/ /\ todo = <<>>
        /\ pc' = "ipc"
        /\ UNCHANGED todo
  /\ UNCHANGED <<coreVars, sigchld>>

\* From here on dispatch_main() runs the handlers.  ipc_server_init() may
\* fail (bind, listen, chmod); then main() returns 1.
EnterMainLoop ==
  /\ pc = "ipc"
  /\ pc' \in IF DaemonMode THEN {"main", "exited"} ELSE {"main"}
  /\ UNCHANGED <<coreVars, todo, sigchld>>

-----------------------------------------------------------------------------
(* The dispatch sources of runtime.c *)

SigchldBegin ==
  /\ pc = "main" /\ sigchld
  /\ sigchld' = FALSE
  /\ pc' = "reap"
  /\ UNCHANGED <<coreVars, todo>>

\* waitpid() returned q.  launchd_shutdown() leaves the loop at once.
SigchldReap(q) ==
  /\ pc = "reap" /\ proc[q].st = "zombie"
  /\ LET pr == [proc EXCEPT ![q] = NoProc]
     IN  \/ /\ job_find_by_pid(q) = {}
            /\ proc' = pr
            /\ UNCHANGED <<heap, timer, singleton, singleton_done, pc>>
         \/ \E o \in job_find_by_pid(q) :
              /\ job_reap(o, pr)
              /\ pc' = IF singleton_done' /\ ~DaemonMode
                       THEN "exited" ELSE pc
  /\ UNCHANGED <<todo, sigchld>>

\* Mutant: the handler may return before it has drained the children.
SigchldReturn_Early ==
  /\ pc = "reap"
  /\ pc' = "main"
  /\ UNCHANGED <<coreVars, todo, sigchld>>

\* waitpid() returned 0 or ECHILD.
SigchldReturn ==
  /\ pc = "reap"
  /\ \A q \in Pid : proc[q].st # "zombie"
  /\ pc' = "main"
  /\ UNCHANGED <<coreVars, todo, sigchld>>

TimerFires(t) ==
  /\ pc = "main"
  /\ timer[t].armed /\ timer[t].rem = 0
  /\ restart_timer_fired(t)
  /\ UNCHANGED <<pc, todo, sigchld>>

\* SIGTERM, SIGINT, SIGHUP or `launchctl shutdown'.
launchd_shutdown ==
  /\ pc = "main"
  /\ "shutdown" \in Commands
  /\ pc' = "exited"
  /\ UNCHANGED <<coreVars, todo, sigchld>>

-----------------------------------------------------------------------------
(* The command handlers of ipc.c; err is what the reply says. *)

handle_load(f, err) ==
  /\ pc = "main" /\ "load" \in Commands
  /\ \E o \in calloc : Load(f, o, err)
  /\ UNCHANGED <<timer, singleton, singleton_done, pc, todo, sigchld>>

handle_unload(l, err) ==
  /\ pc = "main" /\ "unload" \in Commands
  /\ \/ /\ jobmgr_find_by_label(l) = {}
        /\ err = "ENOENT"
        /\ UNCHANGED coreVars
     \/ /\ err = "OK"
        /\ \E o \in jobmgr_find_by_label(l) : jobmgr_unload(o)
  /\ UNCHANGED <<pc, todo, sigchld>>

handle_start(l, err) ==
  /\ pc = "main" /\ "start" \in Commands
  /\ \/ /\ jobmgr_find_by_label(l) = {}
        /\ err = "ENOENT"
        /\ UNCHANGED coreVars
     \/ \E o \in jobmgr_find_by_label(l) :
          \/ /\ heap[o].state = "RUNNING"
             /\ err = "EALREADY"
             /\ UNCHANGED coreVars
          \/ /\ heap[o].state # "RUNNING"
             /\ \E rc \in {0, 1} :
                  /\ job_spawn(o, heap[o], proc, rc)
                  /\ err = IF rc = 0 THEN "OK" ELSE "EIO"
             /\ UNCHANGED <<timer, singleton, singleton_done>>
  /\ UNCHANGED <<pc, todo, sigchld>>

handle_stop(l, err) ==
  /\ pc = "main" /\ "stop" \in Commands
  /\ \/ /\ jobmgr_find_by_label(l) = {}
        /\ err = "ENOENT"
        /\ UNCHANGED coreVars
     \/ \E o \in jobmgr_find_by_label(l) :
          \/ /\ heap[o].state # "RUNNING" \/ heap[o].p = NULL
             /\ err = "ESRCH"
             /\ UNCHANGED coreVars
          \/ /\ heap[o].state = "RUNNING" /\ heap[o].p # NULL
             /\ \E rc \in {0, 1} :
                  /\ kill(heap[o].p, rc)
                  /\ heap' = IF rc = 0
                             THEN [heap EXCEPT ![o].state = "STOPPING"]
                             ELSE heap
                  /\ err = IF rc = 0 THEN "OK" ELSE "EPERM"
             /\ UNCHANGED <<timer, singleton, singleton_done>>
  /\ UNCHANGED <<pc, todo, sigchld>>

-----------------------------------------------------------------------------
(* The kernel and the children *)

\* Exits and further SIGCHLDs coalesce in one pending event.
ChildExits(q) ==
  /\ pc # "exited"
  /\ proc[q].st = "live"
  /\ proc' = [proc EXCEPT ![q].st = "zombie"]
  /\ sigchld' = TRUE
  /\ UNCHANGED <<heap, timer, singleton, singleton_done, pc, todo>>

\* A process nobody here spawned becomes a child of PID 1.
Reparent(q) ==
  /\ Pid1 /\ pc # "exited"
  /\ proc[q].st = "none"
  /\ proc' = [proc EXCEPT ![q] =
                [st |-> "live", owner |-> NULL, termed |-> FALSE]]
  /\ UNCHANGED <<heap, timer, singleton, singleton_done, pc, todo, sigchld>>

TimePasses == pc # "exited" /\ Tick /\ UNCHANGED <<pc, todo, sigchld>>

-----------------------------------------------------------------------------

Next ==
  \/ LoadStartupPlist \/ ScanOne \/ ScanDirDone \/ EnterMainLoop
  \/ SigchldBegin \/ SigchldReturn
  \/ \E q \in Pid : SigchldReap(q)
  \/ \E t \in Tid : TimerFires(t)
  \/ launchd_shutdown
  \/ \E f \in File, err \in Errno : handle_load(f, err)
  \/ \E l \in Label, err \in Errno :
       handle_unload(l, err) \/ handle_start(l, err) \/ handle_stop(l, err)
  \/ \E q \in Pid : ChildExits(q) \/ Reparent(q)
  \/ TimePasses

Spec == Init /\ [][Next]_vars

(***************************************************************************)
(* Fairness.  The kernel delivers what is due and the main queue is served *)
(* in order, so a handler whose event stays pending runs; the drain loop   *)
(* ends and a due timer fires even though the other can delay it.  Nothing *)
(* makes a client send a command or a child exit, except that a child that *)
(* got a SIGTERM exits sooner or later (there is no SIGKILL to follow).    *)
(***************************************************************************)
Fairness ==
  /\ WF_vars(LoadStartupPlist) /\ WF_vars(ScanOne) /\ WF_vars(ScanDirDone)
  /\ WF_vars(EnterMainLoop)
  /\ SF_vars(SigchldBegin) /\ SF_vars(SigchldReturn)
  /\ \A q \in Pid : WF_vars(SigchldReap(q))
  /\ \A t \in Tid : SF_vars(TimerFires(t))
  /\ \A q \in Pid :
       WF_vars("kill" \notin Faults /\ proc[q].termed /\ ChildExits(q))
  /\ WF_vars(TimePasses)

FairSpec == Spec /\ Fairness

-----------------------------------------------------------------------------
(* Invariants *)

TypeOK ==
  /\ heap \in [Obj -> Job \cup {NULL}]
  /\ timer \in [Tid -> Timer]
  /\ proc \in [Pid -> Process]
  /\ singleton \in Obj \cup {NULL}
  /\ singleton_done \in BOOLEAN
  /\ pc \in {"plist", "scan", "ipc", "main", "reap", "exited"}
  /\ todo \in Seq(SUBSET File)
  /\ sigchld \in BOOLEAN

\* No two jobs of the table share a label: the commands, which name a job by
\* its label, mean one job.
LabelsUnique ==
  \A o1, o2 \in jobs : heap[o1].conf.label = heap[o2].conf.label => o1 = o2

\* The pid a job holds is that of a process launchd spawned for this very
\* label and has not waited for: SIGTERM and job_reap() never reach another
\* process, even when the kernel reuses a pid.
PidIsOurs ==
  \A o \in jobs : heap[o].p # NULL =>
    /\ proc[heap[o].p].st # "none"
    /\ proc[heap[o].p].owner = heap[o].conf.label

\* A job is RUNNING or STOPPING exactly while it holds a pid.
StateMatchesPid ==
  \A o \in jobs : heap[o].state = "LOADED" <=> heap[o].p = NULL

\* An armed restart timer belongs to a job that is still in the table and
\* knows the timer: its handler never touches a freed Job, nor a new one at
\* the same address.
TimerSafe ==
  \A t \in Tid : timer[t].armed =>
    /\ timer[t].job \in jobs
    /\ heap[timer[t].job].restart_timer = t

\* Every restart_timer a job holds is armed for it: cancelling it twice, or
\* one that is gone, cannot happen.
TimerKnown ==
  \A o \in jobs : heap[o].restart_timer # NULL =>
    /\ timer[heap[o].restart_timer].armed
    /\ timer[heap[o].restart_timer].job = o

\* A job being unloaded has no restart timer: the pending_unload branch of
\* the timer's handler is never taken.
UnloadHasNoTimer ==
  \A o \in jobs : heap[o].pending_unload => heap[o].restart_timer = NULL

\* An exited child is never forgotten: its SIGCHLD is pending or the drain
\* loop is still running, whatever the coalescing of signals.
ZombieSignalled ==
  (\E q \in Pid : proc[q].st = "zombie") => sigchld \/ pc \in {"reap", "exited"}

\* A job is STOPPING only if kill(SIGTERM) was called on the very process it
\* holds ("sent SIGTERM, waiting for exit").
StoppingWasTermed ==
  \A o \in jobs : heap[o].state = "STOPPING" /\ heap[o].p # NULL
                    => proc[heap[o].p].termed

\* launchd loses track of a child it spawned only after it has called
\* kill(SIGTERM) on it.
UntrackedWasTermed ==
  \A q \in Pid : proc[q].st = "live" /\ proc[q].owner # NULL =>
    job_find_by_pid(q) # {} \/ proc[q].termed

\* When the scan is over, every label that some loadable plist carries has a
\* job, made from the -p plist if that carries the label, else from a plist
\* of the first directory that has it: one broken, duplicate or unspawnable
\* plist never keeps another from being loaded.
BootComplete ==
  LET Good(F)  == {f \in F : jobmgr_load_plist_file(f) # NULL}
      Confs(F) == {jobmgr_load_plist_file(f) : f \in Good(F)}
      Of(l, F) == {c \in Confs(F) : c.label = l}
      Sources  == <<IF StartupPlist = NULL THEN {} ELSE {StartupPlist}>>
                    \o ScanDirs
  IN  pc = "ipc" =>
        \A l \in Label, i \in DOMAIN Sources :
          /\ Of(l, Sources[i]) # {}
          /\ \A k \in 1..(i - 1) : Of(l, Sources[k]) = {}
          => \E o \in jobs : heap[o].conf \in Of(l, Sources[i])

\* A job that is to start at load was started by the boot, unless its spawn
\* failed, and a job that is not was left alone.
BootSpawns ==
  pc = "ipc" /\ "spawn" \notin Faults =>
    \A o \in jobs :
      heap[o].p # NULL <=> heap[o].conf.run_at_load /\ ~heap[o].conf.disabled

-----------------------------------------------------------------------------
(* Action properties *)

\* A job that is in the table before and after the step is given a process.
Spawned(o) ==
  /\ o \in jobs /\ heap'[o] # NULL
  /\ heap'[o].p # NULL /\ heap'[o].age = 0
  /\ heap'[o].p # heap[o].p \/ heap[o].age # 0

\* The step is a `launchctl start' that is carried out.
ByHand == \E l \in Label : handle_start(l, "OK")

\* The restart timer of a job that was started by hand, and then stopped,
\* before the timer was due.
LeftOver(o) ==
  pc = "main" /\ heap[o].state = "STOPPING" /\ heap[o].restart_timer # NULL

\* "KeepAlive will respawn if configured (subject to the 10s throttle)", "a
\* 10s minimum throttle anchored at the prior spawn time": a respawn launchd
\* decides on itself, at once or from the timer, comes at least Interval
\* seconds after the job's previous spawn, even if that was by hand.
RespawnThrottled ==
  [][\A o \in Obj : Spawned(o) /\ ~ByHand => heap[o].age = Interval]_vars

\* The one way schedule_respawn() lets a respawn come sooner than Interval
\* seconds after the job's previous spawn is a timer that outlived a
\* `launchctl start' and fires while the job is stopping.  After any other
\* sequence of starts, stops, exits and loads the throttle holds.
ThrottleKept ==
  [][\A o \in Obj : Spawned(o) /\ ~ByHand /\ ~LeftOver(o)
       => heap[o].age = Interval]_vars

\* A job being unloaded is not started again except by hand: the timer is
\* cancelled and the reap of its process frees it instead of respawning it,
\* also when a `launchctl start' gave it another process meanwhile.
NoRespawnAfterUnload ==
  [][\A o \in Obj : Spawned(o) /\ ~ByHand => ~heap[o].pending_unload]_vars

\* "Reparented orphan we don't supervise": a process that sigchld_handler()
\* reaps without finding its job was not spawned by launchd.
OrphansAreReparented ==
  [][\A q \in Pid : SigchldReap(q) /\ job_find_by_pid(q) = {}
       => proc[q].owner = NULL]_vars

\* The SIGCHLD handler ends launchd -f -p only when the process of the -p job
\* is gone and was not replaced.
ExitsAfterSingleton ==
  [][pc = "reap" /\ pc' = "exited" =>
       \A q \in Pid : proc'[q].st # "none" =>
         proc'[q].owner # jobmgr_load_plist_file(StartupPlist).label]_vars

-----------------------------------------------------------------------------
(* Liveness *)

\* Every child that exits is waited for, or launchd exits.
ZombiesReaped ==
  \A q \in Pid : proc[q].st = "zombie" ~> proc[q].st # "zombie" \/ pc = "exited"

Exited(o) == o \in jobs /\ heap[o].p # NULL /\ proc[heap[o].p].st = "zombie"

Up(o) == o \in jobs /\ heap[o].p # NULL /\ proc[heap[o].p].st = "live"

\* A KeepAlive job whose process exits is running again in the end, unless it
\* is unloaded or launchd exits.
KeepAliveRespawns ==
  \A o \in Obj :
    Exited(o) /\ heap[o].conf.keep_alive
      ~> Up(o) \/ heap[o] = NULL \/ pc = "exited"

\* "If running, SIGTERM and mark pending_unload - actual removal happens on
\* reap": a job being unloaded is removed in the end.
UnloadCompletes ==
  \A o \in Obj :
    (o \in jobs /\ heap[o].pending_unload)
      ~> heap[o] = NULL \/ pc = "exited"

\* launchd -f -p exits in the end once its job, not a KeepAlive one, is gone.
SingletonExits ==
  (\E o \in jobs : o = singleton /\ Exited(o) /\ ~heap[o].conf.keep_alive)
    ~> DaemonMode \/ pc = "exited"

=============================================================================
