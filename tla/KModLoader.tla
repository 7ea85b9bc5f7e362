----------------------------- MODULE KModLoader -----------------------------
(***************************************************************************)
(* kmodloader: at boot it asks pciconf for display controllers, devmatch   *)
(* for drivers of other devices and kldstat for what is loaded, and loads  *)
(* the kernel modules that are missing.  Each tool writes into two pipes   *)
(* that are read, if at all, only when the tool has exited.                *)
(***************************************************************************)
EXTENDS Naturals, SequencesExt

CONSTANTS Kld,         \* kernel modules
          Blank,       \* an empty line
          None,
          Machines,    \* [gpus: lines of pciconf, matches: lines of devmatch]
          Builtin,     \* modules that are loaded at boot
          Depends,     \* the modules that a module brings with it
          PipeSize,    \* what a pipe holds
          MaxOutput,   \* bound on what a tool writes
          Faults       \* "launch", "exit", "kldload": what may fail

Vendor == {"0x8086", "0x1002", "0x10de", "other"}

(* A line of pciconf -l.  Only class 0x0300xx counts; a line may be cut.   *)
Device == [class : {"0x0300", "0x0302"}, vendor : Vendor \cup {None}, radeon : BOOLEAN]

(* A line of devmatch: a module, with or without its suffix.               *)
Line == [kld : Kld \cup {Blank}, ko : BOOLEAN]

ASSUME KModLoaderConstants ==
  /\ {"i915kms", "radeonkms", "amdgpu", "nvidia-drm"} \subseteq Kld
  /\ Blank \notin Kld /\ None \notin Vendor
  /\ Machines \subseteq [gpus : Seq(Device), matches : Seq(Line)]
  /\ Builtin \subseteq Kld /\ Depends \in [Kld -> SUBSET Kld]
  /\ PipeSize \in Nat /\ MaxOutput \in Nat
  /\ Faults \subseteq {"launch", "exit", "kldload"}

VARIABLES machine,  \* what the tools will find
          kernel,   \* the modules that are loaded
          pc,       \* the tool that runOneShot is at
          task,     \* its process
          left,     \* what the process has still to write
          pipe,     \* what the pipes hold
          gpuKlds, devmatchKlds, loaded,  \* the results of the tools
          plan,     \* what is left of the plan
          failed,   \* history: the modules that could not be loaded
          heard     \* history: the tools whose output was used

results == <<gpuKlds, devmatchKlds, loaded, plan, failed, heard>>
vars == <<machine, kernel, pc, task, left, pipe, results>>

Stream == {"stdout", "stderr"}
Nothing == [s \in Stream |-> 0]

Init ==
  /\ machine \in Machines /\ kernel = Builtin
  /\ pc = "pciconf" /\ task = "none"
  /\ left = Nothing /\ pipe = Nothing
  /\ gpuKlds = <<>> /\ devmatchKlds = <<>> /\ loaded = {} /\ plan = <<>>
  /\ failed = {} /\ heard = {}

-----------------------------------------------------------------------------
(* What is made of the output of the tools.  A set in the order in which   *)
(* its members were added; a blank is none.                                *)
orderedSet(s) ==
  LET r[n \in 0 .. Len(s)] ==
        IF n = 0 THEN <<>>
        ELSE IF s[n] \in ToSet(r[n - 1]) \cup {Blank} THEN r[n - 1]
        ELSE Append(r[n - 1], s[n])
  IN r[Len(s)]

(* Blank lines are dropped, and so is the suffix .ko.                      *)
kldsFromDevmatch(lines) == orderedSet([i \in DOMAIN lines |-> lines[i].kld])

(* The lines that are taken for devices, and the driver of a device.       *)
gpuDevices(lines) == {i \in DOMAIN lines : lines[i].class = "0x0300" /\ lines[i].vendor # None}

gpuKld(d) ==
  CASE d.vendor = "0x8086" -> "i915kms"
    [] d.vendor = "0x1002" -> IF d.radeon THEN "radeonkms" ELSE "amdgpu"
    [] d.vendor = "0x10de" -> "nvidia-drm"
    [] OTHER -> Blank

gpuKldsForDevices(lines, devices) ==
  orderedSet([i \in DOMAIN lines |-> IF i \in devices THEN gpuKld(lines[i]) ELSE Blank])

(* The display drivers come first.                                         *)
Plan_DevmatchFirst(gpu, match) == orderedSet(match \o gpu)
Plan(gpu, match) == orderedSet(gpu \o match)

-----------------------------------------------------------------------------
(* A tool is launched, writes and exits.  What kldstat lists is what is    *)
(* loaded when it starts.                                                  *)
Tools == {"pciconf", "devmatch", "kldstat"}

After(t) == CASE t = "pciconf" -> "devmatch" [] t = "devmatch" -> "kldstat"
              [] t = "kldstat" -> "kldload"

launch ==
  /\ pc \in Tools /\ task = "none"
  /\ task' = "running" /\ left' \in [Stream -> 0 .. MaxOutput]
  /\ loaded' = IF pc = "kldstat" THEN kernel ELSE loaded
  /\ UNCHANGED <<machine, kernel, pc, pipe, gpuKlds, devmatchKlds, plan, failed, heard>>

write(s) ==
  /\ task = "running" /\ left[s] > 0 /\ pipe[s] < PipeSize
  /\ left' = [left EXCEPT ![s] = @ - 1]
  /\ pipe' = [pipe EXCEPT ![s] = @ + 1]
  /\ UNCHANGED <<machine, kernel, pc, task, results>>

exit ==
  /\ task = "running" /\ left = Nothing /\ task' = "exited"
  /\ UNCHANGED <<machine, kernel, pc, left, pipe, results>>

(* The results of a tool that worked, that failed, or that could not be    *)
(* run at all.  Output that is no UTF-8 makes no string and gives nothing, *)
(* as a failure does.  The exit status of kldstat is not looked at.        *)
Result(worked, listed) ==
  /\ gpuKlds' = IF pc = "pciconf" /\ worked
                THEN gpuKldsForDevices(machine.gpus, gpuDevices(machine.gpus))
                ELSE gpuKlds
  /\ devmatchKlds' = IF pc = "devmatch" /\ worked
                     THEN kldsFromDevmatch(machine.matches) ELSE devmatchKlds
  /\ plan' = IF pc = "kldstat" THEN Plan(gpuKlds, devmatchKlds) ELSE plan
  /\ loaded' = listed
  /\ heard' = IF worked THEN heard \cup {pc} ELSE heard
  /\ pc' = After(pc) /\ task' = "none" /\ left' = Nothing /\ pipe' = Nothing
  /\ UNCHANGED <<machine, kernel, failed>>

launchFails_NotCaught == /\ "launch" \in Faults /\ pc \in Tools /\ task = "none"
                         /\ task' = "lost"
                         /\ UNCHANGED <<machine, kernel, pc, left, pipe, results>>
launchFails == /\ "launch" \in Faults /\ pc \in Tools /\ task = "none"
               /\ Result(FALSE, {})

waitUntilExit ==
  /\ pc \in Tools /\ task = "exited"
  /\ \/ Result(TRUE, loaded)
     \/ "exit" \in Faults /\ \E K \in SUBSET loaded : Result(FALSE, K)

-----------------------------------------------------------------------------
(* The loop over the plan: a module that was not listed is loaded with     *)
(* kldload -n, which succeeds when somebody else has loaded it meanwhile.  *)
Loads(k) == kernel' = kernel \cup {k} \cup Depends[k]

Rest_Aborts(ok) == IF ok THEN Tail(plan) ELSE <<>>
Rest(ok) == Tail(plan)

kldload ==
  /\ pc = "kldload" /\ plan # <<>>
  /\ LET k == Head(plan)
     IN \/ k \in loaded /\ plan' = Rest(TRUE) /\ UNCHANGED <<kernel, failed>>
        \/ k \notin loaded /\ Loads(k) /\ plan' = Rest(TRUE) /\ UNCHANGED failed
        \/ /\ k \notin loaded /\ "kldload" \in Faults
           /\ failed' = failed \cup {k} /\ plan' = Rest(FALSE) /\ UNCHANGED kernel
  /\ UNCHANGED <<machine, pc, task, left, pipe, gpuKlds, devmatchKlds, loaded, heard>>

done == /\ pc = "kldload" /\ plan = <<>> /\ pc' = "done"
        /\ UNCHANGED <<machine, kernel, task, left, pipe, results>>

(* Somebody else, or another module, loads a module (external).            *)
otherLoads == /\ \E k \in Kld \ kernel : Loads(k)
              /\ UNCHANGED <<machine, pc, task, left, pipe, results>>

Run == launch \/ launchFails \/ waitUntilExit \/ kldload \/ done
Tool == exit \/ \E s \in Stream : write(s)

Next == Run \/ Tool \/ otherLoads

Spec == Init /\ [][Next]_vars

(* kmodloader and the tool it runs go on unless they wait.                 *)
FairSpec == Spec /\ WF_vars(Run) /\ WF_vars(Tool)

-----------------------------------------------------------------------------
(* The modules that the devices want: of every display controller that     *)
(* pciconf lists in full and of every device that devmatch knows.          *)
Display == IF "pciconf" \notin heard THEN {} ELSE
             {gpuKld(d) : d \in {e \in ToSet(machine.gpus) : e.class = "0x0300" /\ e.vendor # None}} \ {Blank}

Other == IF "devmatch" \notin heard THEN {} ELSE {l.kld : l \in ToSet(machine.matches)} \ {Blank}

(* When kmodloader is done, every module that a device wants is loaded,    *)
(* unless kldload could not load it: whatever tool failed before, whatever *)
(* part of its list kldstat gave and whoever else loads modules.           *)
AllLoaded == pc = "done" => Display \cup Other \subseteq kernel \cup failed

(* "GPU first": no other module is loaded by the plan until the display    *)
(* drivers are loaded or have failed.                                      *)
GpuFirst ==
  [][pc = "kldload" /\ plan # <<>> /\ plan' # plan /\ Head(plan) \notin Display
       => Display \subseteq kernel \cup failed]_vars

(* kmodloader comes to its end, unless a tool writes more than a pipe      *)
(* holds: it waits for the exit of a tool before it reads from it.         *)
Clogged == task = "running" /\ \E s \in Stream : left[s] > 0 /\ pipe[s] = PipeSize

Ends == <>(pc = "done" \/ Clogged)
=============================================================================
