--------------------------- MODULE LaunchdBootProofs ---------------------------
(***************************************************************************)
(* The boot of Launchd, for any -p plist and any directories of plists:    *)
(* when the scan is over, every label that a loadable plist carries has    *)
(* its job, from the first source that has it, and the jobs that are to    *)
(* start at load were started.                                             *)
(*                                                                         *)
(* The invariant counts the sources from 1, the -p plist, and follows the  *)
(* scan: the jobs come from the sources up to the current one, and a label *)
(* that has no job yet is in none of the plists that were looked at.       *)
(***************************************************************************)
EXTENDS LaunchdStepProofs, FiniteSetTheorems, SequenceTheorems

N == Len(ScanDirs)

Source(i) ==
  IF i = 1 THEN (IF StartupPlist = NULL THEN {} ELSE {StartupPlist})
  ELSE ScanDirs[i - 1]

Conf(f) == jobmgr_load_plist_file(f)

Carries(f, l) == Conf(f) # NULL /\ Conf(f).label = l

\* The source that is being scanned.
Current == N + 2 - Len(todo)

\* What is left of the directories.
Remains ==
  /\ Len(todo) <= N
  /\ \A k \in 1 .. Len(todo) :
       /\ todo[k] \subseteq Source(Current + k - 1)
       /\ k > 1 => todo[k] = Source(Current + k - 1)

\* Every job comes from a source that the scan has reached.
Origin ==
  \A o \in jobs : \E i \in 1 .. (N + 1) :
    i <= Current /\ \E f \in Source(i) : Conf(f) # NULL /\ heap[o].conf = Conf(f)

\* Source i is the first that has label l.
First(l, i) ==
  /\ \E f \in Source(i) : Carries(f, l)
  /\ \A k \in 1 .. (i - 1) : \A f \in Source(k) : ~Carries(f, l)

Has(l, i) ==
  \E o \in jobs : \E f \in Source(i) : Carries(f, l) /\ heap[o].conf = Conf(f)

\* Source i has not been looked at for label l.
Awaits(l, i) ==
  /\ i >= Current
  /\ i = Current => \A f \in Source(i) : Carries(f, l) => f \in todo[1]

Covered ==
  \A l \in Label, i \in 1 .. (N + 1) : First(l, i) => Has(l, i) \/ Awaits(l, i)

BootInv ==
  /\ pc = "plist" => jobs = {} /\ todo = ScanDirs
  /\ pc = "ipc" => todo = <<>>
  /\ pc \in {"scan", "ipc"} => Remains /\ Origin /\ Covered

-----------------------------------------------------------------------------
\* Load() either leaves the table alone, for one of its three reasons, or adds
\* the job of the plist.
Adds(f, o) ==
  /\ Conf(f) # NULL /\ o \in Obj \ jobs
  /\ jobs' = jobs \cup {o} /\ heap'[o].conf = Conf(f)
  /\ \A x \in jobs : heap'[x] = heap[x]

LEMMA LoadEffect ==
  ASSUME IInv, NEW f \in File, NEW o \in calloc, NEW err, Load(f, o, err)
  PROVE  \/ /\ UNCHANGED heap /\ err # "OK"
            /\ Conf(f) = NULL \/ o = NULL \/ jobmgr_find_by_label(Conf(f).label) # {}
         \/ Adds(f, o)
<1>0. heap \in [Obj -> Job \cup {NULL}]
  BY DEF IInv, TypeOK
<1>1. CASE /\ Conf(f) # NULL /\ o # NULL
           /\ \/ \E rc \in {0, 1} : job_spawn(o, NewJob(Conf(f)), proc, rc)
              \/ heap' = [heap EXCEPT ![o] = NewJob(Conf(f))]
  <2>1. /\ o \in Obj \ jobs /\ NewJob(Conf(f)) \in Job /\ NewJob(Conf(f)).conf = Conf(f)
        /\ NULL \notin Job
    BY <1>1, ConfType, JobType, CoreAssumption DEF calloc, NewJob, Conf
  <2>2. /\ heap'[o] \in Job /\ heap'[o].conf = Conf(f)
        /\ \A x \in Obj \ {o} : heap'[x] = heap[x]
    BY <1>0, <1>1, <2>1, SpawnResult
  <2>3. jobs' = jobs \cup {o}
    BY <2>1, <2>2 DEF jobs
  <2> QED
    BY <1>1, <2>1, <2>2, <2>3 DEF Adds, jobs
<1> QED
  BY <1>1 DEF Load, Conf, jobmgr_insert

\* There is room for a job of each label: calloc() does not fail for a label
\* that is new.
LEMMA Room ==
  ASSUME IInv, IsFiniteSet(Label), IsFiniteSet(Obj),
         Cardinality(Obj) >= Cardinality(Label),
         NEW l \in Label, jobmgr_find_by_label(l) = {}
  PROVE  Obj \ jobs # {}
<1> SUFFICES ASSUME Obj \ jobs = {} PROVE FALSE
  OBVIOUS
<1> DEFINE T == Label \ {l}
           g == [o \in Obj |-> heap[o].conf.label]
<1>1. \A o \in Obj : o \in jobs /\ heap[o] \in Job /\ heap[o].conf.label \in Label
  BY TableType DEF IInv, CoreInv, Job, JobConf
<1>2. g \in [Obj -> T]
  BY <1>1 DEF jobmgr_find_by_label
<1>3. IsFiniteSet(T) /\ Cardinality(T) = Cardinality(Label) - 1
  BY FS_RemoveElement
<1>4. Cardinality(T) < Cardinality(Obj)
  <2>1. Cardinality(Obj) \in Nat
    BY FS_CardinalityType
  <2>2. Cardinality(Label) \in Nat
    BY FS_CardinalityType
  <2> QED
    BY <1>3, <2>1, <2>2
<1> HIDE DEF T, g
<1>5. PICK x \in Obj, y \in Obj : x # y /\ g[x] = g[y]
  BY <1>2, <1>3, <1>4, FS_PigeonHole
<1>6. heap[x].conf.label = heap[y].conf.label
  BY <1>5 DEF g
<1> QED
  BY <1>1, <1>5, <1>6 DEF IInv, CoreInv, LabelsUnique

\* The sequence of directories.
LEMMA Dirs ==
  /\ N \in Nat /\ ScanDirs \in Seq(SUBSET File)
  /\ \A i \in 1 .. (N + 1) : Source(i) \subseteq File
  /\ \A i \in 1 .. N : Source(i + 1) = ScanDirs[i]
BY LaunchdAssumption DEF N, Source

\* Nothing the scan knows of changes.
LEMMA BootStutter ==
  ASSUME BootInv, UNCHANGED <<pc, todo>>, jobs' = jobs,
         \A o \in jobs : heap'[o].conf = heap[o].conf
  PROVE  BootInv'
<1>1. Remains => Remains'
  BY DEF Remains, Current
<1>2. Origin => Origin'
  BY DEF Origin, Current
<1>3. Covered => Covered'
  BY DEF Covered, Has, Awaits, Current
<1> QED
  BY <1>1, <1>2, <1>3 DEF BootInv

\* One round of the readdir() loop.
LEMMA ScanOneBoot ==
  ASSUME IInv, IsFiniteSet(Label), IsFiniteSet(Obj),
         Cardinality(Obj) >= Cardinality(Label), BootInv, ScanOne
  PROVE  BootInv'
<1>1. /\ pc = "scan" /\ pc' = "scan" /\ todo # <<>> /\ todo \in Seq(SUBSET File)
      /\ Remains /\ Origin /\ Covered /\ N \in Nat /\ Len(todo) \in Nat /\ Len(todo) > 0
      /\ 1 \in 1 .. Len(todo) /\ todo[1] \subseteq File /\ Head(todo) = todo[1]
  BY Dirs DEF ScanOne, BootInv, IInv, TypeOK
<1>2. PICK f \in todo[1], o \in calloc, err \in Errno :
        Load(f, o, err) /\ todo' = [todo EXCEPT ![1] = todo[1] \ {f}]
  BY <1>1 DEF ScanOne
<1>3. /\ Len(todo') = Len(todo) /\ todo'[1] = todo[1] \ {f}
      /\ \A k \in 1 .. Len(todo) : k > 1 => todo'[k] = todo[k]
  BY <1>1, <1>2
<1>4. /\ Current' = Current /\ Current \in 2 .. (N + 1) /\ f \in Source(Current)
      /\ todo[1] \subseteq Source(Current)
  <2>1. Current = N + 2 - Len(todo) /\ Current' = Current /\ Len(todo) <= N
    BY <1>1, <1>3 DEF Current, Remains
  <2>2. Current \in 2 .. (N + 1) /\ Current + 1 - 1 = Current
    BY <1>1, <2>1
  <2>3. todo[1] \subseteq Source(Current + 1 - 1)
    BY <1>1 DEF Remains
  <2> QED
    BY <1>2, <2>1, <2>2, <2>3
<1> HIDE DEF Current
<1>5. Remains'
  <2>1. ASSUME NEW k \in 1 .. Len(todo')
        PROVE  /\ todo'[k] \subseteq Source(Current + k - 1)
               /\ k > 1 => todo'[k] = Source(Current + k - 1)
    <3>1. /\ todo[k] \subseteq Source(Current + k - 1) /\ k \in 1 .. Len(todo)
          /\ k > 1 => todo[k] = Source(Current + k - 1)
      BY <1>1, <1>3 DEF Remains
    <3>2. k = 1 \/ k > 1
      BY <1>1, <3>1
    <3> QED
      BY <1>3, <3>1, <3>2
  <2> QED
    BY <1>1, <1>3, <1>4, <2>1 DEF Remains
<1>6. f \in File
  BY <1>1, <1>2
<1>7. CASE Adds(f, o)
  <2>1. Origin'
    <3>1. ASSUME NEW x \in jobs'
          PROVE  \E i \in 1 .. (N + 1) :
                   /\ i <= Current
                   /\ \E h \in Source(i) : Conf(h) # NULL /\ heap'[x].conf = Conf(h)
      <4>1. CASE x = o
        <5>1. Current \in 1 .. (N + 1) /\ Current <= Current
          BY <1>1, <1>4
        <5> QED
          BY <1>4, <1>7, <4>1, <5>1 DEF Adds
      <4>2. CASE x \in jobs
        BY <1>1, <1>7, <4>2 DEF Adds, Origin
      <4> QED
        BY <1>7, <4>1, <4>2 DEF Adds
    <3> QED
      BY <1>4, <3>1 DEF Origin
  <2>2. ASSUME NEW l \in Label, NEW i \in 1 .. (N + 1), Has(l, i) PROVE Has(l, i)'
    BY <1>7, <2>2 DEF Has, Adds
  <2>3. ASSUME NEW l \in Label, NEW i \in 1 .. (N + 1), Awaits(l, i)
        PROVE  Has(l, i)' \/ Awaits(l, i)'
    <3>1. CASE i = Current /\ Carries(f, l)
      BY <1>4, <1>7, <3>1 DEF Has, Adds
    <3>2. CASE ~(i = Current /\ Carries(f, l))
      BY <1>3, <1>4, <2>3, <3>2 DEF Awaits
    <3> QED
      BY <3>1, <3>2
  <2>4. Covered'
    BY <1>1, <2>2, <2>3 DEF Covered, First
  <2> QED
    BY <1>1, <1>5, <2>1, <2>4 DEF BootInv
<1>8. CASE /\ UNCHANGED heap
           /\ Conf(f) = NULL \/ o = NULL \/ jobmgr_find_by_label(Conf(f).label) # {}
  <2>0. jobs' = jobs
    BY <1>8 DEF jobs
  <2>1. Origin'
    BY <1>1, <1>4, <1>8, <2>0 DEF Origin
  <2>2. ASSUME NEW l \in Label, NEW i \in 1 .. (N + 1), Has(l, i) PROVE Has(l, i)'
    BY <1>8, <2>0, <2>2 DEF Has
  <2>3. ASSUME NEW l \in Label, NEW i \in 1 .. (N + 1), First(l, i), Awaits(l, i)
        PROVE  Has(l, i)' \/ Awaits(l, i)'
    <3>1. CASE i = Current /\ Carries(f, l)
      <4>1. jobmgr_find_by_label(l) # {}
        <5>1. Conf(f).label = l /\ Conf(f) # NULL
          BY <3>1 DEF Carries
        <5>2. CASE o = NULL
          <6>1. Obj \ jobs = {}
            BY <5>2, CoreAssumption DEF calloc
          <6> QED
            BY <6>1, Room
        <5> QED
          BY <1>8, <5>1, <5>2
      <4>2. PICK x \in jobs : heap[x].conf.label = l
        BY <4>1 DEF jobmgr_find_by_label
      <4>3. PICK k \in 1 .. (N + 1) :
              k <= Current /\ \E h \in Source(k) : Conf(h) # NULL /\ heap[x].conf = Conf(h)
        BY <1>1 DEF Origin
      <4>4. PICK h \in Source(k) : Carries(h, l) /\ heap[x].conf = Conf(h)
        BY <4>2, <4>3 DEF Carries
      <4>5. ~(k \in 1 .. (i - 1))
        BY <2>3, <4>4 DEF First
      <4>6. k = i
        BY <1>1, <1>4, <3>1, <4>3, <4>5
      <4> QED
        BY <2>2, <4>2, <4>4, <4>6 DEF Has
    <3>2. CASE ~(i = Current /\ Carries(f, l))
      BY <1>3, <1>4, <2>3, <3>2 DEF Awaits
    <3> QED
      BY <3>1, <3>2
  <2>4. Covered'
    BY <1>1, <2>2, <2>3 DEF Covered, First
  <2> QED
    BY <1>1, <1>5, <2>1, <2>4 DEF BootInv
<1> QED
  BY <1>2, <1>6, <1>7, <1>8, LoadEffect

\* The next directory, or the end of the scan.
LEMMA ScanDirBoot ==
  ASSUME IInv, BootInv, ScanDirDone
  PROVE  BootInv'
<1>1. /\ pc = "scan" /\ Remains /\ Origin /\ Covered /\ N \in Nat
      /\ todo \in Seq(SUBSET File) /\ Len(todo) \in Nat /\ UNCHANGED heap /\ jobs' = jobs
  BY Dirs DEF ScanDirDone, BootInv, IInv, TypeOK, coreVars, jobs
<1>2. CASE todo = <<>> /\ pc' = "ipc" /\ UNCHANGED todo
  <2>1. Remains' /\ Origin' /\ Covered'
    BY <1>1, <1>2 DEF Remains, Origin, Covered, Has, Awaits, Current
  <2> QED
    BY <1>2, <2>1 DEF BootInv
<1>3. CASE todo # <<>> /\ Head(todo) = {} /\ todo' = Tail(todo) /\ UNCHANGED pc
  <2>1. /\ Len(todo) > 0 /\ todo[1] = {} /\ Len(todo') = Len(todo) - 1
        /\ \A k \in 1 .. Len(todo') : k + 1 \in 1 .. Len(todo) /\ todo'[k] = todo[k + 1]
    BY <1>1, <1>3
  <2>2. /\ Current' = Current + 1 /\ Current \in Nat /\ Current = N + 2 - Len(todo)
        /\ Len(todo) <= N
    BY <1>1, <2>1 DEF Current, Remains
  <2>3. ASSUME NEW k \in 1 .. Len(todo') PROVE todo'[k] = Source(Current' + k - 1)
    <3>1. k + 1 \in 1 .. Len(todo) /\ k + 1 > 1 /\ Current + (k + 1) - 1 = Current' + k - 1
      BY <1>1, <2>1, <2>2
    <3>2. todo[k + 1] = Source(Current + (k + 1) - 1)
      BY <1>1, <3>1 DEF Remains
    <3> QED
      BY <2>1, <3>1, <3>2
  <2>4. Remains'
    BY <1>1, <2>1, <2>2, <2>3 DEF Remains
  <2>5. Origin'
    <3>1. \A i \in 1 .. (N + 1) : i <= Current => i <= Current'
      BY <1>1, <2>2
    <3> QED
      BY <1>1, <3>1 DEF Origin
  <2>6. ASSUME NEW l \in Label, NEW i \in 1 .. (N + 1), First(l, i)
        PROVE  Has(l, i)' \/ Awaits(l, i)'
    <3>1. CASE Has(l, i)
      BY <1>1, <3>1 DEF Has
    <3>2. CASE Awaits(l, i)
      <4>1. i # Current
        BY <2>1, <2>6, <3>2 DEF Awaits, First
      <4>2. i >= Current'
        BY <1>1, <2>2, <3>2, <4>1 DEF Awaits
      <4>3. i = Current' => todo'[1] = Source(i)
        <5> SUFFICES ASSUME i = Current' PROVE todo'[1] = Source(i)
          OBVIOUS
        <5>1. 1 \in 1 .. Len(todo') /\ Current' + 1 - 1 = i
          BY <1>1, <2>1, <2>2
        <5> QED
          BY <2>3, <5>1
      <4> QED
        BY <4>2, <4>3 DEF Awaits
    <3> QED
      BY <1>1, <2>6, <3>1, <3>2 DEF Covered
  <2>7. Covered'
    BY <2>6 DEF Covered, First
  <2> QED
    BY <1>1, <1>3, <2>4, <2>5, <2>7 DEF BootInv
<1> QED
  BY <1>2, <1>3 DEF ScanDirDone

\* The -p plist.
LEMMA StartupBoot ==
  ASSUME IInv, BootInv, LoadStartupPlist
  PROVE  BootInv'
<1>1. /\ pc = "plist" /\ jobs = {} /\ todo = ScanDirs /\ UNCHANGED todo
      /\ N \in Nat /\ Len(todo) = N /\ Current' = 2
  BY Dirs DEF LoadStartupPlist, BootInv, N, Current
<1>2. Remains'
  <2>1. ASSUME NEW k \in 1 .. N PROVE ScanDirs[k] = Source(2 + k - 1)
    <3>1. 2 + k - 1 = k + 1
      BY <1>1
    <3> QED
      BY <3>1, Dirs
  <2> QED
    BY <1>1, <2>1 DEF Remains
<1>3. ASSUME NEW l \in Label, NEW i \in 1 .. (N + 1), i # 1 PROVE Awaits(l, i)'
  <2>1. i >= 2
    BY <1>1, <1>3
  <2>2. i = 2 => Source(2) = ScanDirs[1]
    BY DEF Source
  <2> QED
    BY <1>1, <2>1, <2>2 DEF Awaits
<1>4. CASE StartupPlist = NULL
  <2>1. pc' = "scan" /\ jobs' = {}
    BY <1>1, <1>4 DEF LoadStartupPlist, coreVars, jobs
  <2>2. Origin'
    BY <2>1 DEF Origin
  <2>3. Covered'
    <3>1. \A l \in Label : ~First(l, 1)
      BY <1>4 DEF First, Source
    <3> QED
      BY <1>3, <3>1 DEF Covered, First
  <2> QED
    BY <1>2, <2>1, <2>2, <2>3 DEF BootInv
<1>5. CASE StartupPlist # NULL
  <2>1. PICK o \in calloc, err \in Errno :
          Load(StartupPlist, o, err) /\ pc' = IF err = "OK" THEN "scan" ELSE "exited"
    BY <1>5 DEF LoadStartupPlist
  <2>2. CASE err # "OK"
    BY <2>1, <2>2 DEF BootInv
  <2>3. CASE err = "OK"
    <3>1. Adds(StartupPlist, o)
      BY <1>5, <2>1, <2>3, LoadEffect, LaunchdAssumption
    <3>2. Source(1) = {StartupPlist} /\ 1 \in 1 .. (N + 1) /\ 1 <= Current'
      BY <1>1, <1>5 DEF Source
    <3>3. Origin'
      BY <1>1, <3>1, <3>2 DEF Origin, Adds
    <3>4. ASSUME NEW l \in Label, First(l, 1) PROVE Has(l, 1)'
      BY <3>1, <3>2, <3>4 DEF First, Has, Adds
    <3>5. Covered'
      BY <1>3, <3>4 DEF Covered, First
    <3> QED
      BY <1>2, <2>1, <2>3, <3>3, <3>5 DEF BootInv
  <2> QED
    BY <2>2, <2>3
<1> QED
  BY <1>4, <1>5

LEMMA NextBoot ==
  ASSUME IInv, IsFiniteSet(Label), IsFiniteSet(Obj),
         Cardinality(Obj) >= Cardinality(Label), BootInv, [Next]_vars
  PROVE  BootInv'
<1>1. CASE LoadStartupPlist
  BY <1>1, StartupBoot
<1>2. CASE ScanOne
  BY <1>2, ScanOneBoot
<1>3. CASE ScanDirDone
  BY <1>3, ScanDirBoot
<1>4. CASE TimePasses
  BY <1>4, TickKeeps, BootStutter DEF TimePasses
<1>5. CASE (\E q \in Pid : ChildExits(q) \/ Reparent(q)) \/ UNCHANGED vars
  BY <1>5, BootStutter DEF ChildExits, Reparent, vars, coreVars, jobs
<1>6. CASE /\ ~LoadStartupPlist /\ ~ScanOne /\ ~ScanDirDone /\ ~TimePasses
           /\ ~(\E q \in Pid : ChildExits(q) \/ Reparent(q)) /\ ~UNCHANGED vars
  <2>1. pc' \in {"main", "reap", "exited"}
    BY <1>6 DEF Next, EnterMainLoop, SigchldBegin, SigchldReturn, SigchldReap, TimerFires,
         launchd_shutdown, handle_load, handle_unload, handle_start, handle_stop
  <2> QED
    BY <2>1 DEF BootInv
<1> QED
  BY <1>1, <1>2, <1>3, <1>4, <1>5, <1>6

\* A sequence with one element put before it.
LEMMA OnePlus ==
  ASSUME NEW T, NEW s \in Seq(T), NEW a \in T, NEW n \in Nat, Len(s) = n
  PROVE  /\ DOMAIN (<<a>> \o s) = 1 .. (n + 1)
         /\ \A i \in 1 .. (n + 1) : (<<a>> \o s)[i] = IF i = 1 THEN a ELSE s[i - 1]
<1>1. <<a>> \in Seq(T) /\ Len(<<a>>) = 1 /\ <<a>>[1] = a
  OBVIOUS
<1> DEFINE b == <<a>>
<1>2. b \in Seq(T) /\ Len(b) = 1 /\ b[1] = a
  BY <1>1
<1> HIDE DEF b
<1>3. /\ b \o s \in Seq(T) /\ Len(b \o s) = n + 1
      /\ \A i \in 1 .. (n + 1) : (b \o s)[i] = IF i = 1 THEN a ELSE s[i - 1]
  <2>1. /\ b \o s \in Seq(T) /\ Len(b \o s) = Len(b) + Len(s)
        /\ \A i \in 1 .. Len(b) + Len(s) : (b \o s)[i] = IF i <= Len(b) THEN b[i] ELSE s[i - Len(b)]
    BY <1>2, ConcatProperties
  <2>2. ASSUME NEW i \in 1 .. (n + 1) PROVE (b \o s)[i] = IF i = 1 THEN a ELSE s[i - 1]
    <3>1. i \in 1 .. Len(b) + Len(s) /\ (i <= Len(b) <=> i = 1)
      BY <1>2
    <3> QED
      BY <1>2, <2>1, <3>1
  <2> QED
    BY <1>2, <2>1, <2>2
<1>4. DOMAIN (b \o s) = 1 .. (n + 1)
  BY <1>3
<1> QED
  BY <1>3, <1>4 DEF b

\* When the scan is over nothing awaits, so every label has its job.
LEMMA BootDone ==
  ASSUME BootInv
  PROVE  BootComplete
<1> SUFFICES ASSUME pc = "ipc" PROVE BootComplete
  BY DEF BootComplete
<1> DEFINE S == <<IF StartupPlist = NULL THEN {} ELSE {StartupPlist}>> \o ScanDirs
<1>1. Covered /\ todo = <<>> /\ N \in Nat /\ Current = N + 2
  BY Dirs DEF BootInv, Current
<1>2. DOMAIN S = 1 .. (N + 1) /\ \A i \in 1 .. (N + 1) : S[i] = Source(i)
  <2> DEFINE a == IF StartupPlist = NULL THEN {} ELSE {StartupPlist}
  <2>1. ScanDirs \in Seq(SUBSET File) /\ Len(ScanDirs) = N /\ a \in SUBSET File
    BY LaunchdAssumption DEF N
  <2> HIDE DEF a
  <2>2. /\ DOMAIN (<<a>> \o ScanDirs) = 1 .. (N + 1)
        /\ \A i \in 1 .. (N + 1) : (<<a>> \o ScanDirs)[i] = IF i = 1 THEN a ELSE ScanDirs[i - 1]
    BY <1>1, <2>1, OnePlus
  <2> QED
    BY <2>2 DEF Source, a
<1>3. ASSUME NEW l \in Label, NEW i \in DOMAIN S, First(l, i) PROVE Has(l, i)
  <2>1. i \in 1 .. (N + 1) /\ ~(i >= Current)
    BY <1>1, <1>2
  <2> QED
    BY <1>1, <1>3, <2>1 DEF Covered, Awaits
<1>4. ASSUME NEW F, NEW l, NEW c
      PROVE  c \in {d \in {jobmgr_load_plist_file(f) :
                             f \in {f \in F : jobmgr_load_plist_file(f) # NULL}} : d.label = l}
               <=> \E f \in F : Carries(f, l) /\ c = Conf(f)
  BY DEF Carries, Conf
<1> DEFINE Of(l, F) == {d \in {jobmgr_load_plist_file(f) :
                             f \in {f \in F : jobmgr_load_plist_file(f) # NULL}} : d.label = l}
<1>5. ASSUME NEW F, NEW l PROVE Of(l, F) # {} <=> \E f \in F : Carries(f, l)
  BY <1>4
<1>6. ASSUME NEW F, NEW l, NEW c PROVE c \in Of(l, F) <=> \E f \in F : Carries(f, l) /\ c = Conf(f)
  BY <1>4
<1>7. ASSUME NEW l \in Label, NEW i \in DOMAIN S, Of(l, S[i]) # {},
             \A k \in 1 .. (i - 1) : Of(l, S[k]) = {}
      PROVE  \E o \in jobs : heap[o].conf \in Of(l, S[i])
  <2> HIDE DEF Of, S
  <2>1. First(l, i)
    <3>1. \A k \in 1 .. (i - 1) : k \in 1 .. (N + 1)
      BY <1>1, <1>2
    <3> QED
      BY <1>2, <1>5, <1>7, <3>1 DEF First
  <2> QED
    BY <1>2, <1>3, <1>6, <2>1 DEF Has
<1> QED
  BY <1>7 DEF BootComplete

\* The boot is complete: where memory holds a job for each label, one broken,
\* duplicate or unspawnable plist keeps no other from being loaded, and the
\* first source that has a label provides its job.
THEOREM BootLoads ==
  ASSUME IsFiniteSet(Label), IsFiniteSet(Obj), Cardinality(Obj) >= Cardinality(Label)
  PROVE  Spec => []BootComplete
<1>1. Init => BootInv
  BY DEF Init, CoreInit, BootInv, jobs
<1>2. IInv /\ BootInv /\ [Next]_vars => BootInv'
  BY NextBoot
<1>3. BootInv => BootComplete
  BY BootDone
<1> QED
  BY <1>1, <1>2, <1>3, Invariance, PTL DEF Spec

-----------------------------------------------------------------------------
(***************************************************************************)
(* What the boot has started.  posix_spawn() also fails when the kernel    *)
(* has no process id left, which is no fault of launchd: the theorem is    *)
(* about the behaviours in which it has one wherever the plist that is     *)
(* loaded next may be one whose job is to start.                           *)
(***************************************************************************)
ToStart(f) == Conf(f) # NULL /\ AtLoad(Conf(f)) /\ jobmgr_find_by_label(Conf(f).label) = {}

Upcoming ==
  IF pc = "plist" THEN Source(1)
  ELSE IF pc = "scan" /\ todo # <<>> THEN Head(todo) ELSE {}

PidLeft == (\E f \in Upcoming : ToStart(f)) => FreePid(proc) # {}

Started(o) == heap[o].p # NULL <=> AtLoad(heap[o].conf)

AllStarted ==
  pc \in {"plist", "scan", "ipc"} /\ "spawn" \notin Faults => \A o \in jobs : Started(o)

\* A job that is loaded is started if that is due.
LEMMA LoadStarts ==
  ASSUME IInv, NEW f \in File, NEW o \in calloc, NEW err, Load(f, o, err),
         "spawn" \notin Faults, ToStart(f) => FreePid(proc) # {},
         \A x \in jobs : Started(x)
  PROVE  \A x \in jobs' : Started(x)'
<1>0. heap \in [Obj -> Job \cup {NULL}] /\ NULL \notin Job /\ NULL \notin Pid
  BY CoreAssumption DEF IInv, TypeOK
<1>1. CASE UNCHANGED heap
  BY <1>1 DEF jobs, Started
<1> DEFINE c == Conf(f)
<1>2. CASE /\ c # NULL /\ o # NULL
           /\ \/ /\ AtLoad(c) /\ FreePid(proc) # {}
                 /\ \E rc \in {0, 1} : job_spawn(o, NewJob(c), proc, rc)
              \/ ~AtLoad(c) /\ heap' = [heap EXCEPT ![o] = NewJob(c)]
  <2>1. o \in Obj /\ c \in JobConf
    BY <1>2, ConfType DEF calloc, Conf
  <2>2. /\ NewJob(c).conf = c /\ NewJob(c).p = NULL /\ NewJob(c).state = "LOADED"
        /\ AtLoad(c) => CanSpawn(NewJob(c))
        /\ \A q \in Pid : SpawnedJob(NewJob(c), q).conf = c /\ SpawnedJob(NewJob(c), q).p = q
    BY DEF NewJob, CanSpawn, SpawnedJob, AtLoad
  <2> HIDE DEF c
  <2>3. \/ AtLoad(c) /\ \E q \in Pid : heap' = [heap EXCEPT ![o] = SpawnedJob(NewJob(c), q)]
        \/ ~AtLoad(c) /\ heap' = [heap EXCEPT ![o] = NewJob(c)]
    BY <1>2, <2>2 DEF job_spawn, FreePid
  <2>4. /\ heap'[o].conf = c /\ (heap'[o].p # NULL <=> AtLoad(c))
        /\ \A x \in Obj \ {o} : heap'[x] = heap[x]
    BY <1>0, <2>1, <2>2, <2>3
  <2>5. Started(o)'
    BY <2>4 DEF Started, AtLoad
  <2>6. ASSUME NEW x \in jobs', x # o PROVE Started(x)'
    BY <2>4, <2>6 DEF Started, jobs
  <2> QED
    BY <2>5, <2>6
<1>3. Conf(f) # NULL /\ AtLoad(Conf(f)) /\ jobmgr_insert(Conf(f))
        => FreePid(proc) # {}
  BY DEF ToStart, jobmgr_insert
<1> QED
  BY <1>1, <1>2, <1>3 DEF Load, Conf

LEMMA NextStarts ==
  ASSUME IInv, AllStarted, PidLeft, [Next]_vars
  PROVE  AllStarted'
<1> SUFFICES ASSUME pc' \in {"plist", "scan", "ipc"}, "spawn" \notin Faults
             PROVE  \A o \in jobs' : Started(o)'
  BY DEF AllStarted
<1>1. CASE LoadStartupPlist
  <2>1. pc = "plist" /\ \A o \in jobs : Started(o)
    BY <1>1 DEF LoadStartupPlist, AllStarted
  <2>2. CASE StartupPlist = NULL
    BY <1>1, <2>1, <2>2 DEF LoadStartupPlist, coreVars, jobs, Started
  <2>3. CASE StartupPlist # NULL
    <3>1. PICK o \in calloc, err \in Errno : Load(StartupPlist, o, err)
      BY <1>1, <2>3 DEF LoadStartupPlist
    <3>2. StartupPlist \in File
      BY <2>3, LaunchdAssumption
    <3>3. ToStart(StartupPlist) => FreePid(proc) # {}
      BY <2>1, <2>3 DEF PidLeft, Upcoming, Source
    <3> QED
      BY <2>1, <3>1, <3>2, <3>3, LoadStarts
  <2> QED
    BY <2>2, <2>3
<1>2. CASE ScanOne
  <2>1. pc = "scan" /\ todo # <<>> /\ \A o \in jobs : Started(o)
    BY <1>2 DEF ScanOne, AllStarted
  <2>2. PICK f \in Head(todo), o \in calloc, err \in Errno : Load(f, o, err)
    BY <1>2 DEF ScanOne
  <2>3. f \in File
    <3>1. todo \in Seq(SUBSET File) /\ todo # <<>>
      BY <1>2 DEF ScanOne, IInv, TypeOK
    <3>2. Head(todo) \in SUBSET File
      BY <3>1
    <3> QED
      BY <2>2, <3>2
  <2>4. ToStart(f) => FreePid(proc) # {}
    BY <2>1, <2>2 DEF PidLeft, Upcoming
  <2> QED
    BY <2>1, <2>2, <2>3, <2>4, LoadStarts
<1>3. CASE ScanDirDone
  BY <1>3 DEF ScanDirDone, coreVars, jobs, Started, AllStarted
<1>4. CASE TimePasses
  BY <1>4, TickKeeps DEF TimePasses, Started, AllStarted
<1>5. CASE (\E q \in Pid : ChildExits(q) \/ Reparent(q)) \/ UNCHANGED vars
  BY <1>5 DEF ChildExits, Reparent, vars, coreVars, jobs, Started, AllStarted
<1>6. CASE /\ ~LoadStartupPlist /\ ~ScanOne /\ ~ScanDirDone /\ ~TimePasses
           /\ ~(\E q \in Pid : ChildExits(q) \/ Reparent(q)) /\ ~UNCHANGED vars
  <2>1. pc' \in {"main", "reap", "exited"}
    BY <1>6 DEF Next, EnterMainLoop, SigchldBegin, SigchldReturn, SigchldReap, TimerFires,
         launchd_shutdown, handle_load, handle_unload, handle_start, handle_stop
  <2> QED
    BY <2>1
<1> QED
  BY <1>1, <1>2, <1>3, <1>4, <1>5, <1>6

\* Where posix_spawn() does not fail for want of a process id, the boot has started the jobs that are to
\* start at load, from whichever source they come, and no other.
THEOREM BootStarts == Spec /\ []PidLeft => []BootSpawns
<1>1. Init => AllStarted
  BY DEF Init, CoreInit, AllStarted, jobs
<1>2. IInv /\ AllStarted /\ PidLeft /\ [Next]_vars => AllStarted'
  BY NextStarts
<1>3. AllStarted => BootSpawns
  BY DEF AllStarted, BootSpawns, Started, AtLoad
<1> QED
  BY <1>1, <1>2, <1>3, Invariance, PTL DEF Spec
=============================================================================
