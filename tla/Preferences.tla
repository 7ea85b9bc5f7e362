---------------------------- MODULE Preferences ----------------------------
(***************************************************************************)
(* SCPreferences: sessions of several processes that read one preferences  *)
(* file, change their copies of it, and store them.  A writer holds a lock *)
(* file: it is created by open(), locked with flock(), checked to be still *)
(* the one at the path, and unlinked before it is closed.  A session that  *)
(* has read the file locks it only if the file still has the signature it  *)
(* had.  The new preferences are written to a second file, which is then   *)
(* renamed.  A process may die between any two system calls.               *)
(***************************************************************************)
EXTENDS Naturals

CONSTANTS Session,          \* sessions, each in a process of its own
          Key,              \* a copy is the set of keys that have a value
          Partial,          \* a file that was not written to its end
          Torn,             \* one with the rest of an older one behind its end
          Ino, None,        \* inodes of lock files
          RemoveWhenEmpty,  \* the sessions with that option
          Faults,           \* system calls that may fail
          MaxCommits        \* bound on the files stored

ASSUME PreferencesConstants ==
  /\ None \notin Ino \cup Session \cup {Partial, Torn} /\ Partial # Torn
  /\ \A K \in SUBSET Key : K # None /\ K # Partial /\ K # Torn
  /\ RemoveWhenEmpty \subseteq Session
  /\ Faults \subseteq {"open", "write", "rename", "notify"}
  /\ MaxCommits \in Nat

VARIABLES lockPath,  \* the inode at the path of the lock file
          flock,     \* who holds the lock on an inode
          lockFD,    \* the inode that a session has open
          locked,    \* the session has the lock
          pc, call,  \* what a session does, and for which call
          mem,       \* the session's copy of the preferences
          file,      \* the preferences file
          temp,      \* the new file, before it is renamed
          version,   \* files stored so far: each has a signature of its own
          told       \* the keys the store has announced

lockVars == <<lockPath, flock, lockFD, locked>>
fileVars == <<file, temp, version>>
vars == <<lockVars, pc, call, mem, fileVars, told>>

Content == SUBSET Key

Missing == [signature |-> 0, prefs |-> {}]

NoCall == [op |-> "lock", wait |-> FALSE, wasLocked |-> FALSE]

Fresh == [accessed |-> FALSE, signature |-> 0, prefs |-> {}, changed |-> FALSE]

Init ==
  /\ lockPath = None
  /\ flock = [i \in Ino |-> None]
  /\ lockFD = [s \in Session |-> None]
  /\ locked = [s \in Session |-> FALSE]
  /\ pc = [s \in Session |-> "idle"]
  /\ call = [s \in Session |-> NoCall]
  /\ mem = [s \in Session |-> Fresh]
  /\ file = Missing /\ temp = None /\ version = 0 /\ told = {}

-----------------------------------------------------------------------------
(* The copy.  The first access reads the file; one that is not there, or   *)
(* cannot be parsed, gives an empty copy that counts as changed.           *)
Parses(p) == p \notin {Partial, Torn}

Parsed(p) == IF Parses(p) THEN p ELSE {}

Accessed(m) ==
  IF m.accessed THEN m
  ELSE [accessed |-> TRUE, signature |-> file.signature,
        prefs |-> Parsed(file.prefs),
        changed |-> file.signature = 0 \/ ~Parses(file.prefs)]

Idle(s) == pc[s] = "idle"

Copy(s, m) == /\ mem' = [mem EXCEPT ![s] = m]
              /\ UNCHANGED <<lockVars, pc, call, fileVars, told>>

SCPreferencesGetValue(s) == Idle(s) /\ Copy(s, Accessed(mem[s]))

SCPreferencesSetValue(s, k) ==
  Idle(s) /\ Copy(s, [Accessed(mem[s]) EXCEPT !.prefs = @ \cup {k}, !.changed = TRUE])

SCPreferencesAddValue(s, k) ==
  /\ Idle(s)
  /\ Copy(s, IF k \in Accessed(mem[s]).prefs THEN Accessed(mem[s])
             ELSE [Accessed(mem[s]) EXCEPT !.prefs = @ \cup {k}, !.changed = TRUE])

SCPreferencesRemoveValue(s, k) ==
  /\ Idle(s)
  /\ Copy(s, IF k \notin Accessed(mem[s]).prefs THEN Accessed(mem[s])
             ELSE [Accessed(mem[s]) EXCEPT !.prefs = @ \ {k}, !.changed = TRUE])

SCPreferencesRemoveAllValues(s) ==
  Idle(s) /\ Copy(s, [Accessed(mem[s]) EXCEPT !.prefs = {}, !.changed = TRUE])

SCPreferencesSynchronize(s) == Idle(s) /\ Copy(s, Fresh)

-----------------------------------------------------------------------------
(* The arguments of a call are gone when it returns.                       *)
Goto(s, l) == /\ pc' = [pc EXCEPT ![s] = l]
              /\ call' = IF l = "idle" THEN [call EXCEPT ![s] = NoCall] ELSE call

(* A call that needs the lock takes it first, unless the session has it.   *)
Begin(s, op, wait, l) ==
  /\ Idle(s)
  /\ call' = [call EXCEPT ![s] = [op |-> op, wait |-> wait, wasLocked |-> locked[s]]]
  /\ pc' = [pc EXCEPT ![s] = IF locked[s] THEN l ELSE "open"]
  /\ UNCHANGED <<lockVars, mem, fileVars, told>>

SCPreferencesLock(s, wait) == ~locked[s] /\ Begin(s, "lock", wait, "open")

SCPreferencesCommitChanges(s) == version < MaxCommits /\ Begin(s, "commit", TRUE, "save")

SCPreferencesApplyChanges(s) == Begin(s, "apply", TRUE, "apply")

SCPreferencesUnlock(s) ==
  /\ Idle(s) /\ locked[s] /\ Goto(s, "unlink")
  /\ UNCHANGED <<lockVars, mem, fileVars, told>>

-----------------------------------------------------------------------------
(* open() of the lock file, which waits for the lock or, without wait,     *)
(* fails; it may also fail outright.  The parent directory is there, on a  *)
(* file system that can be written and has O_EXLOCK.  An inode that is at  *)
(* no path and not open is free.                                           *)
Free == Ino \ ({lockPath} \cup {lockFD[s] : s \in Session})

open(s) ==
  /\ pc[s] = "open"
  /\ \/ /\ lockPath = None => Free # {}
        /\ LET i == IF lockPath = None THEN CHOOSE j \in Free : TRUE ELSE lockPath
           IN lockPath' = i /\ lockFD' = [lockFD EXCEPT ![s] = i]
        /\ Goto(s, "flock")
     \/ "open" \in Faults /\ Goto(s, "idle") /\ UNCHANGED <<lockPath, lockFD>>
  /\ UNCHANGED <<flock, locked, mem, fileVars, told>>

Close_Zero(s) == /\ flock' = [flock EXCEPT ![lockFD[s]] = IF @ = s THEN None ELSE @]
                 /\ lockFD' = [lockFD EXCEPT ![s] = 0]
Close(s) == /\ flock' = [flock EXCEPT ![lockFD[s]] = IF @ = s THEN None ELSE @]
            /\ lockFD' = [lockFD EXCEPT ![s] = None]

O_EXLOCK(s) ==
  /\ pc[s] = "flock"
  /\ \/ /\ flock[lockFD[s]] = None
        /\ flock' = [flock EXCEPT ![lockFD[s]] = s]
        /\ Goto(s, "check") /\ UNCHANGED lockFD
     \/ /\ flock[lockFD[s]] # None /\ ~call[s].wait
        /\ Close(s) /\ Goto(s, "idle")
  /\ UNCHANGED <<lockPath, locked, mem, fileVars, told>>

(* The lock is worth nothing if the file was unlinked in the meantime.     *)
Same_Any(s) == TRUE
Same(s) == lockPath = lockFD[s]

check(s) ==
  /\ pc[s] = "check"
  /\ \/ Same(s) /\ Goto(s, "compare") /\ UNCHANGED <<flock, lockFD>>
     \/ ~Same(s) /\ Close(s) /\ Goto(s, "open")
  /\ UNCHANGED <<lockPath, locked, mem, fileVars, told>>

(* A copy that comes from an older file cannot be stored any more.         *)
Current_Any(s) == TRUE
Current(s) == mem[s].accessed => mem[s].signature = file.signature

After(op) == CASE op = "lock" -> "idle" [] op = "commit" -> "save" [] op = "apply" -> "apply"

compare(s) ==
  /\ pc[s] = "compare"
  /\ \/ /\ Current(s)
        /\ locked' = [locked EXCEPT ![s] = TRUE]
        /\ Goto(s, After(call[s].op))
     \/ ~Current(s) /\ Goto(s, "unlink") /\ UNCHANGED locked
  /\ UNCHANGED <<lockPath, flock, lockFD, mem, fileVars, told>>

(* The path goes first: whoever opens it from now on makes a new file.     *)
unlink(s) ==
  /\ pc[s] = "unlink"
  /\ lockPath' = None /\ Goto(s, "close")
  /\ UNCHANGED <<flock, lockFD, locked, mem, fileVars, told>>

close_NotStale(s) ==
  /\ pc[s] = "close"
  /\ IF locked[s] THEN Close(s) ELSE UNCHANGED <<flock, lockFD>>
  /\ locked' = [locked EXCEPT ![s] = FALSE] /\ Goto(s, "idle")
  /\ UNCHANGED <<lockPath, mem, fileVars, told>>
close(s) ==
  /\ pc[s] = "close"
  /\ Close(s) /\ locked' = [locked EXCEPT ![s] = FALSE] /\ Goto(s, "idle")
  /\ UNCHANGED <<lockPath, mem, fileVars, told>>

-----------------------------------------------------------------------------
(* SCPreferencesCommitChanges(), with the lock.                            *)
Fail(s, f, l) == f \in Faults /\ Goto(s, l) /\ UNCHANGED <<temp, file, version, mem, told>>

Removes(s) == mem[s].prefs = {} /\ s \in RemoveWhenEmpty

(* The file is opened without O_TRUNC: what a death or a failed rename     *)
(* left behind is written over, and its end may stay.                      *)
Opened == IF temp = None THEN Partial ELSE Torn

save(s) ==
  /\ pc[s] = "save"
  /\ \/ ~mem[s].changed /\ Goto(s, "post") /\ UNCHANGED <<fileVars, mem>>
     \/ /\ mem[s].changed /\ Removes(s)
        /\ file' = Missing /\ mem' = [mem EXCEPT ![s].signature = 0]
        /\ Goto(s, "post") /\ UNCHANGED <<temp, version>>
     \/ /\ mem[s].changed /\ ~Removes(s)
        /\ temp' = Opened /\ Goto(s, "write") /\ UNCHANGED <<file, version, mem>>
     \/ mem[s].changed /\ ~Removes(s) /\ Fail(s, "open", "done")
  /\ UNCHANGED <<lockVars, told>>

(* A write that fails removes the file.  Remains that are not longer, or   *)
(* that the parser does not look at, do no harm.  Preferences that cannot  *)
(* be made into data leave the file: with its remains, or empty, which is  *)
(* as good as none.                                                        *)
Written_Any(s) == temp' \in {Partial, mem[s].prefs} /\ Goto(s, "rename")
Written(s) == \/ temp' = mem[s].prefs /\ Goto(s, "rename")
              \/ temp = Torn /\ temp' = Torn /\ Goto(s, "rename")
              \/ "write" \in Faults /\ temp' = None /\ Goto(s, "done")
              \/ "write" \in Faults /\ temp = Torn /\ temp' = Torn /\ Goto(s, "done")

writen(s) ==
  /\ pc[s] = "write" /\ Written(s)
  /\ UNCHANGED <<lockVars, mem, file, version, told>>

rename(s) ==
  /\ pc[s] = "rename"
  /\ \/ /\ temp # None
        /\ file' = [signature |-> version + 1, prefs |-> temp]
        /\ version' = version + 1 /\ temp' = None
        /\ Goto(s, "stat") /\ UNCHANGED <<mem, told>>
     \/ Fail(s, "rename", "done")
  /\ UNCHANGED lockVars

(* The file that was just renamed is there.                                *)
stat(s) ==
  /\ pc[s] = "stat"
  /\ mem' = [mem EXCEPT ![s].signature = file.signature] /\ Goto(s, "post")
  /\ UNCHANGED <<lockVars, fileVars, told>>

post(s) ==
  /\ pc[s] = "post"
  /\ \/ /\ told' = told \cup {"commit"} /\ mem' = [mem EXCEPT ![s].changed = FALSE]
        /\ Goto(s, "done") /\ UNCHANGED fileVars
     \/ Fail(s, "notify", "done")
  /\ UNCHANGED lockVars

apply(s) ==
  /\ pc[s] = "apply"
  /\ \/ told' = told \cup {"apply"} /\ Goto(s, "done") /\ UNCHANGED <<mem, fileVars>>
     \/ Fail(s, "notify", "done")
  /\ UNCHANGED lockVars

(* The lock is given back if the call took it.                             *)
done(s) ==
  /\ pc[s] = "done"
  /\ Goto(s, IF call[s].wasLocked THEN "idle" ELSE "unlink")
  /\ UNCHANGED <<lockVars, mem, fileVars, told>>

-----------------------------------------------------------------------------
(* The process dies: the kernel closes its files, and leaves the lock file *)
(* and the new file where they are (external).                             *)
Crash(s) ==
  /\ ~Idle(s) \/ locked[s]
  /\ IF lockFD[s] = None THEN UNCHANGED <<flock, lockFD>> ELSE Close(s)
  /\ locked' = [locked EXCEPT ![s] = FALSE] /\ Goto(s, "idle")
  /\ mem' = [mem EXCEPT ![s] = Fresh]
  /\ UNCHANGED <<lockPath, fileVars, told>>

Step(s) == \/ open(s) \/ O_EXLOCK(s) \/ check(s) \/ compare(s) \/ unlink(s) \/ close(s)
           \/ save(s) \/ writen(s) \/ rename(s) \/ stat(s) \/ post(s) \/ apply(s) \/ done(s)

Use(s) == \/ SCPreferencesGetValue(s) \/ SCPreferencesSynchronize(s)
          \/ SCPreferencesRemoveAllValues(s)
          \/ \E k \in Key : \/ SCPreferencesSetValue(s, k) \/ SCPreferencesAddValue(s, k)
                            \/ SCPreferencesRemoveValue(s, k)
          \/ \E wait \in BOOLEAN : SCPreferencesLock(s, wait)
          \/ SCPreferencesCommitChanges(s) \/ SCPreferencesApplyChanges(s)
          \/ SCPreferencesUnlock(s)

Next == \E s \in Session : Use(s) \/ Step(s) \/ Crash(s)

Spec == Init /\ [][Next]_vars

(* A call that has begun goes on.                                          *)
FairSpec == Spec /\ \A s \in Session : WF_vars(Step(s))

-----------------------------------------------------------------------------
Label == {"idle", "open", "flock", "check", "compare", "unlink", "close",
          "save", "write", "rename", "stat", "post", "apply", "done"}

Signature == 0 .. version

(* Every variable has its type.                                            *)
TypeOK ==
  /\ lockPath \in Ino \cup {None}
  /\ flock \in [Ino -> Session \cup {None}]
  /\ lockFD \in [Session -> Ino \cup {None}]
  /\ locked \in [Session -> BOOLEAN]
  /\ pc \in [Session -> Label]
  /\ call \in [Session -> [op : {"lock", "commit", "apply"}, wait : BOOLEAN, wasLocked : BOOLEAN]]
  /\ version \in Nat
  /\ mem \in [Session -> [accessed : BOOLEAN, signature : Signature, prefs : Content, changed : BOOLEAN]]
  /\ file \in [signature : Signature, prefs : {Partial, Torn} \cup Content]
  /\ temp \in {Partial, Torn, None} \cup Content
  /\ told \subseteq {"commit", "apply"}

(* SCPreferencesLock() gives exclusive access: at most one session has the *)
(* lock, until it unlinks the lock file, however opens, unlinks, retries   *)
(* and deaths interleave.                                                  *)
Holding(s) == pc[s] # "close" /\ (locked[s] \/ pc[s] \in {"compare", "unlink"})

MutualExclusion == \A s, t \in Session : Holding(s) /\ Holding(t) => s = t

(* The preferences file is never one that was written only in part: what a *)
(* death or a failed write leaves is in the other file, and is written to  *)
(* its end before it is renamed.  (The end of older remains may follow.)   *)
FileWhole == file.prefs # Partial

(* No update is lost: the steps of the sessions implement                  *)
(* PreferencesService, where a session stores only over what it has read.  *)
Nothing == <<>>

Base(s) == IF ~mem[s].accessed THEN Nothing
           ELSE IF pc[s] = "stat" THEN <<file.signature>> ELSE <<mem[s].signature>>

Stored == <<file.signature>>

Bases == [s \in Session |-> Base(s)]

Promise == INSTANCE PreferencesService WITH stored <- Stored, base <- Bases

NoLostUpdate == Promise!Service

(* A session waits for ever only if others have the lock, or begin to ask  *)
(* for it, again and again: neither an unlinked lock file, nor a stale     *)
(* copy, nor the death of the holder leaves the lock taken.                *)
Waiting(s) == pc[s] \in {"open", "flock", "check"}

LockFreed ==
  \A s \in Session :
    []<>~Waiting(s) \/ []<>(\E t \in Session \ {s} : locked[t] \/ pc[t] = "open")
=============================================================================
