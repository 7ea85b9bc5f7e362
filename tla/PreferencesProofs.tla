------------------------- MODULE PreferencesProofs -------------------------
(***************************************************************************)
(* Proofs about Preferences, for any number of sessions, keys, inodes and  *)
(* commits: the lock excludes, the file is whole, and no update is lost.   *)
(***************************************************************************)
EXTENDS Preferences, TLAPS

(* The parts of the type invariant.                                        *)
LockTyped == /\ lockPath \in Ino \cup {None}
             /\ flock \in [Ino -> Session \cup {None}]
             /\ lockFD \in [Session -> Ino \cup {None}]
             /\ locked \in [Session -> BOOLEAN]

Call == [op : {"lock", "commit", "apply"}, wait : BOOLEAN, wasLocked : BOOLEAN]

PlaceTyped == pc \in [Session -> Label] /\ call \in [Session -> Call]

Mem == [accessed : BOOLEAN, signature : Signature, prefs : Content, changed : BOOLEAN]

DataTyped == /\ version \in Nat
             /\ mem \in [Session -> Mem]
             /\ file \in [signature : Signature, prefs : {Partial, Torn} \cup Content]
             /\ temp \in {Partial, Torn, None} \cup Content
             /\ told \subseteq {"commit", "apply"}

Saving == {"save", "write", "rename", "stat", "post", "apply", "done"}

(* Where a session is in the code says what it has of the lock.            *)
Stages == \A s \in Session :
            /\ pc[s] \in Saving => locked[s]
            /\ pc[s] \in {"open", "flock", "check", "compare"} => ~locked[s]

HasFile(s) == locked[s] \/ pc[s] \in {"flock", "check", "compare", "unlink", "close"}

HasFlock(s) == locked[s] \/ pc[s] \in {"check", "compare", "unlink", "close"}

FilesOpen == \A s \in Session : HasFile(s) => lockFD[s] \in Ino

FlockHeld == \A s \in Session : HasFlock(s) => flock[lockFD[s]] = s

(* A session that has been through check() has the file at the path.       *)
PathHeld == \A s \in Session : Holding(s) => lockPath = lockFD[s]

LockInv == Stages /\ FilesOpen /\ FlockHeld /\ PathHeld

(* The copy of a session that has the lock comes from the file as it is.   *)
CopyCurrent == \A s \in Session :
                 locked[s] /\ mem[s].accessed /\ pc[s] \notin {"stat", "close"}
                   => mem[s].signature = file.signature

ChangedAccessed == \A s \in Session :
                     /\ mem[s].changed => mem[s].accessed
                     /\ pc[s] \in {"write", "rename", "stat"} => mem[s].changed

TempWhole == \A s \in Session : pc[s] = "rename" => temp # Partial

IInv == TypeOK /\ LockInv /\ CopyCurrent /\ ChangedAccessed /\ TempWhole /\ FileWhole

-----------------------------------------------------------------------------
(* Exclusion follows: two holders have the same file and it has one lock.  *)
LEMMA Exclusion == LockInv => MutualExclusion
BY DEF LockInv, FilesOpen, FlockHeld, PathHeld, MutualExclusion, Holding, HasFile, HasFlock

LEMMA InitIInv == Init => IInv
<1> SUFFICES ASSUME Init PROVE IInv
  OBVIOUS
<1> USE PreferencesConstants DEF Init
<1>1. TypeOK
  BY DEF TypeOK, Label, Missing, NoCall, Fresh, Signature, Content
<1>2. LockInv
  BY DEF LockInv, Stages, FilesOpen, FlockHeld, PathHeld, HasFile, HasFlock, Holding, Saving
<1>3. CopyCurrent /\ ChangedAccessed /\ TempWhole
  BY DEF CopyCurrent, ChangedAccessed, TempWhole, Fresh
<1>4. FileWhole
  BY DEF FileWhole, Missing
<1> QED
  BY <1>1, <1>2, <1>3, <1>4 DEF IInv

-----------------------------------------------------------------------------
(* Types.                                                                  *)
LEMMA Types == /\ TypeOK <=> LockTyped /\ PlaceTyped /\ DataTyped
               /\ TypeOK' <=> LockTyped' /\ PlaceTyped' /\ DataTyped'
BY DEF TypeOK, LockTyped, PlaceTyped, DataTyped, Call, Mem

LEMMA GotoType ==
  ASSUME PlaceTyped, NEW s \in Session, NEW l \in Label, Goto(s, l)
  PROVE  PlaceTyped'
BY DEF PlaceTyped, Goto, Call, NoCall

(* A copy that was accessed and edited is a copy.                          *)
LEMMA EditType ==
  ASSUME DataTyped, NEW s \in Session
  PROVE  /\ Fresh \in Mem
         /\ Accessed(mem[s]) \in Mem
         /\ \A K \in Content : [Accessed(mem[s]) EXCEPT !.prefs = K, !.changed = TRUE] \in Mem
<1>1. Fresh \in Mem
  BY DEF DataTyped, Mem, Fresh, Signature, Content
<1>2. Accessed(mem[s]) \in Mem
  BY DEF DataTyped, Mem, Accessed, Parses, Parsed, Signature, Content
<1>3. ASSUME NEW K \in Content
      PROVE  [Accessed(mem[s]) EXCEPT !.prefs = K, !.changed = TRUE] \in Mem
  BY <1>2 DEF Mem
<1> QED
  BY <1>1, <1>2, <1>3

LEMMA CopyType ==
  ASSUME TypeOK, NEW s \in Session, NEW m \in Mem, Copy(s, m)
  PROVE  TypeOK'
BY Types DEF Copy, lockVars, fileVars, LockTyped, PlaceTyped, DataTyped, Call, Mem, Signature

LEMMA TypeUse ==
  ASSUME IInv, NEW s \in Session, Use(s)
  PROVE  TypeOK'
<1>1. TypeOK /\ LockTyped /\ PlaceTyped /\ DataTyped
  BY Types DEF IInv
<1>2. Accessed(mem[s]).prefs \in Content
  BY <1>1, EditType DEF Mem
<1>3. CASE SCPreferencesGetValue(s) \/ SCPreferencesSynchronize(s)
  BY <1>1, <1>3, EditType, CopyType DEF SCPreferencesGetValue, SCPreferencesSynchronize
<1>4. CASE SCPreferencesRemoveAllValues(s)
  <2>1. {} \in Content
    BY DEF Content
  <2> QED
    BY <1>1, <1>4, <2>1, EditType, CopyType DEF SCPreferencesRemoveAllValues
<1>5. ASSUME NEW k \in Key, SCPreferencesSetValue(s, k) \/ SCPreferencesAddValue(s, k)
      PROVE  TypeOK'
  <2>1. Accessed(mem[s]).prefs \cup {k} \in Content
    BY <1>2 DEF Content
  <2> QED
    BY <1>1, <1>5, <2>1, EditType, CopyType DEF SCPreferencesSetValue, SCPreferencesAddValue
<1>6. ASSUME NEW k \in Key, SCPreferencesRemoveValue(s, k)
      PROVE  TypeOK'
  <2>1. Accessed(mem[s]).prefs \ {k} \in Content
    BY <1>2 DEF Content
  <2> QED
    BY <1>1, <1>6, <2>1, EditType, CopyType DEF SCPreferencesRemoveValue
<1>7. ASSUME NEW op \in {"lock", "commit", "apply"}, NEW wait \in BOOLEAN,
             NEW l \in Label, Begin(s, op, wait, l)
      PROVE  TypeOK'
  <2>1. PlaceTyped'
    BY <1>1, <1>7 DEF Begin, PlaceTyped, LockTyped, Call, Label
  <2> QED
    BY <1>1, <1>7, <2>1, Types DEF Begin, lockVars, fileVars, LockTyped, DataTyped, Mem, Signature
<1>8. CASE SCPreferencesCommitChanges(s) \/ SCPreferencesApplyChanges(s)
  BY <1>7, <1>8 DEF SCPreferencesCommitChanges, SCPreferencesApplyChanges, Label
<1>9. ASSUME NEW wait \in BOOLEAN, SCPreferencesLock(s, wait)
      PROVE  TypeOK'
  BY <1>7, <1>9 DEF SCPreferencesLock, Label
<1>10. CASE SCPreferencesUnlock(s)
  <2>1. PlaceTyped'
    BY <1>1, <1>10, GotoType DEF SCPreferencesUnlock, Label
  <2> QED
    BY <1>1, <1>10, <2>1, Types
       DEF SCPreferencesUnlock, lockVars, fileVars, LockTyped, DataTyped, Mem, Signature
<1> QED
  BY <1>3, <1>4, <1>5, <1>6, <1>8, <1>9, <1>10 DEF Use

LEMMA TypeStep ==
  ASSUME IInv, NEW s \in Session, Step(s)
  PROVE  TypeOK'
<1> USE PreferencesConstants
<1>0. LockTyped /\ PlaceTyped /\ DataTyped /\ (HasFile(s) => lockFD[s] \in Ino)
  BY Types DEF IInv, LockInv, FilesOpen
<1>1. CASE open(s)
  <2>1. PlaceTyped'
    BY <1>0, <1>1, GotoType DEF open, Label
  <2>2. LockTyped'
    BY <1>0, <1>1 DEF open, Free, lockVars, LockTyped, HasFile
  <2>3. DataTyped'
    BY <1>0, <1>1 DEF open, fileVars, DataTyped, Mem, Signature, Content
  <2> QED
    BY <2>1, <2>2, <2>3, Types
<1>2. CASE O_EXLOCK(s)
  <2>1. PlaceTyped'
    BY <1>0, <1>2, GotoType DEF O_EXLOCK, Label
  <2>2. LockTyped'
    BY <1>0, <1>2 DEF O_EXLOCK, Close, lockVars, LockTyped, HasFile
  <2>3. DataTyped'
    BY <1>0, <1>2 DEF O_EXLOCK, fileVars, DataTyped, Mem, Signature, Content
  <2> QED
    BY <2>1, <2>2, <2>3, Types
<1>3. CASE check(s)
  <2>1. PlaceTyped'
    BY <1>0, <1>3, GotoType DEF check, Label
  <2>2. LockTyped'
    BY <1>0, <1>3 DEF check, Close, lockVars, LockTyped, HasFile
  <2>3. DataTyped'
    BY <1>0, <1>3 DEF check, fileVars, DataTyped, Mem, Signature, Content
  <2> QED
    BY <2>1, <2>2, <2>3, Types
<1>4. CASE compare(s)
  <2>1. PlaceTyped'
    BY <1>0, <1>4, GotoType DEF compare, After, Label, PlaceTyped, Call
  <2>2. LockTyped'
    BY <1>0, <1>4 DEF compare, lockVars, LockTyped
  <2>3. DataTyped'
    BY <1>0, <1>4 DEF compare, fileVars, DataTyped, Mem, Signature, Content
  <2> QED
    BY <2>1, <2>2, <2>3, Types
<1>5. CASE unlink(s)
  <2>1. PlaceTyped'
    BY <1>0, <1>5, GotoType DEF unlink, Label
  <2>2. LockTyped'
    BY <1>0, <1>5 DEF unlink, lockVars, LockTyped
  <2>3. DataTyped'
    BY <1>0, <1>5 DEF unlink, fileVars, DataTyped, Mem, Signature, Content
  <2> QED
    BY <2>1, <2>2, <2>3, Types
<1>6. CASE close(s)
  <2>1. PlaceTyped'
    BY <1>0, <1>6, GotoType DEF close, Label
  <2>2. LockTyped'
    BY <1>0, <1>6 DEF close, Close, lockVars, LockTyped, HasFile
  <2>3. DataTyped'
    BY <1>0, <1>6 DEF close, fileVars, DataTyped, Mem, Signature, Content
  <2> QED
    BY <2>1, <2>2, <2>3, Types
<1>7. CASE save(s)
  <2>1. PlaceTyped'
    BY <1>0, <1>7, GotoType DEF save, Fail, Label
  <2>2. LockTyped'
    BY <1>0, <1>7 DEF save, lockVars, LockTyped
  <2>3. DataTyped'
    BY <1>0, <1>7 DEF save, Removes, Opened, Fail, Missing, fileVars, DataTyped, Mem, Signature, Content
  <2> QED
    BY <2>1, <2>2, <2>3, Types
<1>8. CASE writen(s)
  <2>1. PlaceTyped'
    BY <1>0, <1>8, GotoType DEF writen, Written, Label
  <2>2. LockTyped'
    BY <1>0, <1>8 DEF writen, lockVars, LockTyped
  <2>3. DataTyped'
    BY <1>0, <1>8 DEF writen, Written, fileVars, DataTyped, Mem, Signature, Content
  <2> QED
    BY <2>1, <2>2, <2>3, Types
<1>9. CASE rename(s)
  <2>1. PlaceTyped'
    BY <1>0, <1>9, GotoType DEF rename, Fail, Label
  <2>2. LockTyped'
    BY <1>0, <1>9 DEF rename, lockVars, LockTyped
  <2>3. DataTyped'
    <3>1. CASE UNCHANGED <<temp, file, version, mem, told>>
      BY <1>0, <3>1 DEF DataTyped, Mem, Signature
    <3>2. CASE /\ temp # None /\ file' = [signature |-> version + 1, prefs |-> temp]
               /\ version' = version + 1 /\ temp' = None /\ UNCHANGED <<mem, told>>
      <4>1. version' \in Nat /\ Signature \subseteq Signature' /\ version + 1 \in Signature'
        BY <1>0, <3>2 DEF DataTyped, Signature
      <4>2. Mem \subseteq Mem'
        BY <4>1 DEF Mem
      <4>3. file' \in [signature : Signature', prefs : {Partial, Torn} \cup Content]
        BY <1>0, <3>2, <4>1 DEF DataTyped
      <4> QED
        BY <1>0, <3>2, <4>1, <4>2, <4>3 DEF DataTyped, Content
    <3> QED
      BY <1>9, <3>1, <3>2 DEF rename, Fail
  <2> QED
    BY <2>1, <2>2, <2>3, Types
<1>10. CASE stat(s)
  <2>1. PlaceTyped'
    BY <1>0, <1>10, GotoType DEF stat, Label
  <2>2. LockTyped'
    BY <1>0, <1>10 DEF stat, lockVars, LockTyped
  <2>3. DataTyped'
    BY <1>0, <1>10 DEF stat, fileVars, DataTyped, Mem, Signature, Content
  <2> QED
    BY <2>1, <2>2, <2>3, Types
<1>11. CASE post(s)
  <2>1. PlaceTyped'
    BY <1>0, <1>11, GotoType DEF post, Fail, Label
  <2>2. LockTyped'
    BY <1>0, <1>11 DEF post, lockVars, LockTyped
  <2>3. DataTyped'
    <3>1. [mem[s] EXCEPT !.changed = FALSE] \in Mem
      <4>1. mem[s] \in Mem
        BY <1>0 DEF DataTyped
      <4> QED
        BY <4>1 DEF Mem
    <3>2. Mem' = Mem /\ Signature' = Signature /\ Content' = Content /\ UNCHANGED <<file, temp, version>>
      BY <1>11 DEF post, Fail, fileVars, Mem, Signature, Content
    <3>3. \/ mem' = [mem EXCEPT ![s] = [mem[s] EXCEPT !.changed = FALSE]] /\ told' = told \cup {"commit"}
          \/ mem' = mem /\ told' = told
      BY <1>0, <1>11 DEF post, Fail, DataTyped
    <3>4. mem' \in [Session -> Mem]
      BY <1>0, <3>1, <3>3 DEF DataTyped
    <3>5. told' \subseteq {"commit", "apply"}
      BY <1>0, <3>3 DEF DataTyped
    <3> QED
      BY <1>0, <3>2, <3>4, <3>5 DEF DataTyped
  <2> QED
    BY <2>1, <2>2, <2>3, Types
<1>12. CASE apply(s)
  <2>1. PlaceTyped'
    BY <1>0, <1>12, GotoType DEF apply, Fail, Label
  <2>2. LockTyped'
    BY <1>0, <1>12 DEF apply, lockVars, LockTyped
  <2>3. DataTyped'
    BY <1>0, <1>12 DEF apply, Fail, fileVars, DataTyped, Mem, Signature, Content
  <2> QED
    BY <2>1, <2>2, <2>3, Types
<1>13. CASE done(s)
  <2>1. PlaceTyped'
    BY <1>0, <1>13, GotoType DEF done, Label
  <2>2. LockTyped'
    BY <1>0, <1>13 DEF done, lockVars, LockTyped
  <2>3. DataTyped'
    BY <1>0, <1>13 DEF done, fileVars, DataTyped, Mem, Signature, Content
  <2> QED
    BY <2>1, <2>2, <2>3, Types
<1> QED
  BY <1>1, <1>2, <1>3, <1>4, <1>5, <1>6, <1>7, <1>8, <1>9, <1>10, <1>11, <1>12, <1>13 DEF Step

LEMMA TypeCrash ==
  ASSUME IInv, NEW s \in Session, Crash(s)
  PROVE  TypeOK'
<1>1. TypeOK /\ LockTyped /\ PlaceTyped /\ DataTyped
  BY Types DEF IInv
<1>2. PlaceTyped'
  BY <1>1, GotoType DEF Crash, Label
<1>3. LockTyped'
  BY <1>1, PreferencesConstants DEF Crash, Close, LockTyped
<1>4. DataTyped'
  BY <1>1 DEF Crash, fileVars, DataTyped, Mem, Fresh, Signature, Content
<1> QED
  BY <1>2, <1>3, <1>4, Types

-----------------------------------------------------------------------------
(* The lock.  What the operations of one session leave of another's.       *)
LEMMA LockUse ==
  ASSUME IInv, NEW s \in Session, Use(s)
  PROVE  LockInv'
<1> USE DEF LockInv, Stages, FilesOpen, FlockHeld, PathHeld, HasFile, HasFlock, Holding, Saving
<1>0. LockInv /\ LockTyped /\ PlaceTyped
  BY Types DEF IInv
<1>1. ASSUME NEW m, Copy(s, m)
      PROVE  LockInv'
  BY <1>0, <1>1, SMTT(30) DEF Copy, lockVars
<1>2. CASE \/ SCPreferencesGetValue(s) \/ SCPreferencesSynchronize(s)
           \/ SCPreferencesRemoveAllValues(s)
           \/ \E k \in Key : \/ SCPreferencesSetValue(s, k) \/ SCPreferencesAddValue(s, k)
                             \/ SCPreferencesRemoveValue(s, k)
  BY <1>1, <1>2
     DEF SCPreferencesGetValue, SCPreferencesSynchronize, SCPreferencesRemoveAllValues,
         SCPreferencesSetValue, SCPreferencesAddValue, SCPreferencesRemoveValue
<1>3. ASSUME NEW op, NEW wait, NEW l \in {"open", "save", "apply"},
             Begin(s, op, wait, l), l = "open" => ~locked[s]
      PROVE  LockInv'
  <2>1. UNCHANGED <<lockPath, flock, lockFD, locked>>
    BY <1>3 DEF Begin, lockVars
  <2>2. /\ pc[s] = "idle"
        /\ pc' = [pc EXCEPT ![s] = IF locked[s] THEN l ELSE "open"]
    BY <1>3 DEF Begin, Idle
  <2> QED
    BY <1>0, <1>3, <2>1, <2>2 DEF LockTyped, PlaceTyped
<1>4. CASE (\E wait \in BOOLEAN : SCPreferencesLock(s, wait))
           \/ SCPreferencesCommitChanges(s) \/ SCPreferencesApplyChanges(s)
  BY <1>3, <1>4
     DEF SCPreferencesLock, SCPreferencesCommitChanges, SCPreferencesApplyChanges
<1>5. CASE SCPreferencesUnlock(s)
  BY <1>0, <1>5 DEF SCPreferencesUnlock, Goto, Idle, lockVars, PlaceTyped
<1> QED
  BY <1>2, <1>4, <1>5 DEF Use

LEMMA LockStep ==
  ASSUME IInv, NEW s \in Session, Step(s)
  PROVE  LockInv'
<1> USE PreferencesConstants
    DEF LockInv, Stages, FilesOpen, FlockHeld, PathHeld, HasFile, HasFlock, Holding, Saving
<1>0. LockInv /\ LockTyped /\ PlaceTyped
  BY Types DEF IInv
<1>1. CASE open(s)
  BY <1>0, <1>1 DEF open, Free, Goto, LockTyped, PlaceTyped
<1>2. CASE O_EXLOCK(s)
  BY <1>0, <1>2 DEF O_EXLOCK, Close, Goto, LockTyped, PlaceTyped
<1>3. CASE check(s)
  BY <1>0, <1>3 DEF check, Same, Close, Goto, LockTyped, PlaceTyped
<1>4. CASE compare(s)
  BY <1>0, <1>4 DEF compare, After, Goto, LockTyped, PlaceTyped, Call
<1>5. CASE unlink(s)
  BY <1>0, <1>5 DEF unlink, Goto, LockTyped, PlaceTyped
<1>6. CASE close(s)
  BY <1>0, <1>6 DEF close, Close, Goto, LockTyped, PlaceTyped
<1>7. CASE save(s) \/ writen(s) \/ rename(s) \/ stat(s) \/ post(s) \/ apply(s)
  <2>1. /\ UNCHANGED <<lockPath, flock, lockFD, locked>>
        /\ pc[s] \in Saving
        /\ \E l \in Saving : Goto(s, l)
    BY <1>7 DEF save, writen, Written, rename, stat, post, apply, Fail, lockVars
  <2> QED
    BY <1>0, <2>1 DEF Goto, PlaceTyped
<1>8. CASE done(s)
  BY <1>0, <1>8 DEF done, Goto, lockVars, PlaceTyped
<1> QED
  BY <1>1, <1>2, <1>3, <1>4, <1>5, <1>6, <1>7, <1>8 DEF Step

LEMMA LockCrash ==
  ASSUME IInv, NEW s \in Session, Crash(s)
  PROVE  LockInv'
<1>0. LockInv /\ LockTyped /\ PlaceTyped
  BY Types DEF IInv
<1> QED
  BY <1>0, PreferencesConstants
     DEF Crash, Close, Goto, LockTyped, PlaceTyped, LockInv, Stages, FilesOpen, FlockHeld, PathHeld,
         HasFile, HasFlock, Holding, Saving

-----------------------------------------------------------------------------
(* The copies and the files: only a holder of the lock changes the files.  *)
CopyInv == CopyCurrent /\ ChangedAccessed /\ TempWhole /\ FileWhole

LEMMA Alone ==
  ASSUME IInv, NEW s \in Session, pc[s] \in Saving
  PROVE  /\ locked[s]
         /\ \A t \in Session \ {s} : locked[t] => pc[t] = "close"
         /\ \A t \in Session \ {s} : pc[t] \notin Saving
<1>1. LockInv /\ MutualExclusion
  BY Exclusion DEF IInv
<1>2. locked[s] /\ Holding(s)
  BY <1>1 DEF LockInv, Stages, Holding, Saving
<1>3. ASSUME NEW t \in Session \ {s}
      PROVE  /\ locked[t] => pc[t] = "close"
             /\ pc[t] \notin Saving
  BY <1>1, <1>2, <1>3 DEF MutualExclusion, Holding, LockInv, Stages, Saving
<1> QED
  BY <1>2, <1>3

LEMMA CopyUse ==
  ASSUME IInv, NEW s \in Session, Use(s)
  PROVE  CopyInv'
<1> USE DEF CopyInv, CopyCurrent, ChangedAccessed, TempWhole, FileWhole
<1>0. CopyInv /\ LockTyped /\ PlaceTyped /\ DataTyped
  BY Types DEF IInv
<1>1. /\ Accessed(mem[s]).accessed
      /\ mem[s].accessed => Accessed(mem[s]) = mem[s]
      /\ ~mem[s].accessed => Accessed(mem[s]).signature = file.signature
      /\ Accessed(mem[s]) \in Mem
  BY <1>0, EditType DEF Accessed
<1>2. ASSUME NEW m, Copy(s, m), pc[s] = "idle",
             m.changed => m.accessed,
             m.accessed => m.signature = Accessed(mem[s]).signature
      PROVE  CopyInv'
  BY <1>0, <1>1, <1>2 DEF Copy, lockVars, fileVars, PlaceTyped, DataTyped
<1>3. CASE SCPreferencesGetValue(s)
  BY <1>0, <1>1, <1>2, <1>3 DEF SCPreferencesGetValue, Idle
<1>4. CASE SCPreferencesSynchronize(s)
  BY <1>2, <1>4 DEF SCPreferencesSynchronize, Idle, Fresh
<1>5. ASSUME NEW K, Copy(s, [Accessed(mem[s]) EXCEPT !.prefs = K, !.changed = TRUE]), Idle(s)
      PROVE  CopyInv'
  BY <1>1, <1>2, <1>5 DEF Idle, Mem
<1>6. CASE SCPreferencesRemoveAllValues(s)
  BY <1>5, <1>6 DEF SCPreferencesRemoveAllValues
<1>7. ASSUME NEW k \in Key, \/ SCPreferencesSetValue(s, k) \/ SCPreferencesAddValue(s, k)
                            \/ SCPreferencesRemoveValue(s, k)
      PROVE  CopyInv'
  <2>1. \/ Copy(s, Accessed(mem[s]))
        \/ \E K : Copy(s, [Accessed(mem[s]) EXCEPT !.prefs = K, !.changed = TRUE])
    BY <1>7 DEF SCPreferencesSetValue, SCPreferencesAddValue, SCPreferencesRemoveValue
  <2>2. Idle(s)
    BY <1>7 DEF SCPreferencesSetValue, SCPreferencesAddValue, SCPreferencesRemoveValue
  <2> QED
    BY <1>0, <1>1, <1>2, <1>5, <2>1, <2>2 DEF Idle
<1>8. ASSUME NEW l \in {"open", "save", "apply", "unlink"},
             pc' = [pc EXCEPT ![s] = l], UNCHANGED <<lockVars, mem, fileVars>>, Idle(s)
      PROVE  CopyInv'
  BY <1>0, <1>8 DEF lockVars, fileVars, PlaceTyped, Idle
<1>9. CASE \/ \E wait \in BOOLEAN : SCPreferencesLock(s, wait)
           \/ SCPreferencesCommitChanges(s) \/ SCPreferencesApplyChanges(s)
           \/ SCPreferencesUnlock(s)
  BY <1>8, <1>9 DEF SCPreferencesLock, SCPreferencesCommitChanges, SCPreferencesApplyChanges,
                    SCPreferencesUnlock, Begin, Goto
<1> QED
  BY <1>3, <1>4, <1>6, <1>7, <1>9 DEF Use

LEMMA CopyStep ==
  ASSUME IInv, NEW s \in Session, Step(s)
  PROVE  CopyInv'
<1> USE DEF CopyInv, CopyCurrent, ChangedAccessed, TempWhole, FileWhole
<1>0. CopyInv /\ LockTyped /\ PlaceTyped /\ DataTyped
  BY Types DEF IInv
<1>1. CASE open(s) \/ O_EXLOCK(s) \/ check(s) \/ unlink(s) \/ done(s) \/ apply(s)
  <2>1. /\ UNCHANGED <<locked, mem, file, temp>>
        /\ \E l \in Label \ {"write", "rename", "stat"} : pc' = [pc EXCEPT ![s] = l]
        /\ pc[s] \notin {"stat", "close"}
    BY <1>1 DEF open, O_EXLOCK, check, unlink, done, apply, Fail, Goto, lockVars, fileVars, Label
  <2> QED
    BY <1>0, <2>1 DEF PlaceTyped
<1>2. CASE compare(s)
  BY <1>0, <1>2, ZenonT(60) DEF compare, Current, After, Goto, fileVars, LockTyped, PlaceTyped, Call
<1>3. CASE close(s)
  BY <1>0, <1>3 DEF close, Goto, fileVars, LockTyped, PlaceTyped
<1>4. ASSUME pc[s] \in Saving
      PROVE  /\ locked[s]
             /\ \A t \in Session \ {s} : locked[t] => pc[t] = "close"
             /\ \A t \in Session \ {s} : pc[t] \notin {"write", "rename", "stat"}
  BY <1>4, Alone DEF Saving
<1>5. CASE save(s)
  <2>1. {} # Partial
    BY PreferencesConstants
  <2>2. CASE UNCHANGED <<file, mem>>
    BY <1>0, <1>4, <1>5, <2>2 DEF save, Goto, Fail, lockVars, fileVars, Saving, PlaceTyped, DataTyped, Mem
  <2>3. CASE file' = Missing /\ mem' = [mem EXCEPT ![s].signature = 0] /\ temp' = temp /\ Goto(s, "post")
    BY <1>0, <1>4, <1>5, <2>1, <2>3 DEF save, Missing, Goto, lockVars, Saving, PlaceTyped, DataTyped, Mem
  <2> QED
    BY <1>5, <2>2, <2>3 DEF save, Fail, fileVars
<1>6. CASE writen(s)
  BY <1>0, <1>4, <1>6, PreferencesConstants, ZenonT(60)
     DEF writen, Written, Goto, lockVars, Saving, PlaceTyped, DataTyped, Mem, Content
<1>7. CASE rename(s)
  BY <1>0, <1>4, <1>7 DEF rename, Fail, Goto, lockVars, Saving, PlaceTyped, DataTyped
<1>8. CASE stat(s)
  BY <1>0, <1>4, <1>8 DEF stat, Goto, lockVars, fileVars, Saving, PlaceTyped, DataTyped, Mem
<1>9. CASE post(s)
  BY <1>0, <1>4, <1>9 DEF post, Fail, Goto, lockVars, fileVars, Saving, PlaceTyped, DataTyped, Mem
<1> QED
  BY <1>1, <1>2, <1>3, <1>5, <1>6, <1>7, <1>8, <1>9 DEF Step

LEMMA CopyCrash ==
  ASSUME IInv, NEW s \in Session, Crash(s)
  PROVE  CopyInv'
<1>0. CopyInv /\ LockTyped /\ PlaceTyped /\ DataTyped
  BY Types DEF IInv, CopyInv
<1> QED
  BY <1>0 DEF Crash, Goto, fileVars, Fresh, LockTyped, PlaceTyped, DataTyped,
              CopyInv, CopyCurrent, ChangedAccessed, TempWhole, FileWhole

LEMMA NextIInv == IInv /\ [Next]_vars => IInv'
<1> SUFFICES ASSUME IInv, [Next]_vars PROVE IInv'
  OBVIOUS
<1>1. ASSUME NEW s \in Session, Use(s) \/ Step(s) \/ Crash(s)
      PROVE  IInv'
  <2>1. TypeOK'
    BY <1>1, TypeUse, TypeStep, TypeCrash
  <2>2. LockInv'
    BY <1>1, LockUse, LockStep, LockCrash
  <2>3. CopyInv'
    BY <1>1, CopyUse, CopyStep, CopyCrash
  <2> QED
    BY <2>1, <2>2, <2>3 DEF IInv, CopyInv
<1>2. CASE UNCHANGED vars
  BY <1>2 DEF vars, lockVars, fileVars, IInv, TypeOK, LockInv, Stages, FilesOpen, FlockHeld, PathHeld,
              HasFile, HasFlock, Holding, CopyCurrent, ChangedAccessed, TempWhole, FileWhole,
              Signature, Content
<1> QED
  BY <1>1, <1>2 DEF Next

(* The inductive invariant holds in every reachable state.                 *)
THEOREM Invariance == Spec => []IInv
BY InitIInv, NextIInv, PTL DEF Spec

(* Every reachable state is well typed, whatever fails and dies.           *)
THEOREM TypeCorrect == Spec => []TypeOK
<1>1. IInv => TypeOK
  BY DEF IInv
<1> QED
  BY <1>1, Invariance, PTL

(* SCPreferencesLock() excludes, for any number of processes that open,    *)
(* wait, retry, give up, unlock and die.                                   *)
THEOREM LockExcludes == Spec => []MutualExclusion
<1>1. IInv => MutualExclusion
  BY Exclusion DEF IInv
<1> QED
  BY <1>1, Invariance, PTL

(* The preferences file is at all times one that was written to its end.   *)
THEOREM AlwaysWhole == Spec => []FileWhole
<1>1. IInv => FileWhole
  BY DEF IInv
<1> QED
  BY <1>1, Invariance, PTL

-----------------------------------------------------------------------------
(* No update is lost.  A step changes neither the signature of the file    *)
(* nor where the copies come from, or it is one of PreferencesService.     *)
LEMMA Others ==
  ASSUME NEW s \in Session, DataTyped, PlaceTyped,
         \A t \in Session \ {s} : mem'[t] = mem[t] /\ pc'[t] = pc[t],
         file' = file \/ \A t \in Session \ {s} : pc[t] # "stat"
  PROVE  Bases' = [Bases EXCEPT ![s] = Base(s)']
BY DEF Bases, Base, DataTyped, PlaceTyped

LEMMA Stores ==
  ASSUME NEW s \in Session, Base(s) = Stored, Base(s)' = Stored',
         Bases' = [Bases EXCEPT ![s] = Base(s)']
  PROVE  Promise!ServiceNext
BY DEF Bases, Promise!ServiceNext, Promise!Store

LEMMA Reads ==
  ASSUME NEW s \in Session, Stored' = Stored, Base(s)' \in {Base(s), Stored, Nothing},
         Bases' = [Bases EXCEPT ![s] = Base(s)']
  PROVE  Promise!ServiceNext \/ UNCHANGED <<Stored, Bases>>
BY DEF Bases, Promise!ServiceNext, Promise!Read, Promise!Forget

LEMMA StepRefines == IInv /\ [Next]_vars => [Promise!ServiceNext]_<<Stored, Bases>>
<1> SUFFICES ASSUME IInv, [Next]_vars
             PROVE  Promise!ServiceNext \/ UNCHANGED <<Stored, Bases>>
  OBVIOUS
<1>0. CopyInv /\ LockTyped /\ PlaceTyped /\ DataTyped
  BY Types DEF IInv, CopyInv
<1>1. CASE UNCHANGED vars
  BY <1>1 DEF vars, fileVars, Stored, Bases, Base
<1>2. ASSUME NEW s \in Session, Use(s)
      PROVE  Promise!ServiceNext \/ UNCHANGED <<Stored, Bases>>
  <2>1. /\ UNCHANGED file /\ pc[s] = "idle" /\ pc'[s] # "stat"
        /\ \A t \in Session \ {s} : mem'[t] = mem[t] /\ pc'[t] = pc[t]
    BY <1>0, <1>2 DEF Use, Copy, Begin, Goto, Idle, fileVars, PlaceTyped, DataTyped,
         SCPreferencesGetValue, SCPreferencesSynchronize, SCPreferencesRemoveAllValues,
         SCPreferencesSetValue, SCPreferencesAddValue, SCPreferencesRemoveValue,
         SCPreferencesLock, SCPreferencesCommitChanges, SCPreferencesApplyChanges, SCPreferencesUnlock
  <2>2. \/ mem'[s] = mem[s] \/ mem'[s] = Fresh
        \/ mem'[s].accessed /\ mem'[s].signature = Accessed(mem[s]).signature
    <3>1. Accessed(mem[s]) \in Mem /\ Accessed(mem[s]).accessed
      BY <1>0, EditType DEF Accessed
    <3>2. \A m : Copy(s, m) => mem'[s] = m
      BY <1>0 DEF Copy, DataTyped
    <3>3. ASSUME NEW K, Copy(s, [Accessed(mem[s]) EXCEPT !.prefs = K, !.changed = TRUE])
          PROVE  mem'[s].accessed /\ mem'[s].signature = Accessed(mem[s]).signature
      BY <3>1, <3>2, <3>3 DEF Mem
    <3>4. \/ Copy(s, Accessed(mem[s])) \/ Copy(s, Fresh) \/ mem' = mem
          \/ \E K : Copy(s, [Accessed(mem[s]) EXCEPT !.prefs = K, !.changed = TRUE])
      BY <1>2 DEF Use, Begin,
         SCPreferencesGetValue, SCPreferencesSynchronize, SCPreferencesRemoveAllValues,
         SCPreferencesSetValue, SCPreferencesAddValue, SCPreferencesRemoveValue,
         SCPreferencesLock, SCPreferencesCommitChanges, SCPreferencesApplyChanges, SCPreferencesUnlock
    <3> QED
      BY <3>1, <3>2, <3>3, <3>4
  <2>3. Base(s)' \in {Base(s), Stored, Nothing}
    BY <2>1, <2>2 DEF Base, Stored, Fresh, Accessed
  <2> QED
    BY <1>0, <2>1, <2>3, Others, Reads DEF Stored
<1>3. ASSUME NEW s \in Session, Crash(s)
      PROVE  Promise!ServiceNext \/ UNCHANGED <<Stored, Bases>>
  BY <1>0, <1>3, Others, Reads
     DEF Crash, Goto, fileVars, Fresh, Base, Stored, PlaceTyped, DataTyped
<1>4. ASSUME NEW s \in Session, Step(s)
      PROVE  Promise!ServiceNext \/ UNCHANGED <<Stored, Bases>>
  <2>1. \A t \in Session \ {s} : mem'[t] = mem[t] /\ pc'[t] = pc[t]
    BY <1>0, <1>4 DEF Step, open, O_EXLOCK, check, compare, unlink, close, save, writen, Written,
         rename, stat, post, apply, done, Fail, Goto, fileVars, PlaceTyped, DataTyped
  <2> DEFINE Writes == \/ pc[s] = "rename" /\ pc'[s] = "stat" /\ mem' = mem
                       \/ /\ pc[s] = "save" /\ pc'[s] = "post" /\ mem[s].changed /\ file' = Missing
                          /\ mem' = [mem EXCEPT ![s].signature = 0]
  <2>2. CASE Writes
    <3>1. pc[s] \in Saving /\ mem[s].accessed
      BY <1>0, <2>2 DEF Saving, CopyInv, ChangedAccessed
    <3>2. locked[s] /\ \A t \in Session \ {s} : pc[t] # "stat"
      BY <3>1, Alone DEF Saving
    <3>3. Base(s) = Stored /\ Base(s)' = Stored'
      BY <1>0, <2>2, <3>1, <3>2 DEF Base, Stored, CopyInv, CopyCurrent, DataTyped, Mem, Missing
    <3> QED
      BY <1>0, <2>1, <3>2, <3>3, Others, Stores
  <2>3. CASE ~Writes
    <3>1. CASE save(s) \/ writen(s) \/ rename(s) \/ post(s) \/ apply(s)
      <4>1. /\ file' = file /\ pc[s] # "stat" /\ pc'[s] # "stat"
            /\ mem'[s].accessed = mem[s].accessed /\ mem'[s].signature = mem[s].signature
        BY <1>0, <2>3, <3>1 DEF save, writen, Written, rename, post, apply, Fail, Goto, fileVars,
             PlaceTyped, DataTyped, Mem
      <4> QED
        BY <1>0, <2>1, <4>1, Others, Reads DEF Stored, Base
    <3>2. CASE stat(s)
      <4>1. file' = file /\ Base(s)' = Base(s)
        BY <1>0, <3>2 DEF stat, Goto, fileVars, Base, PlaceTyped, DataTyped, Mem
      <4> QED
        BY <1>0, <2>1, <4>1, Others, Reads DEF Stored
    <3>3. CASE \/ open(s) \/ O_EXLOCK(s) \/ check(s) \/ compare(s) \/ unlink(s) \/ close(s) \/ done(s)
      <4>1. file' = file /\ mem' = mem /\ pc[s] # "stat" /\ pc'[s] # "stat"
        BY <1>0, <3>3 DEF open, O_EXLOCK, check, compare, After, unlink, close, done, Goto, fileVars,
             PlaceTyped, Call
      <4> QED
        BY <1>0, <2>1, <4>1, Others, Reads DEF Stored, Base
    <3> QED
      BY <1>4, <3>1, <3>2, <3>3 DEF Step
  <2> QED
    BY <2>2, <2>3
<1> QED
  BY <1>1, <1>2, <1>3, <1>4 DEF Next

LEMMA InitRefines == Init => Promise!ServiceInit
BY DEF Init, Promise!ServiceInit, Bases, Base, Fresh

(* The sessions implement PreferencesService: what one stores replaces     *)
(* exactly the preferences its copy comes from.                            *)
THEOREM Refinement == Spec => NoLostUpdate
<1>1. Init => Promise!ServiceInit
  BY InitRefines
<1>2. IInv /\ [Next]_vars => [Promise!ServiceNext]_<<Stored, Bases>>
  BY StepRefines
<1> QED
  BY <1>1, <1>2, Invariance, PTL DEF Spec, NoLostUpdate, Promise!Service
=============================================================================
