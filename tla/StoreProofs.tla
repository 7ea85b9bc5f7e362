----------------------------- MODULE StoreProofs -----------------------------
(***************************************************************************)
(* The dynamic store server, for any sessions, keys and patterns: the      *)
(* indexes agree with the lists they index whenever a request is over, and *)
(* the server keeps the promise of StoreService.                           *)
(*                                                                         *)
(* A request transforms the store in several steps, between which a key    *)
(* that was removed is still listed by its patterns and by its session.    *)
(* The predicates below say what holds of the store d between two of these *)
(* steps; at the end of a request they amount to the invariants.           *)
(***************************************************************************)
EXTENDS DynamicStore, FiniteSetTheorems, TLAPS

Owns(d, s) == {k \in Key : d.owner[k] = s}

\* The keys that a watched pattern lists.
Listed(d) == Stored(d) \cup d.deferredRemovals

Index(d) ==
  \A p \in Pattern :
    /\ d.pSessions[p] = {s \in Session : p \in d.patterns[s]}
    /\ d.pKeys[p] = IF d.pSessions[p] = {} THEN {} ELSE Matches[p] \cap Listed(d)

\* The patterns of session s that list key k.
By(d, s, k) == {p \in d.patterns[s] : k \in d.pKeys[p]}

Named(d, s, k) == IF k \in d.keys[s] THEN 1 ELSE 0

Counts(d) ==
  \A s \in Session, k \in Key : d.refs[s][k] = Named(d, s, k) + Cardinality(By(d, s, k))

\* A removed key has no value, and a changed one is still listed.
Deferred(d) ==
  /\ d.deferredRemovals \cap Stored(d) = {}
  /\ d.changedKeys \subseteq Listed(d)

\* A key leaves the list of its session only at the end of the request.
Tracked(d) ==
  /\ \A s \in Session : Owns(d, s) \subseteq d.sessionKeys[s]
  /\ \A s \in Session : \A k \in d.sessionKeys[s] :
       d.owner[k] = s \/ <<s, k>> \in d.removedSessionKeys
  /\ \A k \in Key : d.owner[k] # None => k \in Stored(d) /\ d.owner[k] \in d.open

\* But for the keys of X, what a session is to lose is not its own.
Lost(d, X) ==
  \A s \in Session, k \in Key : <<s, k>> \in d.removedSessionKeys /\ k \notin X => d.owner[k] # s

\* A session that is closed has nothing.
Vacant(d) ==
  \A s \in Session \ d.open :
    /\ d.keys[s] = {} /\ d.patterns[s] = {}
    /\ d.pending[s] = {} /\ s \notin d.needs /\ d.notify[s] = "NotRegistered"

Sound(d) == d \in Store /\ Index(d) /\ Counts(d) /\ Deferred(d) /\ Tracked(d) /\ Vacant(d)

AtRest(d) == d.changedKeys = {} /\ d.deferredRemovals = {} /\ d.removedSessionKeys = {}

\* The inductive invariant.
IInv ==
  /\ Sound(db) /\ AtRest(db)
  /\ kicks \in [Session -> 0 .. QLimit] /\ phase \in {"event", "push"}

-----------------------------------------------------------------------------
(* Counting patterns *)

LEMMA CountType ==
  ASSUME NEW A, A \subseteq Pattern
  PROVE  IsFiniteSet(A) /\ Cardinality(A) \in Nat /\ (Cardinality(A) = 0 <=> A = {})
<1>1. IsFiniteSet(A)
  BY StoreConstants, FS_Subset
<1> QED
  BY <1>1, FS_CardinalityType, FS_EmptySet

LEMMA CountPlus ==
  ASSUME NEW A, NEW B, A \subseteq Pattern, B \subseteq Pattern, A \cap B = {}
  PROVE  Cardinality(A \cup B) = Cardinality(A) + Cardinality(B)
<1>1. IsFiniteSet(A) /\ IsFiniteSet(B) /\ Cardinality(A) \in Nat /\ Cardinality(B) \in Nat
  BY CountType
<1>2. Cardinality(A \cup B) = Cardinality(A) + Cardinality(B) - Cardinality(A \cap B)
  BY <1>1, FS_Union
<1>3. Cardinality(A \cap B) = 0
  BY FS_EmptySet
<1> QED
  BY <1>1, <1>2, <1>3

LEMMA CountMinus ==
  ASSUME NEW A, NEW B, A \subseteq Pattern, B \subseteq A
  PROVE  Cardinality(A \ B) = Cardinality(A) - Cardinality(B) /\ Cardinality(B) <= Cardinality(A)
<1>1. (A \ B) \cup B = A /\ (A \ B) \cap B = {} /\ B \subseteq Pattern /\ A \ B \subseteq Pattern
  OBVIOUS
<1>2. Cardinality(A) = Cardinality(A \ B) + Cardinality(B)
  <2>1. Cardinality((A \ B) \cup B) = Cardinality(A \ B) + Cardinality(B)
    BY <1>1, CountPlus
  <2> QED
    BY <1>1, <2>1
<1>3. Cardinality(A \ B) \in Nat
  BY <1>1, CountType
<1>4. Cardinality(B) \in Nat
  BY <1>1, CountType
<1> QED
  BY <1>2, <1>3, <1>4

-----------------------------------------------------------------------------
(* What each step of a request does to the fields of the store. *)

SameClients(d, e) ==
  /\ e.open = d.open /\ e.useSessionKeys = d.useSessionKeys
  /\ e.pending = d.pending /\ e.needs = d.needs /\ e.notify = d.notify /\ e.handle = d.handle

SameLists(d, e) == e.keys = d.keys /\ e.patterns = d.patterns /\ e.pSessions = d.pSessions

SameIndex(d, e) == e.pKeys = d.pKeys /\ e.refs = d.refs

SameKeys(d, e) ==
  /\ e.data = d.data /\ e.owner = d.owner /\ e.sessionKeys = d.sessionKeys
  /\ e.changedKeys = d.changedKeys /\ e.deferredRemovals = d.deferredRemovals
  /\ e.removedSessionKeys = d.removedSessionKeys

LEMMA HitsType ==
  ASSUME NEW d, NEW K, NEW s, NEW k
  PROVE  Hits(d, K, s, k) \in Nat
BY CountType DEF Hits

\* The keys that a pattern lists from now on.
Gains(d, K) == [p \in Pattern |-> IF d.pSessions[p] = {} THEN {} ELSE K \cap Matches[p]]

LEMMA AddKeyFields ==
  ASSUME NEW d \in Store, NEW K \in SUBSET Key, NEW r, r = patternAddKey(d, K),
         NEW new, new = Gains(d, K)
  PROVE  /\ r \in Store
         /\ SameClients(d, r) /\ SameLists(d, r) /\ SameKeys(d, r)
         /\ r.pKeys = [p \in Pattern |-> d.pKeys[p] \cup new[p]]
         /\ r.refs = [s \in Session |-> [k \in Key |-> d.refs[s][k] + Hits(d, new, s, k)]]
<1> DEFINE R == [s \in Session |-> [k \in Key |-> d.refs[s][k] + Hits(d, new, s, k)]]
           I == [p \in Pattern |-> d.pKeys[p] \cup new[p]]
<1>1. r = [d EXCEPT !.pKeys = I, !.refs = R]
  BY DEF patternAddKey, Gains, Store
<1>2. I \in [Pattern -> SUBSET Key] /\ R \in [Session -> Count]
  BY HitsType DEF Gains, Store, Count
<1> HIDE DEF I, R
<1> QED
  BY <1>1, <1>2, ZenonT(60) DEF Store, SameClients, SameLists, SameKeys, I, R

\* The keys that a pattern no longer lists.
Drops(d, K) == [p \in Pattern |-> d.pKeys[p] \cap K]

LEMMA RemoveKeyFields ==
  ASSUME NEW d \in Store, NEW K \in SUBSET Key, NEW r, r = patternRemoveKey(d, K),
         NEW old, old = Drops(d, K)
  PROVE  /\ r \in Store
         /\ SameClients(d, r) /\ SameLists(d, r) /\ SameKeys(d, r)
         /\ r.pKeys = [p \in Pattern |-> d.pKeys[p] \ old[p]]
         /\ r.refs = [s \in Session |-> [k \in Key |-> Less(d.refs[s][k], Hits(d, old, s, k))]]
<1> DEFINE R == [s \in Session |-> [k \in Key |-> Less(d.refs[s][k], Hits(d, old, s, k))]]
           I == [p \in Pattern |-> d.pKeys[p] \ old[p]]
<1>1. r = [d EXCEPT !.pKeys = I, !.refs = R]
  BY DEF patternRemoveKey, Drops, Store
<1>2. I \in [Pattern -> SUBSET Key] /\ R \in [Session -> Count]
  BY HitsType DEF Drops, Store, Count, Less
<1> HIDE DEF I, R
<1> QED
  BY <1>1, <1>2, ZenonT(60) DEF Store, SameClients, SameLists, SameKeys, I, R

\* The keys that SetValue() may write, those of them that had no value, and the
\* session keys it takes from another session.
Ok(d, w, temp, K) == {k \in K : temp => d.data[k] = NoValue \/ d.owner[k] = w}
New(d, w, temp, K) == Ok(d, w, temp, K) \ Stored(d)
Stolen(d, w, temp, K) ==
  {k \in Ok(d, w, temp, K) \ New(d, w, temp, K) : ~temp /\ d.owner[k] \notin {None, w}}

SetParms(w, temp, K, val) ==
  /\ w \in Writer /\ temp \in BOOLEAN /\ (temp => w \in Session)
  /\ K \in SUBSET Key /\ \A k \in K : val[k] \in Value

SetResult(d, w, temp, K, val, r) ==
  LET ok     == Ok(d, w, temp, K)
      new    == New(d, w, temp, K)
      stolen == Stolen(d, w, temp, K)
      g      == Gains(d, Unlisted(d, new))
  IN  /\ r \in Store /\ SameClients(d, r) /\ SameLists(d, r)
      /\ r.data = [k \in Key |-> IF k \in ok THEN val[k] ELSE d.data[k]]
      /\ r.owner = [k \in Key |-> IF temp /\ k \in new THEN w
                                  ELSE IF k \in stolen THEN None ELSE d.owner[k]]
      /\ r.sessionKeys = [s \in Session |-> IF temp /\ s = w THEN d.sessionKeys[s] \cup new
                                            ELSE d.sessionKeys[s]]
      /\ r.removedSessionKeys = d.removedSessionKeys \cup {<<d.owner[k], k>> : k \in stolen}
      /\ r.deferredRemovals = d.deferredRemovals \ new
      /\ r.changedKeys = d.changedKeys \cup ok
      /\ r.pKeys = [p \in Pattern |-> d.pKeys[p] \cup g[p]]
      /\ r.refs = [s \in Session |-> [k \in Key |-> d.refs[s][k] + Hits(d, g, s, k)]]

LEMMA SetFields ==
  ASSUME NEW d \in Store, NEW w, NEW temp, NEW K, NEW val, SetParms(w, temp, K, val)
  PROVE  SetResult(d, w, temp, K, val, SetValue(d, w, temp, K, val))
<1> DEFINE r == SetValue(d, w, temp, K, val)
           ok == Ok(d, w, temp, K)
           new == New(d, w, temp, K)
           stolen == Stolen(d, w, temp, K)
           g == Gains(d, Unlisted(d, new))
<1>0. /\ r = SetValue(d, w, temp, K, val) /\ ok = Ok(d, w, temp, K) /\ new = New(d, w, temp, K)
      /\ stolen = Stolen(d, w, temp, K) /\ g = Gains(d, Unlisted(d, new))
  OBVIOUS
<1> HIDE DEF r, ok, new, stolen, g
<1> DEFINE D == [k \in Key |-> IF k \in ok THEN val[k] ELSE d.data[k]]
           O == [k \in Key |-> IF temp /\ k \in new THEN w
                               ELSE IF k \in stolen THEN None ELSE d.owner[k]]
           L == [s \in Session |-> IF temp /\ s = w THEN d.sessionKeys[s] \cup new
                                   ELSE d.sessionKeys[s]]
           M == d.removedSessionKeys \cup {<<d.owner[k], k>> : k \in stolen}
           e == [d EXCEPT !.data = D, !.owner = O, !.sessionKeys = L, !.removedSessionKeys = M,
                          !.deferredRemovals = d.deferredRemovals \ new,
                          !.changedKeys = d.changedKeys \cup ok]
<1>1. r = patternAddKey(e, Unlisted(d, new))
  BY <1>0 DEF SetValue, Ok, New, Stolen, Store
<1>2. /\ ok \in SUBSET Key /\ new \in SUBSET Key /\ stolen \in SUBSET Key
      /\ \A k \in stolen : d.owner[k] \in Session
  BY <1>0 DEF SetParms, Ok, New, Stolen, Store
<1>3. /\ D \in [Key -> Value \cup {NoValue}] /\ O \in [Key -> Session \cup {None}]
      /\ L \in [Session -> SUBSET Key] /\ M \in SUBSET (Session \X Key)
  <2>1. D \in [Key -> Value \cup {NoValue}]
    BY <1>0, <1>2 DEF SetParms, Ok, Store
  <2>2. O \in [Key -> Session \cup {None}]
    BY <1>2 DEF SetParms, Store
  <2>3. L \in [Session -> SUBSET Key]
    BY <1>2 DEF Store
  <2>4. M \in SUBSET (Session \X Key)
    BY <1>2 DEF Store
  <2> QED
    BY <2>1, <2>2, <2>3, <2>4
<1> HIDE DEF D, O, L, M
<1>4. /\ e \in Store /\ SameClients(d, e) /\ SameLists(d, e) /\ SameIndex(d, e)
      /\ e.data = D /\ e.owner = O /\ e.sessionKeys = L /\ e.removedSessionKeys = M
      /\ e.deferredRemovals = d.deferredRemovals \ new
      /\ e.changedKeys = d.changedKeys \cup ok
  BY <1>2, <1>3 DEF Store, SameClients, SameLists, SameIndex
<1> HIDE DEF e
<1>5. Unlisted(d, new) \in SUBSET Key
  BY <1>2 DEF Unlisted
<1>6. g = Gains(e, Unlisted(d, new))
  BY <1>0, <1>4 DEF Gains, SameLists
<1>7. /\ r \in Store
      /\ SameClients(e, r) /\ SameLists(e, r) /\ SameKeys(e, r)
      /\ r.pKeys = [p \in Pattern |-> e.pKeys[p] \cup g[p]]
      /\ r.refs = [s \in Session |-> [k \in Key |-> e.refs[s][k] + Hits(e, g, s, k)]]
  BY <1>1, <1>4, <1>5, <1>6, AddKeyFields
<1>8. \A s, k : Hits(e, g, s, k) = Hits(d, g, s, k)
  BY <1>4 DEF Hits, SameLists
<1>9. /\ r.pKeys = [p \in Pattern |-> d.pKeys[p] \cup g[p]]
      /\ r.refs = [s \in Session |-> [k \in Key |-> d.refs[s][k] + Hits(d, g, s, k)]]
  BY <1>4, <1>7, <1>8 DEF SameIndex
<1>10. /\ SameClients(d, r) /\ SameLists(d, r)
       /\ r.data = D /\ r.owner = O /\ r.sessionKeys = L /\ r.removedSessionKeys = M
       /\ r.deferredRemovals = d.deferredRemovals \ new /\ r.changedKeys = d.changedKeys \cup ok
  BY <1>4, <1>7 DEF SameClients, SameLists, SameKeys
<1> QED
  BY <1>7, <1>9, <1>10 DEF SetResult, r, ok, new, stolen, g, D, O, L, M

\* RemoveValue() touches the keys that have a value, and no index.
RemoveResult(d, K, r) ==
  LET old == K \cap Stored(d)
  IN  /\ r \in Store /\ SameClients(d, r) /\ SameLists(d, r) /\ SameIndex(d, r)
      /\ r.data = [k \in Key |-> IF k \in old THEN NoValue ELSE d.data[k]]
      /\ r.owner = [k \in Key |-> IF k \in old THEN None ELSE d.owner[k]]
      /\ r.sessionKeys = d.sessionKeys
      /\ r.removedSessionKeys = d.removedSessionKeys
           \cup {<<d.owner[k], k>> : k \in {j \in old : d.owner[j] # None}}
      /\ r.deferredRemovals = d.deferredRemovals \cup old
      /\ r.changedKeys = d.changedKeys \cup old

LEMMA RemoveFields ==
  ASSUME NEW d \in Store, NEW K \in SUBSET Key
  PROVE  RemoveResult(d, K, RemoveValue(d, K))
<1> SUFFICES
      ASSUME NEW r, r = RemoveValue(d, K), NEW old, old = K \cap Stored(d)
      PROVE  /\ r \in Store /\ SameClients(d, r) /\ SameLists(d, r) /\ SameIndex(d, r)
             /\ r.data = [k \in Key |-> IF k \in old THEN NoValue ELSE d.data[k]]
             /\ r.owner = [k \in Key |-> IF k \in old THEN None ELSE d.owner[k]]
             /\ r.sessionKeys = d.sessionKeys
             /\ r.removedSessionKeys = d.removedSessionKeys
                  \cup {<<d.owner[k], k>> : k \in {j \in old : d.owner[j] # None}}
             /\ r.deferredRemovals = d.deferredRemovals \cup old
             /\ r.changedKeys = d.changedKeys \cup old
  BY DEF RemoveResult
<1> DEFINE D == [k \in Key |-> IF k \in old THEN NoValue ELSE d.data[k]]
           O == [k \in Key |-> IF k \in old THEN None ELSE d.owner[k]]
           M == d.removedSessionKeys \cup {<<d.owner[k], k>> : k \in {j \in old : d.owner[j] # None}}
<1>1. r = [d EXCEPT !.data = D, !.owner = O, !.removedSessionKeys = M,
                    !.deferredRemovals = d.deferredRemovals \cup old,
                    !.changedKeys = d.changedKeys \cup old]
  BY DEF RemoveValue, Store
<1>2. old \in SUBSET Key /\ D \in [Key -> Value \cup {NoValue}] /\ O \in [Key -> Session \cup {None}]
  BY DEF Store
<1>3. M \in SUBSET (Session \X Key)
  <2>1. \A k \in {j \in old : d.owner[j] # None} : d.owner[k] \in Session /\ k \in Key
    BY <1>2 DEF Store
  <2> QED
    BY <2>1 DEF Store
<1> HIDE DEF D, O, M
<1>4. /\ SameClients(d, r) /\ SameLists(d, r) /\ SameIndex(d, r)
      /\ r.data = D /\ r.owner = O /\ r.sessionKeys = d.sessionKeys /\ r.removedSessionKeys = M
      /\ r.deferredRemovals = d.deferredRemovals \cup old
      /\ r.changedKeys = d.changedKeys \cup old
  BY <1>1 DEF Store, SameClients, SameLists, SameIndex
<1>5. d.deferredRemovals \cup old \in SUBSET Key /\ d.changedKeys \cup old \in SUBSET Key
  BY <1>2 DEF Store
<1> DEFINE N == d.deferredRemovals \cup old
           C == d.changedKeys \cup old
<1> HIDE DEF N, C
<1>6. r = [d EXCEPT !.data = D, !.owner = O, !.removedSessionKeys = M,
                    !.deferredRemovals = N, !.changedKeys = C]
  BY <1>1 DEF N, C
<1>7. N \in SUBSET Key /\ C \in SUBSET Key
  BY <1>5 DEF N, C
<1>8. r \in Store
  BY <1>2, <1>3, <1>6, <1>7, ZenonT(60) DEF Store
<1> QED
  BY <1>4, <1>8 DEF D, O, M

\* The changed keys that each session is told of.
Hit(d) == [s \in Session |-> {k \in d.changedKeys : d.refs[s][k] > 0}]

PushResult(d, r) ==
  LET old == Drops(d, d.deferredRemovals)
  IN  /\ r \in Store
      /\ SameLists(d, r) /\ AtRest(r) /\ r.data = d.data /\ r.owner = d.owner
      /\ r.open = d.open /\ r.useSessionKeys = d.useSessionKeys
      /\ r.notify = d.notify /\ r.handle = d.handle
      /\ r.pending = [s \in Session |-> d.pending[s] \cup Hit(d)[s]]
      /\ r.needs = d.needs \cup {s \in Session : Hit(d)[s] # {}}
      /\ r.sessionKeys = [s \in Session |->
                            {k \in d.sessionKeys[s] : <<s, k>> \notin d.removedSessionKeys}]
      /\ r.pKeys = [p \in Pattern |-> d.pKeys[p] \ old[p]]
      /\ r.refs = [s \in Session |-> [k \in Key |-> Less(d.refs[s][k], Hits(d, old, s, k))]]

LEMMA PushFields ==
  ASSUME NEW d \in Store
  PROVE  PushResult(d, Push(d))
<1> SUFFICES
      ASSUME NEW r, r = Push(d), NEW old, old = Drops(d, d.deferredRemovals)
      PROVE  /\ r \in Store
             /\ SameLists(d, r) /\ AtRest(r) /\ r.data = d.data /\ r.owner = d.owner
             /\ r.open = d.open /\ r.useSessionKeys = d.useSessionKeys
             /\ r.notify = d.notify /\ r.handle = d.handle
             /\ r.pending = [s \in Session |-> d.pending[s] \cup Hit(d)[s]]
             /\ r.needs = d.needs \cup {s \in Session : Hit(d)[s] # {}}
             /\ r.sessionKeys = [s \in Session |->
                                   {k \in d.sessionKeys[s] : <<s, k>> \notin d.removedSessionKeys}]
             /\ r.pKeys = [p \in Pattern |-> d.pKeys[p] \ old[p]]
             /\ r.refs = [s \in Session |-> [k \in Key |-> Less(d.refs[s][k], Hits(d, old, s, k))]]
  BY DEF PushResult
<1> DEFINE P == [s \in Session |-> d.pending[s] \cup Hit(d)[s]]
           N == d.needs \cup {s \in Session : Hit(d)[s] # {}}
           a == notifyWatchers(d)
           b == patternRemoveKey(a, a.deferredRemovals)
           c == processDeferredRemovals(a)
<1>1. a = [d EXCEPT !.pending = P, !.needs = N, !.changedKeys = {}]
  BY DEF notifyWatchers, Hit, Store
<1>2. P \in [Session -> SUBSET Key] /\ N \in SUBSET Session
  BY DEF Hit, Store
<1> HIDE DEF P, N, a
<1>3. /\ a \in Store /\ SameLists(d, a) /\ SameIndex(d, a)
      /\ a.data = d.data /\ a.owner = d.owner /\ a.sessionKeys = d.sessionKeys
      /\ a.open = d.open /\ a.useSessionKeys = d.useSessionKeys
      /\ a.notify = d.notify /\ a.handle = d.handle /\ a.pending = P /\ a.needs = N
      /\ a.changedKeys = {} /\ a.deferredRemovals = d.deferredRemovals
      /\ a.removedSessionKeys = d.removedSessionKeys
  BY <1>1, <1>2 DEF Store, SameLists, SameIndex
<1>4. old = Drops(a, a.deferredRemovals) /\ a.deferredRemovals \in SUBSET Key
  BY <1>3 DEF Drops, SameIndex, Store
<1>5. /\ b \in Store
      /\ SameClients(a, b) /\ SameLists(a, b) /\ SameKeys(a, b)
      /\ b.pKeys = [p \in Pattern |-> a.pKeys[p] \ old[p]]
      /\ b.refs = [s \in Session |-> [k \in Key |-> Less(a.refs[s][k], Hits(a, old, s, k))]]
  BY <1>3, <1>4, RemoveKeyFields
<1>6. \A s, k : Hits(a, old, s, k) = Hits(d, old, s, k)
  BY <1>3 DEF Hits, SameLists
<1>7. /\ b.pKeys = [p \in Pattern |-> d.pKeys[p] \ old[p]]
      /\ b.refs = [s \in Session |-> [k \in Key |-> Less(d.refs[s][k], Hits(d, old, s, k))]]
  BY <1>3, <1>5, <1>6 DEF SameIndex
<1>8. c = [b EXCEPT !.deferredRemovals = {}]
  BY DEF processDeferredRemovals
<1> HIDE DEF b, c
<1>9. /\ c \in Store /\ SameClients(b, c) /\ SameLists(b, c) /\ SameIndex(b, c)
      /\ c.data = b.data /\ c.owner = b.owner /\ c.sessionKeys = b.sessionKeys
      /\ c.changedKeys = b.changedKeys /\ c.deferredRemovals = {}
      /\ c.removedSessionKeys = b.removedSessionKeys
  BY <1>5, <1>8, ZenonT(60) DEF Store, SameClients, SameLists, SameIndex
<1> DEFINE L == [s \in Session |-> {k \in c.sessionKeys[s] : <<s, k>> \notin c.removedSessionKeys}]
<1>10. r = [c EXCEPT !.sessionKeys = L, !.removedSessionKeys = {}]
  BY <1>9 DEF Push, cleanupRemovedSessionKeys, a, c, Store
<1>11. L \in [Session -> SUBSET Key]
  BY <1>9 DEF Store
<1>12. L = [s \in Session |-> {k \in d.sessionKeys[s] : <<s, k>> \notin d.removedSessionKeys}]
  BY <1>3, <1>5, <1>9 DEF SameKeys
<1> HIDE DEF L
<1>13. /\ r \in Store /\ SameClients(c, r) /\ SameLists(c, r) /\ SameIndex(c, r)
       /\ r.data = c.data /\ r.owner = c.owner /\ r.sessionKeys = L
       /\ r.changedKeys = c.changedKeys /\ r.deferredRemovals = {}
       /\ r.removedSessionKeys = {}
  BY <1>9, <1>10, <1>11, ZenonT(60) DEF Store, SameClients, SameLists, SameIndex
<1>14. r.sessionKeys = [s \in Session |->
                          {k \in d.sessionKeys[s] : <<s, k>> \notin d.removedSessionKeys}]
  BY <1>12, <1>13
<1>15. /\ r.pKeys = [p \in Pattern |-> d.pKeys[p] \ old[p]]
       /\ r.refs = [s \in Session |-> [k \in Key |-> Less(d.refs[s][k], Hits(d, old, s, k))]]
  BY <1>7, <1>9, <1>13 DEF SameIndex
<1>16. r.pending = P /\ r.needs = N
  BY <1>3, <1>5, <1>9, <1>13 DEF SameClients
<1>17. /\ SameLists(d, r) /\ AtRest(r) /\ r.data = d.data /\ r.owner = d.owner
       /\ r.open = d.open /\ r.useSessionKeys = d.useSessionKeys
       /\ r.notify = d.notify /\ r.handle = d.handle
  BY <1>3, <1>5, <1>9, <1>13 DEF SameClients, SameLists, SameKeys, AtRest
<1> QED
  BY <1>13, <1>14, <1>15, <1>16, <1>17 DEF P, N

LEMMA AddKeysFields ==
  ASSUME NEW d \in Store, NEW s \in Session, NEW K \in SUBSET Key,
         NEW r, r = AddWatchedKeys(d, s, K)
  PROVE  /\ r \in Store /\ SameClients(d, r) /\ SameKeys(d, r)
         /\ r.patterns = d.patterns /\ r.pSessions = d.pSessions /\ r.pKeys = d.pKeys
         /\ r.keys = [d.keys EXCEPT ![s] = d.keys[s] \cup K]
         /\ r.refs = [d.refs EXCEPT ![s] = [k \in Key |-> IF k \in K THEN d.refs[s][k] + 1
                                                        ELSE d.refs[s][k]]]
<1> DEFINE W == [d.keys EXCEPT ![s] = d.keys[s] \cup K]
           R == [d.refs EXCEPT ![s] = [k \in Key |-> IF k \in K THEN d.refs[s][k] + 1
                                                     ELSE d.refs[s][k]]]
<1>1. r = [d EXCEPT !.keys = W, !.refs = R]
  BY DEF AddWatchedKeys, addWatcher, Store
<1>2. W \in [Session -> SUBSET Key] /\ R \in [Session -> Count]
  BY DEF Store, Count
<1> HIDE DEF W, R
<1> QED
  BY <1>1, <1>2, ZenonT(60) DEF Store, SameClients, SameKeys, W, R

LEMMA RemoveKeysFields ==
  ASSUME NEW d \in Store, NEW s \in Session, NEW K \in SUBSET Key,
         NEW r, r = RemoveWatchedKeys(d, s, K)
  PROVE  /\ r \in Store /\ SameClients(d, r) /\ SameKeys(d, r)
         /\ r.patterns = d.patterns /\ r.pSessions = d.pSessions /\ r.pKeys = d.pKeys
         /\ r.keys = [d.keys EXCEPT ![s] = d.keys[s] \ K]
         /\ r.refs = [d.refs EXCEPT ![s] = [k \in Key |-> IF k \in K THEN Less(d.refs[s][k], 1)
                                                        ELSE d.refs[s][k]]]
<1> DEFINE W == [d.keys EXCEPT ![s] = d.keys[s] \ K]
           R == [d.refs EXCEPT ![s] = [k \in Key |-> IF k \in K THEN Less(d.refs[s][k], 1)
                                                     ELSE d.refs[s][k]]]
<1>1. r = [d EXCEPT !.keys = W, !.refs = R]
  BY DEF RemoveWatchedKeys, removeWatcher, Store
<1>2. W \in [Session -> SUBSET Key] /\ R \in [Session -> Count]
  BY DEF Store, Count, Less
<1> HIDE DEF W, R
<1> QED
  BY <1>1, <1>2, ZenonT(60) DEF Store, SameClients, SameKeys, W, R

\* The keys that the patterns of P list once a session has joined them.
Joins(d, P) ==
  [p \in Pattern |-> IF p \notin P THEN {} ELSE
                      IF d.pSessions[p] # {} THEN d.pKeys[p] ELSE Matches[p] \cap Stored(d)]

\* The patterns of session x that list key k in K, once s has joined those of P.
HitsWith(d, s, P, K, x, k) ==
  Cardinality({p \in Pattern : x \in (IF p \in P THEN d.pSessions[p] \cup {s} ELSE d.pSessions[p])
                               /\ k \in K[p]})

AddResult(d, s, P, r) ==
  LET K == Joins(d, P)
  IN  /\ r \in Store /\ SameClients(d, r) /\ SameKeys(d, r) /\ r.keys = d.keys
      /\ r.patterns = [d.patterns EXCEPT ![s] = d.patterns[s] \cup P]
      /\ r.pSessions = [p \in Pattern |-> IF p \in P THEN d.pSessions[p] \cup {s}
                                          ELSE d.pSessions[p]]
      /\ r.pKeys = [p \in Pattern |-> IF p \in P THEN K[p] ELSE d.pKeys[p]]
      /\ r.refs = [d.refs EXCEPT ![s] =
                     [k \in Key |-> d.refs[s][k] + HitsWith(d, s, P, K, s, k)]]

LEMMA AddPatternsFields ==
  ASSUME NEW d \in Store, NEW s \in Session, NEW P \in SUBSET Pattern
  PROVE  AddResult(d, s, P, AddWatchedPatterns(d, s, P))
<1> SUFFICES
      ASSUME NEW r, r = AddWatchedPatterns(d, s, P), NEW K, K = Joins(d, P)
      PROVE  /\ r \in Store /\ SameClients(d, r) /\ SameKeys(d, r) /\ r.keys = d.keys
             /\ r.patterns = [d.patterns EXCEPT ![s] = d.patterns[s] \cup P]
             /\ r.pSessions = [p \in Pattern |-> IF p \in P THEN d.pSessions[p] \cup {s}
                                                 ELSE d.pSessions[p]]
             /\ r.pKeys = [p \in Pattern |-> IF p \in P THEN K[p] ELSE d.pKeys[p]]
             /\ r.refs = [d.refs EXCEPT ![s] =
                            [k \in Key |-> d.refs[s][k] + HitsWith(d, s, P, K, s, k)]]
  BY ZenonT(60) DEF AddResult
<1> DEFINE W == [d.patterns EXCEPT ![s] = d.patterns[s] \cup P]
           Q == [p \in Pattern |-> IF p \in P THEN d.pSessions[p] \cup {s} ELSE d.pSessions[p]]
           I == [p \in Pattern |-> IF p \in P THEN K[p] ELSE d.pKeys[p]]
           b == [d EXCEPT !.patterns = W]
           e == [b EXCEPT !.pSessions = Q, !.pKeys = I]
           R == [d.refs EXCEPT ![s] = [k \in Key |-> d.refs[s][k] + Hits(e, K, s, k)]]
<1>0. W \in [Session -> SUBSET Pattern] /\ Q \in [Pattern -> SUBSET Session]
  BY DEF Store
<1>1. I \in [Pattern -> SUBSET Key]
  BY DEF Store, Joins, Stored
<1>2. /\ b \in Store /\ SameClients(d, b) /\ SameKeys(d, b) /\ SameIndex(d, b)
      /\ b.keys = d.keys /\ b.patterns = W /\ b.pSessions = d.pSessions
  <2> HIDE DEF W
  <2> QED
    BY <1>0 DEF Store, SameClients, SameKeys, SameIndex
<1>3. /\ K = Joins(b, P)
      /\ Q = [p \in Pattern |-> IF p \in P THEN b.pSessions[p] \cup {s} ELSE b.pSessions[p]]
      /\ I = [p \in Pattern |-> IF p \in P THEN K[p] ELSE b.pKeys[p]]
  BY <1>2 DEF Joins, Stored, SameKeys, SameIndex
<1>4. r = patternAddSession(b, s, P)
  BY DEF AddWatchedPatterns, Store
<1> HIDE DEF b, Q, I, W
<1>5. /\ e \in Store /\ SameClients(b, e) /\ SameKeys(b, e) /\ e.refs = b.refs
      /\ e.keys = b.keys /\ e.patterns = b.patterns /\ e.pSessions = Q /\ e.pKeys = I
  BY <1>0, <1>1, <1>2, ZenonT(60) DEF Store, SameClients, SameKeys
<1>6. e = [b EXCEPT !.pSessions = [p \in Pattern |-> IF p \in P THEN b.pSessions[p] \cup {s}
                                                     ELSE b.pSessions[p]],
                    !.pKeys = [p \in Pattern |-> IF p \in P THEN K[p] ELSE b.pKeys[p]]]
  BY <1>3
<1> HIDE DEF e
<1>7. r = [e EXCEPT !.refs = R]
  <2>1. r = [e EXCEPT !.refs[s] = [k \in Key |-> @[k] + Hits(e, K, s, k)]]
    <3> DEFINE J == Joins(b, P)
               E == [b EXCEPT !.pSessions = [p \in Pattern |-> IF p \in P THEN b.pSessions[p] \cup {s}
                                                               ELSE b.pSessions[p]],
                              !.pKeys = [p \in Pattern |-> IF p \in P THEN J[p] ELSE b.pKeys[p]]]
    <3>1. patternAddSession(b, s, P) = [E EXCEPT !.refs[s] = [k \in Key |-> @[k] + Hits(E, J, s, k)]]
      BY DEF patternAddSession, Joins
    <3>2. J = K /\ E = e
      BY <1>3, <1>6
    <3> HIDE DEF J, E
    <3> QED
      BY <1>4, <3>1, <3>2
  <2>2. e.refs = d.refs
    BY <1>2, <1>5 DEF SameIndex
  <2> QED
    BY <1>5, <2>1, <2>2 DEF Store
<1>8. R \in [Session -> Count]
  BY HitsType DEF Store, Count
<1>9. \A k : Hits(e, K, s, k) = HitsWith(d, s, P, K, s, k)
  <2>1. \A p \in Pattern : e.pSessions[p] = IF p \in P THEN d.pSessions[p] \cup {s} ELSE d.pSessions[p]
    BY <1>5 DEF Q
  <2> QED
    BY <2>1 DEF Hits, HitsWith
<1>10. R = [d.refs EXCEPT ![s] = [k \in Key |-> d.refs[s][k] + HitsWith(d, s, P, K, s, k)]]
  BY <1>9
<1> HIDE DEF R
<1>11. /\ r \in Store /\ SameClients(e, r) /\ SameKeys(e, r) /\ r.keys = e.keys /\ r.refs = R
       /\ r.patterns = e.patterns /\ r.pSessions = e.pSessions /\ r.pKeys = e.pKeys
  BY <1>5, <1>7, <1>8, ZenonT(60) DEF Store, SameClients, SameKeys
<1>12. /\ SameClients(d, r) /\ SameKeys(d, r) /\ r.keys = d.keys
       /\ r.patterns = W /\ r.pSessions = Q /\ r.pKeys = I
  BY <1>2, <1>5, <1>11 DEF SameClients, SameKeys
<1> QED
  BY <1>10, <1>11, <1>12 DEF W, Q, I

\* The keys that the patterns of P list while a session leaves them.
Leaves(d, P) == [p \in Pattern |-> IF p \in P THEN d.pKeys[p] ELSE {}]

LeaveResult(d, s, P, r) ==
  LET K == Leaves(d, P)
  IN  /\ r \in Store /\ SameClients(d, r) /\ SameKeys(d, r) /\ r.keys = d.keys
      /\ r.patterns = [d.patterns EXCEPT ![s] = d.patterns[s] \ P]
      /\ r.pSessions = [p \in Pattern |-> IF p \in P THEN d.pSessions[p] \ {s}
                                          ELSE d.pSessions[p]]
      /\ r.pKeys = [p \in Pattern |-> IF p \in P /\ d.pSessions[p] \subseteq {s} THEN {}
                                      ELSE d.pKeys[p]]
      /\ r.refs = [d.refs EXCEPT ![s] = [k \in Key |-> Less(d.refs[s][k], Hits(d, K, s, k))]]

LEMMA RemovePatternsFields ==
  ASSUME NEW d \in Store, NEW s \in Session, NEW P \in SUBSET Pattern
  PROVE  LeaveResult(d, s, P, RemoveWatchedPatterns(d, s, P))
<1> SUFFICES
      ASSUME NEW r, r = RemoveWatchedPatterns(d, s, P), NEW K, K = Leaves(d, P)
      PROVE  /\ r \in Store /\ SameClients(d, r) /\ SameKeys(d, r) /\ r.keys = d.keys
             /\ r.patterns = [d.patterns EXCEPT ![s] = d.patterns[s] \ P]
             /\ r.pSessions = [p \in Pattern |-> IF p \in P THEN d.pSessions[p] \ {s}
                                                 ELSE d.pSessions[p]]
             /\ r.pKeys = [p \in Pattern |-> IF p \in P /\ d.pSessions[p] \subseteq {s} THEN {}
                                             ELSE d.pKeys[p]]
             /\ r.refs = [d.refs EXCEPT ![s] = [k \in Key |-> Less(d.refs[s][k], Hits(d, K, s, k))]]
  BY SMTT(30) DEF LeaveResult
<1> DEFINE W == [d.patterns EXCEPT ![s] = d.patterns[s] \ P]
           Q == [p \in Pattern |-> IF p \in P THEN d.pSessions[p] \ {s} ELSE d.pSessions[p]]
           I == [p \in Pattern |-> IF p \in P /\ d.pSessions[p] \subseteq {s} THEN {} ELSE d.pKeys[p]]
           R == [d.refs EXCEPT ![s] = [k \in Key |-> Less(d.refs[s][k], Hits(d, K, s, k))]]
           b == [d EXCEPT !.patterns = W]
<1>0. W \in [Session -> SUBSET Pattern] /\ Q \in [Pattern -> SUBSET Session]
  BY DEF Store
<1>1. I \in [Pattern -> SUBSET Key]
  BY DEF Store
<1>2. R \in [Session -> Count]
  BY HitsType DEF Store, Count, Less
<1>3. r = patternRemoveSession(b, s, P)
  BY DEF RemoveWatchedPatterns, Store
<1>4. /\ b \in Store /\ SameClients(d, b) /\ SameKeys(d, b) /\ SameIndex(d, b)
      /\ b.keys = d.keys /\ b.patterns = W /\ b.pSessions = d.pSessions
  <2> HIDE DEF W
  <2> QED
    BY <1>0 DEF Store, SameClients, SameKeys, SameIndex
<1> HIDE DEF b
<1>5. r = [b EXCEPT !.refs = R, !.pSessions = Q, !.pKeys = I]
  <2> DEFINE J == Leaves(b, P)
  <2>1. r = [b EXCEPT
              !.refs[s] = [k \in Key |-> Less(@[k], Hits(b, J, s, k))],
              !.pSessions = [p \in Pattern |-> IF p \in P THEN @[p] \ {s} ELSE @[p]],
              !.pKeys = [p \in Pattern |-> IF p \in P /\ b.pSessions[p] \subseteq {s} THEN {} ELSE @[p]]]
    BY <1>3 DEF patternRemoveSession, Leaves
  <2>2. J = K
    BY <1>4 DEF Leaves, SameIndex
  <2>3. \A k : Hits(b, J, s, k) = Hits(d, K, s, k)
    BY <1>4, <2>2 DEF Hits
  <2> HIDE DEF J
  <2>4. /\ [b.refs EXCEPT ![s] = [k \in Key |-> Less(b.refs[s][k], Hits(b, J, s, k))]] = R
        /\ [p \in Pattern |-> IF p \in P THEN b.pSessions[p] \ {s} ELSE b.pSessions[p]] = Q
        /\ [p \in Pattern |-> IF p \in P /\ b.pSessions[p] \subseteq {s} THEN {} ELSE b.pKeys[p]] = I
    BY <1>4, <2>3 DEF SameIndex
  <2> HIDE DEF R, Q, I
  <2> QED
    BY <1>4, <2>1, <2>4 DEF Store
<1> HIDE DEF W, Q, I, R
<1>6. /\ r \in Store /\ SameClients(b, r) /\ SameKeys(b, r) /\ r.keys = b.keys
      /\ r.patterns = b.patterns /\ r.pSessions = Q /\ r.pKeys = I /\ r.refs = R
  <2>1. b \in Store
    BY <1>4
  <2>2. /\ SameClients(b, r) /\ SameKeys(b, r) /\ r.keys = b.keys
        /\ r.patterns = b.patterns /\ r.pSessions = Q /\ r.pKeys = I /\ r.refs = R
    BY <1>5, <2>1 DEF Store, SameClients, SameKeys
  <2>3. r \in Store
    BY <1>0, <1>1, <1>2, <1>5, <2>1, ZenonT(60) DEF Store
  <2> QED
    BY <2>2, <2>3
<1>7. SameClients(d, r) /\ SameKeys(d, r) /\ r.keys = d.keys /\ r.patterns = W
  BY <1>4, <1>6 DEF SameClients, SameKeys
<1> QED
  BY <1>6, <1>7 DEF W, Q, I, R

\* The registration of a notifier is no part of the lists.
SameStore(d, e) == SameLists(d, e) /\ SameIndex(d, e) /\ SameKeys(d, e)

\* But for the sessions of X, registrations stay and whoever has new changes is to be
\* told of them.
Roused(d, X, r) ==
  \A x \in Session \ X :
    /\ r.notify[x] = d.notify[x] /\ r.handle[x] = d.handle[x]
    /\ x \in d.needs => x \in r.needs
    /\ r.pending[x] = d.pending[x] \/ x \in r.needs

LEMMA CancelFields ==
  ASSUME NEW d \in Store, NEW s \in Session, NEW r, r = NotifyCancel(d, s)
  PROVE  /\ r \in Store /\ SameStore(d, r)
         /\ r.open = d.open /\ r.useSessionKeys = d.useSessionKeys /\ r.pending = d.pending
         /\ r.needs = d.needs \ {s} /\ r.notify = [d.notify EXCEPT ![s] = "NotRegistered"]
         /\ r.handle = [d.handle EXCEPT ![s] = FALSE]
BY DEF NotifyCancel, Store, SameStore, SameLists, SameIndex, SameKeys

ViaResult(d, s, how, r) ==
  /\ r \in Store /\ SameStore(d, r)
  /\ r.open = d.open /\ r.useSessionKeys = d.useSessionKeys /\ r.pending = d.pending
  /\ r.needs = d.needs \cup (IF d.pending[s] = {} THEN {} ELSE {s})
  /\ r.notify = [d.notify EXCEPT ![s] = how] /\ r.handle = [d.handle EXCEPT ![s] = TRUE]

LEMMA ViaFields ==
  ASSUME NEW d \in Store, NEW s \in Session, NEW how \in {"MachPort", "FD", "Signal"}
  PROVE  ViaResult(d, s, how, NotifyVia(d, s, how))
BY ZenonT(60) DEF ViaResult, NotifyVia, Store, SameStore, SameLists, SameIndex, SameKeys

-----------------------------------------------------------------------------
(* What each step of a request preserves. *)

\* A request that has only written: e is the store d after some of its steps.
Since(d, e) ==
  /\ SameClients(d, e) /\ SameLists(d, e) /\ d.changedKeys \subseteq e.changedKeys
  /\ \A k \in Key \ e.changedKeys : e.data[k] = d.data[k]

LEMMA SinceTrans ==
  ASSUME NEW c, NEW d, NEW e, Since(c, d), Since(d, e)
  PROVE  Since(c, e)
BY DEF Since, SameClients, SameLists

LEMMA VacantSame ==
  ASSUME NEW d, NEW e, Vacant(d), SameClients(d, e), SameLists(d, e)
  PROVE  Vacant(e)
BY DEF Vacant, SameClients, SameLists

LEMMA IndexSame ==
  ASSUME NEW d, NEW e, Index(d), e.patterns = d.patterns, e.pSessions = d.pSessions,
         e.pKeys = d.pKeys, Listed(e) = Listed(d)
  PROVE  Index(e)
BY DEF Index

\* The counts follow a pattern index that grows by g or shrinks by it.
LEMMA CountsGrow ==
  ASSUME NEW d \in Store, NEW e \in Store, Index(d), Counts(d), SameLists(d, e),
         NEW g, \A p \in Pattern : d.pKeys[p] \cap g[p] = {},
         \A p \in Pattern : e.pKeys[p] = d.pKeys[p] \cup g[p],
         \A s \in Session, k \in Key : e.refs[s][k] = d.refs[s][k] + Hits(d, g, s, k)
  PROVE  Counts(e)
<1> SUFFICES ASSUME NEW s \in Session, NEW k \in Key
             PROVE  e.refs[s][k] = Named(e, s, k) + Cardinality(By(e, s, k))
  BY DEF Counts
<1> DEFINE B == {p \in Pattern : s \in d.pSessions[p] /\ k \in g[p]}
<1>1. d.patterns[s] \subseteq Pattern /\ e.patterns[s] = d.patterns[s] /\ Named(e, s, k) = Named(d, s, k)
  BY DEF Store, SameLists, Named
<1>2. B = {p \in d.patterns[s] : k \in g[p]}
  <2>1. \A p \in Pattern : s \in d.pSessions[p] <=> p \in d.patterns[s]
    BY ZenonT(60) DEF Index
  <2> QED
    BY <1>1, <2>1
<1>3. By(e, s, k) = By(d, s, k) \cup B /\ By(d, s, k) \cap B = {}
  BY <1>1, <1>2 DEF By
<1>4. B \subseteq Pattern /\ By(d, s, k) \subseteq Pattern /\ Hits(d, g, s, k) = Cardinality(B)
  BY <1>1 DEF Hits, By
<1> HIDE DEF B
<1>5. Cardinality(By(e, s, k)) = Cardinality(By(d, s, k)) + Cardinality(B)
  BY <1>3, <1>4, CountPlus
<1>6. Cardinality(B) \in Nat
  BY <1>4, CountType
<1>7. Cardinality(By(d, s, k)) \in Nat
  BY <1>4, CountType
<1>8. /\ d.refs[s][k] = Named(d, s, k) + Cardinality(By(d, s, k)) /\ Named(d, s, k) \in Nat
      /\ e.refs[s][k] = d.refs[s][k] + Hits(d, g, s, k)
  BY DEF Counts, Named
<1> QED
  BY <1>1, <1>4, <1>5, <1>6, <1>7, <1>8

LEMMA CountsShrink ==
  ASSUME NEW d \in Store, NEW e \in Store, Index(d), Counts(d), SameLists(d, e),
         NEW g, \A p \in Pattern : g[p] \subseteq d.pKeys[p],
         \A p \in Pattern : e.pKeys[p] = d.pKeys[p] \ g[p],
         \A s \in Session, k \in Key : e.refs[s][k] = Less(d.refs[s][k], Hits(d, g, s, k))
  PROVE  Counts(e)
<1> SUFFICES ASSUME NEW s \in Session, NEW k \in Key
             PROVE  e.refs[s][k] = Named(e, s, k) + Cardinality(By(e, s, k))
  BY DEF Counts
<1> DEFINE B == {p \in Pattern : s \in d.pSessions[p] /\ k \in g[p]}
<1>1. d.patterns[s] \subseteq Pattern /\ e.patterns[s] = d.patterns[s] /\ Named(e, s, k) = Named(d, s, k)
  BY DEF Store, SameLists, Named
<1>2. B = {p \in d.patterns[s] : k \in g[p]}
  <2>1. \A p \in Pattern : s \in d.pSessions[p] <=> p \in d.patterns[s]
    BY ZenonT(60) DEF Index
  <2> QED
    BY <1>1, <2>1
<1>3. By(e, s, k) = By(d, s, k) \ B /\ B \subseteq By(d, s, k)
  BY <1>1, <1>2 DEF By
<1>4. B \subseteq Pattern /\ By(d, s, k) \subseteq Pattern /\ Hits(d, g, s, k) = Cardinality(B)
  BY <1>1 DEF Hits, By
<1> HIDE DEF B
<1>5. /\ Cardinality(By(e, s, k)) = Cardinality(By(d, s, k)) - Cardinality(B)
      /\ Cardinality(B) <= Cardinality(By(d, s, k))
  BY <1>3, <1>4, CountMinus
<1>6. Cardinality(B) \in Nat
  BY <1>4, CountType
<1>7. Cardinality(By(d, s, k)) \in Nat
  BY <1>4, CountType
<1>8. /\ d.refs[s][k] = Named(d, s, k) + Cardinality(By(d, s, k)) /\ Named(d, s, k) \in Nat
      /\ e.refs[s][k] = Less(d.refs[s][k], Hits(d, g, s, k))
  BY DEF Counts, Named
<1> QED
  BY <1>1, <1>4, <1>5, <1>6, <1>7, <1>8 DEF Less

\* SetValue().
LEMMA SetSound ==
  ASSUME NEW d, Sound(d), Lost(d, {}), NEW w, NEW temp, NEW K, NEW val,
         SetParms(w, temp, K, val), temp => w \in d.open,
         NEW r, r = SetValue(d, w, temp, K, val), NEW new, new = New(d, w, temp, K)
  PROVE  /\ Sound(r) /\ Since(d, r)
         /\ new \subseteq Stored(r) /\ Lost(r, new)
         /\ d.removedSessionKeys = {} => Lost(r, {})
<1> DEFINE ok == Ok(d, w, temp, K)
           stolen == Stolen(d, w, temp, K)
           g == Gains(d, Unlisted(d, new))
<1>1. /\ d \in Store /\ Index(d) /\ Counts(d) /\ Deferred(d) /\ Tracked(d) /\ Vacant(d)
      /\ ok \in SUBSET K /\ K \in SUBSET Key /\ new = ok \ Stored(d) /\ stolen \subseteq ok \ new
  BY DEF Sound, SetParms, Ok, New, Stolen
<1>2. /\ r \in Store /\ SameClients(d, r) /\ SameLists(d, r)
      /\ r.data = [k \in Key |-> IF k \in ok THEN val[k] ELSE d.data[k]]
      /\ r.owner = [k \in Key |-> IF temp /\ k \in new THEN w
                                  ELSE IF k \in stolen THEN None ELSE d.owner[k]]
      /\ r.sessionKeys = [s \in Session |-> IF temp /\ s = w THEN d.sessionKeys[s] \cup new
                                            ELSE d.sessionKeys[s]]
      /\ r.removedSessionKeys = d.removedSessionKeys \cup {<<d.owner[k], k>> : k \in stolen}
      /\ r.deferredRemovals = d.deferredRemovals \ new
      /\ r.changedKeys = d.changedKeys \cup ok
      /\ r.pKeys = [p \in Pattern |-> d.pKeys[p] \cup g[p]]
      /\ r.refs = [s \in Session |-> [k \in Key |-> d.refs[s][k] + Hits(d, g, s, k)]]
  <2>1. SetResult(d, w, temp, K, val, r)
    BY <1>1, SetFields
  <2> QED
    BY <2>1 DEF SetResult
<1> HIDE DEF ok, stolen, g
<1>3. \A k \in ok : val[k] # NoValue
  BY <1>1, StoreConstants DEF SetParms, Value, Writer
<1>4. Stored(r) = Stored(d) \cup ok
  BY <1>1, <1>2, <1>3 DEF Stored
<1>5. Listed(r) = Listed(d) \cup new /\ new \cap Stored(d) = {} /\ new \subseteq Stored(r)
  BY <1>1, <1>2, <1>4 DEF Listed
<1>6. \A p \in Pattern : g[p] = IF d.pSessions[p] = {} THEN {} ELSE (new \ d.deferredRemovals) \cap Matches[p]
  BY DEF g, Gains, Unlisted
<1>7. Index(r)
  <2>1. ASSUME NEW p \in Pattern
        PROVE  r.pKeys[p] = IF d.pSessions[p] = {} THEN {} ELSE Matches[p] \cap Listed(r)
    <3>1. /\ r.pKeys[p] = d.pKeys[p] \cup g[p]
          /\ d.pKeys[p] = IF d.pSessions[p] = {} THEN {} ELSE Matches[p] \cap Listed(d)
      BY <1>1, <1>2 DEF Index
    <3> QED
      BY <1>5, <1>6, <3>1 DEF Listed
  <2>2. r.patterns = d.patterns /\ r.pSessions = d.pSessions /\ Index(d)
    BY <1>1, <1>2 DEF SameLists
  <2> QED
    BY <2>1, <2>2 DEF Index
<1>8. Counts(r)
  <2>1. \A p \in Pattern : d.pKeys[p] \cap g[p] = {}
    BY <1>1, <1>5, <1>6 DEF Index, Listed
  <2>2. /\ \A p \in Pattern : r.pKeys[p] = d.pKeys[p] \cup g[p]
        /\ \A s \in Session, k \in Key : r.refs[s][k] = d.refs[s][k] + Hits(d, g, s, k)
    BY <1>2
  <2>3. d \in Store /\ r \in Store /\ Index(d) /\ Counts(d) /\ SameLists(d, r)
    BY <1>1, <1>2
  <2> QED
    BY <2>1, <2>2, <2>3, CountsGrow
<1>9. Deferred(r)
  BY <1>1, <1>2, <1>4, <1>5 DEF Deferred, Listed
<1>10. \A k \in new : d.owner[k] = None
  BY <1>1 DEF Tracked
<1>11. Tracked(r)
  <2>1. ASSUME NEW s \in Session, NEW k \in Key, r.owner[k] = s PROVE k \in r.sessionKeys[s]
    BY <1>1, <1>2, <2>1, StoreConstants DEF Tracked, Owns
  <2>2. ASSUME NEW s \in Session, NEW k \in r.sessionKeys[s]
        PROVE  r.owner[k] = s \/ <<s, k>> \in r.removedSessionKeys
    <3>1. CASE temp /\ s = w /\ k \in new
      BY <1>1, <1>2, <3>1
    <3>2. CASE k \in d.sessionKeys[s]
      <4>1. k \in Key /\ (d.owner[k] = s \/ <<s, k>> \in d.removedSessionKeys)
        BY <1>1, <3>2 DEF Tracked, Store
      <4>2. d.owner[k] = s => ~(k \in new)
        BY <1>10, StoreConstants
      <4> QED
        BY <1>2, <4>1, <4>2
    <3> QED
      BY <1>2, <3>1, <3>2
  <2>3. ASSUME NEW k \in Key, r.owner[k] # None PROVE k \in Stored(r) /\ r.owner[k] \in r.open
    <3>1. CASE temp /\ k \in new
      BY <1>2, <1>5, <3>1 DEF SameClients
    <3>2. CASE ~(temp /\ k \in new)
      BY <1>1, <1>2, <1>4, <2>3, <3>2 DEF SameClients, Tracked
    <3> QED
      BY <3>1, <3>2
  <2> QED
    BY <2>1, <2>2, <2>3 DEF Tracked, Owns
<1>12. ASSUME NEW s \in Session, NEW k \in Key, <<s, k>> \in r.removedSessionKeys,
              k \notin new \/ <<s, k>> \notin d.removedSessionKeys
       PROVE  r.owner[k] # s
  <2>1. CASE k \in stolen
    BY <1>1, <1>2, <2>1, StoreConstants
  <2>2. CASE <<s, k>> \in d.removedSessionKeys /\ k \notin new /\ k \notin stolen
    BY <1>2, <2>2 DEF Lost
  <2> QED
    BY <1>2, <1>12, <2>1, <2>2
<1>13. Since(d, r)
  BY <1>2 DEF Since
<1> QED
  BY <1>1, <1>2, <1>5, <1>7, <1>8, <1>9, <1>11, <1>12, <1>13, VacantSame DEF Sound, Lost

\* RemoveValue().
LEMMA RemoveSound ==
  ASSUME NEW d, Sound(d), NEW K \in SUBSET Key, NEW r, r = RemoveValue(d, K)
  PROVE  /\ Sound(r) /\ Since(d, r) /\ \A k \in K : r.owner[k] = None
         /\ \A k \in Key \ K : r.owner[k] = d.owner[k]
         /\ \A X : X \subseteq K /\ X \subseteq Stored(d) /\ Lost(d, X) => Lost(r, {})
<1> DEFINE old == K \cap Stored(d)
<1>1. /\ d \in Store /\ Index(d) /\ Counts(d) /\ Deferred(d) /\ Tracked(d) /\ Vacant(d)
      /\ old \in SUBSET Key
  BY DEF Sound
<1>2. /\ r \in Store
      /\ SameClients(d, r) /\ SameLists(d, r) /\ SameIndex(d, r)
      /\ r.data = [k \in Key |-> IF k \in old THEN NoValue ELSE d.data[k]]
      /\ r.owner = [k \in Key |-> IF k \in old THEN None ELSE d.owner[k]]
      /\ r.sessionKeys = d.sessionKeys
      /\ r.removedSessionKeys = d.removedSessionKeys
           \cup {<<d.owner[k], k>> : k \in {j \in old : d.owner[j] # None}}
      /\ r.deferredRemovals = d.deferredRemovals \cup old
      /\ r.changedKeys = d.changedKeys \cup old
  <2>1. RemoveResult(d, K, r)
    BY <1>1, RemoveFields
  <2> QED
    BY <2>1 DEF RemoveResult
<1>3. Stored(r) = Stored(d) \ old
  BY <1>2 DEF Stored
<1>4. Listed(r) = Listed(d)
  BY <1>2, <1>3 DEF Listed
<1> HIDE DEF old
<1>5. Index(r)
  <2>1. r.patterns = d.patterns /\ r.pSessions = d.pSessions /\ r.pKeys = d.pKeys /\ Index(d)
    BY <1>1, <1>2 DEF SameLists, SameIndex
  <2> QED
    BY <1>4, <2>1 DEF Index
<1>6. Counts(r)
  BY <1>1, <1>2 DEF Counts, Named, By, SameLists, SameIndex
<1>7. Deferred(r)
  <2>1. old \subseteq Listed(d)
    BY DEF old, Listed
  <2> QED
    BY <1>1, <1>2, <1>3, <1>4, <2>1 DEF Deferred
<1>8. Tracked(r)
  <2>1. ASSUME NEW s \in Session, NEW k \in Key, r.owner[k] = s PROVE k \in r.sessionKeys[s]
    BY <1>1, <1>2, <2>1, StoreConstants DEF Tracked, Owns
  <2>2. ASSUME NEW s \in Session, NEW k \in r.sessionKeys[s]
        PROVE  r.owner[k] = s \/ <<s, k>> \in r.removedSessionKeys
    <3>1. k \in Key /\ (d.owner[k] = s \/ <<s, k>> \in d.removedSessionKeys)
      BY <1>1, <1>2 DEF Tracked, Store
    <3>2. s # None
      BY StoreConstants
    <3> QED
      BY <1>2, <3>1, <3>2
  <2>3. ASSUME NEW k \in Key, r.owner[k] # None PROVE k \in Stored(r) /\ r.owner[k] \in r.open
    BY <1>1, <1>2, <1>3, <2>3 DEF SameClients, Tracked
  <2> QED
    BY <2>1, <2>2, <2>3 DEF Tracked, Owns
<1>9. (\A k \in K : r.owner[k] = None) /\ \A k \in Key \ K : r.owner[k] = d.owner[k]
  BY <1>1, <1>2 DEF Tracked, old
<1>10. ASSUME NEW X, X \subseteq K, X \subseteq Stored(d), Lost(d, X) PROVE Lost(r, {})
  <2> SUFFICES ASSUME NEW s \in Session, NEW k \in Key, <<s, k>> \in r.removedSessionKeys
               PROVE  r.owner[k] # s
    BY DEF Lost
  <2>1. CASE k \in old
    BY <1>2, <2>1, StoreConstants
  <2>2. CASE k \notin old
    <3>1. k \notin X /\ <<s, k>> \in d.removedSessionKeys /\ r.owner[k] = d.owner[k]
      BY <1>2, <1>10, <2>2 DEF old
    <3> QED
      BY <1>10, <3>1 DEF Lost
  <2> QED
    BY <2>1, <2>2
<1>11. Since(d, r)
  BY <1>2 DEF Since
<1> QED
  BY <1>1, <1>2, <1>5, <1>6, <1>7, <1>8, <1>9, <1>10, <1>11, VacantSame DEF Sound

\* The keys session s is interested in.
Wants(d, s) == d.keys[s] \cup UNION {Matches[p] : p \in d.patterns[s]}

\* The counts find exactly the sessions that are interested in a listed key.
LEMMA WatchersRight ==
  ASSUME NEW d, Sound(d), NEW s \in Session, NEW k \in Listed(d)
  PROVE  d.refs[s][k] > 0 <=> k \in Wants(d, s)
<1>1. d \in Store /\ Index(d) /\ Counts(d) /\ k \in Key /\ d.patterns[s] \subseteq Pattern
  BY DEF Sound, Listed, Stored, Store
<1>2. d.refs[s][k] = Named(d, s, k) + Cardinality(By(d, s, k))
  BY <1>1 DEF Counts
<1>3. By(d, s, k) \subseteq Pattern /\ By(d, s, k) = {p \in d.patterns[s] : k \in Matches[p]}
  <2>1. ASSUME NEW p \in d.patterns[s] PROVE k \in d.pKeys[p] <=> k \in Matches[p]
    <3>1. p \in Pattern /\ s \in d.pSessions[p]
      BY <1>1 DEF Index
    <3>2. d.pSessions[p] # {} /\ d.pKeys[p] = IF d.pSessions[p] = {} THEN {} ELSE Matches[p] \cap Listed(d)
      BY <1>1, <3>1 DEF Index
    <3> QED
      BY <3>2
  <2> QED
    BY <1>1, <2>1 DEF By
<1>4. /\ Cardinality(By(d, s, k)) \in Nat
      /\ Cardinality(By(d, s, k)) = 0 <=> By(d, s, k) = {}
  BY <1>3, CountType
<1>5. By(d, s, k) = {} <=> k \notin UNION {Matches[p] : p \in d.patterns[s]}
  BY <1>3
<1>6. Named(d, s, k) \in {0, 1} /\ (Named(d, s, k) = 1 <=> k \in d.keys[s])
  BY DEF Named
<1>7. d.refs[s][k] > 0 <=> Named(d, s, k) = 1 \/ By(d, s, k) # {}
  BY <1>2, <1>4, <1>6
<1> QED
  BY <1>5, <1>6, <1>7 DEF Wants

\* The end of a request: nothing of it is left over, and each session is told of
\* the changed keys it is interested in.
LEMMA PushSound ==
  ASSUME NEW d, Sound(d), Lost(d, {}), NEW r, r = Push(d)
  PROVE  /\ Sound(r) /\ AtRest(r)
         /\ r.data = d.data /\ r.open = d.open /\ SameLists(d, r)
         /\ r.owner = d.owner /\ r.notify = d.notify
         /\ r.pending = [s \in Session |-> d.pending[s] \cup (d.changedKeys \cap Wants(d, s))]
         /\ \A s \in r.needs \ d.needs : Wants(d, s) # {}
         /\ Roused(d, {}, r)
<1> DEFINE old == Drops(d, d.deferredRemovals)
<1>1. /\ d \in Store /\ Index(d) /\ Counts(d) /\ Deferred(d) /\ Tracked(d) /\ Vacant(d)
  BY DEF Sound
<1>2. /\ r \in Store
      /\ SameLists(d, r) /\ AtRest(r) /\ r.data = d.data /\ r.owner = d.owner
      /\ r.open = d.open /\ r.notify = d.notify /\ r.handle = d.handle
      /\ r.pending = [s \in Session |-> d.pending[s] \cup Hit(d)[s]]
      /\ r.needs = d.needs \cup {s \in Session : Hit(d)[s] # {}}
      /\ r.sessionKeys = [s \in Session |->
                            {k \in d.sessionKeys[s] : <<s, k>> \notin d.removedSessionKeys}]
      /\ r.pKeys = [p \in Pattern |-> d.pKeys[p] \ old[p]]
      /\ r.refs = [s \in Session |-> [k \in Key |-> Less(d.refs[s][k], Hits(d, old, s, k))]]
  <2>1. PushResult(d, r)
    BY <1>1, PushFields
  <2> QED
    BY <2>1 DEF PushResult
<1>3. \A p \in Pattern : old[p] = d.pKeys[p] \cap d.deferredRemovals
  BY DEF Drops
<1> HIDE DEF old
<1>4. Stored(r) = Stored(d) /\ Listed(r) = Stored(d)
  BY <1>2 DEF Stored, Listed, AtRest
<1>5. Index(r)
  <2>1. ASSUME NEW p \in Pattern
        PROVE  r.pKeys[p] = IF d.pSessions[p] = {} THEN {} ELSE Matches[p] \cap Listed(r)
    <3>1. r.pKeys[p] = d.pKeys[p] \ d.deferredRemovals
      <4>1. r.pKeys[p] = d.pKeys[p] \ old[p]
        BY <1>2
      <4> QED
        BY <1>3, <4>1
    <3>2. d.pKeys[p] = IF d.pSessions[p] = {} THEN {} ELSE Matches[p] \cap Listed(d)
      BY <1>1 DEF Index
    <3> QED
      BY <1>1, <1>4, <3>1, <3>2 DEF Listed, Deferred
  <2>2. r.patterns = d.patterns /\ r.pSessions = d.pSessions /\ Index(d)
    BY <1>1, <1>2 DEF SameLists
  <2> QED
    BY <2>1, <2>2 DEF Index
<1>6. Counts(r)
  <2>1. \A p \in Pattern : old[p] \subseteq d.pKeys[p]
    BY <1>3
  <2>2. /\ \A p \in Pattern : r.pKeys[p] = d.pKeys[p] \ old[p]
        /\ \A s \in Session, k \in Key : r.refs[s][k] = Less(d.refs[s][k], Hits(d, old, s, k))
    BY <1>2
  <2>3. d \in Store /\ r \in Store /\ Index(d) /\ Counts(d) /\ SameLists(d, r)
    BY <1>1, <1>2
  <2> QED
    BY <2>1, <2>2, <2>3, CountsShrink
<1>7. Deferred(r)
  BY <1>2 DEF Deferred, AtRest
<1>8. Tracked(r)
  <2>1. ASSUME NEW s \in Session, NEW k \in Key, r.owner[k] = s PROVE k \in r.sessionKeys[s]
    <3>1. k \in d.sessionKeys[s] /\ <<s, k>> \notin d.removedSessionKeys
      <4>1. d.owner[k] = s
        BY <1>2, <2>1
      <4>2. k \in d.sessionKeys[s]
        BY <1>1, <4>1 DEF Tracked, Owns
      <4>3. <<s, k>> \notin d.removedSessionKeys
        BY <4>1 DEF Lost
      <4> QED
        BY <4>2, <4>3
    <3> QED
      BY <1>2, <3>1
  <2>2. ASSUME NEW s \in Session, NEW k \in r.sessionKeys[s]
        PROVE  r.owner[k] = s
    BY <1>1, <1>2 DEF Tracked
  <2>3. ASSUME NEW k \in Key, r.owner[k] # None PROVE k \in Stored(r) /\ r.owner[k] \in r.open
    BY <1>1, <1>2, <1>4, <2>3 DEF Tracked
  <2> QED
    BY <2>1, <2>2, <2>3 DEF Tracked, Owns
<1>9. ASSUME NEW s \in Session PROVE Hit(d)[s] = d.changedKeys \cap Wants(d, s)
  <2>1. Hit(d)[s] = {k \in d.changedKeys : d.refs[s][k] > 0} /\ d.changedKeys \subseteq Listed(d)
    BY <1>1 DEF Hit, Deferred
  <2> QED
    BY <2>1, WatchersRight
<1>10. Vacant(r)
  <2> SUFFICES ASSUME NEW s \in Session, s \notin d.open
               PROVE  /\ r.keys[s] = {} /\ r.patterns[s] = {} /\ r.pending[s] = {} /\ s \notin r.needs
                      /\ r.notify[s] = "NotRegistered"
    BY <1>2 DEF Vacant
  <2>1. /\ d.keys[s] = {} /\ d.patterns[s] = {} /\ d.pending[s] = {} /\ s \notin d.needs
        /\ d.notify[s] = "NotRegistered"
    BY <1>1 DEF Vacant
  <2>2. Wants(d, s) = {}
    BY <2>1 DEF Wants
  <2>3. Hit(d)[s] = {}
    BY <1>9, <2>2
  <2> QED
    BY <1>2, <2>1, <2>3 DEF SameLists
<1>11. r.pending = [s \in Session |-> d.pending[s] \cup (d.changedKeys \cap Wants(d, s))]
  BY <1>2, <1>9
<1>12. \A s \in r.needs \ d.needs : Wants(d, s) # {}
  BY <1>2, <1>9
<1>13. Roused(d, {}, r)
  BY <1>2 DEF Roused
<1> QED
  BY <1>2, <1>5, <1>6, <1>7, <1>8, <1>10, <1>11, <1>12, <1>13 DEF Sound

-----------------------------------------------------------------------------
(* The requests that write. *)

\* NotifyValue(): a key that had no value has none again.
LEMMA NotifySound ==
  ASSUME NEW d, Sound(d), Lost(d, {}), NEW w \in Writer, NEW temp \in BOOLEAN,
         temp => w \in d.open, NEW K \in SUBSET Key, NEW r, r = NotifyValue(d, w, temp, K)
  PROVE  Sound(r) /\ Since(d, r) /\ Lost(r, {})
<1> DEFINE new == K \ Stored(d)
           val == [k \in K |-> IF k \in new THEN NullSession ELSE d.data[k]]
           e == SetValue(d, w, temp, K, val)
<1>1. d \in Store /\ (temp => w \in Session)
  BY DEF Sound, Store
<1>2. SetParms(w, temp, K, val)
  <2>1. \A k \in K : val[k] \in Value
    BY <1>1 DEF Store, Stored, Value, Writer
  <2> HIDE DEF val
  <2> QED
    BY <1>1, <2>1 DEF SetParms
<1>3. new = New(d, w, temp, K)
  BY DEF New, Ok, Stored
<1> HIDE DEF val
<1>4. r = RemoveValue(e, new)
  BY DEF NotifyValue, val
<1> HIDE DEF new, e
<1>5. Sound(e) /\ Since(d, e) /\ new \subseteq Stored(e) /\ Lost(e, new)
  BY <1>2, <1>3, SetSound DEF e
<1>6. new \in SUBSET Key
  BY DEF new
<1>7. Sound(r) /\ Since(e, r) /\ Lost(r, {})
  BY <1>4, <1>5, <1>6, RemoveSound
<1> QED
  BY <1>5, <1>7, SinceTrans

\* A request that wrote is over: the keys of some set changed, and each session was
\* told of those it is interested in.
Written(d, r) ==
  /\ Sound(r) /\ AtRest(r) /\ r.open = d.open /\ SameLists(d, r) /\ Roused(d, {}, r)
  /\ \E K \in SUBSET Key :
       /\ \A k \in Key \ K : r.data[k] = d.data[k]
       /\ r.pending = [s \in Session |-> d.pending[s] \cup (K \cap Wants(d, s))]

LEMMA PushWritten ==
  ASSUME NEW d, NEW e, Sound(e), Since(d, e), Lost(e, {}), NEW r, r = Push(e)
  PROVE  Written(d, r)
<1>1. /\ Sound(r) /\ AtRest(r) /\ r.data = e.data /\ r.open = e.open /\ SameLists(e, r)
      /\ r.pending = [s \in Session |-> e.pending[s] \cup (e.changedKeys \cap Wants(e, s))]
      /\ Roused(e, {}, r)
  BY PushSound
<1>2. \A s : Wants(e, s) = Wants(d, s)
  BY DEF Since, SameLists, Wants
<1>3. r.pending = [s \in Session |-> d.pending[s] \cup (e.changedKeys \cap Wants(d, s))]
  BY <1>1, <1>2 DEF Since, SameClients
<1>4. \A k \in Key \ e.changedKeys : r.data[k] = d.data[k]
  BY <1>1 DEF Since
<1>5. e.changedKeys \in SUBSET Key /\ r.open = d.open /\ SameLists(d, r)
  BY <1>1 DEF Sound, Store, Since, SameClients, SameLists
<1>6. Roused(d, {}, r)
  BY <1>1 DEF Since, SameClients, Roused
<1> QED
  BY <1>1, <1>3, <1>4, <1>5, <1>6 DEF Written

LEMMA RestLost == ASSUME NEW d, AtRest(d) PROVE Lost(d, {})
BY DEF AtRest, Lost

\* A writer that has session keys is a session that is open.
LEMMA WriterType ==
  ASSUME Sound(db), NEW w \in Writer, Speaks(w)
  PROVE  /\ Temp(w) \in BOOLEAN /\ (Temp(w) => w \in db.open)
         /\ w \in Session => w \in db.open
         /\ \A temp \in BOOLEAN, k \in Key : Val(w, temp)[k] \in Value
<1>1. db.open \subseteq Session /\ db.useSessionKeys \in [Session -> BOOLEAN]
  BY DEF Sound, Store
<1>2. w \in Session => w \in db.open
  BY StoreConstants DEF Speaks, Writer
<1> QED
  BY <1>1, <1>2 DEF Temp, Val, Value, Writer

LEMMA WriteStep ==
  ASSUME IInv, NEW w \in Writer, Write(w)
  PROVE  Written(db, db') /\ phase' = "push" /\ UNCHANGED kicks
<1>1. Sound(db) /\ AtRest(db) /\ Lost(db, {}) /\ db.removedSessionKeys = {} /\ Since(db, db)
  BY RestLost DEF IInv, AtRest, Since, SameClients, SameLists
<1>2. ASSUME NEW temp \in BOOLEAN, temp => w \in db.open, Speaks(w), NEW K \in SUBSET Key,
             NEW e, e = SetValue(db, w, temp, K, Val(w, temp))
      PROVE  Sound(e) /\ Since(db, e) /\ Lost(e, {})
  <2>1. temp => w \in Session
    BY <1>1, <1>2 DEF Sound, Store
  <2>2. SetParms(w, temp, K, Val(w, temp))
    BY <1>1, <1>2, <2>1, WriterType DEF SetParms
  <2> QED
    BY <1>1, <1>2, <2>2, SetSound
<1>3. ASSUME NEW k \in Key, configset(w, k)
      PROVE  Written(db, db') /\ phase' = "push" /\ UNCHANGED kicks
  <2> DEFINE e == SetValue(db, w, Temp(w), {k}, Val(w, Temp(w)))
  <2>1. Speaks(w) /\ db' = Push(e) /\ phase' = "push" /\ UNCHANGED kicks
    BY <1>3 DEF configset, Handle, Apply
  <2>2. Temp(w) \in BOOLEAN /\ (Temp(w) => w \in db.open) /\ {k} \in SUBSET Key
    BY <1>1, <2>1, WriterType
  <2>3. Sound(e) /\ Since(db, e) /\ Lost(e, {})
    BY <1>2, <2>1, <2>2
  <2> HIDE DEF e
  <2> QED
    BY <2>1, <2>3, PushWritten
<1>4. ASSUME NEW temp \in BOOLEAN, NEW k \in Key, temp => w \in db.open, AddValue(w, temp, k)
      PROVE  Written(db, db') /\ phase' = "push" /\ UNCHANGED kicks
  <2> DEFINE e == SetValue(db, w, temp, {k}, Val(w, temp))
  <2>1. Speaks(w) /\ db' = Push(e) /\ phase' = "push" /\ UNCHANGED kicks /\ {k} \in SUBSET Key
    BY <1>4 DEF AddValue, Handle, Apply
  <2>2. Sound(e) /\ Since(db, e) /\ Lost(e, {})
    BY <1>2, <1>4, <2>1
  <2> HIDE DEF e
  <2> QED
    BY <2>1, <2>2, PushWritten
<1>5. ASSUME NEW k \in Key, configadd(w, k) \/ configadd_s(w, k)
      PROVE  Written(db, db') /\ phase' = "push" /\ UNCHANGED kicks
  <2>1. Speaks(w)
    BY <1>5 DEF configadd, configadd_s, AddValue
  <2>2. CASE configadd(w, k)
    BY <1>1, <1>4, <2>1, <2>2, WriterType DEF configadd
  <2>3. CASE configadd_s(w, k)
    BY <1>1, <1>4, <2>1, <2>3, WriterType DEF configadd_s
  <2> QED
    BY <1>5, <2>2, <2>3
<1>6. ASSUME NEW k \in Key, configremove(w, k)
      PROVE  Written(db, db') /\ phase' = "push" /\ UNCHANGED kicks
  <2> DEFINE e == RemoveValue(db, {k})
  <2>1. db' = Push(e) /\ phase' = "push" /\ UNCHANGED kicks /\ {k} \in SUBSET Key
    BY <1>6 DEF configremove, Handle, Apply
  <2>2. Sound(e) /\ Since(db, e) /\ Lost(e, {})
    BY <1>1, <2>1, RemoveSound
  <2> HIDE DEF e
  <2> QED
    BY <2>1, <2>2, PushWritten
<1>7. ASSUME NEW k \in Key, confignotify(w, k)
      PROVE  Written(db, db') /\ phase' = "push" /\ UNCHANGED kicks
  <2> DEFINE e == NotifyValue(db, w, Temp(w), {k})
  <2>1. Speaks(w) /\ db' = Push(e) /\ phase' = "push" /\ UNCHANGED kicks /\ {k} \in SUBSET Key
    BY <1>7 DEF confignotify, Handle, Apply
  <2>2. Temp(w) \in BOOLEAN /\ (Temp(w) => w \in db.open)
    BY <1>1, <2>1, WriterType
  <2>3. Sound(e) /\ Since(db, e) /\ Lost(e, {})
    BY <1>1, <2>1, <2>2, NotifySound
  <2> HIDE DEF e
  <2> QED
    BY <2>1, <2>3, PushWritten
<1>8. ASSUME NEW S \in SUBSET Key, NEW R \in SUBSET Key, NEW N \in SUBSET Key,
             configset_m(w, S, R, N)
      PROVE  Written(db, db') /\ phase' = "push" /\ UNCHANGED kicks
  <2> DEFINE a == SetValue(db, w, Temp(w), S, Val(w, Temp(w)))
             b == RemoveValue(a, R)
             e == NotifyValue(b, w, Temp(w), N)
  <2>1. Speaks(w) /\ db' = Push(e) /\ phase' = "push" /\ UNCHANGED kicks
    BY <1>8 DEF configset_m, SetMultiple, Handle, Apply
  <2>2. Temp(w) \in BOOLEAN /\ (Temp(w) => w \in db.open)
    BY <1>1, <2>1, WriterType
  <2>3. Sound(a) /\ Since(db, a) /\ Lost(a, {})
    BY <1>2, <2>1, <2>2
  <2> HIDE DEF a
  <2>4. Sound(b) /\ Since(a, b) /\ Lost(b, {})
    BY <2>3, RemoveSound
  <2>5. Since(db, b)
    BY <2>3, <2>4, SinceTrans
  <2> HIDE DEF b
  <2>6. Temp(w) => w \in b.open
    BY <2>2, <2>5 DEF Since, SameClients
  <2>7. Sound(e) /\ Since(b, e) /\ Lost(e, {})
    BY <2>2, <2>4, <2>6, NotifySound
  <2>8. Since(db, e)
    BY <2>5, <2>7, SinceTrans
  <2> HIDE DEF e
  <2> QED
    BY <2>1, <2>7, <2>8, PushWritten
<1> QED
  BY <1>3, <1>5, <1>6, <1>7, <1>8 DEF Write

-----------------------------------------------------------------------------
(* The requests that change what session s watches. *)

Rewatched(d, s, r) ==
  /\ SameClients(d, r) /\ SameKeys(d, r)
  /\ \A x \in Session \ {s} : r.keys[x] = d.keys[x] /\ r.patterns[x] = d.patterns[x]

LEMMA RewatchedTrans ==
  ASSUME NEW s, NEW c, NEW d, NEW e, Rewatched(c, s, d), Rewatched(d, s, e)
  PROVE  Rewatched(c, s, e)
BY DEF Rewatched, SameClients, SameKeys

\* Only the index and the counts have to be looked at.
LEMMA RewatchedSound ==
  ASSUME NEW d, Sound(d), NEW r \in Store, NEW s \in d.open, Rewatched(d, s, r),
         Index(r), Counts(r)
  PROVE  Sound(r)
<1>1. Stored(r) = Stored(d) /\ Listed(r) = Listed(d)
  BY DEF Rewatched, SameKeys, Stored, Listed
<1>2. Deferred(r)
  BY <1>1 DEF Sound, Deferred, Rewatched, SameKeys
<1>3. Tracked(r)
  BY <1>1 DEF Sound, Tracked, Owns, Rewatched, SameKeys, SameClients
<1>4. Vacant(r)
  BY DEF Sound, Vacant, Rewatched, SameClients
<1> QED
  BY <1>2, <1>3, <1>4 DEF Sound

LEMMA AddKeysSound ==
  ASSUME NEW d, Sound(d), NEW s \in d.open, NEW K \in SUBSET Key, K \cap d.keys[s] = {},
         NEW r, r = AddWatchedKeys(d, s, K)
  PROVE  Sound(r) /\ Rewatched(d, s, r) /\ r.patterns = d.patterns /\ r.keys[s] = d.keys[s] \cup K
<1>1. d \in Store /\ Index(d) /\ Counts(d) /\ s \in Session
  BY DEF Sound, Store
<1>2. /\ r \in Store /\ SameClients(d, r) /\ SameKeys(d, r)
      /\ r.patterns = d.patterns /\ r.pSessions = d.pSessions /\ r.pKeys = d.pKeys
      /\ r.keys = [d.keys EXCEPT ![s] = d.keys[s] \cup K]
      /\ r.refs = [d.refs EXCEPT ![s] = [k \in Key |-> IF k \in K THEN d.refs[s][k] + 1
                                                     ELSE d.refs[s][k]]]
  BY <1>1, AddKeysFields
<1>3. /\ d.keys \in [Session -> SUBSET Key] /\ d.refs \in [Session -> Count]
      /\ d.patterns \in [Session -> SUBSET Pattern]
  BY <1>1 DEF Store
<1>4. r.keys[s] = d.keys[s] \cup K /\ \A x \in Session \ {s} : r.keys[x] = d.keys[x]
  BY <1>1, <1>2, <1>3
<1>5. Rewatched(d, s, r)
  BY <1>2, <1>4 DEF Rewatched
<1>6. Index(r)
  <2>1. Listed(r) = Listed(d)
    BY <1>2 DEF Listed, Stored, SameKeys
  <2> QED
    BY <1>1, <1>2, <2>1 DEF Index
<1>7. Counts(r)
  <2> SUFFICES ASSUME NEW x \in Session, NEW k \in Key
               PROVE  r.refs[x][k] = Named(r, x, k) + Cardinality(By(r, x, k))
    BY DEF Counts
  <2>1. By(r, x, k) = By(d, x, k) /\ By(d, x, k) \subseteq Pattern
    BY <1>2, <1>3 DEF By
  <2>2. Cardinality(By(d, x, k)) \in Nat
    BY <2>1, CountType
  <2>3. d.refs[x][k] = Named(d, x, k) + Cardinality(By(d, x, k))
    BY <1>1 DEF Counts
  <2>4. CASE x = s /\ k \in K
    <3>1. Named(d, x, k) = 0 /\ Named(r, x, k) = 1
      BY <1>4, <2>4 DEF Named
    <3>2. r.refs[x][k] = d.refs[x][k] + 1
      BY <1>1, <1>2, <1>3, <2>4
    <3> QED
      BY <2>1, <2>2, <2>3, <3>1, <3>2
  <2>5. CASE ~(x = s /\ k \in K)
    <3>1. Named(d, x, k) = Named(r, x, k)
      BY <1>4, <2>5 DEF Named
    <3>2. r.refs[x][k] = d.refs[x][k]
      BY <1>1, <1>2, <1>3, <2>5
    <3> QED
      BY <2>1, <2>3, <3>1, <3>2
  <2> QED
    BY <2>4, <2>5
<1> QED
  BY <1>2, <1>4, <1>5, <1>6, <1>7, RewatchedSound

LEMMA RemoveKeysSound ==
  ASSUME NEW d, Sound(d), NEW s \in d.open, NEW K \in SUBSET Key, K \subseteq d.keys[s],
         NEW r, r = RemoveWatchedKeys(d, s, K)
  PROVE  Sound(r) /\ Rewatched(d, s, r) /\ r.patterns = d.patterns /\ r.keys[s] = d.keys[s] \ K
<1>1. d \in Store /\ Index(d) /\ Counts(d) /\ s \in Session
  BY DEF Sound, Store
<1>2. /\ r \in Store /\ SameClients(d, r) /\ SameKeys(d, r)
      /\ r.patterns = d.patterns /\ r.pSessions = d.pSessions /\ r.pKeys = d.pKeys
      /\ r.keys = [d.keys EXCEPT ![s] = d.keys[s] \ K]
      /\ r.refs = [d.refs EXCEPT ![s] = [k \in Key |-> IF k \in K THEN Less(d.refs[s][k], 1)
                                                     ELSE d.refs[s][k]]]
  BY <1>1, RemoveKeysFields
<1>3. /\ d.keys \in [Session -> SUBSET Key] /\ d.refs \in [Session -> Count]
      /\ d.patterns \in [Session -> SUBSET Pattern]
  BY <1>1 DEF Store
<1>4. r.keys[s] = d.keys[s] \ K /\ \A x \in Session \ {s} : r.keys[x] = d.keys[x]
  BY <1>1, <1>2, <1>3
<1>5. Rewatched(d, s, r)
  BY <1>2, <1>4 DEF Rewatched
<1>6. Index(r)
  <2>1. Listed(r) = Listed(d)
    BY <1>2 DEF Listed, Stored, SameKeys
  <2> QED
    BY <1>1, <1>2, <2>1, ZenonT(60) DEF Index
<1>7. Counts(r)
  <2> SUFFICES ASSUME NEW x \in Session, NEW k \in Key
               PROVE  r.refs[x][k] = Named(r, x, k) + Cardinality(By(r, x, k))
    BY DEF Counts
  <2>1. By(r, x, k) = By(d, x, k) /\ By(d, x, k) \subseteq Pattern
    BY <1>2, <1>3 DEF By
  <2>2. Cardinality(By(d, x, k)) \in Nat
    BY <2>1, CountType
  <2>3. d.refs[x][k] = Named(d, x, k) + Cardinality(By(d, x, k))
    BY <1>1 DEF Counts
  <2>4. CASE x = s /\ k \in K
    <3>1. Named(d, x, k) = 1 /\ Named(r, x, k) = 0
      BY <1>4, <2>4 DEF Named
    <3>2. r.refs[x][k] = Less(d.refs[x][k], 1)
      BY <1>1, <1>2, <1>3, <2>4
    <3> QED
      BY <2>1, <2>2, <2>3, <3>1, <3>2 DEF Less
  <2>5. CASE ~(x = s /\ k \in K)
    <3>1. Named(d, x, k) = Named(r, x, k)
      BY <1>4, <2>5 DEF Named
    <3>2. r.refs[x][k] = d.refs[x][k]
      BY <1>1, <1>2, <1>3, <2>5
    <3> QED
      BY <2>1, <2>3, <3>1, <3>2
  <2> QED
    BY <2>4, <2>5
<1> QED
  BY <1>2, <1>4, <1>5, <1>6, <1>7, RewatchedSound

LEMMA AddPatternsSound ==
  ASSUME NEW d, Sound(d), AtRest(d), NEW s \in d.open, NEW P \in SUBSET Pattern,
         P \cap d.patterns[s] = {}, NEW r, r = AddWatchedPatterns(d, s, P)
  PROVE  Sound(r) /\ Rewatched(d, s, r)
<1> DEFINE K == Joins(d, P)
<1>1. d \in Store /\ Index(d) /\ Counts(d) /\ s \in Session /\ Listed(d) = Stored(d)
  BY DEF Sound, Store, AtRest, Listed
<1>2. /\ r \in Store /\ SameClients(d, r) /\ SameKeys(d, r) /\ r.keys = d.keys
      /\ r.patterns = [d.patterns EXCEPT ![s] = d.patterns[s] \cup P]
      /\ r.pSessions = [p \in Pattern |-> IF p \in P THEN d.pSessions[p] \cup {s}
                                          ELSE d.pSessions[p]]
      /\ r.pKeys = [p \in Pattern |-> IF p \in P THEN K[p] ELSE d.pKeys[p]]
      /\ r.refs = [d.refs EXCEPT ![s] =
                     [k \in Key |-> d.refs[s][k] + HitsWith(d, s, P, K, s, k)]]
  <2>1. AddResult(d, s, P, r)
    BY <1>1, AddPatternsFields
  <2> QED
    BY <2>1 DEF AddResult
<1>3. /\ d.keys \in [Session -> SUBSET Key] /\ d.refs \in [Session -> Count]
      /\ d.patterns \in [Session -> SUBSET Pattern]
  BY <1>1 DEF Store
<1>4. /\ \A p \in Pattern : d.pSessions[p] = {x \in Session : p \in d.patterns[x]}
      /\ \A p \in Pattern : d.pKeys[p] = IF d.pSessions[p] = {} THEN {} ELSE Matches[p] \cap Stored(d)
  BY <1>1 DEF Index
<1>5. \A p \in Pattern : K[p] = IF p \in P THEN Matches[p] \cap Stored(d) ELSE {}
  BY <1>4 DEF Joins
<1> HIDE DEF K
<1>6. r.patterns[s] = d.patterns[s] \cup P /\ \A x \in Session \ {s} : r.patterns[x] = d.patterns[x]
  BY <1>1, <1>2, <1>3
<1>7. Rewatched(d, s, r)
  BY <1>2, <1>6 DEF Rewatched
<1>8. /\ \A p \in P : r.pKeys[p] = Matches[p] \cap Stored(d)
      /\ \A p \in Pattern \ P : r.pKeys[p] = d.pKeys[p]
      /\ \A p \in P : r.pSessions[p] = d.pSessions[p] \cup {s}
      /\ \A p \in Pattern \ P : r.pSessions[p] = d.pSessions[p]
  BY <1>2, <1>5
<1>9. Index(r)
  <2>0. Listed(r) = Stored(d)
    BY <1>1, <1>2 DEF Listed, Stored, SameKeys
  <2>1. ASSUME NEW p \in Pattern PROVE r.pSessions[p] = {x \in Session : p \in r.patterns[x]}
    <3>1. CASE p \in P
      BY <1>1, <1>4, <1>6, <1>8, <3>1
    <3>2. CASE p \notin P
      BY <1>1, <1>4, <1>6, <1>8, <3>2
    <3> QED
      BY <3>1, <3>2
  <2>2. ASSUME NEW p \in Pattern
        PROVE  r.pKeys[p] = IF r.pSessions[p] = {} THEN {} ELSE Matches[p] \cap Stored(d)
    <3>1. CASE p \in P
      BY <1>8, <3>1
    <3>2. CASE p \notin P
      BY <1>4, <1>8, <3>2
    <3> QED
      BY <3>1, <3>2
  <2> QED
    BY <2>0, <2>1, <2>2 DEF Index
<1>10. Counts(r)
  <2> SUFFICES ASSUME NEW x \in Session, NEW k \in Key
               PROVE  r.refs[x][k] = Named(r, x, k) + Cardinality(By(r, x, k))
    BY DEF Counts
  <2>1. d.refs[x][k] = Named(d, x, k) + Cardinality(By(d, x, k)) /\ Named(r, x, k) = Named(d, x, k)
    BY <1>1, <1>2 DEF Counts, Named
  <2>2. CASE x # s
    <3>1. \A p \in d.patterns[x] : r.pKeys[p] = d.pKeys[p]
      <4> SUFFICES ASSUME NEW p \in d.patterns[x] PROVE r.pKeys[p] = d.pKeys[p]
        OBVIOUS
      <4>1. p \in Pattern /\ d.pSessions[p] # {}
        BY <1>3, <1>4
      <4> QED
        BY <1>4, <1>8, <4>1
    <3>2. By(r, x, k) = By(d, x, k)
      BY <1>6, <2>2, <3>1 DEF By
    <3>3. r.refs[x][k] = d.refs[x][k]
      BY <1>2, <1>3, <2>2
    <3> QED
      BY <2>1, <3>2, <3>3
  <2>3. CASE x = s
    <3> DEFINE B == {p \in P : k \in K[p]}
    <3>1. {p \in Pattern : s \in (IF p \in P THEN d.pSessions[p] \cup {s} ELSE d.pSessions[p])
                           /\ k \in K[p]} = B
      BY <1>5
    <3>2. HitsWith(d, s, P, K, s, k) = Cardinality(B)
      BY <3>1 DEF HitsWith
    <3>3. By(r, s, k) = By(d, s, k) \cup B /\ By(d, s, k) \cap B = {}
      <4>1. \A p \in P : r.pKeys[p] = K[p]
        BY <1>5, <1>8
      <4>2. \A p \in d.patterns[s] : p \notin P /\ r.pKeys[p] = d.pKeys[p]
        BY <1>1, <1>3, <1>8
      <4> QED
        BY <1>6, <4>1, <4>2 DEF By
    <3>4. B \subseteq Pattern /\ By(d, s, k) \subseteq Pattern
      BY <1>1, <1>3 DEF By
    <3> HIDE DEF B
    <3>5. Cardinality(By(r, s, k)) = Cardinality(By(d, s, k)) + Cardinality(B)
      BY <3>3, <3>4, CountPlus
    <3>6. Cardinality(B) \in Nat
      BY <3>4, CountType
    <3>7. Cardinality(By(d, s, k)) \in Nat
      BY <3>4, CountType
    <3>8. r.refs[s][k] = d.refs[s][k] + Cardinality(B)
      BY <1>1, <1>2, <1>3, <3>2
    <3>9. Named(d, s, k) \in Nat
      BY DEF Named
    <3> QED
      BY <2>1, <2>3, <3>5, <3>6, <3>7, <3>8, <3>9
  <2> QED
    BY <2>2, <2>3
<1> QED
  BY <1>2, <1>7, <1>9, <1>10, RewatchedSound

LEMMA RemovePatternsSound ==
  ASSUME NEW d, Sound(d), NEW s \in d.open, NEW P \in SUBSET Pattern,
         P \subseteq d.patterns[s], NEW r, r = RemoveWatchedPatterns(d, s, P)
  PROVE  /\ Sound(r) /\ Rewatched(d, s, r) /\ r.keys = d.keys
         /\ r.patterns[s] = d.patterns[s] \ P
<1> DEFINE K == Leaves(d, P)
<1>1. d \in Store /\ Index(d) /\ Counts(d) /\ s \in Session
  BY DEF Sound, Store
<1>2. /\ r \in Store /\ SameClients(d, r) /\ SameKeys(d, r) /\ r.keys = d.keys
      /\ r.patterns = [d.patterns EXCEPT ![s] = d.patterns[s] \ P]
      /\ r.pSessions = [p \in Pattern |-> IF p \in P THEN d.pSessions[p] \ {s}
                                          ELSE d.pSessions[p]]
      /\ r.pKeys = [p \in Pattern |-> IF p \in P /\ d.pSessions[p] \subseteq {s} THEN {}
                                      ELSE d.pKeys[p]]
      /\ r.refs = [d.refs EXCEPT ![s] = [k \in Key |-> Less(d.refs[s][k], Hits(d, K, s, k))]]
  <2>1. LeaveResult(d, s, P, r)
    BY <1>1, RemovePatternsFields
  <2> QED
    BY <2>1 DEF LeaveResult
<1>3. /\ d.keys \in [Session -> SUBSET Key] /\ d.refs \in [Session -> Count]
      /\ d.patterns \in [Session -> SUBSET Pattern]
  BY <1>1 DEF Store
<1>4. /\ \A p \in Pattern : d.pSessions[p] = {x \in Session : p \in d.patterns[x]}
      /\ \A p \in Pattern : d.pKeys[p] = IF d.pSessions[p] = {} THEN {} ELSE Matches[p] \cap Listed(d)
  BY <1>1 DEF Index
<1>5. \A p \in Pattern : K[p] = IF p \in P THEN d.pKeys[p] ELSE {}
  BY DEF Leaves
<1> HIDE DEF K
<1>6. r.patterns[s] = d.patterns[s] \ P /\ \A x \in Session \ {s} : r.patterns[x] = d.patterns[x]
  BY <1>1, <1>2, <1>3
<1>7. Rewatched(d, s, r)
  BY <1>2, <1>6 DEF Rewatched
<1>8. /\ \A p \in P : r.pKeys[p] = IF d.pSessions[p] \subseteq {s} THEN {} ELSE d.pKeys[p]
      /\ \A p \in Pattern \ P : r.pKeys[p] = d.pKeys[p]
      /\ \A p \in P : r.pSessions[p] = d.pSessions[p] \ {s}
      /\ \A p \in Pattern \ P : r.pSessions[p] = d.pSessions[p]
  BY <1>2
<1>9. Index(r)
  <2>0. Listed(r) = Listed(d)
    BY <1>2 DEF Listed, Stored, SameKeys
  <2>1. ASSUME NEW p \in Pattern PROVE r.pSessions[p] = {x \in Session : p \in r.patterns[x]}
    <3>1. CASE p \in P
      BY <1>1, <1>4, <1>6, <1>8, <3>1
    <3>2. CASE p \notin P
      BY <1>1, <1>4, <1>6, <1>8, <3>2
    <3> QED
      BY <3>1, <3>2
  <2>2. ASSUME NEW p \in Pattern
        PROVE  r.pKeys[p] = IF r.pSessions[p] = {} THEN {} ELSE Matches[p] \cap Listed(d)
    <3>1. CASE p \in P
      BY <1>4, <1>8, <3>1
    <3>2. CASE p \notin P
      BY <1>4, <1>8, <3>2
    <3> QED
      BY <3>1, <3>2
  <2> QED
    BY <2>0, <2>1, <2>2 DEF Index
<1>10. Counts(r)
  <2> SUFFICES ASSUME NEW x \in Session, NEW k \in Key
               PROVE  r.refs[x][k] = Named(r, x, k) + Cardinality(By(r, x, k))
    BY DEF Counts
  <2>1. d.refs[x][k] = Named(d, x, k) + Cardinality(By(d, x, k)) /\ Named(r, x, k) = Named(d, x, k)
    BY <1>1, <1>2 DEF Counts, Named
  <2>2. CASE x # s
    <3>1. \A p \in d.patterns[x] : r.pKeys[p] = d.pKeys[p]
      <4> SUFFICES ASSUME NEW p \in d.patterns[x] PROVE r.pKeys[p] = d.pKeys[p]
        OBVIOUS
      <4>1. p \in Pattern /\ ~(d.pSessions[p] \subseteq {s})
        BY <1>3, <1>4, <2>2
      <4> QED
        BY <1>8, <4>1
    <3>2. By(r, x, k) = By(d, x, k)
      BY <1>6, <2>2, <3>1 DEF By
    <3>3. r.refs[x][k] = d.refs[x][k]
      BY <1>2, <1>3, <2>2
    <3> QED
      BY <2>1, <3>2, <3>3
  <2>3. CASE x = s
    <3> DEFINE B == {p \in P : k \in d.pKeys[p]}
    <3>1. {p \in Pattern : s \in d.pSessions[p] /\ k \in K[p]} = B
      BY <1>1, <1>4, <1>5
    <3>2. Hits(d, K, s, k) = Cardinality(B)
      BY <3>1 DEF Hits
    <3>3. By(r, s, k) = By(d, s, k) \ B /\ B \subseteq By(d, s, k)
      <4>1. \A p \in d.patterns[s] \ P : p \in Pattern /\ r.pKeys[p] = d.pKeys[p]
        BY <1>1, <1>3, <1>8
      <4> QED
        BY <1>6, <4>1 DEF By
    <3>4. By(d, s, k) \subseteq Pattern /\ B \subseteq Pattern
      BY <1>1, <1>3 DEF By
    <3> HIDE DEF B
    <3>5. /\ Cardinality(By(r, s, k)) = Cardinality(By(d, s, k)) - Cardinality(B)
          /\ Cardinality(B) <= Cardinality(By(d, s, k))
      BY <3>3, <3>4, CountMinus
    <3>6. Cardinality(B) \in Nat
      BY <3>4, CountType
    <3>7. Cardinality(By(d, s, k)) \in Nat
      BY <3>4, CountType
    <3>8. r.refs[s][k] = Less(d.refs[s][k], Cardinality(B))
      BY <1>1, <1>2, <1>3, <3>2
    <3>9. Named(d, s, k) \in Nat
      BY DEF Named
    <3> QED
      BY <2>1, <2>3, <3>5, <3>6, <3>7, <3>8, <3>9 DEF Less
  <2> QED
    BY <2>2, <2>3
<1> QED
  BY <1>2, <1>6, <1>7, <1>9, <1>10, RewatchedSound

\* The lists of session s are replaced, keys before patterns.
LEMMA ReplaceSound ==
  ASSUME NEW d, Sound(d), AtRest(d), NEW s \in d.open, NEW K \in SUBSET Key,
         NEW P \in SUBSET Pattern, NEW r, r = SetNotificationKeys(d, s, K, P)
  PROVE  Sound(r) /\ Rewatched(d, s, r)
<1> DEFINE a == RemoveWatchedKeys(d, s, d.keys[s] \ K)
           b == AddWatchedKeys(a, s, K \ d.keys[s])
           c == RemoveWatchedPatterns(b, s, d.patterns[s] \ P)
<1>1. r = AddWatchedPatterns(c, s, P \ d.patterns[s])
  BY DEF SetNotificationKeys
<1>2. s \in Session /\ d.keys[s] \in SUBSET Key /\ d.patterns[s] \in SUBSET Pattern
  BY DEF Sound, Store
<1>3. /\ Sound(a) /\ Rewatched(d, s, a) /\ a.patterns = d.patterns
      /\ a.keys[s] = d.keys[s] \ (d.keys[s] \ K)
  BY <1>2, RemoveKeysSound
<1>4. s \in a.open
  BY <1>3 DEF Rewatched, SameClients
<1> HIDE DEF a
<1>5. Sound(b) /\ Rewatched(a, s, b) /\ b.patterns = a.patterns
  <2>1. (K \ d.keys[s]) \cap a.keys[s] = {} /\ K \ d.keys[s] \in SUBSET Key
    BY <1>3
  <2> QED
    BY <1>3, <1>4, <2>1, AddKeysSound
<1>6. s \in b.open
  BY <1>4, <1>5 DEF Rewatched, SameClients
<1> HIDE DEF b
<1>7. Sound(c) /\ Rewatched(b, s, c) /\ c.patterns[s] = d.patterns[s] \ (d.patterns[s] \ P)
  <2>1. b.patterns[s] = d.patterns[s] /\ d.patterns[s] \ P \in SUBSET Pattern
    BY <1>2, <1>3, <1>5
  <2> QED
    BY <1>5, <1>6, <2>1, RemovePatternsSound
<1> HIDE DEF c
<1>8. Rewatched(d, s, c)
  BY <1>3, <1>5, <1>7, RewatchedTrans
<1>9. s \in c.open /\ AtRest(c)
  BY <1>8 DEF Rewatched, SameClients, SameKeys, AtRest
<1>10. (P \ d.patterns[s]) \cap c.patterns[s] = {} /\ P \ d.patterns[s] \in SUBSET Pattern
  BY <1>7
<1>11. Sound(r) /\ Rewatched(c, s, r)
  BY <1>1, <1>7, <1>9, <1>10, AddPatternsSound
<1> QED
  BY <1>8, <1>11, RewatchedTrans

\* What a refused request leaves the lists with are lists of keys and patterns.
LEMMA RefusedLists ==
  ASSUME NEW d, NEW s, NEW K \in SUBSET Key, NEW P \in SUBSET Pattern,
         d.keys[s] \in SUBSET Key, d.patterns[s] \in SUBSET Pattern,
         NEW r \in Refused(d, s, K, P)
  PROVE  r[1] \in SUBSET Key /\ r[2] \in SUBSET Pattern
BY DEF Refused

LEMMA WatchStep ==
  ASSUME IInv, NEW s \in Session, Watch(s)
  PROVE  /\ Sound(db') /\ AtRest(db') /\ Rewatched(db, s, db')
         /\ phase' = "push" /\ UNCHANGED kicks
<1>1. Sound(db) /\ AtRest(db) /\ db \in Store
  BY DEF IInv, Sound
<1>2. s \in db.open /\ phase' = "push" /\ UNCHANGED kicks
  BY DEF Watch, notifyadd, notifyremove, notifyaddPattern, notifyremovePattern, notifyset,
         notifysetFails, Handle, Apply
<1>3. ASSUME NEW k \in Key, notifyadd(s, k) PROVE Sound(db') /\ Rewatched(db, s, db')
  <2>1. db' = AddWatchedKeys(db, s, {k}) /\ {k} \cap db.keys[s] = {} /\ {k} \in SUBSET Key
    BY <1>3 DEF notifyadd, Handle, Apply
  <2> QED
    BY <1>1, <1>2, <2>1, AddKeysSound
<1>4. ASSUME NEW k \in Key, notifyremove(s, k) PROVE Sound(db') /\ Rewatched(db, s, db')
  <2>1. db' = RemoveWatchedKeys(db, s, {k}) /\ {k} \subseteq db.keys[s] /\ {k} \in SUBSET Key
    BY <1>4 DEF notifyremove, Handle, Apply
  <2> QED
    BY <1>1, <1>2, <2>1, RemoveKeysSound
<1>5. ASSUME NEW p \in Pattern, notifyaddPattern(s, p) PROVE Sound(db') /\ Rewatched(db, s, db')
  <2>1. /\ db' = AddWatchedPatterns(db, s, {p}) /\ {p} \cap db.patterns[s] = {}
        /\ {p} \in SUBSET Pattern
    BY <1>5 DEF notifyaddPattern, Handle, Apply
  <2> QED
    BY <1>1, <1>2, <2>1, AddPatternsSound
<1>6. ASSUME NEW p \in Pattern, notifyremovePattern(s, p) PROVE Sound(db') /\ Rewatched(db, s, db')
  <2>1. /\ db' = RemoveWatchedPatterns(db, s, {p}) /\ {p} \subseteq db.patterns[s]
        /\ {p} \in SUBSET Pattern
    BY <1>6 DEF notifyremovePattern, Handle, Apply
  <2> QED
    BY <1>1, <1>2, <2>1, RemovePatternsSound
<1>7. ASSUME NEW K \in SUBSET Key, NEW P \in SUBSET Pattern,
             notifyset(s, K, P) \/ notifysetFails(s, K, P)
      PROVE  Sound(db') /\ Rewatched(db, s, db')
  <2>1. db.keys[s] \in SUBSET Key /\ db.patterns[s] \in SUBSET Pattern
    BY <1>1 DEF Store
  <2>2. \E L \in SUBSET Key, Q \in SUBSET Pattern : db' = SetNotificationKeys(db, s, L, Q)
    <3>1. CASE notifyset(s, K, P)
      BY <3>1 DEF notifyset, Handle, Apply
    <3>2. CASE notifysetFails(s, K, P)
      <4>1. PICK r \in Refused(db, s, K, P) : db' = SetNotificationKeys(db, s, r[1], r[2])
        BY <3>2 DEF notifysetFails, Handle, Apply
      <4> QED
        BY <2>1, <4>1, RefusedLists
    <3> QED
      BY <1>7, <3>1, <3>2
  <2> QED
    BY <1>1, <1>2, <2>2, ReplaceSound
<1>8. Sound(db') /\ Rewatched(db, s, db')
  BY <1>3, <1>4, <1>5, <1>6, <1>7 DEF Watch
<1> QED
  BY <1>1, <1>2, <1>8 DEF Rewatched, SameKeys, AtRest

-----------------------------------------------------------------------------
(* The end of a session. *)

\* The keys of some set changed and each other session was told of those it is
\* interested in; session s has nothing left.
Ended(d, s, r) ==
  /\ r.keys[s] = {} /\ r.patterns[s] = {} /\ Roused(d, {s}, r)
  /\ r.open = d.open \ {s}
  /\ \A x \in Session \ {s} : r.keys[x] = d.keys[x] /\ r.patterns[x] = d.patterns[x]
  /\ \E K \in SUBSET Key :
       /\ \A k \in Key \ K : r.data[k] = d.data[k]
       /\ r.pending = [[x \in Session |-> d.pending[x] \cup (K \cap Wants(d, x))] EXCEPT ![s] = {}]

CloseResult(d, s, r) ==
  /\ Sound(r) /\ AtRest(r) /\ r.open = d.open /\ \A k \in Key : r.owner[k] # s
  /\ s \notin r.needs /\ r.notify[s] = "NotRegistered" /\ Roused(d, {s}, r)
  /\ r.keys[s] = {} /\ r.patterns[s] = {}
  /\ \A x \in Session \ {s} : r.keys[x] = d.keys[x] /\ r.patterns[x] = d.patterns[x]
  /\ \E K \in SUBSET Key :
       /\ \A k \in Key \ K : r.data[k] = d.data[k]
       /\ \A x \in Session \ {s} : r.pending[x] = d.pending[x] \cup (K \cap Wants(d, x))

\* __SCDynamicStoreClose(): the lists go first, so that the session is not told of
\* its own end, then the session keys.
LEMMA CloseSound ==
  ASSUME NEW d, Sound(d), AtRest(d), NEW s \in d.open
  PROVE  CloseResult(d, s, Close(d, s))
<1> SUFFICES
      ASSUME NEW r, r = Close(d, s)
      PROVE  CloseResult(d, s, r)
  OBVIOUS
<1> DEFINE a == RemoveWatchedKeys(d, s, d.keys[s])
           b == RemoveWatchedPatterns(a, s, d.patterns[s])
           e == NotifyCancel(b, s)
           mine == {k \in e.sessionKeys[s] : isMySessionKey(e, s, k)}
           f == RemoveValue(e, mine)
<1>1. r = Push(f)
  BY DEF Close
<1>2. s \in Session /\ d.keys[s] \in SUBSET Key /\ d.patterns[s] \in SUBSET Pattern
  BY DEF Sound, Store
<1>3. /\ Sound(a) /\ Rewatched(d, s, a) /\ a.patterns = d.patterns /\ a.keys[s] = {}
  <2>1. d.keys[s] \subseteq d.keys[s] /\ d.keys[s] \ d.keys[s] = {}
    OBVIOUS
  <2> QED
    BY <1>2, <2>1, RemoveKeysSound
<1>4. s \in a.open
  BY <1>3 DEF Rewatched, SameClients
<1> HIDE DEF a
<1>5. Sound(b) /\ Rewatched(a, s, b) /\ b.keys[s] = {} /\ b.patterns[s] = {}
  <2>1. d.patterns[s] \subseteq a.patterns[s] /\ a.patterns[s] \ d.patterns[s] = {}
    BY <1>3
  <2> QED
    BY <1>2, <1>3, <1>4, <2>1, RemovePatternsSound
<1> HIDE DEF b
<1>6. Rewatched(d, s, b)
  BY <1>3, <1>5, RewatchedTrans
<1>7. /\ e \in Store /\ SameStore(b, e) /\ e.open = b.open /\ e.pending = b.pending
      /\ e.needs = b.needs \ {s} /\ e.notify = [b.notify EXCEPT ![s] = "NotRegistered"]
      /\ e.handle = [b.handle EXCEPT ![s] = FALSE]
  BY <1>2, <1>5, CancelFields, SMTT(30) DEF Sound
<1> HIDE DEF e
<1>8. Sound(e)
  <2>1. Index(e) /\ Counts(e) /\ Deferred(e) /\ Tracked(e)
    <3>1. Stored(e) = Stored(b) /\ Listed(e) = Listed(b)
      BY <1>7 DEF Stored, Listed, SameStore, SameKeys
    <3>2. Index(e)
      BY <1>5, <1>7, <3>1, IndexSame DEF Sound, SameStore, SameLists, SameIndex
    <3>3. Counts(e)
      BY <1>5, <1>7 DEF Sound, Counts, Named, By, SameStore, SameLists, SameIndex
    <3>4. Deferred(e) /\ Tracked(e)
      BY <1>5, <1>7, <3>1 DEF Sound, Deferred, Tracked, Owns, SameStore, SameKeys
    <3> QED
      BY <3>2, <3>3, <3>4
  <2>2. Vacant(e)
    <3>1. b.notify \in [Session -> {"NotRegistered", "MachPort", "FD", "Signal"}]
      BY <1>5 DEF Sound, Store
    <3>2. \A x \in Session : e.notify[x] \in {b.notify[x], "NotRegistered"}
      BY <1>7, <3>1
    <3> QED
      BY <1>5, <1>7, <3>2 DEF Sound, Vacant, SameStore, SameLists
  <2> QED
    BY <1>7, <2>1, <2>2 DEF Sound
<1>9. /\ e.keys[s] = {} /\ e.patterns[s] = {} /\ s \notin e.needs /\ e.notify[s] = "NotRegistered"
      /\ AtRest(e) /\ e.data = d.data /\ e.open = d.open /\ e.pending = d.pending
      /\ \A x \in Session \ {s} : e.keys[x] = d.keys[x] /\ e.patterns[x] = d.patterns[x]
  <2>1. b.notify \in [Session -> {"NotRegistered", "MachPort", "FD", "Signal"}]
    BY <1>5 DEF Sound, Store
  <2>2. e.notify[s] = "NotRegistered"
    BY <1>2, <1>7, <2>1
  <2> QED
    BY <1>5, <1>6, <1>7, <2>2
       DEF Rewatched, SameStore, SameLists, SameKeys, SameClients, AtRest
<1>10. mine \in SUBSET Key /\ \A k \in Key : e.owner[k] = s <=> k \in mine
  BY <1>2, <1>7, <1>8 DEF Sound, Store, Tracked, Owns, isMySessionKey
<1> HIDE DEF mine
<1>11. /\ Sound(f) /\ Since(e, f) /\ Lost(f, {})
       /\ (\A k \in mine : f.owner[k] = None) /\ \A k \in Key \ mine : f.owner[k] = e.owner[k]
  <2>1. Lost(e, {})
    BY <1>9, RestLost
  <2> QED
    BY <1>8, <1>10, <2>1, RemoveSound
<1> HIDE DEF f
<1>12. /\ Sound(r) /\ AtRest(r) /\ r.data = f.data /\ r.open = f.open /\ SameLists(f, r)
       /\ r.owner = f.owner /\ r.notify = f.notify
       /\ r.pending = [x \in Session |-> f.pending[x] \cup (f.changedKeys \cap Wants(f, x))]
       /\ (\A x \in r.needs \ f.needs : Wants(f, x) # {}) /\ Roused(f, {}, r)
  BY <1>1, <1>11, PushSound
<1>13. \A k \in Key : r.owner[k] # s
  BY <1>2, <1>10, <1>11, <1>12, StoreConstants
<1>14. /\ r.keys = e.keys /\ r.patterns = e.patterns /\ f.keys = e.keys /\ f.patterns = e.patterns
       /\ r.open = d.open /\ r.notify = e.notify /\ f.needs = e.needs /\ f.pending = d.pending
  BY <1>9, <1>11, <1>12 DEF Since, SameLists, SameClients
<1>15. s \notin r.needs
  <2>1. Wants(f, s) = {}
    BY <1>9, <1>14 DEF Wants
  <2> QED
    BY <1>9, <1>12, <1>14, <2>1
<1>16. f.changedKeys \in SUBSET Key /\ \A k \in Key \ f.changedKeys : r.data[k] = d.data[k]
  BY <1>9, <1>11, <1>12 DEF Since, Sound, Store
<1>17. \A x \in Session \ {s} : r.pending[x] = d.pending[x] \cup (f.changedKeys \cap Wants(d, x))
  <2>1. \A x \in Session \ {s} : Wants(f, x) = Wants(d, x)
    BY <1>9, <1>14 DEF Wants
  <2> QED
    BY <1>12, <1>14, <2>1
<1>18. Roused(d, {s}, r)
  <2>1. /\ b.notify \in [Session -> {"NotRegistered", "MachPort", "FD", "Signal"}]
        /\ b.handle \in [Session -> BOOLEAN]
        /\ b.notify = d.notify /\ b.handle = d.handle /\ b.needs = d.needs
    BY <1>5, <1>6 DEF Sound, Store, Rewatched, SameClients
  <2>2. \A x \in Session \ {s} : e.notify[x] = d.notify[x] /\ e.handle[x] = d.handle[x]
    BY <1>7, <2>1
  <2>3. f.notify = e.notify /\ f.handle = e.handle /\ f.needs = d.needs \ {s}
    BY <1>7, <1>11, <2>1 DEF Since, SameClients
  <2> QED
    BY <1>12, <1>14, <2>2, <2>3 DEF Roused
<1> QED
  BY <1>9, <1>12, <1>13, <1>14, <1>15, <1>16, <1>17, <1>18, SMTT(30) DEF CloseResult

LEMMA EndSound ==
  ASSUME NEW d, Sound(d), AtRest(d), NEW s \in d.open, NEW r, r = cleanupSession(d, s)
  PROVE  Sound(r) /\ AtRest(r) /\ Ended(d, s, r)
<1> DEFINE c == Close(d, s)
<1>0. c = Close(d, s)
  OBVIOUS
<1> HIDE DEF c
<1>1. /\ Sound(c) /\ AtRest(c) /\ c.open = d.open /\ \A k \in Key : c.owner[k] # s
      /\ s \notin c.needs /\ c.notify[s] = "NotRegistered" /\ Roused(d, {s}, c)
      /\ c.keys[s] = {} /\ c.patterns[s] = {}
      /\ \A x \in Session \ {s} : c.keys[x] = d.keys[x] /\ c.patterns[x] = d.patterns[x]
      /\ \E K \in SUBSET Key :
           /\ \A k \in Key \ K : c.data[k] = d.data[k]
           /\ \A x \in Session \ {s} : c.pending[x] = d.pending[x] \cup (K \cap Wants(d, x))
  <2>1. CloseResult(d, s, c)
    BY <1>0, CloseSound
  <2> QED
    BY <2>1 DEF CloseResult
<1>2. r = [c EXCEPT !.open = @ \ {s}, !.pending[s] = {}, !.sessionKeys[s] = {},
                    !.useSessionKeys[s] = FALSE]
  BY <1>0 DEF cleanupSession
<1>3. c \in Store /\ s \in Session
  BY <1>1 DEF Sound, Store
<1>4. /\ r \in Store /\ SameLists(c, r) /\ SameIndex(c, r) /\ AtRest(r)
      /\ r.data = c.data /\ r.owner = c.owner /\ r.needs = c.needs /\ r.notify = c.notify
      /\ r.handle = c.handle
      /\ r.open = c.open \ {s} /\ r.pending = [c.pending EXCEPT ![s] = {}]
      /\ r.sessionKeys = [c.sessionKeys EXCEPT ![s] = {}]
  <2>1. /\ SameLists(c, r) /\ SameIndex(c, r)
        /\ r.changedKeys = c.changedKeys /\ r.deferredRemovals = c.deferredRemovals
        /\ r.removedSessionKeys = c.removedSessionKeys
        /\ r.data = c.data /\ r.owner = c.owner /\ r.needs = c.needs /\ r.notify = c.notify
        /\ r.handle = c.handle
        /\ r.open = c.open \ {s} /\ r.pending = [c.pending EXCEPT ![s] = {}]
        /\ r.sessionKeys = [c.sessionKeys EXCEPT ![s] = {}]
    BY <1>2, <1>3 DEF Store, SameLists, SameIndex
  <2> DEFINE O == c.open \ {s}
             P == [c.pending EXCEPT ![s] = {}]
             L == [c.sessionKeys EXCEPT ![s] = {}]
             U == [c.useSessionKeys EXCEPT ![s] = FALSE]
  <2>2. r = [c EXCEPT !.open = O, !.pending = P, !.sessionKeys = L, !.useSessionKeys = U]
    BY <1>2, <1>3 DEF Store
  <2>3. /\ O \in SUBSET Session /\ P \in [Session -> SUBSET Key]
        /\ L \in [Session -> SUBSET Key] /\ U \in [Session -> BOOLEAN]
    BY <1>3 DEF Store
  <2> HIDE DEF O, P, L, U
  <2>4. r \in Store
    BY <1>3, <2>2, <2>3, ZenonT(60) DEF Store
  <2> QED
    BY <1>1, <2>1, <2>4 DEF AtRest
<1>5. /\ c.pending \in [Session -> SUBSET Key] /\ c.sessionKeys \in [Session -> SUBSET Key]
  BY <1>3 DEF Store
<1>6. /\ r.pending[s] = {} /\ \A x \in Session \ {s} : r.pending[x] = c.pending[x]
      /\ r.sessionKeys[s] = {} /\ \A x \in Session \ {s} : r.sessionKeys[x] = c.sessionKeys[x]
  BY <1>3, <1>4, <1>5
<1>7. Index(r) /\ Counts(r) /\ Deferred(r)
  <2>1. Listed(r) = Listed(c)
    BY <1>1, <1>4 DEF Listed, Stored, AtRest
  <2>2. Index(r)
    BY <1>1, <1>4, <2>1, IndexSame DEF Sound, SameLists, SameIndex
  <2>3. Counts(r)
    BY <1>1, <1>4 DEF Sound, Counts, Named, By, SameLists, SameIndex
  <2> QED
    BY <1>4, <2>2, <2>3 DEF Deferred, AtRest
<1>8. Tracked(r)
  <2>1. Tracked(c) /\ c.removedSessionKeys = {} /\ r.removedSessionKeys = {} /\ Stored(r) = Stored(c)
    BY <1>1, <1>4 DEF Sound, AtRest, Stored
  <2>2. ASSUME NEW x \in Session PROVE Owns(r, x) \subseteq r.sessionKeys[x]
    BY <1>1, <1>4, <1>6, <2>1 DEF Tracked, Owns
  <2>3. ASSUME NEW x \in Session, NEW k \in r.sessionKeys[x] PROVE r.owner[k] = x
    BY <1>4, <1>6, <2>1 DEF Tracked
  <2>4. ASSUME NEW k \in Key, r.owner[k] # None PROVE k \in Stored(r) /\ r.owner[k] \in r.open
    BY <1>1, <1>4, <2>1, <2>4 DEF Tracked
  <2> QED
    BY <2>2, <2>3, <2>4 DEF Tracked
<1>9. Vacant(r)
  <2>1. Vacant(c) /\ r.keys = c.keys /\ r.patterns = c.patterns
    BY <1>1, <1>4 DEF Sound, SameLists
  <2> SUFFICES ASSUME NEW x \in Session, x \notin r.open
               PROVE  /\ r.keys[x] = {} /\ r.patterns[x] = {} /\ r.pending[x] = {}
                      /\ x \notin r.needs /\ r.notify[x] = "NotRegistered"
    BY DEF Vacant
  <2>2. CASE x = s
    BY <1>1, <1>4, <1>6, <2>1, <2>2
  <2>3. CASE x # s
    <3>1. x \in Session \ c.open
      BY <1>4, <2>3
    <3> QED
      BY <1>4, <1>6, <2>1, <2>3, <3>1 DEF Vacant
  <2> QED
    BY <2>2, <2>3
<1>10. Ended(d, s, r)
  <2>1. PICK K \in SUBSET Key :
          /\ \A k \in Key \ K : c.data[k] = d.data[k]
          /\ \A x \in Session \ {s} : c.pending[x] = d.pending[x] \cup (K \cap Wants(d, x))
    BY <1>1
  <2>2. r.pending = [[x \in Session |-> d.pending[x] \cup (K \cap Wants(d, x))] EXCEPT ![s] = {}]
    BY <1>3, <1>4, <1>5, <2>1, ZenonT(60)
  <2>3. \A k \in Key \ K : r.data[k] = d.data[k]
    BY <1>4, <2>1
  <2>4. r.keys = c.keys /\ r.patterns = c.patterns
    BY <1>4 DEF SameLists
  <2>5. Roused(d, {s}, r) /\ r.open = d.open \ {s}
    BY <1>1, <1>4, <1>6 DEF Roused
  <2> QED
    BY <1>1, <2>2, <2>3, <2>4, <2>5, ZenonT(60) DEF Ended
<1> QED
  BY <1>4, <1>7, <1>8, <1>9, <1>10 DEF Sound

-----------------------------------------------------------------------------
(* The other requests, and the loop of the server. *)

\* Nothing that the promise speaks of has changed.
Quiet(d, r) ==
  r.data = d.data /\ r.keys = d.keys /\ r.patterns = d.patterns /\ r.pending = d.pending

LEMMA AttendedSound ==
  ASSUME NEW d, Sound(d), AtRest(d), NEW r \in Store, SameStore(d, r), d.open \subseteq r.open,
         Vacant(r)
  PROVE  Sound(r) /\ AtRest(r)
<1>1. Stored(r) = Stored(d) /\ Listed(r) = Listed(d)
  BY DEF Stored, Listed, SameStore, SameKeys
<1>2. Index(r)
  BY <1>1, IndexSame DEF Sound, SameStore, SameLists, SameIndex
<1>3. Counts(r)
  BY DEF Sound, Counts, Named, By, SameStore, SameLists, SameIndex
<1>4. Deferred(r) /\ AtRest(r)
  BY <1>1 DEF Sound, Deferred, AtRest, SameStore, SameKeys
<1>5. Tracked(r)
  BY <1>1 DEF Sound, Tracked, Owns, SameStore, SameKeys
<1> QED
  BY <1>2, <1>3, <1>4, <1>5 DEF Sound

LEMMA OpenStep ==
  ASSUME IInv, NEW s \in Session, NEW temp \in BOOLEAN, configopen(s, temp)
  PROVE  Sound(db') /\ AtRest(db') /\ Quiet(db, db') /\ phase' = "push" /\ UNCHANGED kicks
<1>1. /\ Sound(db) /\ AtRest(db) /\ db \in Store /\ Vacant(db)
      /\ db' = [db EXCEPT !.open = @ \cup {s}, !.useSessionKeys[s] = temp]
      /\ phase' = "push" /\ UNCHANGED kicks
  BY DEF IInv, Sound, configopen, Handle, Apply
<1> DEFINE O == db.open \cup {s}
           U == [db.useSessionKeys EXCEPT ![s] = temp]
<1>2. db' = [db EXCEPT !.open = O, !.useSessionKeys = U]
  BY <1>1 DEF Store
<1>3. O \in SUBSET Session /\ U \in [Session -> BOOLEAN] /\ db.open \subseteq O
  BY <1>1 DEF Store
<1> HIDE DEF O, U
<1>4. /\ db' \in Store /\ SameStore(db, db') /\ Quiet(db, db') /\ db'.open = O
      /\ db'.needs = db.needs /\ db'.notify = db.notify
  BY <1>1, <1>2, <1>3, ZenonT(60) DEF Store, SameStore, SameLists, SameIndex, SameKeys, Quiet
<1>5. Vacant(db')
  BY <1>1, <1>3, <1>4 DEF Vacant, Quiet
<1> QED
  BY <1>1, <1>3, <1>4, <1>5, AttendedSound

\* Registrations: the client waits in d, r is the store when it is answered.
LEMMA ViaSound ==
  ASSUME NEW d, Sound(d), AtRest(d), NEW s \in d.open, NEW how \in {"MachPort", "FD", "Signal"},
         NEW r, r = NotifyVia(d, s, how)
  PROVE  Sound(r) /\ AtRest(r) /\ ViaResult(d, s, how, r)
<1>1. d \in Store /\ Vacant(d) /\ s \in Session
  BY DEF Sound, Store
<1>2. ViaResult(d, s, how, r)
  BY <1>1, ViaFields
<1>3. /\ r \in Store /\ SameStore(d, r) /\ r.open = d.open /\ r.pending = d.pending
      /\ r.needs \subseteq d.needs \cup {s} /\ r.notify = [d.notify EXCEPT ![s] = how]
  BY <1>2 DEF ViaResult
<1>4. \A x \in Session \ {s} : r.notify[x] = d.notify[x]
  BY <1>1, <1>3 DEF Store
<1>5. Vacant(r)
  BY <1>1, <1>3, <1>4 DEF Vacant, SameStore, SameLists
<1> QED
  BY <1>2, <1>3, <1>5, AttendedSound

CancelResult(d, s, r) ==
  /\ SameStore(d, r) /\ r.open = d.open /\ r.pending = d.pending /\ r.needs = d.needs \ {s}
  /\ r.notify = [d.notify EXCEPT ![s] = "NotRegistered"]
  /\ r.handle = [d.handle EXCEPT ![s] = FALSE]

LEMMA CancelSound ==
  ASSUME NEW d, Sound(d), AtRest(d), NEW s \in d.open, NEW r, r = NotifyCancel(d, s)
  PROVE  Sound(r) /\ AtRest(r) /\ CancelResult(d, s, r)
<1>1. d \in Store /\ Vacant(d) /\ s \in Session
  BY DEF Sound, Store
<1>2. r \in Store /\ CancelResult(d, s, r)
  BY <1>1, CancelFields DEF CancelResult
<1>3. \A x \in Session \ {s} : r.notify[x] = d.notify[x]
  BY <1>1, <1>2 DEF Store, CancelResult
<1>4. Vacant(r)
  BY <1>1, <1>2, <1>3 DEF Vacant, SameStore, SameLists, CancelResult
<1>5. SameStore(d, r) /\ d.open \subseteq r.open
  BY <1>2 DEF CancelResult
<1> QED
  BY <1>2, <1>4, <1>5, AttendedSound

\* The changes of a session are taken from the store.
FetchResult(d, s, r) ==
  /\ SameStore(d, r) /\ r.open = d.open /\ r.pending = [d.pending EXCEPT ![s] = {}]
  /\ r.needs = d.needs /\ r.notify = d.notify /\ r.handle = d.handle

LEMMA FetchSound ==
  ASSUME NEW d, Sound(d), AtRest(d), NEW s \in Session, NEW r, r = [d EXCEPT !.pending[s] = {}]
  PROVE  Sound(r) /\ AtRest(r) /\ FetchResult(d, s, r)
<1>1. d \in Store /\ Vacant(d)
  BY DEF Sound
<1> DEFINE P == [d.pending EXCEPT ![s] = {}]
<1>2. r = [d EXCEPT !.pending = P]
  BY <1>1 DEF Store
<1>3. P \in [Session -> SUBSET Key] /\ \A x \in Session : P[x] \in {{}, d.pending[x]}
  BY <1>1 DEF Store
<1> HIDE DEF P
<1>4. /\ r \in Store /\ SameStore(d, r) /\ r.open = d.open
      /\ r.needs = d.needs /\ r.notify = d.notify /\ r.handle = d.handle /\ r.pending = P
  BY <1>1, <1>2, <1>3, ZenonT(60) DEF Store, SameStore, SameLists, SameIndex, SameKeys
<1>5. Vacant(r)
  BY <1>1, <1>3, <1>4 DEF Vacant, SameStore, SameLists
<1>6. Sound(r) /\ AtRest(r)
  BY <1>4, <1>5, AttendedSound
<1> QED
  BY <1>4, <1>6 DEF P, FetchResult

LEMMA ViaStep ==
  ASSUME IInv, NEW s \in Session, NEW how \in Notifiers[s], notifyvia(s, how)
  PROVE  /\ Sound(db') /\ AtRest(db') /\ Quiet(db, db') /\ phase' = "push"
         /\ kicks' = [kicks EXCEPT ![s] = 0]
<1>1. /\ Sound(db) /\ AtRest(db) /\ s \in db.open
      /\ db' = NotifyVia(db, s, how) /\ phase' = "push" /\ kicks' = [kicks EXCEPT ![s] = 0]
  BY DEF IInv, notifyvia, HandleNewPort, Apply
<1>2. how \in {"MachPort", "FD", "Signal"}
  BY StoreConstants
<1>3. Sound(db') /\ AtRest(db') /\ ViaResult(db, s, how, db')
  BY <1>1, <1>2, ViaSound
<1> QED
  BY <1>1, <1>3 DEF ViaResult, Quiet, SameStore, SameLists, SameKeys

LEMMA CancelStep ==
  ASSUME IInv, NEW s \in Session, notifycancel(s)
  PROVE  Sound(db') /\ AtRest(db') /\ Quiet(db, db') /\ phase' = "push" /\ UNCHANGED kicks
<1>1. /\ Sound(db) /\ AtRest(db) /\ s \in db.open
      /\ db' = NotifyCancel(db, s) /\ phase' = "push" /\ UNCHANGED kicks
  BY DEF IInv, notifycancel, Handle, Apply
<1>2. Sound(db') /\ AtRest(db') /\ CancelResult(db, s, db')
  BY <1>1, CancelSound
<1> QED
  BY <1>1, <1>2 DEF CancelResult, Quiet, SameStore, SameLists, SameKeys

LEMMA ChangesStep ==
  ASSUME IInv, NEW s \in Session, notifychanges(s)
  PROVE  /\ Sound(db') /\ AtRest(db') /\ phase' = "push" /\ UNCHANGED kicks
         /\ SameStore(db, db') /\ db'.pending = [db.pending EXCEPT ![s] = {}]
<1>1. /\ Sound(db) /\ AtRest(db)
      /\ db' = [db EXCEPT !.pending[s] = {}] /\ phase' = "push" /\ UNCHANGED kicks
  BY DEF IInv, notifychanges, Handle, Apply
<1>2. Sound(db') /\ AtRest(db') /\ FetchResult(db, s, db')
  BY <1>1, FetchSound
<1> QED
  BY <1>1, <1>2 DEF FetchResult

LEMMA EndStep ==
  ASSUME IInv, NEW s \in Session, noSenders(s)
  PROVE  /\ Sound(db') /\ AtRest(db') /\ Ended(db, s, db') /\ phase' = "push"
         /\ kicks' = [kicks EXCEPT ![s] = 0]
<1>1. /\ Sound(db) /\ AtRest(db) /\ s \in db.open /\ db' = cleanupSession(db, s)
      /\ phase' = "push" /\ kicks' = [kicks EXCEPT ![s] = 0]
  BY DEF IInv, noSenders, HandleNewPort, Apply
<1> QED
  BY <1>1, EndSound

LEMMA PushStep ==
  ASSUME IInv, pushNotifications
  PROVE  /\ Sound(db') /\ AtRest(db') /\ Quiet(db, db') /\ phase' = "event"
         /\ kicks' \in [Session -> 0 .. QLimit]
<1>1. PICK broken \in SUBSET {s \in db.needs : db.notify[s] # "MachPort"} :
        LET sent == {s \in db.needs \ broken : db.handle[s]}
            room(s) == IF db.notify[s] = "Signal" THEN 1 ELSE QLimit
        IN /\ kicks' = [s \in Session |-> IF s \in sent /\ kicks[s] < room(s)
                                          THEN kicks[s] + 1 ELSE kicks[s]]
           /\ db' = [db EXCEPT !.needs = {},
                               !.handle = [s \in Session |-> @[s] /\ s \notin broken]]
  BY DEF pushNotifications
<1>2. /\ Sound(db) /\ AtRest(db) /\ db \in Store /\ Vacant(db) /\ phase' = "event"
      /\ kicks \in [Session -> 0 .. QLimit] /\ QLimit \in Nat \ {0}
  BY StoreConstants DEF IInv, Sound, pushNotifications
<1>3. kicks' \in [Session -> 0 .. QLimit]
  BY <1>1, <1>2
<1> DEFINE H == [s \in Session |-> db.handle[s] /\ s \notin broken]
<1>4. db' = [db EXCEPT !.needs = {}, !.handle = H]
  BY <1>1, <1>2 DEF Store
<1>5. H \in [Session -> BOOLEAN]
  BY <1>2 DEF Store
<1> HIDE DEF H
<1>6. /\ db' \in Store /\ SameStore(db, db') /\ Quiet(db, db') /\ db'.open = db.open
      /\ db'.needs = {} /\ db'.notify = db.notify
  BY <1>2, <1>4, <1>5 DEF Store, SameStore, SameLists, SameIndex, SameKeys, Quiet
<1>7. Vacant(db')
  BY <1>2, <1>6 DEF Vacant, Quiet
<1> QED
  BY <1>2, <1>3, <1>6, <1>7, AttendedSound, SMTT(30)

-----------------------------------------------------------------------------

LEMMA NextInv == IInv /\ [Next]_vars => IInv'
<1> SUFFICES ASSUME IInv, [Next]_vars PROVE IInv'
  OBVIOUS
<1>0. kicks \in [Session -> 0 .. QLimit] /\ QLimit \in Nat
  BY StoreConstants DEF IInv
<1>1. ASSUME NEW w \in Writer, Write(w) PROVE IInv'
  BY <1>0, <1>1, WriteStep DEF IInv, Written
<1>2. ASSUME NEW s \in Session, Watch(s) PROVE IInv'
  BY <1>0, <1>2, WatchStep DEF IInv
<1>3. ASSUME NEW s \in Session, Attend(s) PROVE IInv'
  <2>1. Sound(db') /\ AtRest(db') /\ phase' = "push"
    BY <1>3, OpenStep, ViaStep, CancelStep, ChangesStep, EndStep DEF Attend
  <2>2. UNCHANGED kicks \/ kicks' = [kicks EXCEPT ![s] = 0]
    BY <1>3, OpenStep, ViaStep, CancelStep, ChangesStep, EndStep DEF Attend
  <2>3. kicks' \in [Session -> 0 .. QLimit]
    BY <1>0, <2>2
  <2> QED
    BY <2>1, <2>3 DEF IInv
<1>4. ASSUME NEW s \in Session, Receive(s) PROVE IInv'
  <2>1. kicks' \in [Session -> 0 .. QLimit]
    BY <1>0, <1>4 DEF Receive
  <2> QED
    BY <1>4, <2>1 DEF IInv, Receive
<1>5. CASE pushNotifications
  BY <1>5, PushStep DEF IInv
<1>6. CASE UNCHANGED vars
  BY <1>6 DEF IInv, vars
<1> QED
  BY <1>1, <1>2, <1>3, <1>4, <1>5, <1>6 DEF Next

\* The store of a server that has just started.
LEMMA EmptySound ==
  ASSUME NEW d, d = EmptyStore
  PROVE  Sound(d) /\ AtRest(d)
<1>1. d \in Store
  BY DEF EmptyStore, Store, Count
<1>2. /\ d.open = {} /\ d.data = [k \in Key |-> NoValue] /\ d.owner = [k \in Key |-> None]
      /\ d.sessionKeys = [s \in Session |-> {}] /\ d.refs = [s \in Session |-> [k \in Key |-> 0]]
      /\ d.keys = [s \in Session |-> {}] /\ d.patterns = [s \in Session |-> {}]
      /\ d.pSessions = [p \in Pattern |-> {}] /\ d.pKeys = [p \in Pattern |-> {}]
      /\ AtRest(d) /\ d.pending = [s \in Session |-> {}] /\ d.needs = {}
      /\ d.notify = [s \in Session |-> "NotRegistered"]
  BY DEF EmptyStore, AtRest
<1>3. Index(d)
  BY <1>2 DEF Index
<1>4. Counts(d)
  <2>1. ASSUME NEW s \in Session, NEW k \in Key
        PROVE  d.refs[s][k] = 0 /\ Named(d, s, k) = 0 /\ By(d, s, k) = {}
    BY <1>2 DEF Named, By
  <2>2. Cardinality({}) = 0
    BY FS_EmptySet
  <2> QED
    BY <2>1, <2>2 DEF Counts
<1>5. Deferred(d) /\ Tracked(d)
  BY <1>2, StoreConstants DEF Deferred, Tracked, Owns, AtRest
<1>6. Vacant(d)
  BY <1>2 DEF Vacant
<1> QED
  BY <1>1, <1>2, <1>3, <1>4, <1>5, <1>6 DEF Sound

LEMMA InitInv == Init => IInv
BY EmptySound, StoreConstants DEF IInv, Init

-----------------------------------------------------------------------------
(* What the invariant says of the store between two requests. *)

LEMMA InvCounts == IInv => WatcherCounts
BY DEF IInv, Sound, Counts, Named, By, WatcherCounts

LEMMA InvIndex == IInv => PatternIndex
<1> SUFFICES ASSUME IInv PROVE PatternIndex
  OBVIOUS
<1>1. Index(db) /\ Listed(db) = Stored(db)
  BY DEF IInv, Sound, AtRest, Listed
<1> QED
  BY <1>1 DEF Index, PatternIndex

LEMMA InvOwners == IInv => SessionKeysTracked
<1> SUFFICES ASSUME IInv PROVE SessionKeysTracked
  OBVIOUS
<1>1. Tracked(db) /\ db.removedSessionKeys = {} /\ db.sessionKeys \in [Session -> SUBSET Key]
  BY DEF IInv, Sound, AtRest, Store
<1> QED
  BY <1>1 DEF Tracked, Owns, SessionKeysTracked

LEMMA InvClosed == IInv => ClosedForgotten
<1> SUFFICES ASSUME IInv, NEW s \in Session \ db.open
             PROVE  /\ s \notin db.needs /\ db.pending[s] = {} /\ db.notify[s] = "NotRegistered"
                    /\ \A k \in Key : db.refs[s][k] = 0
                    /\ \A p \in Pattern : s \notin db.pSessions[p]
  BY DEF ClosedForgotten
<1>1. /\ Counts(db) /\ Index(db) /\ db.keys[s] = {} /\ db.patterns[s] = {}
      /\ s \notin db.needs /\ db.pending[s] = {} /\ db.notify[s] = "NotRegistered"
  BY DEF IInv, Sound, Vacant
<1>2. ASSUME NEW k \in Key PROVE db.refs[s][k] = 0
  <2>1. Named(db, s, k) = 0 /\ By(db, s, k) = {}
    BY <1>1 DEF Named, By
  <2>2. Cardinality(By(db, s, k)) = 0
    BY <2>1, CountType
  <2>3. db.refs[s][k] = Named(db, s, k) + Cardinality(By(db, s, k))
    BY <1>1 DEF Counts
  <2> QED
    BY <2>1, <2>2, <2>3
<1>3. \A p \in Pattern : s \notin db.pSessions[p]
  BY <1>1 DEF Index
<1> QED
  BY <1>1, <1>2, <1>3

-----------------------------------------------------------------------------
(* Theorems *)

\* At the end of every request the indexes of the store are sound and nothing of the
\* request is left over.
THEOREM Invariance == Spec => []IInv
BY InitInv, NextInv, PTL DEF Spec

\* The store, the ports of the clients and the server loop keep their types.
THEOREM TypeCorrect == Spec => []TypeOK
<1>1. IInv => TypeOK
  BY DEF IInv, TypeOK, Sound, AtRest
<1> QED
  BY <1>1, Invariance, PTL

\* The watcher counts never drift, whatever a request removes, adds again or flags.
THEOREM CountsRight == Spec => []WatcherCounts
BY InvCounts, Invariance, PTL

\* A watched pattern lists exactly the keys that have a value and match it.
THEOREM IndexRight == Spec => []PatternIndex
BY InvIndex, Invariance, PTL

\* The mark on a session key and the remove-on-close list of its session agree.
THEOREM OwnersRight == Spec => []SessionKeysTracked
BY InvOwners, Invariance, PTL

\* Nothing refers to a session that is closed.
THEOREM EndIsFinal == Spec => []ClosedForgotten
BY InvClosed, Invariance, PTL

-----------------------------------------------------------------------------
(* The promise *)

LEMMA InterestOf ==
  /\ Interest = [s \in Session |-> Wants(db, s)]
  /\ Interest' = [s \in Session |-> Wants(db', s)]
BY DEF Interest, Wants

LEMMA QuietStutters ==
  ASSUME Quiet(db, db')
  PROVE  UNCHANGED Promise!svars
<1>1. \A s : Wants(db', s) = Wants(db, s)
  BY DEF Quiet, Wants
<1>2. Interest' = Interest
  BY <1>1, InterestOf
<1> QED
  BY <1>2 DEF Quiet, Promise!svars

LEMMA StepPromise ==
  ASSUME IInv, [Next]_vars
  PROVE  [Promise!Next]_(Promise!svars)
<1>1. ASSUME NEW w \in Writer, Write(w) PROVE Promise!Next
  <2>1. Written(db, db')
    BY <1>1, WriteStep
  <2>2. PICK K \in SUBSET Key :
          /\ \A k \in Key \ K : db'.data[k] = db.data[k]
          /\ db'.pending = [s \in Session |-> db.pending[s] \cup (K \cap Wants(db, s))]
    BY <2>1 DEF Written
  <2>3. \A s : Wants(db', s) = Wants(db, s)
    BY <2>1 DEF Written, SameLists, Wants
  <2>4. Interest' = Interest
    BY <2>3, InterestOf
  <2>5. db'.pending = Promise!Told(K)
    BY <2>2, InterestOf DEF Promise!Told
  <2>6. Promise!ChangesOnly(K)
    BY <2>2 DEF Promise!ChangesOnly
  <2> QED
    BY <2>4, <2>5, <2>6 DEF Promise!Next, Promise!Change
<1>2. ASSUME NEW s \in Session, Watch(s) PROVE Promise!Next
  <2>1. Sound(db') /\ Rewatched(db, s, db')
    BY <1>2, WatchStep
  <2>2. Wants(db', s) \in SUBSET Key
    <3>1. db'.keys[s] \in SUBSET Key /\ db'.patterns[s] \in SUBSET Pattern
      BY <2>1 DEF Sound, Store
    <3> QED
      BY <3>1, StoreConstants DEF Wants
  <2>3. \A x \in Session \ {s} : Wants(db', x) = Wants(db, x)
    BY <2>1 DEF Rewatched, Wants
  <2>4. Interest' = [Interest EXCEPT ![s] = Wants(db', s)]
    BY <2>3, InterestOf
  <2>5. db'.data = db.data /\ db'.pending = db.pending
    BY <2>1 DEF Rewatched, SameKeys, SameClients
  <2>6. Promise!SetInterest(s)
    BY <2>2, <2>4, <2>5 DEF Promise!SetInterest
  <2> QED
    BY <2>6 DEF Promise!Next
<1>3. ASSUME NEW s \in Session, notifychanges(s) PROVE Promise!Next
  <2>1. SameStore(db, db') /\ db'.pending = [db.pending EXCEPT ![s] = {}]
    BY <1>3, ChangesStep
  <2>2. \A x : Wants(db', x) = Wants(db, x)
    BY <2>1 DEF SameStore, SameLists, Wants
  <2>3. Interest' = Interest /\ db'.data = db.data
    BY <2>1, <2>2, InterestOf DEF SameStore, SameKeys
  <2>4. Promise!Fetch(s)
    BY <2>1, <2>3 DEF Promise!Fetch
  <2> QED
    BY <2>4 DEF Promise!Next
<1>4. ASSUME NEW s \in Session, noSenders(s) PROVE Promise!Next
  <2>1. Ended(db, s, db')
    BY <1>4, EndStep
  <2>2. PICK K \in SUBSET Key :
          /\ \A k \in Key \ K : db'.data[k] = db.data[k]
          /\ db'.pending = [[x \in Session |-> db.pending[x] \cup (K \cap Wants(db, x))]
                              EXCEPT ![s] = {}]
    BY <2>1 DEF Ended
  <2>3. Wants(db', s) = {} /\ \A x \in Session \ {s} : Wants(db', x) = Wants(db, x)
    BY <2>1 DEF Ended, Wants
  <2>4. Interest' = [Interest EXCEPT ![s] = {}]
    BY <2>3, InterestOf
  <2>5. Promise!Told(K) = [x \in Session |-> db.pending[x] \cup (K \cap Wants(db, x))]
    BY InterestOf DEF Promise!Told
  <2>6. Promise!ChangesOnly(K)
    BY <2>2 DEF Promise!ChangesOnly
  <2>7. Promise!End(s)
    BY <2>2, <2>4, <2>5, <2>6 DEF Promise!End
  <2> QED
    BY <2>7 DEF Promise!Next
<1>5. ASSUME NEW s \in Session, Attend(s), ~notifychanges(s), ~noSenders(s)
      PROVE  UNCHANGED Promise!svars
  BY <1>5, OpenStep, ViaStep, CancelStep, QuietStutters DEF Attend
<1>6. CASE pushNotifications
  BY <1>6, PushStep, QuietStutters
<1>7. CASE UNCHANGED db
  BY <1>7, QuietStutters DEF Quiet
<1>8. ASSUME NEW s \in Session, Receive(s) PROVE UNCHANGED db
  BY <1>8 DEF Receive
<1>9. UNCHANGED vars => UNCHANGED db
  BY DEF vars
<1> QED
  BY <1>1, <1>2, <1>3, <1>4, <1>5, <1>6, <1>7, <1>8, <1>9 DEF Next

\* The server keeps the promise of StoreService: with all its indexes, deferred
\* removals and session keys, each request tells exactly the sessions that are
\* interested in a key it changed.
THEOREM Refinement == Spec => KeepsPromise
<1>1. Init => Promise!Init
  <2> SUFFICES ASSUME Init PROVE Promise!Init
    OBVIOUS
  <2>1. /\ db.data = [k \in Key |-> NoValue] /\ db.pending = [s \in Session |-> {}]
        /\ db.keys = [s \in Session |-> {}] /\ db.patterns = [s \in Session |-> {}]
    BY DEF Init, EmptyStore
  <2>2. \A s \in Session : Wants(db, s) = {}
    BY <2>1 DEF Wants
  <2>3. Interest = [s \in Session |-> {}]
    BY <2>2, InterestOf
  <2> QED
    BY <2>1, <2>3 DEF Promise!Init
<1>2. IInv /\ [Next]_vars => [Promise!Next]_(Promise!svars)
  BY StepPromise
<1> QED
  BY <1>1, <1>2, Invariance, PTL DEF Spec, KeepsPromise, Promise!Service
=============================================================================
