---------------------------- MODULE StoreService ----------------------------
(***************************************************************************)
(* What the dynamic store promises its sessions, without the indexes with  *)
(* which configd keeps the promise: a session that is interested in a key  *)
(* is told of every change to it, and of nothing else, and learns of all   *)
(* the changes it missed when it asks.                                     *)
(***************************************************************************)
CONSTANTS Session, Key, Value, NoValue

VARIABLES data, interest, pending

svars == <<data, interest, pending>>

Init == /\ data = [k \in Key |-> NoValue]
        /\ interest = [s \in Session |-> {}]
        /\ pending = [s \in Session |-> {}]

(* The keys of K change or are flagged as changed, in one request.         *)
Told(K) == [s \in Session |-> pending[s] \cup (K \cap interest[s])]

ChangesOnly(K) == \A k \in Key \ K : data'[k] = data[k]

Change == \E K \in SUBSET Key : /\ ChangesOnly(K)
                                /\ pending' = Told(K)
                                /\ UNCHANGED interest

SetInterest(s) == /\ \E K \in SUBSET Key : interest' = [interest EXCEPT ![s] = K]
                  /\ UNCHANGED <<data, pending>>

Fetch(s) == /\ pending' = [pending EXCEPT ![s] = {}]
            /\ UNCHANGED <<data, interest>>

(* A session that ends takes its temporary keys with it.                   *)
End(s) == \E K \in SUBSET Key :
            /\ ChangesOnly(K)
            /\ interest' = [interest EXCEPT ![s] = {}]
            /\ pending' = [Told(K) EXCEPT ![s] = {}]

Next == \/ Change
        \/ \E s \in Session : SetInterest(s) \/ Fetch(s) \/ End(s)

Service == Init /\ [][Next]_svars
=============================================================================
