------------------------------ MODULE MCStore ------------------------------
(* Instances of the dynamic store server.                                  *)
EXTENDS DynamicStore, TLC

CONSTANTS k1, p1, p2, p3, s1, s2

(* Two patterns match every key; p3 does not compile.                      *)
MCMatches == [p \in Pattern |-> IF p = p3 THEN {} ELSE Key]

MCWritable == [w \in Writer |-> Key]

(* One session asks to be notified; the other changes the store.           *)
MCNotifiers == [s \in Session |-> IF s = s1 THEN {"FD"} ELSE {}]

Alike == Permutations({p1, p2})
=============================================================================
