--------------------------- MODULE MCStoreClient ---------------------------
(* Instances of the clients of the dynamic store: one client, one key and  *)
(* a pattern that matches it, and processes without a session that write.  *)
EXTENDS StoreClient

CONSTANTS s1, k1, p1

MCMatches == [p \in Pattern |-> Key]

MCWritable == [w \in Writer |-> Key]

MCNotifiers == [s \in Session |-> {"MachPort"}]
=============================================================================
