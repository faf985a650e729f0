--------------------------- MODULE MCNodeManager ---------------------------
(* Instances of NodeManager for TLC. The pools are as large as one or two    *)
(* nodes can keep busy; every agent expects the token "good".                *)
EXTENDS NodeManager, TLC

CONSTANTS Good, Bad

MCAgentToken == [n \in Node |-> Good]

\* Members of a pool are interchangeable (safety runs only).
PoolSymmetry ==
  Permutations(Loop) \union Permutations(Conn) \union Permutations(Reconciler)
=============================================================================
