---------------------------- MODULE MCServerLife ----------------------------
(* One client of each process: the drain only tests whether any is left.    *)
(* A row in each of two tables.                                              *)
EXTENDS ServerLife, TLC

CONSTANTS r1, r2

MCTables == <<"nodes", "users">>
MCTable == (r1 :> "nodes") @@ (r2 :> "users")
=============================================================================
