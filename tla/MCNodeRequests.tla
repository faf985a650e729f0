--------------------------- MODULE MCNodeRequests ---------------------------
(* Any two of: deploys of two different files, a down and a list, over two   *)
(* connections.                                                              *)
EXTENDS NodeRequests, TLC

CONSTANTS q1, q2, q3, q4

MCKind == (q1 :> "deploy") @@ (q2 :> "deploy") @@ (q3 :> "down") @@ (q4 :> "list")
MCYaml == (q1 :> {"a"}) @@ (q2 :> {"b"}) @@ (q3 :> {}) @@ (q4 :> {})
=============================================================================
