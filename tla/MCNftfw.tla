------------------------------- MODULE MCNftfw -------------------------------
(* Two calls at once on one host. Two spellings of one address, a rule for   *)
(* each protocol that can become the twin of another, and one in between.    *)
EXTENDS Nftfw, TLC

ClientSymmetry == Permutations(Client)

MCFrom == {"any", "10.0.0.1", "::ffff:10.0.0.1"}
MCCanon == [f \in MCFrom |-> IF f = "any" THEN f ELSE "10.0.0.1"]
MCRule(p, f, a) == [proto |-> p, from |-> f, action |-> a]
MCOffered ==
  {MCRule("tcp", "any", "allow"), MCRule("udp", "any", "allow"),
   MCRule("both", "::ffff:10.0.0.1", "deny"), MCRule("udp", "10.0.0.1", "allow")}
=============================================================================
