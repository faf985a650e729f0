---------------------------- MODULE RemoteCalls ----------------------------
(***************************************************************************)
(* What a request to a node promises to the browser and to the stack of the*)
(* node, whatever connections break, deadlines pass and answers get lost:  *)
(* a request has its effect at most once and in one piece, as if requests  *)
(* came one after the other; when it is answered it has had it; when it has*)
(* failed it may have had it, may have it later, or may be lost.           *)
(***************************************************************************)
CONSTANTS
  Request,  \* requests, named by their id
  Kind,     \* Kind[q]: "list", "deploy" or "down"
  Yaml      \* Yaml[q]: the services of the file a deploy brings

VARIABLES
  outcome,  \* of each request: "idle", "waiting", "answered", "failed"
  pending,  \* requests that may have their effect yet
  executed, \* requests that have had it
  stack,    \* services that run
  broken    \* the last deploy has failed

vars == <<outcome, pending, executed, stack, broken>>

Init ==
  /\ outcome = [q \in Request |-> "idle"]
  /\ pending = {}
  /\ executed = {}
  /\ stack = {}
  /\ broken = FALSE

\* A request is sent, and may be lost at once, or its sending fails.
Begin(q) ==
  /\ outcome[q] = "idle"
  /\ \/ /\ outcome' = [outcome EXCEPT ![q] = "waiting"]
        /\ pending' \in {pending, pending \union {q}}
     \/ /\ outcome' = [outcome EXCEPT ![q] = "failed"]
        /\ UNCHANGED pending
  /\ UNCHANGED <<executed, stack, broken>>

\* The stack becomes what the file of this deploy says, or the deploy fails and has
\* added some of it; nothing of any other file gets in.
Deploy(q) ==
  \/ stack' = Yaml[q] /\ broken' = FALSE
  \/ stack \subseteq stack' /\ stack' \subseteq stack \union Yaml[q] /\ broken' = TRUE

Down == stack' \subseteq stack /\ UNCHANGED broken

Effect(q) ==
  \/ Kind[q] = "list" /\ UNCHANGED <<stack, broken>>
  \/ Kind[q] = "deploy" /\ Deploy(q)
  \/ Kind[q] = "down" /\ Down

Execute(q) ==
  /\ q \in pending \ executed
  /\ pending' = pending \ {q}
  /\ executed' = executed \union {q}
  /\ Effect(q)
  /\ UNCHANGED outcome

\* A connection is lost with the requests on it.
Lose ==
  /\ pending' \in SUBSET pending
  /\ UNCHANGED <<outcome, executed, stack, broken>>

Return(q) ==
  /\ outcome[q] = "waiting"
  /\ \/ q \in executed /\ outcome' = [outcome EXCEPT ![q] = "answered"]
     \/ outcome' = [outcome EXCEPT ![q] = "failed"]
  /\ UNCHANGED <<pending, executed, stack, broken>>

Next == Lose \/ \E q \in Request : Begin(q) \/ Execute(q) \/ Return(q)

Spec == Init /\ [][Next]_vars
=============================================================================
