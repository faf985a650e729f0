----------------------------- MODULE NodeFleet -----------------------------
(***************************************************************************)
(* What the node manager promises to the rest of the server, to the        *)
(* dashboard and to the webhooks: every node has a control link that is    *)
(* either down or up; the link of a node comes up only after an operator   *)
(* has approved that node; the up and the down reports of one node strictly *)
(* alternate; and the status of a row changes only when the link does or   *)
(* when an operator asks for it.                                           *)
(***************************************************************************)
CONSTANT Node

VARIABLES
  status,    \* the row's status, "absent" when there is no row
  approved,  \* nodes an operator approved since their id was created
  link       \* "down" or "up", as last reported through OnStatus

vars == <<status, approved, link>>

Init ==
  /\ status = [n \in Node |-> "absent"]
  /\ approved = {}
  /\ link = [n \in Node |-> "down"]

\* An announce or a manual add; a manual node has an id never seen before.
Add(n, fresh) ==
  /\ status[n] = "absent"
  /\ fresh => link[n] = "down"
  /\ status' = [status EXCEPT ![n] = "pending"]
  /\ approved' = IF fresh THEN approved \ {n} ELSE approved
  /\ UNCHANGED link

Approve(n) ==
  /\ status[n] # "absent"
  /\ status' = [status EXCEPT ![n] = "approved"]
  /\ approved' = approved \union {n}
  /\ UNCHANGED link

Forget(n) ==
  /\ status[n] # "absent"
  /\ status' = [status EXCEPT ![n] = "absent"]
  /\ UNCHANGED <<approved, link>>

\* The link changes and, when there is a row, the row says so.
Report(n, from, to, s) ==
  /\ link[n] = from
  /\ link' = [link EXCEPT ![n] = to]
  /\ status' = IF status[n] = "absent" THEN status
               ELSE [status EXCEPT ![n] = s]
  /\ UNCHANGED approved

LinkUp(n) == n \in approved /\ Report(n, "down", "up", "online")

LinkDown(n) == Report(n, "up", "down", "offline")

\* The server process restarts: every link is gone and nobody is told.
LoseAll ==
  /\ link' = [n \in Node |-> "down"]
  /\ UNCHANGED <<status, approved>>

Next ==
  \/ \E n \in Node, fresh \in BOOLEAN : Add(n, fresh)
  \/ \E n \in Node : Approve(n) \/ Forget(n) \/ LinkUp(n) \/ LinkDown(n)
  \/ LoseAll

Spec == Init /\ [][Next]_vars
=============================================================================
