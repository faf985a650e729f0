---------------------------- MODULE NodeManager ----------------------------
(***************************************************************************)
(* The server's node manager: package nodemanager (connection map,         *)
(* connectLoop, readLoop, Reconcile, Drop, Close), the node rows of the    *)
(* store that it reads and writes, the HTTP handlers of NodesAPI that      *)
(* change those rows, and the OnStatus callback of package server.         *)
(*                                                                         *)
(* Goroutines and *Conn values are drawn from finite pools (Loop, Conn,    *)
(* Reconciler, Approver); an idle member stands for a goroutine that does  *)
(* not exist, a free Conn for an object nothing refers to any more.        *)
(***************************************************************************)
CONSTANTS
  Node,        \* node UUIDs
  Loop,        \* connectLoop goroutines
  Conn,        \* *Conn objects
  Reconciler,  \* goroutines running Reconcile
  Approver,    \* HTTP handlers running Approve
  Token,       \* tokens an operator may type
  PairToken,   \* the server's pairing_token, NoToken when not configured
  NoToken,     \* the empty string
  NoConn,      \* no entry in m.conns
  AgentToken   \* the token each node's agent really expects

ASSUME ConstantsAssumption ==
  /\ Node # {}
  /\ NoConn \notin Conn
  /\ NoToken \notin Token
  /\ AgentToken \in [Node -> Token \union {PairToken}]

VARIABLES
  status,     \* nodes.status, "absent" when there is no row
  token,      \* nodes.token
  mgr,        \* "running", "stopping" (m.stop closed), "closed" (maps reset)
  conns,      \* m.conns
  looping,    \* m.looping
  loop,       \* connectLoop goroutines
  conn,       \* *Conn objects with their readLoop
  rec,        \* Reconcile goroutines
  appr,       \* Approve handlers
  dropping,   \* Delete handlers between DeleteNode and Drop
  agentUp,    \* agents that run and can be reached
  approved,   \* history: nodes whose row an operator has approved since it was added
  everApproved \* history: nodes approved at some time under their id

history == <<approved, everApproved>>
rowVars == <<status, token, history>>
mgrVars == <<mgr, conns, looping>>
apiVars == <<appr, dropping>>
vars == <<rowVars, mgrVars, apiVars, loop, conn, rec, agentUp>>

TokenOrNone == Token \union {PairToken, NoToken}
ConnOrNone == Conn \union {NoConn}

\* The statuses Reconcile connects to.
Connectable == {"approved", "offline", "online"}

LoopPC == {"idle", "top", "get", "check", "dial", "install", "online",
           "wait", "backoff", "exit"}

\* "dialed": authenticated, only its connectLoop knows it; "installed": in
\* m.conns, OnStatus(online) still to come; "live": readLoop reads; "left":
\* the deferred function took it out of m.conns; "told": OnStatus(offline)
\* returned; "stopped": conn.stop is closed.
Phase == {"free", "dialed", "installed", "live", "left", "told", "stopped"}

Status == {"absent", "pending"} \union Connectable
LoopRec == [pc : LoopPC, node : Node, tok : TokenOrNone, conn : ConnOrNone]
ConnRec == [phase : Phase, node : Node, up : BOOLEAN]
ReconcileRec == [pc : {"idle", "list", "walk"}, todo : SUBSET Node,
                 tok : [Node -> TokenOrNone]]
ApproveRec == [pc : {"idle", "token", "status"}, node : Node]

TypeOK ==
  /\ status \in [Node -> Status]
  /\ token \in [Node -> TokenOrNone]
  /\ mgr \in {"running", "stopping", "closed"}
  /\ conns \in [Node -> ConnOrNone]
  /\ looping \in SUBSET Node
  /\ loop \in [Loop -> LoopRec]
  /\ conn \in [Conn -> ConnRec]
  /\ rec \in [Reconciler -> ReconcileRec]
  /\ appr \in [Approver -> ApproveRec]
  /\ dropping \in SUBSET Node
  /\ agentUp \in SUBSET Node
  /\ approved \in SUBSET Node
  /\ everApproved \in SUBSET Node

-----------------------------------------------------------------------------
(* Resting values of the pools. The node of an idle member is irrelevant;   *)
(* a fixed one keeps the state space small.                                 *)

AnyNode == CHOOSE n \in Node : TRUE
IdleLoop == [pc |-> "idle", node |-> AnyNode, tok |-> NoToken, conn |-> NoConn]
FreeConn == [phase |-> "free", node |-> AnyNode, up |-> FALSE]
NoTokens == [n \in Node |-> NoToken]
IdleRec == [pc |-> "idle", todo |-> {}, tok |-> NoTokens]
StartedRec == [IdleRec EXCEPT !.pc = "list"]
IdleAppr == [pc |-> "idle", node |-> AnyNode]

\* The process memory right after New: go m.Reconcile() is on its way, in r.
NoConns == [n \in Node |-> NoConn]
NoLoops == [g \in Loop |-> IdleLoop]
NoConnObjects == [c \in Conn |-> FreeConn]
FirstReconcile(r) == [q \in Reconciler |-> IF q = r THEN StartedRec ELSE IdleRec]
NoHandlers == [a \in Approver |-> IdleAppr]

Init ==
  /\ status = [n \in Node |-> "absent"]
  /\ token = NoTokens
  /\ approved = {}
  /\ everApproved = {}
  /\ agentUp = Node
  /\ mgr = "running"
  /\ conns = NoConns
  /\ looping = {}
  /\ loop = NoLoops
  /\ conn = NoConnObjects
  /\ \E r \in Reconciler : rec = FirstReconcile(r)
  /\ appr = NoHandlers
  /\ dropping = {}

-----------------------------------------------------------------------------
(* Rows. Each SQL statement is atomic and succeeds while the store is open. *)

Exists(n) == status[n] # "absent"

\* Mutation: the update inserts a missing row.
SetNodeStatusInserting(n, s) == status' = [status EXCEPT ![n] = s]

\* UPDATE nodes SET status: no row, no effect and no error.
SetNodeStatus(n, s) ==
  status' = IF Exists(n) THEN [status EXCEPT ![n] = s] ELSE status

\* INSERT ... ON CONFLICT keeps the status and the token of an existing row.
UpsertNode(n, s, t) ==
  /\ status' = IF Exists(n) THEN status ELSE [status EXCEPT ![n] = s]
  /\ token' = IF Exists(n) THEN token ELSE [token EXCEPT ![n] = t]

-----------------------------------------------------------------------------
(* Reconcile                                                                *)

\* One tick of periodicReconcile, which stops with the manager.
ReconcileTick(r) ==
  /\ mgr = "running"
  /\ rec[r].pc = "idle"
  /\ rec' = [rec EXCEPT ![r] = StartedRec]
  /\ UNCHANGED <<rowVars, mgrVars, apiVars, loop, conn, agentUp>>

\* The rows with a status in ss, as a snapshot for r to walk.
Snapshot(r, ss) ==
  LET todo == {n \in Node : status[n] \in ss}
  IN rec' = [rec EXCEPT ![r] =
       IF todo = {} THEN IdleRec
       ELSE [pc |-> "walk", todo |-> todo,
             tok |-> [n \in Node |-> IF n \in todo THEN token[n] ELSE NoToken]]]

\* Mutation: every known node is connectable.
ReconcileListAll(r) ==
  /\ rec[r].pc = "list"
  /\ Snapshot(r, Connectable \union {"pending"})
  /\ UNCHANGED <<rowVars, mgrVars, apiVars, loop, conn, agentUp>>

\* Mutation: offline and online rows are taken for nodes that need no dialing.
ReconcileListApprovedOnly(r) ==
  /\ rec[r].pc = "list"
  /\ Snapshot(r, {"approved"})
  /\ UNCHANGED <<rowVars, mgrVars, apiVars, loop, conn, agentUp>>

\* ListNodes: every later decision uses this snapshot of the rows.
ReconcileList(r) ==
  /\ rec[r].pc = "list"
  /\ Snapshot(r, Connectable)
  /\ UNCHANGED <<rowVars, mgrVars, apiVars, loop, conn, agentUp>>

\* The step that takes n off r's list of nodes still to look at.
Walked(r, n) ==
  LET rest == rec[r].todo \ {n}
  IN rec' = [rec EXCEPT ![r] =
       IF rest = {} THEN IdleRec
       ELSE [@ EXCEPT !.todo = rest, !.tok[n] = NoToken]]

\* The locked section for a node that has a connection or a loop.
ReconcileSkip(r, n) ==
  /\ rec[r].pc = "walk"
  /\ n \in rec[r].todo
  /\ conns[n] # NoConn \/ n \in looping
  /\ Walked(r, n)
  /\ UNCHANGED <<rowVars, mgrVars, apiVars, loop, conn, agentUp>>

\* Mutation: only the connection is looked at, not m.looping.
ReconcileStartUnchecked(r, n, g) ==
  /\ rec[r].pc = "walk"
  /\ n \in rec[r].todo
  /\ conns[n] = NoConn
  /\ loop[g].pc = "idle"
  /\ looping' = looping \union {n}
  /\ loop' = [loop EXCEPT ![g] = [pc |-> "top", node |-> n,
                                  tok |-> rec[r].tok[n], conn |-> NoConn]]
  /\ Walked(r, n)
  /\ UNCHANGED <<rowVars, mgr, conns, apiVars, conn, agentUp>>

\* go m.connectLoop(n): the loop gets the snapshot row by value.
ReconcileStart(r, n, g) ==
  /\ rec[r].pc = "walk"
  /\ n \in rec[r].todo
  /\ conns[n] = NoConn
  /\ n \notin looping
  /\ loop[g].pc = "idle"
  /\ looping' = looping \union {n}
  /\ loop' = [loop EXCEPT ![g] = [pc |-> "top", node |-> n,
                                  tok |-> rec[r].tok[n], conn |-> NoConn]]
  /\ Walked(r, n)
  /\ UNCHANGED <<rowVars, mgr, conns, apiVars, conn, agentUp>>

-----------------------------------------------------------------------------
(* connectLoop and Connect                                                  *)

\* What a connectLoop step leaves alone besides the maps and the conns.
LoopOnly == UNCHANGED <<rowVars, mgr, apiVars, rec, agentUp>>

\* select on m.stop at the head of the loop.
LoopTop(g) ==
  /\ loop[g].pc = "top"
  /\ loop' = [loop EXCEPT ![g].pc = IF mgr = "running" THEN "get" ELSE "exit"]
  /\ LoopOnly /\ UNCHANGED <<conns, looping, conn>>

\* Mutation: the error of GetNode is ignored.
LoopGetNodeUnchecked(g) ==
  /\ loop[g].pc = "get"
  /\ loop' = [loop EXCEPT ![g].pc = "check"]
  /\ LoopOnly /\ UNCHANGED <<conns, looping, conn>>

\* GetNode: only the error is looked at, the row just read is discarded.
LoopGetNode(g) ==
  /\ loop[g].pc = "get"
  /\ loop' = [loop EXCEPT ![g].pc = IF Exists(loop[g].node) THEN "check"
                                    ELSE "exit"]
  /\ LoopOnly /\ UNCHANGED <<conns, looping, conn>>

\* Connect, first locked section: an existing connection is returned.
ConnectCheck(g) ==
  /\ loop[g].pc = "check"
  /\ LET old == conns[loop[g].node]
     IN loop' = [loop EXCEPT
          ![g].pc = IF old = NoConn THEN "dial" ELSE "wait",
          ![g].conn = old]
  /\ LoopOnly /\ UNCHANGED <<conns, looping, conn>>

\* Dial: the agent answers and accepts the token of the snapshot.
DialOk(g, c) ==
  /\ loop[g].pc = "dial"
  /\ loop[g].node \in agentUp
  /\ loop[g].tok = AgentToken[loop[g].node]
  /\ conn[c].phase = "free"
  /\ conn' = [conn EXCEPT ![c] = [phase |-> "dialed", node |-> loop[g].node,
                                  up |-> TRUE]]
  /\ loop' = [loop EXCEPT ![g].pc = "install", ![g].conn = c]
  /\ LoopOnly /\ UNCHANGED <<conns, looping>>

\* Dial: refused, timed out, or the token was rejected.
DialFail(g) ==
  /\ loop[g].pc = "dial"
  /\ loop' = [loop EXCEPT ![g].pc = "backoff"]
  /\ LoopOnly /\ UNCHANGED <<conns, looping, conn>>

\* Connect, second locked section: the dialed conn is installed, unless another
\* dial won the race (then its socket is closed and the old conn returned).
Install(g) ==
  LET n == loop[g].node
      raced == conns[n] # NoConn
  IN
  /\ loop[g].pc = "install"
  /\ conns' = IF raced THEN conns ELSE [conns EXCEPT ![n] = loop[g].conn]
  /\ conn' = IF raced THEN [conn EXCEPT ![loop[g].conn] = FreeConn]
             ELSE [conn EXCEPT ![loop[g].conn].phase = "installed"]
  /\ loop' = IF raced
             THEN [loop EXCEPT ![g].pc = "wait", ![g].conn = conns[n]]
             ELSE [loop EXCEPT ![g].pc = "online"]
  /\ LoopOnly /\ UNCHANGED looping

\* OnStatus(online), then go readLoop and go pingLoop.
Online(g) ==
  /\ loop[g].pc = "online"
  /\ SetNodeStatus(loop[g].node, "online")
  /\ conn' = [conn EXCEPT ![loop[g].conn].phase = "live"]
  /\ loop' = [loop EXCEPT ![g].pc = "wait"]
  /\ UNCHANGED <<token, history, mgrVars, apiVars, rec, agentUp>>

\* Mutation: the loop is released when its conn leaves m.conns.
LoopWakeEarly(g) ==
  /\ loop[g].pc = "wait"
  /\ conn[loop[g].conn].phase \in {"left", "told", "stopped"}
  /\ loop' = [loop EXCEPT ![g].pc = "top", ![g].conn = NoConn]
  /\ LoopOnly /\ UNCHANGED <<conns, looping, conn>>

\* <-conn.stop; a Conn that no loop waits on any more is garbage.
LoopWake(g) ==
  LET c == loop[g].conn IN
  /\ loop[g].pc = "wait"
  /\ conn[c].phase = "stopped"
  /\ loop' = [loop EXCEPT ![g].pc = "top", ![g].conn = NoConn]
  /\ conn' = IF \E h \in Loop \ {g} : loop[h].conn = c THEN conn
             ELSE [conn EXCEPT ![c] = FreeConn]
  /\ LoopOnly /\ UNCHANGED <<conns, looping>>

\* time.After(backoff).
BackoffOver(g) ==
  /\ loop[g].pc = "backoff"
  /\ loop' = [loop EXCEPT ![g].pc = "top"]
  /\ LoopOnly /\ UNCHANGED <<conns, looping, conn>>

\* m.stop is closed while the loop backs off.
BackoffStop(g) ==
  /\ loop[g].pc = "backoff"
  /\ mgr # "running"
  /\ loop' = [loop EXCEPT ![g].pc = "exit"]
  /\ LoopOnly /\ UNCHANGED <<conns, looping, conn>>

\* Mutation: the goroutine ends and stays in m.looping.
LoopExitForgetful(g) ==
  /\ loop[g].pc = "exit"
  /\ loop' = [loop EXCEPT ![g] = IdleLoop]
  /\ LoopOnly /\ UNCHANGED <<conns, looping, conn>>

\* The deferred delete(m.looping, n.ID); the goroutine ends.
LoopExit(g) ==
  /\ loop[g].pc = "exit"
  /\ looping' = looping \ {loop[g].node}
  /\ loop' = [loop EXCEPT ![g] = IdleLoop]
  /\ LoopOnly /\ UNCHANGED <<conns, conn>>

-----------------------------------------------------------------------------
(* readLoop: reading is abstract here (DockerLogs and NodeRequests have frames);*)
(* what matters is how it ends.                                             *)

\* Mutation: the dead conn stays in m.conns.
ReadLoopLeaveInPlace(c) ==
  /\ conn[c].phase = "live"
  /\ ~ conn[c].up
  /\ conn' = [conn EXCEPT ![c].phase = "left"]
  /\ UNCHANGED <<rowVars, mgrVars, apiVars, loop, rec, agentUp>>

\* The read fails; the deferred function takes the conn out of m.conns unless
\* another one has its place.
ReadLoopLeave(c) ==
  LET n == conn[c].node IN
  /\ conn[c].phase = "live"
  /\ ~ conn[c].up
  /\ conns' = IF conns[n] = c THEN [conns EXCEPT ![n] = NoConn] ELSE conns
  /\ conn' = [conn EXCEPT ![c].phase = "left"]
  /\ UNCHANGED <<rowVars, mgr, looping, apiVars, loop, rec, agentUp>>

\* Mutation: the deferred function gives up when the row is gone.
ReadLoopOfflineIfRow(c) ==
  /\ conn[c].phase = "left"
  /\ Exists(conn[c].node)
  /\ SetNodeStatus(conn[c].node, "offline")
  /\ conn' = [conn EXCEPT ![c].phase = "told"]
  /\ UNCHANGED <<token, history, mgrVars, apiVars, loop, rec, agentUp>>

\* OnStatus(offline).
ReadLoopOffline(c) ==
  /\ conn[c].phase = "left"
  /\ SetNodeStatus(conn[c].node, "offline")
  /\ conn' = [conn EXCEPT ![c].phase = "told"]
  /\ UNCHANGED <<token, history, mgrVars, apiVars, loop, rec, agentUp>>

\* close(conn.stop).
ReadLoopStop(c) ==
  /\ conn[c].phase = "told"
  /\ conn' = [conn EXCEPT ![c].phase = "stopped"]
  /\ UNCHANGED <<rowVars, mgrVars, apiVars, loop, rec, agentUp>>

-----------------------------------------------------------------------------
(* NodesAPI                                                                 *)

\* Mutation: the legacy status, which no other operation knows.
DiscoverLegacy(n) ==
  /\ n \in agentUp
  /\ UpsertNode(n, "discovered", NoToken)
  /\ UNCHANGED <<history, mgrVars, apiVars, loop, conn, rec, agentUp>>

\* Discover: UpsertReplies inserts the announced node, without a token.
Discover(n) ==
  /\ n \in agentUp
  /\ UpsertNode(n, "pending", NoToken)
  /\ UNCHANGED <<history, mgrVars, apiVars, loop, conn, rec, agentUp>>

\* Nothing in the process mentions n: uuid.NewString() returns such an id.
Unmentioned(n) ==
  /\ ~ Exists(n)
  /\ n \notin dropping
  /\ \A g \in Loop : loop[g].pc # "idle" => loop[g].node # n
  /\ \A c \in Conn : conn[c].phase # "free" => conn[c].node # n
  /\ \A r \in Reconciler : n \notin rec[r].todo
  /\ \A a \in Approver : appr[a].pc # "idle" => appr[a].node # n

\* Create: a manual node, with its token, under a new id.
Create(n, t) ==
  /\ Unmentioned(n)
  /\ UpsertNode(n, "pending", t)
  /\ everApproved' = everApproved \ {n}
  /\ UNCHANGED <<approved, mgrVars, apiVars, loop, conn, rec, agentUp>>

\* SetToken: the handler's GetNode and SetNodeToken both fail without a row.
SetToken(n, t) ==
  /\ Exists(n)
  /\ token' = [token EXCEPT ![n] = t]
  /\ UNCHANGED <<status, history, mgrVars, apiVars, loop, conn, rec, agentUp>>

\* Approve, GetNode: the token read here decides which way the handler goes
\* (no token and no pairing token is a 400).
ApproveGet(a, n) ==
  /\ appr[a].pc = "idle"
  /\ Exists(n)
  /\ token[n] # NoToken \/ PairToken # NoToken
  /\ appr' = [appr EXCEPT ![a] = [pc |-> IF token[n] = NoToken THEN "token"
                                        ELSE "status", node |-> n]]
  /\ UNCHANGED <<rowVars, mgrVars, dropping, loop, conn, rec, agentUp>>

\* SetNodeToken(id, a.pairToken), an error (500) when the row is gone.
ApproveToken(a) ==
  LET n == appr[a].node IN
  /\ appr[a].pc = "token"
  /\ token' = IF Exists(n) THEN [token EXCEPT ![n] = PairToken] ELSE token
  /\ appr' = [appr EXCEPT ![a] = IF Exists(n) THEN [@ EXCEPT !.pc = "status"]
                                 ELSE IdleAppr]
  /\ UNCHANGED <<status, history, mgrVars, dropping, loop, conn, rec, agentUp>>

\* SetNodeStatus(approved) and go a.manager.Reconcile().
ApproveStatus(a, r) ==
  LET n == appr[a].node IN
  /\ appr[a].pc = "status"
  /\ rec[r].pc = "idle"
  /\ SetNodeStatus(n, "approved")
  /\ approved' = IF Exists(n) THEN approved \union {n} ELSE approved
  /\ everApproved' = IF Exists(n) THEN everApproved \union {n} ELSE everApproved
  /\ rec' = [rec EXCEPT ![r] = StartedRec]
  /\ appr' = [appr EXCEPT ![a] = IdleAppr]
  /\ UNCHANGED <<token, mgrVars, dropping, loop, conn, agentUp>>

\* Delete, first half: DeleteNode. One Delete per node at a time.
Delete(n) ==
  /\ Exists(n)
  /\ n \notin dropping
  /\ status' = [status EXCEPT ![n] = "absent"]
  /\ token' = [token EXCEPT ![n] = NoToken]
  /\ approved' = approved \ {n}
  /\ dropping' = dropping \union {n}
  /\ UNCHANGED <<everApproved, mgrVars, appr, loop, conn, rec, agentUp>>

\* Delete, second half: m.Drop takes the conn out of the map and closes it.
Drop(n) ==
  LET c == conns[n] IN
  /\ n \in dropping
  /\ dropping' = dropping \ {n}
  /\ conns' = [conns EXCEPT ![n] = NoConn]
  /\ conn' = IF c = NoConn THEN conn ELSE [conn EXCEPT ![c].up = FALSE]
  /\ UNCHANGED <<rowVars, mgr, looping, appr, loop, rec, agentUp>>

-----------------------------------------------------------------------------
(* Shutdown and restart                                                     *)

\* Manager.Close: close(m.stop), before the lock is taken.
CloseStop ==
  /\ mgr = "running"
  /\ mgr' = "stopping"
  /\ UNCHANGED <<rowVars, conns, looping, apiVars, loop, conn, rec, agentUp>>

\* Manager.Close, locked section: close every socket, forget the maps.
CloseConns ==
  /\ mgr = "stopping"
  /\ mgr' = "closed"
  /\ conn' = [c \in Conn |-> IF \E n \in Node : conns[n] = c
                             THEN [conn[c] EXCEPT !.up = FALSE] ELSE conn[c]]
  /\ conns' = [n \in Node |-> NoConn]
  /\ looping' = {}
  /\ UNCHANGED <<rowVars, apiVars, loop, rec, agentUp>>

\* The process exits or crashes and New starts again on the same database.
Restart(r) ==
  /\ mgr' = "running"
  /\ conns' = NoConns
  /\ looping' = {}
  /\ loop' = NoLoops
  /\ conn' = NoConnObjects
  /\ rec' = FirstReconcile(r)
  /\ appr' = NoHandlers
  /\ dropping' = {}
  /\ UNCHANGED <<rowVars, agentUp>>

-----------------------------------------------------------------------------
(* Agents and the network                                                   *)

\* The agent of n stops; its sockets are dead from then on.
AgentDown(n) ==
  /\ n \in agentUp
  /\ agentUp' = agentUp \ {n}
  /\ conn' = [c \in Conn |-> IF conn[c].node = n
                             THEN [conn[c] EXCEPT !.up = FALSE] ELSE conn[c]]
  /\ UNCHANGED <<rowVars, mgrVars, apiVars, loop, rec>>

AgentStart(n) ==
  /\ n \notin agentUp
  /\ agentUp' = agentUp \union {n}
  /\ UNCHANGED <<rowVars, mgrVars, apiVars, loop, conn, rec>>

\* A connection breaks: the network, the agent's read deadline, a failed ping.
ConnBreak(c) ==
  /\ conn[c].up
  /\ conn' = [conn EXCEPT ![c].up = FALSE]
  /\ UNCHANGED <<rowVars, mgrVars, apiVars, loop, rec, agentUp>>

-----------------------------------------------------------------------------

LoopStep(g) ==
  \/ LoopTop(g)
  \/ LoopGetNode(g)
  \/ ConnectCheck(g)
  \/ \E c \in Conn : DialOk(g, c)
  \/ DialFail(g)
  \/ Install(g)
  \/ Online(g)
  \/ LoopWake(g)
  \/ BackoffOver(g)
  \/ BackoffStop(g)
  \/ LoopExit(g)

ReadLoopStep(c) == ReadLoopLeave(c) \/ ReadLoopOffline(c) \/ ReadLoopStop(c)

ReconcileStep(r) ==
  \/ ReconcileTick(r)
  \/ ReconcileList(r)
  \/ \E n \in Node : ReconcileSkip(r, n)
  \/ \E n \in Node, g \in Loop : ReconcileStart(r, n, g)

ApproveStep(a) == ApproveToken(a) \/ \E r \in Reconciler : ApproveStatus(a, r)

Operator ==
  \/ \E n \in Node : Discover(n)
  \/ \E n \in Node, t \in Token : Create(n, t)
  \/ \E n \in Node, t \in Token : SetToken(n, t)
  \/ \E a \in Approver, n \in Node : ApproveGet(a, n)
  \/ \E n \in Node : Delete(n)

Environment ==
  \/ \E n \in Node : AgentDown(n)
  \/ \E n \in Node : AgentStart(n)
  \/ \E c \in Conn : ConnBreak(c)
  \/ \E r \in Reconciler : Restart(r)

Next ==
  \/ \E g \in Loop : LoopStep(g)
  \/ \E c \in Conn : ReadLoopStep(c)
  \/ \E r \in Reconciler : ReconcileStep(r)
  \/ \E a \in Approver : ApproveStep(a)
  \/ \E n \in Node : Drop(n)
  \/ CloseStop
  \/ CloseConns
  \/ Operator
  \/ Environment

Spec == Init /\ [][Next]_vars

\* Goroutines and handlers that can run do run; the ticker keeps ticking.
\* Operators, agents, the network, crashes and shutdown promise nothing,
\* except that a dial tried for ever on a reachable agent with the right token
\* does not fail every time, and that Close, once begun, ends.
Fairness ==
  /\ \A g \in Loop : WF_vars(LoopStep(g)) /\ SF_vars(\E c \in Conn : DialOk(g, c))
  /\ \A c \in Conn : WF_vars(ReadLoopStep(c))
  /\ \A r \in Reconciler : WF_vars(ReconcileStep(r))
  /\ \A a \in Approver : WF_vars(ApproveStep(a))
  /\ \A n \in Node : WF_vars(Drop(n))
  /\ WF_vars(CloseConns)

FairSpec == Spec /\ Fairness

-----------------------------------------------------------------------------
(* Safety                                                                   *)

\* A loop that is past its stop check and may touch the network or m.conns.
Active(g) == loop[g].pc \notin {"idle", "top", "exit"}

\* At most one connectLoop works for a node at any time, also while Close
\* empties m.looping under loops that still run: two would dial the agent
\* twice and race for its place in m.conns.
OneLoopPerNode ==
  \A g, h \in Loop :
    Active(g) /\ Active(h) /\ loop[g].node = loop[h].node => g = h

\* Until Close empties the map, m.looping names exactly the nodes that have a
\* connectLoop: a node missing there gets a second loop, a node that stays
\* there without a loop is never dialed again.
LoopingIsAccurate ==
  mgr # "closed" =>
    looping = {loop[g].node : g \in {h \in Loop : loop[h].pc # "idle"}}

\* A conn of n that is not yet completely torn down.
Unfinished(c, n) ==
  conn[c].node = n /\ conn[c].phase \in {"dialed", "installed", "live", "left",
                                         "told"}

\* A node never has two conns at once, counting one whose deferred teardown
\* still has to report offline: otherwise that late report would overwrite the
\* online of the conn that replaced it.
OneConnPerNode ==
  \A n \in Node : \A c, d \in Conn : Unfinished(c, n) /\ Unfinished(d, n) => c = d

\* m.conns holds no conn of another node and none whose read loop has ended:
\* a request sent on an entry of the map always has a reader for its response.
ConnsAreServed ==
  \A n \in Node : conns[n] # NoConn =>
    conn[conns[n]].node = n /\ conn[conns[n]].phase \in {"installed", "live"}

\* A node that no operator has ever approved under its id is never dialed, whatever
\* is announced, created and deleted (Reconcile's statuses, UpsertNode, OnStatus).
NeverApprovedNeverDialed ==
  /\ \A g \in Loop : loop[g].pc # "idle" => loop[g].node \in everApproved
  /\ \A c \in Conn : conn[c].phase # "free" => conn[c].node \in everApproved

-----------------------------------------------------------------------------
(* The inductive invariant behind the five properties above                 *)

OneLoopUntilClosed ==
  mgr # "closed" =>
    \A g, h \in Loop :
      loop[g].pc # "idle" /\ loop[h].pc # "idle" /\ loop[g].node = loop[h].node
      => g = h

LoopInv == OneLoopPerNode /\ OneLoopUntilClosed /\ LoopingIsAccurate

\* A loop holds a conn exactly from the dial to the end of <-conn.stop.
Holding(g) == loop[g].pc \in {"install", "online", "wait"}

\* The conn a loop holds is one of its own node, in the phase the loop expects.
HoldsItsConn ==
  \A g \in Loop :
    LET c == loop[g].conn IN
    /\ ~ Holding(g) => c = NoConn
    /\ Holding(g) => c \in Conn /\ conn[c].node = loop[g].node
    /\ loop[g].pc = "install" => conn[c].phase = "dialed"
    /\ loop[g].pc = "online" => conn[c].phase = "installed"
    /\ loop[g].pc = "wait" =>
         conn[c].phase \in {"live", "left", "told", "stopped"}

\* No conn outlives the loop that dialed it.
EveryConnIsHeld ==
  \A c \in Conn : conn[c].phase # "free" =>
    \E g \in Loop : Holding(g) /\ loop[g].conn = c

ConnInv == HoldsItsConn /\ EveryConnIsHeld /\ ConnsAreServed

ApprovedInv ==
  /\ NeverApprovedNeverDialed
  /\ \A n \in Node : status[n] \in Connectable => n \in everApproved
  /\ \A r \in Reconciler : rec[r].todo \subseteq everApproved

IInv == TypeOK /\ LoopInv /\ ConnInv /\ ApprovedInv

-----------------------------------------------------------------------------
(* Refinement                                                               *)

\* The reports seen by the store and the webhooks: NodeManager implements
\* NodeFleet. A link is up from OnStatus(online) to OnStatus(offline).
Reported(n) ==
  IF \E c \in Conn : conn[c].node = n /\ conn[c].phase \in {"live", "left"}
  THEN "up" ELSE "down"

Fleet == INSTANCE NodeFleet
  WITH approved <- everApproved, link <- [n \in Node |-> Reported(n)]

\* Online and offline reports of a node alternate and follow an approval.
ImplementsFleet == Fleet!Spec

-----------------------------------------------------------------------------
(* Liveness (under FairSpec)                                                *)

\* n should have a connection, as far as its row and its agent can tell.
ShouldConnect(n) ==
  /\ mgr = "running"
  /\ status[n] \in Connectable
  /\ n \in agentUp
  /\ token[n] = AgentToken[n]

\* Every loop, and every Reconcile about to start one, has the right token.
SnapshotsCurrent(n) ==
  /\ \A g \in Loop : loop[g].pc # "idle" /\ loop[g].node = n =>
       loop[g].tok = AgentToken[n]
  /\ \A r \in Reconciler : n \in rec[r].todo => rec[r].tok[n] = AgentToken[n]

\* The server process is eventually left running.
NoMoreRestarts == <>[][\A r \in Reconciler : ~ Restart(r)]_vars

\* An approved node with a reachable agent gets connected, again and again
\* however often the connection breaks, provided no loop holds an old token.
Reconnects ==
  \A n \in Node :
    /\ NoMoreRestarts
    /\ <>[](ShouldConnect(n) /\ SnapshotsCurrent(n))
    => []<>(conns[n] # NoConn)

\* A broken connection is always noticed: its conn is torn down, offline is
\* reported and the loop that waits for it is released.
BrokenConnIsReleased ==
  \A c \in Conn :
    conn[c].phase = "live" /\ ~ conn[c].up ~> conn[c].phase = "free"

\* A node that stays deleted, and whose agent stops, leaves nothing behind: its
\* loop ends and it is out of both maps.
DeletedNodeIsForgotten ==
  \A n \in Node :
    <>[](status[n] = "absent" /\ n \notin agentUp) =>
      <>[](/\ conns[n] = NoConn
           /\ n \notin looping
           /\ \A g \in Loop : loop[g].pc # "idle" => loop[g].node # n)

-----------------------------------------------------------------------------
(* What the documents and comments say and the code does not do             *)

\* nodes.go:238, Drop: no live conn relays events for a deleted node.
NoConnForDeletedNode ==
  \A n \in Node : <>[](status[n] = "absent") => <>[](conns[n] = NoConn)

\* usage.md:70: when a loop looks at the row before it dials, that row is one an
\* operator has approved (GetNode of connectLoop reads the row and discards it).
DialedOnlyAfterApproval ==
  [][\A g \in Loop : LoopGetNode(g) /\ loop'[g].pc = "check"
       => loop[g].node \in approved]_vars
=============================================================================
