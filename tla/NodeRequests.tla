---------------------------- MODULE NodeRequests ----------------------------
(***************************************************************************)
(* Requests of browsers to an agent: proxyRequest and Conn.Request on the  *)
(* server, the connection's read loop, and the agent's serveConn, which    *)
(* handles the requests of a connection one at a time, down to docker      *)
(* compose with its project file and its mutex.                            *)
(*                                                                         *)
(* A wait that is bounded by a timeout may end at any moment; only whether *)
(* one timeout outlasts another (ComposeMax, Silence) is told apart.       *)
(***************************************************************************)
EXTENDS Naturals, Sequences, FiniteSets

CONSTANTS
  Request,   \* requests, named by their id
  Conn,      \* connections to the node, one after the other
  NoOne,     \* no connection, no request
  Service,   \* services of the compose project
  Kind,      \* Kind[q]: "list", "deploy" or "down"
  Yaml,      \* Yaml[q]: the services of the file a deploy brings
  ChanCap,   \* capacity of a request's channel (8 in the code)
  MaxSent,   \* bound: requests that are sent
  Silence,   \* readDeadline of the agent, in seconds
  ComposeMax \* composeTimeout, in seconds

Event == "stats"

ASSUME ConstantsAssumption ==
  /\ NoOne \notin Conn \union Request
  /\ Event \notin Request
  /\ Kind \in [Request -> {"list", "deploy", "down"}]
  /\ Yaml \in [Request -> SUBSET Service]
  /\ {ChanCap, MaxSent, Silence, ComposeMax} \subseteq Nat \ {0}

VARIABLES
  current,  \* Manager.conns[node]
  link,     \* the connections: "none", "up", "cut" (nothing gets through), "dead"
  toAgent,  \* requests on a connection
  toServer, \* answers on a connection
  req,      \* Conn.Request: at, its connection, its channel
  subs,     \* Conn.subs
  agent,    \* serveConn: at, its request, whether the deadline passed meanwhile
  mutex,    \* holder of composeMutex
  file,     \* services of the project file
  stack,    \* services that run
  broken,   \* the last deploy has failed
  handled   \* requests the agent has answered

serverVars == <<current, req, subs>>
composeVars == <<mutex, file, stack, broken>>
wireVars == <<link, toAgent, toServer>>
vars == <<serverVars, wireVars, agent, composeVars, handled>>

RequestRec == [at : {"idle", "waiting", "answered", "failed"},
               conn : Conn \union {NoOne}, ch : Seq(Request \union {Event})]
AgentRec == [at : {"reading", "handling", "locking", "writing", "composing", "gone"},
             req : Request \union {NoOne}, late : BOOLEAN]

TypeOK ==
  /\ current \in Conn \union {NoOne}
  /\ link \in [Conn -> {"none", "up", "cut", "dead"}]
  /\ toAgent \in [Conn -> Seq(Request)]
  /\ toServer \in [Conn -> Seq(Request)]
  /\ req \in [Request -> RequestRec]
  /\ \A q \in Request : Len(req[q].ch) <= ChanCap
  /\ subs \in [Conn -> SUBSET Request]
  /\ agent \in [Conn -> AgentRec]
  /\ mutex \in Conn \union {NoOne}
  /\ file \subseteq Service
  /\ stack \subseteq Service
  /\ broken \in BOOLEAN
  /\ handled \subseteq Request

Init ==
  /\ current = NoOne
  /\ link = [k \in Conn |-> "none"]
  /\ toAgent = [k \in Conn |-> <<>>]
  /\ toServer = [k \in Conn |-> <<>>]
  /\ req = [q \in Request |-> [at |-> "idle", conn |-> NoOne, ch |-> <<>>]]
  /\ subs = [k \in Conn |-> {}]
  /\ agent = [k \in Conn |-> [at |-> "reading", req |-> NoOne, late |-> FALSE]]
  /\ mutex = NoOne
  /\ file = {}
  /\ stack = {}
  /\ broken = FALSE
  /\ handled = {}

-----------------------------------------------------------------------------
(* Server                                                                   *)

Connect(k) ==
  /\ current = NoOne
  /\ link[k] = "none"
  /\ current' = k
  /\ link' = [link EXCEPT ![k] = "up"]
  /\ UNCHANGED <<req, subs, toAgent, toServer, agent, composeVars, handled>>

\* The read fails, or its deadline passes on a cut connection. The requests that
\* wait on the connection are not told.
ReadLoopEnds(k) ==
  /\ current = k
  /\ link[k] # "up"
  /\ current' = NoOne
  /\ link' = [link EXCEPT ![k] = "dead"]
  /\ toServer' = [toServer EXCEPT ![k] = <<>>]
  /\ UNCHANGED <<req, subs, toAgent, agent, composeVars, handled>>

\* Request subscribes before it writes. What is written to a cut connection is lost;
\* a write to a dead one fails, or is lost.
Send(q) ==
  /\ req[q].at = "idle"
  /\ Cardinality({r \in Request : req[r].at # "idle"}) < MaxSent
  /\ current # NoOne
  /\ \/ /\ req' = [req EXCEPT ![q] = [at |-> "waiting", conn |-> current, ch |-> <<>>]]
        /\ subs' = [subs EXCEPT ![current] = @ \union {q}]
        /\ toAgent' = IF link[current] = "up"
                      THEN [toAgent EXCEPT ![current] = Append(@, q)] ELSE toAgent
     \/ /\ link[current] = "dead"
        /\ req' = [req EXCEPT ![q] = [at |-> "failed", conn |-> NoOne, ch |-> <<>>]]
        /\ UNCHANGED <<subs, toAgent>>
  /\ UNCHANGED <<current, link, toServer, agent, composeVars, handled>>

\* Mutant: nothing is dropped.
BroadcastUncapped(k, e) ==
  req' = [q \in Request |-> IF q \in subs[k] THEN [req[q] EXCEPT !.ch = Append(@, e)] ELSE req[q]]

\* broadcast: every subscriber of the connection, but a full channel misses it.
Broadcast(k, e) ==
  req' = [q \in Request |->
            IF q \in subs[k] /\ Len(req[q].ch) < ChanCap
            THEN [req[q] EXCEPT !.ch = Append(@, e)] ELSE req[q]]

ReadResponse(k) ==
  /\ current = k
  /\ toServer[k] # <<>>
  /\ Broadcast(k, Head(toServer[k]))
  /\ toServer' = [toServer EXCEPT ![k] = Tail(@)]
  /\ UNCHANGED <<current, subs, link, toAgent, agent, composeVars, handled>>

\* statsLoop and readLoop: one system.stats of the agent.
ReadStats(k) ==
  /\ link[k] = "up"
  /\ \E q \in subs[k] : Len(req[q].ch) < ChanCap
  /\ Broadcast(k, Event)
  /\ UNCHANGED <<current, subs, wireVars, agent, composeVars, handled>>

\* Request returns, and its deferred Unsubscribe runs.
Done(q, how) ==
  /\ req' = [req EXCEPT ![q] = [at |-> how, conn |-> NoOne, ch |-> <<>>]]
  /\ subs' = [subs EXCEPT ![req[q].conn] = @ \ {q}]

\* Mutant: any response will do.
IsAnyResponse(q, e) == e # Event

IsAnswer(q, e) == e = q

\* WaitForID takes an envelope from the channel.
Receive(q) ==
  /\ req[q].at = "waiting"
  /\ req[q].ch # <<>>
  /\ \/ /\ IsAnswer(q, Head(req[q].ch))
        /\ Done(q, "answered")
     \/ /\ ~IsAnswer(q, Head(req[q].ch))
        /\ req' = [req EXCEPT ![q].ch = Tail(@)]
        /\ UNCHANGED subs
  /\ UNCHANGED <<current, wireVars, agent, composeVars, handled>>

TimedOut(q) ==
  /\ req[q].at = "waiting"
  /\ Done(q, "failed")
  /\ UNCHANGED <<current, wireVars, agent, composeVars, handled>>

-----------------------------------------------------------------------------
(* Agent                                                                    *)

AgentAt(k, step) == agent[k].at = step
AgentGoes(k, step) == agent' = [agent EXCEPT ![k].at = step]
Asked(k) == agent[k].req

\* serveConn reads a frame, which renews the deadline. After a late answer that
\* happens only when the frame was buffered before.
AgentReads(k) ==
  /\ AgentAt(k, "reading")
  /\ toAgent[k] # <<>>
  /\ LET q == Head(toAgent[k]) IN
     agent' = [agent EXCEPT ![k] =
       [at |-> IF Kind[q] = "list" THEN "handling" ELSE "locking", req |-> q, late |-> FALSE]]
  /\ toAgent' = [toAgent EXCEPT ![k] = Tail(@)]
  /\ UNCHANGED <<serverVars, link, toServer, composeVars, handled>>

\* respond: the answer is lost with the connection.
Respond(k, late) ==
  /\ agent' = [agent EXCEPT ![k] = [at |-> "reading", req |-> NoOne, late |-> late]]
  /\ toServer' = IF link[k] = "up" THEN [toServer EXCEPT ![k] = Append(@, Asked(k))]
                 ELSE toServer
  /\ handled' = handled \union {Asked(k)}

Handle(k) ==
  /\ AgentAt(k, "handling")
  /\ Respond(k, FALSE)
  /\ UNCHANGED <<serverVars, link, toAgent, composeVars>>

\* The connection is closed or silent, or its deadline has passed during a request:
\* serveConn returns. The pings of a connection that is up keep the deadline away
\* while serveConn reads.
DeadlinePassed(k) == link[k] \in {"cut", "dead"} \/ agent[k].late

AgentHangsUp(k) ==
  /\ AgentAt(k, "reading")
  /\ DeadlinePassed(k)
  /\ AgentGoes(k, "gone")
  /\ link' = [link EXCEPT ![k] = "dead"]
  /\ toAgent' = [toAgent EXCEPT ![k] = <<>>]
  /\ UNCHANGED <<serverVars, toServer, composeVars, handled>>

\* Mutant: no mutex.
LockFree(k) ==
  /\ AgentAt(k, "locking")
  /\ mutex' = k
  /\ AgentGoes(k, IF Kind[Asked(k)] = "deploy" THEN "writing" ELSE "composing")
  /\ UNCHANGED <<serverVars, wireVars, file, stack, broken, handled>>

Lock(k) ==
  /\ AgentAt(k, "locking")
  /\ mutex = NoOne
  /\ mutex' = k
  /\ AgentGoes(k, IF Kind[Asked(k)] = "deploy" THEN "writing" ELSE "composing")
  /\ UNCHANGED <<serverVars, wireVars, file, stack, broken, handled>>

WriteFile(k) ==
  /\ AgentAt(k, "writing")
  /\ file' = Yaml[Asked(k)]
  /\ AgentGoes(k, "composing")
  /\ UNCHANGED <<serverVars, wireVars, mutex, stack, broken, handled>>

\* Mutant: the error path keeps the mutex.
WriteFileFailsLocked(k) ==
  /\ AgentAt(k, "writing")
  /\ file' \in {file, {}}
  /\ broken' = TRUE
  /\ Respond(k, FALSE)
  /\ UNCHANGED <<serverVars, link, toAgent, stack, mutex>>

\* No directory, or a write that fails once it has truncated the file.
WriteFileFails(k) ==
  /\ AgentAt(k, "writing")
  /\ file' \in {file, {}}
  /\ broken' = TRUE
  /\ Respond(k, FALSE)
  /\ mutex' = NoOne
  /\ UNCHANGED <<serverVars, link, toAgent, stack>>

\* Mutant: up without --remove-orphans.
UpKeepsOrphans(k) ==
  \/ stack' = stack \union file /\ broken' = FALSE
  \/ \E some \in SUBSET file : stack' = stack \union some /\ broken' = TRUE

\* up --remove-orphans with the project file; one that fails or is killed has
\* started some services and removed nothing.
Up(k) ==
  \/ stack' = file /\ broken' = FALSE
  \/ \E some \in SUBSET file : stack' = stack \union some /\ broken' = TRUE

\* down stops services that the project file names, all of them or, when it fails,
\* some.
Down(k) ==
  /\ \E some \in SUBSET (stack \intersect file) : stack' = stack \ some
  /\ UNCHANGED broken

\* runCompose ends, the deferred Unlock runs and the answer is written. With the
\* wait for the mutex that may take longer than the read deadline.
Compose(k) ==
  /\ AgentAt(k, "composing")
  /\ IF Kind[Asked(k)] = "deploy" THEN Up(k) ELSE Down(k)
  /\ \E late \in {FALSE, ComposeMax > Silence} : Respond(k, late)
  /\ mutex' = NoOne
  /\ UNCHANGED <<serverVars, link, toAgent, file>>

-----------------------------------------------------------------------------

\* The connection goes half-open, with what is under way on it.
Cut(k) ==
  /\ link[k] = "up"
  /\ link' = [link EXCEPT ![k] = "cut"]
  /\ toAgent' = [toAgent EXCEPT ![k] = <<>>]
  /\ toServer' = [toServer EXCEPT ![k] = <<>>]
  /\ UNCHANGED <<serverVars, agent, composeVars, handled>>

RequestStep(q) == Send(q) \/ Receive(q) \/ TimedOut(q)
ComposeStep(k) == WriteFile(k) \/ WriteFileFails(k) \/ Compose(k)
ConnStep(k) ==
  Connect(k) \/ ReadLoopEnds(k) \/ ReadResponse(k) \/ ReadStats(k) \/ Cut(k)

Next ==
  \/ \E q \in Request : RequestStep(q)
  \/ \E k \in Conn : \/ AgentReads(k) \/ Handle(k) \/ AgentHangsUp(k)
                     \/ Lock(k) \/ ComposeStep(k) \/ ConnStep(k)

Spec == Init /\ [][Next]_vars

\* A docker compose runs for composeTimeout at most, and sync.Mutex starves no one.
FairSpec ==
  /\ Spec
  /\ \A k \in Conn : WF_vars(Handle(k)) /\ WF_vars(ComposeStep(k)) /\ SF_vars(Lock(k))

-----------------------------------------------------------------------------
(* Properties                                                               *)

\* A request is answered only after the agent has answered that very request,
\* although it hears every answer to the node's other requests (broadcast,
\* WaitForID).
AnswerIsOwn == \A q \in Request : req[q].at = "answered" => q \in handled

\* docker compose runs for one deploy or down at a time, and an up runs with the
\* file its own call has written (composeMutex: "A's up executing B's YAML").
UpRunsItsOwnFile ==
  \A k \in Conn : AgentAt(k, "composing") =>
    mutex = k /\ (Kind[Asked(k)] = "deploy" => file = Yaml[Asked(k)])

\* Unless the last deploy has failed, the project file names every service that
\* runs, so that a down finds them all (deploy, "docker.compose.down").
FileNamesStack == ~broken /\ mutex = NoOne => stack \subseteq file

\* A request may have its effect yet while it is on a connection or with the agent.
Pending ==
  {q \in Request : \E k \in Conn :
     Asked(k) = q \/ \E i \in 1..Len(toAgent[k]) : toAgent[k][i] = q}

Calls == INSTANCE RemoteCalls
  WITH outcome <- [q \in Request |-> req[q].at], pending <- Pending, executed <- handled

\* Requests take effect at most once, one after the other and in one piece, and before
\* they are answered; connections, deadlines and the steps of a compose do not show
\* (Conn.Request, serveConn, composeMutex).
ImplementsCalls == Calls!Spec

\* serveConn comes back to its connection from every request, also from those that
\* waited for the compose of another connection (composeMutex).
ServeConnResumes ==
  \A k \in Conn : agent[k].at \notin {"reading", "gone"} ~> agent[k].at = "reading"

\* serveConn gives up a connection only when it is gone ("90s catches a half-open conn
\* without killing a slow one"): fails after a compose that takes longer than the read
\* deadline.
SlowConnIsKept == [][\A k \in Conn : AgentHangsUp(k) => link[k] # "up"]_vars
=============================================================================
