------------------------ MODULE NodeRequests_proofs ------------------------
(* Proofs about NodeRequests, for any number of requests and connections.   *)
EXTENDS NodeRequests, TLAPS

Busy == {"handling", "locking", "writing", "composing"}

\* serveConn is at work on a request whenever it is not reading.
BusyHasRequest == \A k \in Conn : agent[k].at \in Busy => Asked(k) \in Request

\* The types, with what Asked needs of them.
TypeInv == TypeOK /\ BusyHasRequest

\* What Respond does to the types.
LEMMA RespondTypes ==
  ASSUME TypeInv, NEW k \in Conn, agent[k].at \in Busy, NEW late \in BOOLEAN, Respond(k, late)
  PROVE  /\ agent' \in [Conn -> AgentRec]
         /\ toServer' \in [Conn -> Seq(Request)]
         /\ handled' \subseteq Request
         /\ BusyHasRequest'
<1>1. Asked(k) \in Request
  BY DEF TypeInv, BusyHasRequest
<1>2. agent' \in [Conn -> AgentRec]
  BY DEF TypeInv, TypeOK, Respond, AgentRec
<1>3. toServer' \in [Conn -> Seq(Request)]
  <2>1. toServer[k] \in Seq(Request)
    BY DEF TypeInv, TypeOK
  <2>2. Append(toServer[k], Asked(k)) \in Seq(Request)
    BY <1>1, <2>1
  <2> QED BY <2>2 DEF TypeInv, TypeOK, Respond
<1>4. BusyHasRequest'
  BY DEF TypeInv, TypeOK, BusyHasRequest, Respond, Asked, Busy, AgentRec
<1> QED BY <1>1, <1>2, <1>3, <1>4 DEF TypeInv, TypeOK, Respond

\* What Broadcast does to the channels: they stay within their capacity.
LEMMA BroadcastTypes ==
  ASSUME TypeOK, NEW k \in Conn, NEW e \in Request \union {Event}, Broadcast(k, e)
  PROVE  /\ req' \in [Request -> RequestRec]
         /\ \A q \in Request : Len(req'[q].ch) <= ChanCap
<1> SUFFICES ASSUME NEW q \in Request
             PROVE  req'[q] \in RequestRec /\ Len(req'[q].ch) <= ChanCap
  BY DEF Broadcast
<1>1. req[q] \in RequestRec /\ Len(req[q].ch) <= ChanCap
  BY DEF TypeOK
<1>2. CASE req'[q] = req[q]
  BY <1>1, <1>2
<1>3. CASE Len(req[q].ch) < ChanCap /\ req'[q] = [req[q] EXCEPT !.ch = Append(@, e)]
  <2>1. req[q].ch \in Seq(Request \union {Event})
    BY <1>1 DEF RequestRec
  <2>2. /\ Append(req[q].ch, e) \in Seq(Request \union {Event})
        /\ Len(Append(req[q].ch, e)) = Len(req[q].ch) + 1
        /\ Len(req[q].ch) \in Nat
    BY <2>1
  <2>3. req'[q].ch = Append(req[q].ch, e) /\ req'[q] \in RequestRec
    BY <1>1, <1>3, <2>2 DEF RequestRec
  <2>4. ChanCap \in Nat
    BY ConstantsAssumption
  <2> QED BY <1>3, <2>2, <2>3, <2>4
<1> QED BY <1>2, <1>3 DEF Broadcast

\* What Done does to the requests and the subscriptions.
LEMMA DoneTypes ==
  ASSUME TypeOK, NEW q \in Request, NEW how \in {"answered", "failed"}, Done(q, how)
  PROVE  /\ req' \in [Request -> RequestRec]
         /\ \A r \in Request : Len(req'[r].ch) <= ChanCap
         /\ subs' \in [Conn -> SUBSET Request]
<1>1. subs' \in [Conn -> SUBSET Request]
  BY DEF TypeOK, Done
<1>2. [at |-> how, conn |-> NoOne, ch |-> <<>>] \in RequestRec
  BY DEF RequestRec
<1>3. 0 <= ChanCap
  BY ConstantsAssumption
<1> QED BY <1>1, <1>2, <1>3 DEF TypeOK, Done

\* Compose answers, in time or late.
LEMMA ComposeResponds ==
  ASSUME NEW k \in Conn, Compose(k)
  PROVE  \E late \in BOOLEAN : Respond(k, late)
<1>1. PICK late \in {FALSE, ComposeMax > Silence} : Respond(k, late)
  BY DEF Compose
<1>2. CASE late = FALSE
  BY <1>1, <1>2
<1>3. CASE late = (ComposeMax > Silence)
  <2>1. late \in BOOLEAN
    BY <1>3
  <2> QED BY <1>1, <2>1
<1> QED BY <1>1, <1>2, <1>3

\* A step that changes agent only at one connection, to a busy one with a request
\* or to an idle one, keeps its type and BusyHasRequest.
LEMMA AgentGoesTypes ==
  ASSUME TypeInv, NEW k \in Conn, NEW step \in {"writing", "composing", "gone"},
         agent[k].at \in Busy \/ step = "gone", AgentGoes(k, step)
  PROVE  agent' \in [Conn -> AgentRec] /\ BusyHasRequest'
<1>1. agent' \in [Conn -> AgentRec]
  BY DEF TypeInv, TypeOK, AgentGoes, AgentRec
<1>2. BusyHasRequest'
  BY DEF TypeInv, TypeOK, BusyHasRequest, AgentGoes, Asked, Busy, AgentRec
<1> QED BY <1>1, <1>2

LEMMA TypeInvariant == Spec => []TypeInv
<1>1. Init => TypeInv
  <2> SUFFICES ASSUME Init PROVE TypeInv
    OBVIOUS
  <2>1. req \in [Request -> RequestRec] /\ \A q \in Request : Len(req[q].ch) <= ChanCap
    BY ConstantsAssumption DEF Init, RequestRec
  <2>2. agent \in [Conn -> AgentRec] /\ BusyHasRequest
    BY DEF Init, AgentRec, BusyHasRequest, Busy
  <2>3. toAgent \in [Conn -> Seq(Request)] /\ toServer \in [Conn -> Seq(Request)]
    <3>1. <<>> \in Seq(Request)
      OBVIOUS
    <3> QED BY <3>1 DEF Init
  <2>4. /\ current = NoOne /\ mutex = NoOne /\ broken = FALSE
        /\ link \in [Conn -> {"none", "up", "cut", "dead"}]
        /\ subs \in [Conn -> SUBSET Request]
        /\ file = {} /\ stack = {} /\ handled = {}
    BY DEF Init
  <2> QED BY <2>1, <2>2, <2>3, <2>4 DEF TypeInv, TypeOK
<1>2. TypeInv /\ [Next]_vars => TypeInv'
  <2> SUFFICES ASSUME TypeInv, [Next]_vars PROVE TypeInv'
    OBVIOUS
  <2> USE DEF TypeInv
  <2>0. UNCHANGED agent => BusyHasRequest'
    BY DEF BusyHasRequest, Asked
  <2>1. ASSUME NEW k \in Conn, Connect(k) \/ Cut(k) \/ ReadLoopEnds(k) PROVE TypeInv'
    <3>1. <<>> \in Seq(Request)
      OBVIOUS
    <3>2. /\ current' \in Conn \union {NoOne}
          /\ link' \in [Conn -> {"none", "up", "cut", "dead"}]
          /\ toAgent' \in [Conn -> Seq(Request)]
          /\ toServer' \in [Conn -> Seq(Request)]
      BY <2>1, <3>1 DEF Connect, Cut, ReadLoopEnds, TypeOK, serverVars
    <3>3. UNCHANGED <<req, subs, agent, composeVars, handled>>
      BY <2>1 DEF Connect, Cut, ReadLoopEnds, serverVars
    <3> QED BY <2>0, <3>2, <3>3 DEF TypeOK, composeVars
  <2>2. ASSUME NEW q \in Request, Send(q) PROVE TypeInv'
    <3>1. current \in Conn
      BY <2>2 DEF Send, TypeOK
    <3>2. req' \in [Request -> RequestRec] /\ \A r \in Request : Len(req'[r].ch) <= ChanCap
      <4>1. req \in [Request -> RequestRec] /\ \A r \in Request : Len(req[r].ch) <= ChanCap
        BY DEF TypeOK
      <4>2. PICK at \in {"waiting", "failed"}, c \in Conn \union {NoOne} :
              req' = [req EXCEPT ![q] = [at |-> at, conn |-> c, ch |-> <<>>]]
        BY <2>2, <3>1 DEF Send
      <4>3. [at |-> at, conn |-> c, ch |-> <<>>] \in RequestRec
        BY DEF RequestRec
      <4>4. ChanCap \in Nat
        BY ConstantsAssumption
      <4> QED BY <4>1, <4>2, <4>3, <4>4
    <3>3. subs' \in [Conn -> SUBSET Request]
      BY <2>2, <3>1 DEF Send, TypeOK
    <3>4. toAgent' \in [Conn -> Seq(Request)]
      <4>1. Append(toAgent[current], q) \in Seq(Request)
        BY <3>1 DEF TypeOK
      <4> QED BY <2>2, <3>1, <4>1 DEF Send, TypeOK
    <3>5. UNCHANGED <<current, link, toServer, agent, composeVars, handled>>
      BY <2>2 DEF Send
    <3> QED BY <2>0, <3>2, <3>3, <3>4, <3>5 DEF TypeOK, composeVars
  <2>3. ASSUME NEW k \in Conn, ReadResponse(k) PROVE TypeInv'
    <3>1. Head(toServer[k]) \in Request /\ Tail(toServer[k]) \in Seq(Request)
      BY <2>3 DEF ReadResponse, TypeOK
    <3>2. Broadcast(k, Head(toServer[k]))
      BY <2>3 DEF ReadResponse
    <3>3. req' \in [Request -> RequestRec] /\ \A q \in Request : Len(req'[q].ch) <= ChanCap
      BY <3>1, <3>2, BroadcastTypes
    <3> QED BY <2>0, <2>3, <3>1, <3>3 DEF ReadResponse, TypeOK, composeVars
  <2>4. ASSUME NEW k \in Conn, ReadStats(k) PROVE TypeInv'
    <3>1. req' \in [Request -> RequestRec] /\ \A q \in Request : Len(req'[q].ch) <= ChanCap
      BY <2>4, BroadcastTypes DEF ReadStats
    <3> QED BY <2>0, <2>4, <3>1 DEF ReadStats, TypeOK, wireVars, composeVars
  <2>5. ASSUME NEW q \in Request, Receive(q) PROVE TypeInv'
    <3>1. CASE Done(q, "answered")
      BY <2>0, <2>5, <3>1, DoneTypes DEF Receive, TypeOK, wireVars, composeVars
    <3>2. CASE req' = [req EXCEPT ![q].ch = Tail(@)] /\ UNCHANGED subs
      <4>1. req[q].ch \in Seq(Request \union {Event}) /\ req[q].ch # <<>>
        BY <2>5 DEF Receive, TypeOK, RequestRec
      <4>2. /\ Tail(req[q].ch) \in Seq(Request \union {Event})
            /\ Len(Tail(req[q].ch)) = Len(req[q].ch) - 1
            /\ Len(req[q].ch) \in Nat
        BY <4>1
      <4>3. req' \in [Request -> RequestRec]
        BY <3>2, <4>2 DEF TypeOK, RequestRec
      <4>4. ASSUME NEW r \in Request PROVE Len(req'[r].ch) <= ChanCap
        <5>1. ChanCap \in Nat /\ Len(req[r].ch) <= ChanCap /\ Len(req[q].ch) <= ChanCap
          BY ConstantsAssumption DEF TypeOK
        <5>2. req'[r].ch = IF r = q THEN Tail(req[q].ch) ELSE req[r].ch
          BY <3>2 DEF TypeOK, RequestRec
        <5> QED BY <4>2, <5>1, <5>2
      <4> QED BY <2>0, <2>5, <3>2, <4>3, <4>4 DEF Receive, TypeOK, wireVars, composeVars
    <3> QED BY <2>5, <3>1, <3>2 DEF Receive
  <2>6. ASSUME NEW q \in Request, TimedOut(q) PROVE TypeInv'
    <3>1. Done(q, "failed") /\ UNCHANGED <<current, wireVars, agent, composeVars, handled>>
      BY <2>6 DEF TimedOut
    <3> QED BY <2>0, <3>1, DoneTypes DEF TypeOK, wireVars, composeVars
  <2>7. ASSUME NEW k \in Conn, AgentReads(k) PROVE TypeInv'
    <3>1. Head(toAgent[k]) \in Request /\ Tail(toAgent[k]) \in Seq(Request)
      BY <2>7 DEF AgentReads, TypeOK
    <3>2. agent' \in [Conn -> AgentRec]
      BY <2>7, <3>1 DEF AgentReads, TypeOK, AgentRec
    <3>3. BusyHasRequest'
      BY <2>7, <3>1 DEF AgentReads, BusyHasRequest, Asked, TypeOK, AgentRec
    <3> QED BY <2>7, <3>1, <3>2, <3>3 DEF AgentReads, TypeOK, serverVars, composeVars
  <2>8. ASSUME NEW k \in Conn, AgentHangsUp(k) PROVE TypeInv'
    <3>1. agent' \in [Conn -> AgentRec] /\ BusyHasRequest'
      BY <2>8, AgentGoesTypes DEF AgentHangsUp
    <3>2. <<>> \in Seq(Request)
      OBVIOUS
    <3> QED BY <2>8, <3>1, <3>2 DEF AgentHangsUp, TypeOK, serverVars, composeVars
  <2>9. ASSUME NEW k \in Conn, Lock(k) PROVE TypeInv'
    <3>1. agent' \in [Conn -> AgentRec] /\ BusyHasRequest'
      BY <2>9, AgentGoesTypes DEF Lock, AgentAt, Busy
    <3> QED BY <2>9, <3>1 DEF Lock, TypeOK, serverVars, wireVars
  <2>10. ASSUME NEW k \in Conn, WriteFile(k) PROVE TypeInv'
    <3>1. agent' \in [Conn -> AgentRec] /\ BusyHasRequest'
      BY <2>10, AgentGoesTypes DEF WriteFile, AgentAt, Busy
    <3>2. Asked(k) \in Request
      BY <2>10 DEF WriteFile, AgentAt, BusyHasRequest, Busy
    <3>3. Yaml[Asked(k)] \subseteq Service
      BY <3>2, ConstantsAssumption
    <3> QED BY <2>10, <3>1, <3>3 DEF WriteFile, TypeOK, serverVars, wireVars
  <2>11. ASSUME NEW k \in Conn, Handle(k) PROVE TypeInv'
    <3>1. agent[k].at \in Busy /\ Respond(k, FALSE)
      BY <2>11 DEF Handle, AgentAt, Busy
    <3>2. /\ agent' \in [Conn -> AgentRec] /\ toServer' \in [Conn -> Seq(Request)]
          /\ handled' \subseteq Request /\ BusyHasRequest'
      BY <3>1, RespondTypes
    <3> QED BY <2>11, <3>2 DEF Handle, TypeOK, serverVars, composeVars
  <2>12. ASSUME NEW k \in Conn, WriteFileFails(k) PROVE TypeInv'
    <3>1. agent[k].at \in Busy /\ Respond(k, FALSE)
      BY <2>12 DEF WriteFileFails, AgentAt, Busy
    <3>2. /\ agent' \in [Conn -> AgentRec] /\ toServer' \in [Conn -> Seq(Request)]
          /\ handled' \subseteq Request /\ BusyHasRequest'
      BY <3>1, RespondTypes
    <3> QED BY <2>12, <3>2 DEF WriteFileFails, TypeOK, serverVars
  <2>13. ASSUME NEW k \in Conn, Compose(k) PROVE TypeInv'
    <3>1. PICK late \in BOOLEAN : Respond(k, late)
      BY <2>13, ComposeResponds
    <3>2. agent[k].at \in Busy
      BY <2>13 DEF Compose, AgentAt, Busy
    <3>3. /\ agent' \in [Conn -> AgentRec] /\ toServer' \in [Conn -> Seq(Request)]
          /\ handled' \subseteq Request /\ BusyHasRequest'
      BY <3>1, <3>2, RespondTypes
    <3>4. stack' \subseteq Service /\ broken' \in BOOLEAN
      BY <2>13 DEF Compose, Up, Down, TypeOK
    <3> QED BY <2>13, <3>3, <3>4 DEF Compose, TypeOK, serverVars
  <2>14. CASE UNCHANGED vars
    BY <2>0, <2>14 DEF vars, serverVars, wireVars, composeVars, TypeOK
  <2> QED
    BY <2>1, <2>2, <2>3, <2>4, <2>5, <2>6, <2>7, <2>8, <2>9, <2>10, <2>11, <2>12, <2>13, <2>14
    DEF Next, RequestStep, ComposeStep, ConnStep
<1> QED BY <1>1, <1>2, PTL DEF Spec

\* Every variable keeps its type; above all, the channel of a request never holds more
\* than its capacity, however many answers and events are broadcast to it (Subscribe,
\* broadcast).
THEOREM TypeCorrect == Spec => []TypeOK
<1>1. TypeInv => TypeOK
  BY DEF TypeInv
<1> QED BY <1>1, TypeInvariant, PTL

-----------------------------------------------------------------------------
(* The project file, its mutex and the stack                                *)

Deploying(k) == agent[k].at = "composing" /\ Kind[Asked(k)] = "deploy"

\* Who works on the project file holds the mutex, and an up still has its own file;
\* outside of an up the file names what runs. UpRunsItsOwnFile lacks the steps before
\* the up to be inductive, FileNamesStack those under the mutex.
ComposeInv ==
  /\ \A k \in Conn : agent[k].at \in {"writing", "composing"} => mutex = k
  /\ \A k \in Conn : agent[k].at = "writing" => Kind[Asked(k)] = "deploy"
  /\ \A k \in Conn : Deploying(k) => file = Yaml[Asked(k)]
  /\ ~broken /\ (\A k \in Conn : ~Deploying(k)) => stack \subseteq file

\* A step of a connection that neither holds nor takes the mutex.
LEMMA OutsideCompose ==
  ASSUME ComposeInv, TypeInv, UNCHANGED composeVars,
         NEW k \in Conn, agent[k].at \notin {"writing", "composing"},
         NEW r, r.at \notin {"writing", "composing"}, agent' = [agent EXCEPT ![k] = r]
  PROVE  ComposeInv'
<1> USE DEF ComposeInv, Deploying, Asked, composeVars
<1>1. agent'[k] = r /\ \A j \in Conn : j # k => agent'[j] = agent[j]
  BY DEF TypeInv, TypeOK
<1>2. \A j \in Conn : agent'[j].at \in {"writing", "composing"} => j # k /\ agent'[j] = agent[j]
  BY <1>1
<1>3. \A j \in Conn : Deploying(j)' <=> Deploying(j)
  BY <1>1, <1>2
<1> QED BY <1>2, <1>3

\* The holder of the mutex answers and gives it back.
LEMMA ReleaseCompose ==
  ASSUME ComposeInv, TypeInv, NEW k \in Conn, agent[k].at \in {"writing", "composing"},
         NEW late \in BOOLEAN, Respond(k, late), mutex' = NoOne,
         ~broken' => stack' \subseteq file'
  PROVE  ComposeInv'
<1>1. agent'[k].at = "reading" /\ \A j \in Conn : j # k => agent'[j] = agent[j]
  BY DEF TypeInv, TypeOK, Respond
<1>2. \A j \in Conn : agent'[j].at \notin {"writing", "composing"}
  BY <1>1 DEF ComposeInv
<1> QED BY <1>2 DEF ComposeInv, Deploying

LEMMA ComposeInvInit == Init => ComposeInv
BY DEF Init, ComposeInv, Deploying

LEMMA ComposeInvNext == TypeInv /\ ComposeInv /\ [Next]_vars => ComposeInv'
<1> SUFFICES ASSUME TypeInv, ComposeInv, [Next]_vars PROVE ComposeInv'
  OBVIOUS
<1>0. UNCHANGED <<agent, composeVars>> => ComposeInv'
  BY DEF ComposeInv, Deploying, Asked, composeVars
<1>1. ASSUME NEW k \in Conn, Connect(k) \/ Cut(k) \/ ReadLoopEnds(k) \/ ReadResponse(k) \/ ReadStats(k)
      PROVE  ComposeInv'
  BY <1>0, <1>1 DEF Connect, Cut, ReadLoopEnds, ReadResponse, ReadStats
<1>2. ASSUME NEW q \in Request, RequestStep(q) PROVE ComposeInv'
  BY <1>0, <1>2 DEF RequestStep, Send, Receive, TimedOut
<1>3. ASSUME NEW k \in Conn, AgentReads(k) PROVE ComposeInv'
  BY <1>3, OutsideCompose DEF AgentReads, AgentAt
<1>4. ASSUME NEW k \in Conn, AgentHangsUp(k) PROVE ComposeInv'
  <2>1. agent' = [agent EXCEPT ![k] = [agent[k] EXCEPT !.at = "gone"]]
    BY <1>4 DEF AgentHangsUp, AgentGoes
  <2>2. agent[k].at = "reading" /\ UNCHANGED composeVars
    BY <1>4 DEF AgentHangsUp, AgentAt
  <2>3. [agent[k] EXCEPT !.at = "gone"].at = "gone"
    BY DEF TypeInv, TypeOK, AgentRec
  <2> QED BY <2>1, <2>2, <2>3, OutsideCompose
<1>5. ASSUME NEW k \in Conn, Handle(k) PROVE ComposeInv'
  BY <1>5, OutsideCompose DEF Handle, AgentAt, Respond
<1>6. ASSUME NEW k \in Conn, Lock(k) PROVE ComposeInv'
  <2>1. \A j \in Conn : agent[j].at \notin {"writing", "composing"}
    BY <1>6, ConstantsAssumption DEF Lock, ComposeInv
  <2>2. /\ agent'[k].req = agent[k].req
        /\ agent'[k].at = IF Kind[Asked(k)] = "deploy" THEN "writing" ELSE "composing"
        /\ \A j \in Conn : j # k => agent'[j] = agent[j]
    BY <1>6 DEF Lock, AgentGoes, TypeInv, TypeOK, AgentRec
  <2>3. \A j \in Conn : ~Deploying(j) /\ ~Deploying(j)'
    BY <2>1, <2>2 DEF Deploying, Asked
  <2>4. mutex' = k /\ UNCHANGED <<file, stack, broken>>
    BY <1>6 DEF Lock
  <2>5. \A j \in Conn : agent'[j].at = "writing" => Kind[Asked(j)'] = "deploy"
    BY <2>1, <2>2 DEF Asked
  <2>6. \A j \in Conn : agent'[j].at \in {"writing", "composing"} => j = k
    BY <2>1, <2>2
  <2> QED BY <2>1, <2>3, <2>4, <2>5, <2>6 DEF ComposeInv
<1>7. ASSUME NEW k \in Conn, WriteFile(k) PROVE ComposeInv'
  <2>1. mutex = k /\ \A j \in Conn : j # k => agent[j].at \notin {"writing", "composing"}
    BY <1>7 DEF WriteFile, AgentAt, ComposeInv
  <2>2. /\ agent'[k].req = agent[k].req
        /\ agent'[k].at = "composing"
        /\ \A j \in Conn : j # k => agent'[j] = agent[j]
    BY <1>7 DEF WriteFile, AgentGoes, TypeInv, TypeOK, AgentRec
  <2>3. file' = Yaml[Asked(k)'] /\ UNCHANGED <<mutex, stack, broken>>
    BY <1>7, <2>2 DEF WriteFile, Asked
  <2>4. Deploying(k)'
    <3>1. Kind[Asked(k)] = "deploy"
      BY <1>7 DEF WriteFile, AgentAt, ComposeInv
    <3> QED BY <2>2, <3>1 DEF Deploying, Asked
  <2> QED BY <2>1, <2>2, <2>3, <2>4 DEF ComposeInv, Deploying
<1>8. ASSUME NEW k \in Conn, WriteFileFails(k) PROVE ComposeInv'
  BY <1>8, ReleaseCompose DEF WriteFileFails, AgentAt
<1>9. ASSUME NEW k \in Conn, Compose(k) PROVE ComposeInv'
  <2>1. PICK late \in BOOLEAN : Respond(k, late)
    BY <1>9, ComposeResponds
  <2>2. agent[k].at = "composing" /\ mutex' = NoOne /\ UNCHANGED file
    BY <1>9 DEF Compose, AgentAt
  <2>3. CASE Deploying(k)
    BY <1>9, <2>1, <2>2, <2>3, ReleaseCompose DEF Compose, Deploying, Up
  <2>4. CASE ~Deploying(k)
    <3>1. \A j \in Conn : ~Deploying(j)
      BY <2>2, <2>4 DEF ComposeInv, Deploying
    <3>2. stack' \subseteq stack /\ UNCHANGED broken
      BY <1>9, <2>2, <2>4 DEF Compose, Deploying, Down
    <3> QED BY <2>1, <2>2, <3>1, <3>2, ReleaseCompose DEF ComposeInv
  <2> QED BY <2>3, <2>4
<1>10. CASE UNCHANGED vars
  BY <1>0, <1>10 DEF vars
<1> QED
  BY <1>1, <1>2, <1>3, <1>4, <1>5, <1>6, <1>7, <1>8, <1>9, <1>10
  DEF Next, ComposeStep, ConnStep

LEMMA ComposeInvariant == Spec => []ComposeInv
<1>1. Init => ComposeInv
  BY ComposeInvInit
<1>2. TypeInv /\ ComposeInv /\ [Next]_vars => ComposeInv'
  BY ComposeInvNext
<1>3. Spec => []TypeInv
  BY TypeInvariant
<1> QED BY <1>1, <1>2, <1>3, PTL DEF Spec

\* docker compose runs for one deploy or down at a time, whichever connection it came
\* from, and an up runs with the file that its own call has written (composeMutex).
THEOREM UpsAreAlone == Spec => []UpRunsItsOwnFile
<1>1. ComposeInv => UpRunsItsOwnFile
  BY DEF ComposeInv, UpRunsItsOwnFile, Deploying, AgentAt
<1> QED BY <1>1, ComposeInvariant, PTL

\* Unless the last deploy has failed, the project file that a down reads names every
\* service that runs (deploy, "docker.compose.down").
THEOREM DownFindsAll == Spec => []FileNamesStack
<1>1. TypeInv /\ ComposeInv => FileNamesStack
  <2> SUFFICES ASSUME TypeInv, ComposeInv, ~broken, mutex = NoOne
               PROVE  stack \subseteq file
    BY DEF FileNamesStack
  <2>1. \A k \in Conn : k # NoOne
    BY ConstantsAssumption
  <2>2. \A k \in Conn : ~Deploying(k)
    BY <2>1 DEF ComposeInv, Deploying
  <2> QED BY <2>2 DEF ComposeInv
<1>2. Spec => []TypeInv
  BY TypeInvariant
<1> QED BY <1>1, <1>2, ComposeInvariant, PTL

-----------------------------------------------------------------------------
(* Answers                                                                  *)

\* Nothing travels as an answer that the agent has not given: what AnswerIsOwn says
\* of the end holds of the connections and of the channels on the way.
AnswerInv ==
  /\ \A k \in Conn : \A i \in 1..Len(toServer[k]) : toServer[k][i] \in handled
  /\ \A q \in Request : \A i \in 1..Len(req[q].ch) : req[q].ch[i] \in handled \union {Event}
  /\ AnswerIsOwn

\* Broadcast passes on what it was given.
LEMMA BroadcastAnswers ==
  ASSUME TypeOK, AnswerInv, UNCHANGED handled, NEW k \in Conn, NEW e \in handled \union {Event},
         Broadcast(k, e)
  PROVE  /\ \A q \in Request : \A i \in 1..Len(req'[q].ch) : req'[q].ch[i] \in handled' \union {Event}
         /\ AnswerIsOwn'
<1>1. ASSUME NEW q \in Request
      PROVE  /\ \A i \in 1..Len(req'[q].ch) : req'[q].ch[i] \in handled \union {Event}
             /\ req'[q].at = req[q].at
  <2>1. req[q].ch \in Seq(Request \union {Event}) /\ e \in Request \union {Event}
    BY DEF TypeOK, RequestRec
  <2>2. \A i \in 1..Len(Append(req[q].ch, e)) : Append(req[q].ch, e)[i] \in handled \union {Event}
    BY <2>1 DEF AnswerInv
  <2>3. CASE req'[q] = req[q]
    BY <2>3 DEF AnswerInv
  <2>4. CASE req'[q] = [req[q] EXCEPT !.ch = Append(@, e)]
    <3>1. req'[q].ch = Append(req[q].ch, e) /\ req'[q].at = req[q].at
      BY <2>4 DEF TypeOK, RequestRec
    <3> QED BY <2>2, <3>1
  <2> QED BY <2>3, <2>4 DEF Broadcast
<1> QED BY <1>1 DEF AnswerInv, AnswerIsOwn

\* The agent answers the request it is at.
LEMMA RespondAnswers ==
  ASSUME TypeInv, AnswerInv, UNCHANGED req, NEW k \in Conn, agent[k].at \in Busy,
         NEW late \in BOOLEAN, Respond(k, late)
  PROVE  AnswerInv'
<1>1. handled \subseteq handled' /\ Asked(k) \in handled' /\ Asked(k) \in Request
  BY DEF Respond, TypeInv, BusyHasRequest
<1>2. ASSUME NEW j \in Conn, NEW i \in 1..Len(toServer'[j]) PROVE toServer'[j][i] \in handled'
  <2>1. toServer[j] \in Seq(Request)
    BY DEF TypeInv, TypeOK
  <2>2. CASE toServer'[j] = toServer[j]
    BY <1>1, <1>2, <2>2 DEF AnswerInv
  <2>3. CASE toServer'[j] = Append(toServer[j], Asked(k))
    BY <1>1, <1>2, <2>1, <2>3 DEF AnswerInv
  <2> QED BY <2>2, <2>3 DEF Respond, TypeInv, TypeOK
<1> QED BY <1>1, <1>2 DEF AnswerInv, AnswerIsOwn

LEMMA AnswerInvNext == TypeInv /\ AnswerInv /\ [Next]_vars => AnswerInv'
<1> SUFFICES ASSUME TypeInv, AnswerInv, [Next]_vars PROVE AnswerInv'
  OBVIOUS
<1>0. UNCHANGED <<toServer, req, handled>> => AnswerInv'
  BY DEF AnswerInv, AnswerIsOwn
<1>1. ASSUME NEW k \in Conn, Connect(k) PROVE AnswerInv'
  BY <1>0, <1>1 DEF Connect
<1>2. ASSUME NEW k \in Conn, Cut(k) \/ ReadLoopEnds(k) PROVE AnswerInv'
  <2>1. toServer' = [toServer EXCEPT ![k] = <<>>] /\ UNCHANGED <<req, handled>>
    BY <1>2 DEF Cut, ReadLoopEnds, serverVars
  <2>2. Len(<<>>) = 0
    OBVIOUS
  <2> QED BY <2>1, <2>2 DEF AnswerInv, AnswerIsOwn, TypeInv, TypeOK
<1>3. ASSUME NEW k \in Conn, ReadResponse(k) PROVE AnswerInv'
  <2>1. toServer[k] \in Seq(Request) /\ toServer[k] # <<>>
    BY <1>3 DEF ReadResponse, TypeInv, TypeOK
  <2>2. Head(toServer[k]) \in handled
    BY <2>1 DEF AnswerInv
  <2>3. \A i \in 1..Len(Tail(toServer[k])) : Tail(toServer[k])[i] \in handled
    BY <2>1 DEF AnswerInv
  <2>4. toServer' = [toServer EXCEPT ![k] = Tail(@)] /\ UNCHANGED handled
    BY <1>3 DEF ReadResponse
  <2>5. Broadcast(k, Head(toServer[k]))
    BY <1>3 DEF ReadResponse
  <2>6. \A j \in Conn : \A i \in 1..Len(toServer'[j]) : toServer'[j][i] \in handled'
    BY <2>3, <2>4 DEF AnswerInv, TypeInv, TypeOK
  <2> QED BY <2>2, <2>4, <2>5, <2>6, BroadcastAnswers DEF AnswerInv, TypeInv
<1>4. ASSUME NEW k \in Conn, ReadStats(k) PROVE AnswerInv'
  BY <1>4, BroadcastAnswers DEF ReadStats, wireVars, AnswerInv, TypeInv
<1>5. ASSUME NEW q \in Request, Send(q) PROVE AnswerInv'
  <2>1. PICK at \in {"waiting", "failed"}, c \in Conn \union {NoOne} :
          req' = [req EXCEPT ![q] = [at |-> at, conn |-> c, ch |-> <<>>]]
    BY <1>5 DEF Send, TypeInv, TypeOK
  <2>2. Len(<<>>) = 0
    OBVIOUS
  <2>3. UNCHANGED <<toServer, handled>>
    BY <1>5 DEF Send
  <2> QED BY <2>1, <2>2, <2>3 DEF AnswerInv, AnswerIsOwn, TypeInv, TypeOK
<1>6. ASSUME NEW q \in Request, Receive(q) PROVE AnswerInv'
  <2>1. req[q].ch \in Seq(Request \union {Event}) /\ req[q].ch # <<>>
    BY <1>6 DEF Receive, TypeInv, TypeOK, RequestRec
  <2>2. UNCHANGED <<toServer, handled>>
    BY <1>6 DEF Receive, wireVars
  <2>3. CASE IsAnswer(q, Head(req[q].ch)) /\ Done(q, "answered")
    <3>1. q \in handled
      <4>1. Head(req[q].ch) = q /\ Head(req[q].ch) = req[q].ch[1] /\ 1 \in 1..Len(req[q].ch)
        BY <2>1, <2>3 DEF IsAnswer
      <4>2. q # Event
        BY ConstantsAssumption
      <4> QED BY <4>1, <4>2 DEF AnswerInv
    <3>2. Len(<<>>) = 0
      OBVIOUS
    <3> QED BY <2>2, <2>3, <3>1, <3>2 DEF Done, AnswerInv, AnswerIsOwn, TypeInv, TypeOK
  <2>4. CASE req' = [req EXCEPT ![q].ch = Tail(@)]
    <3>1. \A i \in 1..Len(Tail(req[q].ch)) : Tail(req[q].ch)[i] \in handled \union {Event}
      BY <2>1 DEF AnswerInv
    <3>2. req'[q].ch = Tail(req[q].ch) /\ req'[q].at = req[q].at
      BY <2>4 DEF TypeInv, TypeOK, RequestRec
    <3>3. \A r \in Request : r # q => req'[r] = req[r]
      BY <2>4 DEF TypeInv, TypeOK
    <3> QED BY <2>2, <3>1, <3>2, <3>3 DEF AnswerInv, AnswerIsOwn
  <2> QED BY <1>6, <2>3, <2>4 DEF Receive
<1>7. ASSUME NEW q \in Request, TimedOut(q) PROVE AnswerInv'
  <2>1. Len(<<>>) = 0
    OBVIOUS
  <2> QED BY <1>7, <2>1 DEF TimedOut, Done, wireVars, AnswerInv, AnswerIsOwn, TypeInv, TypeOK
<1>8. ASSUME NEW k \in Conn, AgentReads(k) \/ AgentHangsUp(k) \/ Lock(k) \/ WriteFile(k)
      PROVE  AnswerInv'
  BY <1>0, <1>8 DEF AgentReads, AgentHangsUp, Lock, WriteFile, serverVars, wireVars
<1>9. ASSUME NEW k \in Conn, Handle(k) \/ WriteFileFails(k) PROVE AnswerInv'
  BY <1>9, RespondAnswers DEF Handle, WriteFileFails, AgentAt, Busy, serverVars
<1>10. ASSUME NEW k \in Conn, Compose(k) PROVE AnswerInv'
  <2>1. PICK late \in BOOLEAN : Respond(k, late)
    BY <1>10, ComposeResponds
  <2> QED BY <1>10, <2>1, RespondAnswers DEF Compose, AgentAt, Busy, serverVars
<1>11. CASE UNCHANGED vars
  BY <1>0, <1>11 DEF vars, serverVars, wireVars
<1> QED
  BY <1>1, <1>2, <1>3, <1>4, <1>5, <1>6, <1>7, <1>8, <1>9, <1>10, <1>11
  DEF Next, RequestStep, ComposeStep, ConnStep

LEMMA AnswerInvInit == Init => AnswerInv
<1>1. Len(<<>>) = 0
  OBVIOUS
<1> QED BY <1>1 DEF Init, AnswerInv, AnswerIsOwn

\* A request of a browser ends as answered only after the agent has answered that
\* very request, although it hears the node's other answers (broadcast, WaitForID).
THEOREM AnswersAreOwn == Spec => []AnswerIsOwn
<1>1. Init => AnswerInv
  BY AnswerInvInit
<1>2. TypeInv /\ AnswerInv /\ [Next]_vars => AnswerInv'
  BY AnswerInvNext
<1>3. AnswerInv => AnswerIsOwn
  BY DEF AnswerInv
<1>4. Spec => []TypeInv
  BY TypeInvariant
<1> QED BY <1>1, <1>2, <1>3, <1>4, PTL DEF Spec

-----------------------------------------------------------------------------
(* Requests that may have their effect yet                                  *)

\* A request is in one place: in one queue, once, or with one agent; it has been sent
\* and has not been answered.
OnceInv ==
  /\ \A k \in Conn : agent[k].at \notin Busy => Asked(k) = NoOne
  /\ \A k, l \in Conn : Asked(k) = Asked(l) /\ Asked(k) # NoOne => k = l
  /\ \A k, l \in Conn : \A i \in 1..Len(toAgent[k]) : toAgent[k][i] # Asked(l)
  /\ \A k, l \in Conn : \A i \in 1..Len(toAgent[k]) : \A j \in 1..Len(toAgent[l]) :
       toAgent[k][i] = toAgent[l][j] => k = l /\ i = j
  /\ \A q \in Pending \union handled : req[q].at # "idle"
  /\ Pending \intersect handled = {}

\* A step that sends nothing to an agent and takes nothing from one.
LEMMA OnceKept ==
  ASSUME TypeInv, OnceInv, UNCHANGED <<agent, toAgent, handled>>,
         \A q \in Request : req[q].at # "idle" => req'[q].at # "idle"
  PROVE  OnceInv' /\ Pending' = Pending
<1>1. Pending' = Pending
  BY DEF Pending, Asked
<1>2. \A q \in Pending \union handled : q \in Request
  BY DEF Pending, TypeInv, TypeOK
<1> QED BY <1>1, <1>2 DEF OnceInv, Asked

\* A queue is lost, with a connection that is lost.
LEMMA OnceLost ==
  ASSUME TypeInv, OnceInv, NEW k \in Conn, toAgent' = [toAgent EXCEPT ![k] = <<>>],
         UNCHANGED <<req, handled>>,
         \A l \in Conn : /\ Asked(l)' = Asked(l)
                         /\ agent'[l].at \in Busy => agent[l].at \in Busy
                         /\ agent[l].at \in Busy => agent'[l].at \in Busy
  PROVE  OnceInv' /\ Pending' \subseteq Pending
<1>1. \A l \in Conn : \A i \in 1..Len(toAgent'[l]) :
        i \in 1..Len(toAgent[l]) /\ toAgent'[l][i] = toAgent[l][i]
  <2>1. Len(<<>>) = 0
    OBVIOUS
  <2> QED BY <2>1 DEF TypeInv, TypeOK
<1>2. Pending' \subseteq Pending
  BY <1>1 DEF Pending
<1>3. \A l \in Conn : agent'[l].at \notin Busy => Asked(l)' = NoOne
  BY DEF OnceInv
<1>4. \A l, m \in Conn : Asked(l)' = Asked(m)' /\ Asked(l)' # NoOne => l = m
  BY DEF OnceInv
<1>5. \A l, m \in Conn : \A i \in 1..Len(toAgent'[l]) : toAgent'[l][i] # Asked(m)'
  BY <1>1 DEF OnceInv
<1>6. \A l, m \in Conn : \A i \in 1..Len(toAgent'[l]) : \A j \in 1..Len(toAgent'[m]) :
        toAgent'[l][i] = toAgent'[m][j] => l = m /\ i = j
  BY <1>1 DEF OnceInv
<1>7. /\ \A q \in Pending' \union handled' : req'[q].at # "idle"
      /\ Pending' \intersect handled' = {}
  BY <1>2 DEF OnceInv
<1> QED BY <1>2, <1>3, <1>4, <1>5, <1>6, <1>7 DEF OnceInv

\* The agent goes on with the request it has.
LEMMA OnceGoesOn ==
  ASSUME TypeInv, OnceInv, NEW k \in Conn, agent[k].at \in Busy,
         NEW step \in Busy, AgentGoes(k, step), UNCHANGED <<req, toAgent, handled>>
  PROVE  OnceInv' /\ Pending' = Pending
<1>1. \A l \in Conn : Asked(l)' = Asked(l)
  BY DEF AgentGoes, Asked, TypeInv, TypeOK, AgentRec
<1>2. \A l \in Conn : agent'[l].at \in Busy <=> agent[l].at \in Busy
  BY DEF AgentGoes, TypeInv, TypeOK, AgentRec
<1>3. Pending' = Pending
  BY <1>1 DEF Pending
<1> QED BY <1>1, <1>2, <1>3 DEF OnceInv

\* With its answer a request leaves the agent, and is nowhere else.
LEMMA OnceAnswered ==
  ASSUME TypeInv, OnceInv, NEW k \in Conn, agent[k].at \in Busy,
         NEW late \in BOOLEAN, Respond(k, late), UNCHANGED <<req, toAgent>>
  PROVE  /\ OnceInv'
         /\ Asked(k) \in Pending \ handled
         /\ Pending' = Pending \ {Asked(k)}
         /\ handled' = handled \union {Asked(k)}
<1>1. Asked(k) \in Request /\ Asked(k) # NoOne
  BY ConstantsAssumption DEF TypeInv, BusyHasRequest
<1>2. Asked(k) \in Pending \ handled
  BY <1>1 DEF Pending, OnceInv
<1>3. /\ Asked(k)' = NoOne /\ agent'[k].at \notin Busy
      /\ \A l \in Conn \ {k} : Asked(l)' = Asked(l) /\ agent'[l] = agent[l]
  BY DEF Respond, Asked, TypeInv, TypeOK, Busy
<1>4. handled' = handled \union {Asked(k)}
  BY DEF Respond
<1>5. Pending' = Pending \ {Asked(k)}
  <2>1. ASSUME NEW q \in Pending' PROVE q \in Pending /\ q # Asked(k)
    <3>1. q \in Request
      BY DEF Pending
    <3>2. CASE \E l \in Conn : Asked(l)' = q
      <4>1. PICK l \in Conn \ {k} : Asked(l) = q
        BY <1>3, <3>1, <3>2, ConstantsAssumption
      <4>2. q # NoOne
        BY <3>1, ConstantsAssumption
      <4> QED BY <3>1, <4>1, <4>2 DEF Pending, OnceInv
    <3>3. CASE \E l \in Conn : \E i \in 1..Len(toAgent[l]) : toAgent[l][i] = q
      BY <3>1, <3>3 DEF Pending, OnceInv
    <3> QED BY <2>1, <3>2, <3>3 DEF Pending
  <2>2. ASSUME NEW q \in Pending, q # Asked(k) PROVE q \in Pending'
    BY <1>3, <2>2 DEF Pending
  <2> QED BY <2>1, <2>2
<1>6. OnceInv'
  <2>1. \A l \in Conn : agent'[l].at \notin Busy => Asked(l)' = NoOne
    BY <1>3 DEF OnceInv
  <2>2. \A l, m \in Conn : Asked(l)' = Asked(m)' /\ Asked(l)' # NoOne => l = m
    BY <1>3 DEF OnceInv
  <2>3. \A l, m \in Conn : \A i \in 1..Len(toAgent'[l]) : toAgent'[l][i] # Asked(m)'
    <3>1. \A l \in Conn : \A i \in 1..Len(toAgent[l]) : toAgent[l][i] # NoOne
      BY ConstantsAssumption DEF TypeInv, TypeOK
    <3> QED BY <1>3, <3>1 DEF OnceInv
  <2>4. \A l, m \in Conn : \A i \in 1..Len(toAgent'[l]) : \A j \in 1..Len(toAgent'[m]) :
          toAgent'[l][i] = toAgent'[m][j] => l = m /\ i = j
    BY DEF OnceInv
  <2>5. /\ \A q \in Pending' \union handled' : req'[q].at # "idle"
        /\ Pending' \intersect handled' = {}
    BY <1>2, <1>4, <1>5 DEF OnceInv
  <2> QED BY <2>1, <2>2, <2>3, <2>4, <2>5 DEF OnceInv
<1> QED BY <1>2, <1>4, <1>5, <1>6

\* The agent takes the next request from its queue.
LEMMA OnceRead ==
  ASSUME TypeInv, OnceInv, NEW k \in Conn, AgentReads(k)
  PROVE  OnceInv' /\ Pending' = Pending
<1> DEFINE q == Head(toAgent[k])
<1>1. /\ toAgent[k] \in Seq(Request) /\ toAgent[k] # <<>> /\ agent[k].at = "reading"
      /\ toAgent' = [toAgent EXCEPT ![k] = Tail(@)]
      /\ UNCHANGED <<req, handled>>
  BY DEF AgentReads, AgentAt, TypeInv, TypeOK, serverVars
<1>2. /\ Len(toAgent[k]) \in Nat \ {0} /\ q = toAgent[k][1] /\ q \in Request
      /\ Len(Tail(toAgent[k])) = Len(toAgent[k]) - 1
      /\ \A i \in 1..Len(Tail(toAgent[k])) : Tail(toAgent[k])[i] = toAgent[k][i + 1]
  BY <1>1
<1>3. /\ Asked(k)' = q /\ agent'[k].at \in Busy
      /\ \A l \in Conn \ {k} : agent'[l] = agent[l] /\ Asked(l)' = Asked(l)
  BY DEF AgentReads, Asked, TypeInv, TypeOK, Busy
<1>4. q # NoOne /\ Asked(k) = NoOne
  BY <1>1, <1>2, ConstantsAssumption DEF OnceInv, Busy
<1> HIDE DEF q
<1>5. /\ toAgent'[k] = Tail(toAgent[k])
      /\ \A l \in Conn \ {k} : toAgent'[l] = toAgent[l]
  BY <1>1 DEF TypeInv, TypeOK
<1>6. 1 \in 1..Len(toAgent[k])
  BY <1>2
<1>7. \A i \in 1..Len(toAgent'[k]) :
        i + 1 \in 1..Len(toAgent[k]) /\ i + 1 # 1 /\ toAgent'[k][i] = toAgent[k][i + 1]
  BY <1>2, <1>5
<1>8. \A i \in 1..Len(toAgent[k]) :
        i # 1 => i - 1 \in 1..Len(toAgent'[k]) /\ toAgent'[k][i - 1] = toAgent[k][i]
  <2> SUFFICES ASSUME NEW i \in 1..Len(toAgent[k]), i # 1
      PROVE i - 1 \in 1..Len(toAgent'[k]) /\ toAgent'[k][i - 1] = toAgent[k][i]
    OBVIOUS
  <2>1. i - 1 \in 1..Len(toAgent'[k]) /\ i - 1 + 1 = i
    BY <1>2, <1>5
  <2> QED BY <1>7, <2>1
<1>9. Pending' = Pending
  <2>1. ASSUME NEW x \in Pending PROVE x \in Pending'
    <3>1. x \in Request /\ x # NoOne
      BY ConstantsAssumption DEF Pending
    <3>2. CASE \E l \in Conn : Asked(l) = x
      BY <1>3, <1>4, <3>1, <3>2 DEF Pending
    <3>3. ASSUME NEW l \in Conn, NEW i \in 1..Len(toAgent[l]), toAgent[l][i] = x
          PROVE  x \in Pending'
      <4>1. CASE l # k
        BY <1>5, <3>1, <3>3, <4>1 DEF Pending
      <4>2. CASE l = k /\ i = 1
        BY <1>2, <1>3, <3>1, <3>3, <4>2 DEF Pending
      <4>3. CASE l = k /\ i # 1
        BY <1>8, <3>1, <3>3, <4>3 DEF Pending
      <4> QED BY <4>1, <4>2, <4>3
    <3> QED BY <2>1, <3>2, <3>3 DEF Pending
  <2>2. ASSUME NEW x \in Pending' PROVE x \in Pending
    <3>1. x \in Request
      BY DEF Pending
    <3>2. CASE \E l \in Conn : Asked(l)' = x
      BY <1>2, <1>3, <1>6, <3>1, <3>2 DEF Pending
    <3>3. ASSUME NEW l \in Conn, NEW i \in 1..Len(toAgent'[l]), toAgent'[l][i] = x
          PROVE  x \in Pending
      BY <1>5, <1>7, <3>1, <3>3 DEF Pending
    <3> QED BY <2>2, <3>2, <3>3 DEF Pending
  <2> QED BY <2>1, <2>2
<1>10. OnceInv'
  <2>1. \A l \in Conn : agent'[l].at \notin Busy => Asked(l)' = NoOne
    BY <1>3 DEF OnceInv
  <2>2. \A l \in Conn : Asked(l) # q
    BY <1>2, <1>6 DEF OnceInv
  <2>3. \A l, m \in Conn : Asked(l)' = Asked(m)' /\ Asked(l)' # NoOne => l = m
    BY <1>3, <2>2 DEF OnceInv
  <2>4. \A l \in Conn : \A i \in 1..Len(toAgent'[l]) : toAgent'[l][i] # q
    <3> SUFFICES ASSUME NEW l \in Conn, NEW i \in 1..Len(toAgent'[l]), toAgent'[l][i] = q
                 PROVE  FALSE
      OBVIOUS
    <3>1. CASE l = k
      <4>1. i + 1 \in 1..Len(toAgent[k]) /\ i + 1 # 1 /\ toAgent[k][i + 1] = toAgent[k][1]
        BY <1>2, <1>7, <3>1
      <4> QED BY <1>6, <4>1 DEF OnceInv
    <3>2. CASE l # k
      <4>1. i \in 1..Len(toAgent[l]) /\ toAgent[l][i] = toAgent[k][1]
        BY <1>2, <1>5, <3>2
      <4> QED BY <1>6, <3>2, <4>1 DEF OnceInv
    <3> QED BY <3>1, <3>2
  <2>5. \A l, m \in Conn : \A i \in 1..Len(toAgent'[l]) : toAgent'[l][i] # Asked(m)'
    <3> SUFFICES ASSUME NEW l \in Conn, NEW m \in Conn, NEW i \in 1..Len(toAgent'[l])
                 PROVE  toAgent'[l][i] # Asked(m)'
      OBVIOUS
    <3>1. CASE m = k
      BY <1>3, <2>4, <3>1
    <3>2. CASE m # k /\ l = k
      <4>1. i + 1 \in 1..Len(toAgent[k]) /\ toAgent'[l][i] = toAgent[k][i + 1]
        BY <1>7, <3>2
      <4> QED BY <1>3, <3>2, <4>1 DEF OnceInv
    <3>3. CASE m # k /\ l # k
      BY <1>3, <1>5, <3>3 DEF OnceInv
    <3> QED BY <3>1, <3>2, <3>3
  <2>6. \A l, m \in Conn : \A i \in 1..Len(toAgent'[l]) : \A j \in 1..Len(toAgent'[m]) :
          toAgent'[l][i] = toAgent'[m][j] => l = m /\ i = j
    <3> SUFFICES ASSUME NEW l \in Conn, NEW m \in Conn, NEW i \in 1..Len(toAgent'[l]),
                        NEW j \in 1..Len(toAgent'[m]), toAgent'[l][i] = toAgent'[m][j]
                 PROVE  l = m /\ i = j
      OBVIOUS
    <3>1. CASE l # k /\ m # k
      BY <1>5, <3>1 DEF OnceInv
    <3>2. CASE l = k /\ m # k
      <4>1. /\ i + 1 \in 1..Len(toAgent[k]) /\ toAgent'[l][i] = toAgent[k][i + 1]
            /\ j \in 1..Len(toAgent[m]) /\ toAgent'[m][j] = toAgent[m][j]
        BY <1>5, <1>7, <3>2
      <4> QED BY <3>2, <4>1 DEF OnceInv
    <3>3. CASE l # k /\ m = k
      <4>1. /\ j + 1 \in 1..Len(toAgent[k]) /\ toAgent'[m][j] = toAgent[k][j + 1]
            /\ i \in 1..Len(toAgent[l]) /\ toAgent'[l][i] = toAgent[l][i]
        BY <1>5, <1>7, <3>3
      <4> QED BY <3>3, <4>1 DEF OnceInv
    <3>4. CASE l = k /\ m = k
      <4>1. /\ i + 1 \in 1..Len(toAgent[k]) /\ j + 1 \in 1..Len(toAgent[k])
            /\ toAgent[k][i + 1] = toAgent[k][j + 1]
        BY <1>7, <3>4
      <4>2. i + 1 = j + 1
        BY <4>1 DEF OnceInv
      <4>3. Len(toAgent'[k]) \in Nat
        BY <1>2, <1>5
      <4>4. i \in Nat /\ j \in Nat
        BY <3>4, <4>3
      <4> QED BY <3>4, <4>2, <4>4
    <3> QED BY <3>1, <3>2, <3>3, <3>4
  <2>7. /\ \A x \in Pending' \union handled' : req'[x].at # "idle"
        /\ Pending' \intersect handled' = {}
    BY <1>1, <1>9 DEF OnceInv
  <2> QED BY <2>1, <2>3, <2>5, <2>6, <2>7 DEF OnceInv
<1> QED BY <1>9, <1>10

\* A request is sent for the first time.
LEMMA OnceSent ==
  ASSUME TypeInv, OnceInv, NEW q \in Request, Send(q)
  PROVE  /\ OnceInv'
         /\ Pending' = Pending \/ Pending' = Pending \union {q}
         /\ req'[q].at = "failed" => Pending' = Pending
<1>1. /\ req[q].at = "idle" /\ current \in Conn
      /\ UNCHANGED <<agent, handled>>
  BY DEF Send, TypeInv, TypeOK
<1>2. /\ req'[q].at # "idle"
      /\ \A r \in Request \ {q} : req'[r] = req[r]
  BY DEF Send, TypeInv, TypeOK
<1>3. CASE UNCHANGED toAgent
  BY <1>1, <1>2, <1>3, OnceKept
<1>4. CASE /\ toAgent' = [toAgent EXCEPT ![current] = Append(@, q)]
           /\ req'[q].at = "waiting"
  <2> DEFINE k == current
  <2>1. q \notin Pending /\ q \notin handled
    BY <1>1 DEF OnceInv
  <2>2. \A l \in Conn : /\ Asked(l) # q /\ Asked(l)' = Asked(l) /\ agent'[l] = agent[l]
                        /\ \A i \in 1..Len(toAgent[l]) : toAgent[l][i] # q
    BY <1>1, <2>1 DEF Pending, Asked
  <2>3. /\ toAgent[k] \in Seq(Request) /\ Len(toAgent[k]) \in Nat
        /\ toAgent'[k] = Append(toAgent[k], q)
        /\ \A l \in Conn \ {k} : toAgent'[l] = toAgent[l]
    BY <1>1, <1>4 DEF TypeInv, TypeOK
  <2>4. /\ Len(toAgent'[k]) = Len(toAgent[k]) + 1
        /\ toAgent'[k][Len(toAgent[k]) + 1] = q
        /\ \A i \in 1..Len(toAgent[k]) : toAgent'[k][i] = toAgent[k][i]
    BY <2>3
  <2> HIDE DEF k
  <2>5. \A l \in Conn : \A i \in 1..Len(toAgent[l]) :
          i \in 1..Len(toAgent'[l]) /\ toAgent'[l][i] = toAgent[l][i]
    BY <2>3, <2>4
  <2>6. \A l \in Conn : \A i \in 1..Len(toAgent'[l]) :
          \/ i \in 1..Len(toAgent[l]) /\ toAgent'[l][i] = toAgent[l][i]
          \/ l = k /\ i = Len(toAgent[k]) + 1 /\ toAgent'[l][i] = q
    BY <2>3, <2>4
  <2>7. Pending' = Pending \union {q}
    <3>1. q \in Pending'
      <4>1. k \in Conn /\ Len(toAgent[k]) + 1 \in 1..Len(toAgent'[k])
        BY <1>1, <2>3, <2>4 DEF k
      <4> QED BY <2>4, <4>1 DEF Pending
    <3>2. \A x \in Pending : x \in Pending'
      BY <2>2, <2>5 DEF Pending
    <3>3. \A x \in Pending' : x = q \/ x \in Pending
      BY <2>2, <2>6 DEF Pending
    <3> QED BY <3>1, <3>2, <3>3
  <2>8. \A l \in Conn : agent'[l].at \notin Busy => Asked(l)' = NoOne
    BY <2>2 DEF OnceInv
  <2>9. \A l, m \in Conn : Asked(l)' = Asked(m)' /\ Asked(l)' # NoOne => l = m
    BY <2>2 DEF OnceInv
  <2>10. \A l, m \in Conn : \A i \in 1..Len(toAgent'[l]) : toAgent'[l][i] # Asked(m)'
    BY <2>2, <2>6 DEF OnceInv
  <2>11. \A l, m \in Conn : \A i \in 1..Len(toAgent'[l]) : \A j \in 1..Len(toAgent'[m]) :
           toAgent'[l][i] = toAgent'[m][j] => l = m /\ i = j
    <3> SUFFICES ASSUME NEW l \in Conn, NEW m \in Conn, NEW i \in 1..Len(toAgent'[l]),
                        NEW j \in 1..Len(toAgent'[m]), toAgent'[l][i] = toAgent'[m][j]
                 PROVE  l = m /\ i = j
      OBVIOUS
    <3>1. CASE toAgent'[l][i] = q
      <4>1. l = k /\ i = Len(toAgent[k]) + 1
        BY <2>2, <2>6, <3>1
      <4>2. m = k /\ j = Len(toAgent[k]) + 1
        BY <2>2, <2>6, <3>1
      <4> QED BY <4>1, <4>2
    <3>2. CASE toAgent'[l][i] # q
      <4>1. /\ i \in 1..Len(toAgent[l]) /\ toAgent'[l][i] = toAgent[l][i]
            /\ j \in 1..Len(toAgent[m]) /\ toAgent'[m][j] = toAgent[m][j]
        BY <2>6, <3>2
      <4>2. toAgent[l][i] = toAgent[m][j]
        BY <4>1
      <4> QED BY <4>1, <4>2 DEF OnceInv
    <3> QED BY <3>1, <3>2
  <2>12. /\ \A x \in Pending' \union handled' : req'[x].at # "idle"
         /\ Pending' \intersect handled' = {}
    <3>1. \A x \in Pending \union handled : x \in Request
      BY DEF Pending, TypeInv, TypeOK
    <3> QED BY <1>1, <1>2, <2>1, <2>7, <3>1 DEF OnceInv
  <2> QED BY <1>4, <2>7, <2>8, <2>9, <2>10, <2>11, <2>12 DEF OnceInv
<1>5. \/ UNCHANGED toAgent
      \/ /\ toAgent' = [toAgent EXCEPT ![current] = Append(@, q)]
         /\ req'[q].at = "waiting"
  BY DEF Send, TypeInv, TypeOK
<1> QED BY <1>3, <1>4, <1>5


\* A request that is with an agent that handles it itself lists, one that composes
\* deploys or takes down.
KindInv ==
  \A k \in Conn : agent[k].at \in Busy =>
    (agent[k].at = "handling" <=> Kind[Asked(k)] = "list")

LEMMA KindInvNext == TypeInv /\ KindInv /\ [Next]_vars => KindInv'
<1> SUFFICES ASSUME TypeInv, KindInv, [Next]_vars PROVE KindInv'
  OBVIOUS
<1>1. CASE UNCHANGED agent
  BY <1>1 DEF KindInv, Asked
<1>2. ASSUME NEW k \in Conn, AgentReads(k) PROVE KindInv'
  BY <1>2 DEF AgentReads, KindInv, Asked, Busy, TypeInv, TypeOK
<1>3. ASSUME NEW k \in Conn, NEW step \in {"writing", "composing", "gone"},
             AgentGoes(k, step), agent[k].at \in {"locking", "writing"} \/ step = "gone"
      PROVE  KindInv'
  BY <1>3 DEF AgentGoes, KindInv, Asked, Busy, TypeInv, TypeOK, AgentRec
<1>4. ASSUME NEW k \in Conn, NEW late \in BOOLEAN, Respond(k, late) PROVE KindInv'
  BY <1>4 DEF Respond, KindInv, Asked, Busy, TypeInv, TypeOK
<1>5. ASSUME NEW k \in Conn, AgentHangsUp(k) \/ Lock(k) \/ WriteFile(k) PROVE KindInv'
  BY <1>3, <1>5 DEF AgentHangsUp, Lock, WriteFile, AgentAt
<1>6. ASSUME NEW k \in Conn, Handle(k) \/ WriteFileFails(k) PROVE KindInv'
  BY <1>4, <1>6 DEF Handle, WriteFileFails
<1>7. ASSUME NEW k \in Conn, Compose(k) PROVE KindInv'
  BY <1>4, <1>7, ComposeResponds
<1>8. ASSUME NEW k \in Conn, ConnStep(k) PROVE UNCHANGED agent
  BY <1>8 DEF ConnStep, Connect, ReadLoopEnds, ReadResponse, ReadStats, Cut
<1>9. ASSUME NEW q \in Request, RequestStep(q) PROVE UNCHANGED agent
  BY <1>9 DEF RequestStep, Send, Receive, TimedOut
<1>10. CASE UNCHANGED vars
  BY <1>1, <1>10 DEF vars
<1> QED BY <1>1, <1>2, <1>5, <1>6, <1>7, <1>8, <1>9, <1>10 DEF Next, ComposeStep

\* What Broadcast, or what a request takes from its channel, leaves of the outcomes.
LEMMA BroadcastOutcomes ==
  ASSUME TypeOK, NEW k \in Conn, NEW e, Broadcast(k, e)
  PROVE  \A q \in Request : req'[q].at = req[q].at
BY DEF Broadcast, TypeOK, RequestRec

LEMMA OnceInvNext == TypeInv /\ OnceInv /\ [Next]_vars => OnceInv'
<1> SUFFICES ASSUME TypeInv, OnceInv, [Next]_vars PROVE OnceInv'
  OBVIOUS
<1>0. CASE UNCHANGED <<req, agent, toAgent, handled>>
  BY <1>0, OnceKept
<1>1. ASSUME NEW k \in Conn, Connect(k) PROVE OnceInv'
  BY <1>0, <1>1 DEF Connect
<1>2. ASSUME NEW k \in Conn, ReadLoopEnds(k) PROVE OnceInv'
  BY <1>0, <1>2 DEF ReadLoopEnds
<1>3. ASSUME NEW k \in Conn, ReadResponse(k) PROVE OnceInv'
  BY <1>3, BroadcastOutcomes, OnceKept DEF ReadResponse, TypeInv
<1>4. ASSUME NEW k \in Conn, ReadStats(k) PROVE OnceInv'
  BY <1>4, BroadcastOutcomes, OnceKept DEF ReadStats, wireVars, TypeInv
<1>5. ASSUME NEW k \in Conn, Cut(k) PROVE OnceInv'
  BY <1>5, OnceLost DEF Cut, serverVars, Asked
<1>6. ASSUME NEW q \in Request, Send(q) PROVE OnceInv'
  BY <1>6, OnceSent
<1>7. ASSUME NEW q \in Request, Receive(q) \/ TimedOut(q) PROVE OnceInv'
  <2>1. \A r \in Request : req[r].at # "idle" => req'[r].at # "idle"
    <3>1. CASE \E how \in {"answered", "failed"} : Done(q, how)
      BY <3>1 DEF Done, TypeInv, TypeOK
    <3>2. CASE req' = [req EXCEPT ![q].ch = Tail(@)]
      BY <3>2 DEF TypeInv, TypeOK, RequestRec
    <3> QED BY <1>7, <3>1, <3>2 DEF Receive, TimedOut
  <2> QED BY <1>7, <2>1, OnceKept DEF Receive, TimedOut, wireVars
<1>8. ASSUME NEW k \in Conn, AgentReads(k) PROVE OnceInv'
  BY <1>8, OnceRead
<1>9. ASSUME NEW k \in Conn, AgentHangsUp(k) PROVE OnceInv'
  <2>1. \A l \in Conn : /\ Asked(l)' = Asked(l)
                        /\ agent'[l].at \in Busy <=> agent[l].at \in Busy
    BY <1>9 DEF AgentHangsUp, AgentAt, AgentGoes, Asked, Busy, TypeInv, TypeOK, AgentRec
  <2> QED BY <1>9, <2>1, OnceLost DEF AgentHangsUp, serverVars
<1>10. ASSUME NEW k \in Conn, Lock(k) \/ WriteFile(k) PROVE OnceInv'
  BY <1>10, OnceGoesOn DEF Lock, WriteFile, AgentAt, Busy, serverVars, wireVars
<1>11. ASSUME NEW k \in Conn, Handle(k) \/ WriteFileFails(k) PROVE OnceInv'
  BY <1>11, OnceAnswered DEF Handle, WriteFileFails, AgentAt, Busy, serverVars
<1>12. ASSUME NEW k \in Conn, Compose(k) PROVE OnceInv'
  <2>1. PICK late \in BOOLEAN : Respond(k, late)
    BY <1>12, ComposeResponds
  <2> QED BY <1>12, <2>1, OnceAnswered DEF Compose, AgentAt, Busy, serverVars
<1>13. CASE UNCHANGED vars
  BY <1>0, <1>13 DEF vars, serverVars, wireVars
<1> QED
  BY <1>1, <1>2, <1>3, <1>4, <1>5, <1>6, <1>7, <1>8, <1>9, <1>10, <1>11, <1>12, <1>13
  DEF Next, RequestStep, ComposeStep, ConnStep

LEMMA CallsInvariant == Spec => [](TypeInv /\ ComposeInv /\ AnswerInv /\ OnceInv /\ KindInv)
<1>1. Init => OnceInv /\ KindInv
  <2> SUFFICES ASSUME Init PROVE OnceInv /\ KindInv
    OBVIOUS
  <2>1. \A k \in Conn : agent[k].at = "reading" /\ Asked(k) = NoOne
    BY DEF Init, Asked
  <2>2. \A k \in Conn : 1..Len(toAgent[k]) = {}
    <3>1. Len(<<>>) = 0
      OBVIOUS
    <3> QED BY <3>1 DEF Init
  <2>3. Pending = {}
    BY <2>1, <2>2, ConstantsAssumption DEF Pending
  <2>4. handled = {}
    BY DEF Init
  <2> QED BY <2>1, <2>2, <2>3, <2>4 DEF OnceInv, KindInv, Busy
<1>2. TypeInv /\ OnceInv /\ [Next]_vars => OnceInv'
  BY OnceInvNext
<1>3. TypeInv /\ KindInv /\ [Next]_vars => KindInv'
  BY KindInvNext
<1>4. TypeInv /\ AnswerInv /\ [Next]_vars => AnswerInv'
  BY AnswerInvNext
<1>5. Init => AnswerInv
  BY AnswerInvInit
<1> QED BY <1>1, <1>2, <1>3, <1>4, <1>5, TypeInvariant, ComposeInvariant, PTL DEF Spec


\* One step of requests, connections and agents is one step of the calls, or none.
LEMMA CallsStep ==
  TypeInv /\ ComposeInv /\ AnswerInv /\ AnswerInv' /\ OnceInv /\ KindInv /\ [Next]_vars
    => [Calls!Next]_(Calls!vars)
<1> SUFFICES ASSUME TypeInv, ComposeInv, AnswerInv, AnswerInv', OnceInv, KindInv, [Next]_vars
             PROVE  [Calls!Next]_(Calls!vars)
  OBVIOUS
<1> DEFINE Out == [q \in Request |-> req[q].at]
\* Nothing that the calls know of changes.
<1>0. ASSUME UNCHANGED <<stack, broken, handled>>, Pending' = Pending,
             \A q \in Request : req'[q].at = req[q].at
      PROVE  UNCHANGED Calls!vars
  BY <1>0 DEF Calls!vars
\* Requests are lost.
<1>1. ASSUME UNCHANGED <<req, stack, broken, handled>>, Pending' \subseteq Pending
      PROVE  Calls!Lose
  BY <1>1 DEF Calls!Lose
\* A request has its effect with its answer.
<1>2. ASSUME NEW k \in Conn, agent[k].at \in Busy, NEW late \in BOOLEAN, Respond(k, late),
             UNCHANGED <<req, toAgent>>, Calls!Effect(Asked(k))
      PROVE  Asked(k) \in Request /\ Calls!Execute(Asked(k))
  <2>1. Asked(k) \in Request
    BY <1>2 DEF TypeInv, BusyHasRequest
  <2>2. /\ Asked(k) \in Pending \ handled
        /\ Pending' = Pending \ {Asked(k)}
        /\ handled' = handled \union {Asked(k)}
    BY <1>2, OnceAnswered
  <2>3. Out' = Out
    BY <1>2
  <2> QED BY <1>2, <2>1, <2>2, <2>3 DEF Calls!Execute
<1>3. ASSUME NEW k \in Conn, Handle(k) PROVE Calls!Next
  <2>1. Kind[Asked(k)] = "list" /\ UNCHANGED <<stack, broken>>
    BY <1>3 DEF Handle, AgentAt, KindInv, Busy, composeVars
  <2>2. Calls!Effect(Asked(k))
    BY <2>1 DEF Calls!Effect
  <2> QED BY <1>2, <1>3, <2>2 DEF Handle, AgentAt, Busy, serverVars, Calls!Next
<1>4. ASSUME NEW k \in Conn, WriteFileFails(k) PROVE Calls!Next
  <2>1. Kind[Asked(k)] = "deploy" /\ stack' = stack /\ broken' = TRUE
    BY <1>4 DEF WriteFileFails, AgentAt, ComposeInv
  <2>2. Calls!Effect(Asked(k))
    BY <2>1 DEF Calls!Effect, Calls!Deploy
  <2> QED BY <1>2, <1>4, <2>2 DEF WriteFileFails, AgentAt, Busy, serverVars, Calls!Next
<1>5. ASSUME NEW k \in Conn, Compose(k) PROVE Calls!Next
  <2>1. PICK late \in BOOLEAN : Respond(k, late)
    BY <1>5, ComposeResponds
  <2>2. Calls!Effect(Asked(k))
    <3>1. agent[k].at = "composing" /\ Asked(k) \in Request
      BY <1>5 DEF Compose, AgentAt, TypeInv, BusyHasRequest, Busy
    <3>2. CASE Kind[Asked(k)] = "deploy"
      <4>1. file = Yaml[Asked(k)]
        BY <3>1, <3>2 DEF ComposeInv, Deploying
      <4>2. Calls!Deploy(Asked(k))
        BY <1>5, <3>2, <4>1 DEF Compose, Up, Calls!Deploy
      <4> QED BY <3>2, <4>2 DEF Calls!Effect
    <3>3. CASE Kind[Asked(k)] # "deploy"
      <4>1. Kind[Asked(k)] = "down"
        BY <3>1, <3>3, ConstantsAssumption DEF KindInv, Busy
      <4>2. Calls!Down
        BY <1>5, <3>3 DEF Compose, Down, Calls!Down
      <4> QED BY <4>1, <4>2 DEF Calls!Effect
    <3> QED BY <3>2, <3>3
  <2> QED BY <1>2, <1>5, <2>1, <2>2 DEF Compose, AgentAt, Busy, serverVars, Calls!Next
<1>6. ASSUME NEW q \in Request, Send(q) PROVE Calls!Next
  <2>1. /\ req[q].at = "idle" /\ req'[q].at \in {"waiting", "failed"}
        /\ \A r \in Request \ {q} : req'[r] = req[r]
        /\ UNCHANGED <<handled, stack, broken>>
    BY <1>6 DEF Send, composeVars, TypeInv, TypeOK
  <2>2. \/ Pending' = Pending
        \/ Pending' = Pending \union {q} /\ req'[q].at = "waiting"
    BY <1>6, <2>1, OnceSent
  <2>3. Out[q] = "idle" /\ Out' = [Out EXCEPT ![q] = req'[q].at]
    BY <2>1
  <2>4. Calls!Begin(q)
    BY <2>1, <2>2, <2>3 DEF Calls!Begin
  <2> QED BY <2>4 DEF Calls!Next
<1>7. ASSUME NEW q \in Request, NEW how \in {"answered", "failed"}, Done(q, how),
             req[q].at = "waiting", UNCHANGED <<wireVars, agent, composeVars, handled>>
      PROVE  Calls!Next
  <2>1. req'[q].at = how /\ \A r \in Request \ {q} : req'[r] = req[r]
    BY <1>7 DEF Done, TypeInv, TypeOK
  <2>2. Pending' = Pending
    BY <1>7 DEF Pending, Asked, wireVars
  <2>3. how = "answered" => q \in handled
    BY <1>7, <2>1 DEF AnswerInv, AnswerIsOwn
  <2>4. Out[q] = "waiting" /\ Out' = [Out EXCEPT ![q] = how]
    BY <1>7, <2>1
  <2>5. Calls!Return(q)
    BY <1>7, <2>2, <2>3, <2>4 DEF Calls!Return, composeVars
  <2> QED BY <2>5 DEF Calls!Next
<1>8. ASSUME NEW q \in Request, Receive(q) PROVE [Calls!Next]_(Calls!vars)
  <2>1. CASE Done(q, "answered")
    BY <1>7, <1>8, <2>1 DEF Receive
  <2>2. CASE req' = [req EXCEPT ![q].ch = Tail(@)]
    <3>1. \A r \in Request : req'[r].at = req[r].at
      BY <2>2 DEF TypeInv, TypeOK, RequestRec
    <3>2. Pending' = Pending
      BY <1>8 DEF Receive, Pending, Asked, wireVars
    <3> QED BY <1>0, <1>8, <3>1, <3>2 DEF Receive, composeVars
  <2> QED BY <1>8, <2>1, <2>2 DEF Receive
<1>9. ASSUME NEW q \in Request, TimedOut(q) PROVE Calls!Next
  BY <1>7, <1>9 DEF TimedOut
<1>10. ASSUME NEW k \in Conn, Connect(k) \/ ReadLoopEnds(k) PROVE UNCHANGED Calls!vars
  <2>1. Pending' = Pending
    BY <1>10 DEF Connect, ReadLoopEnds, Pending, Asked
  <2> QED BY <1>0, <1>10, <2>1 DEF Connect, ReadLoopEnds, composeVars
<1>11. ASSUME NEW k \in Conn, ReadResponse(k) \/ ReadStats(k) PROVE UNCHANGED Calls!vars
  <2>1. Pending' = Pending
    BY <1>11 DEF ReadResponse, ReadStats, Pending, Asked, wireVars
  <2>2. \A q \in Request : req'[q].at = req[q].at
    BY <1>11, BroadcastOutcomes DEF ReadResponse, ReadStats, TypeInv
  <2> QED BY <1>0, <1>11, <2>1, <2>2 DEF ReadResponse, ReadStats, composeVars
<1>12. ASSUME NEW k \in Conn, Cut(k) PROVE Calls!Next
  <2>1. Pending' \subseteq Pending
    BY <1>12, OnceLost DEF Cut, serverVars, Asked
  <2> QED BY <1>1, <1>12, <2>1 DEF Cut, serverVars, composeVars, Calls!Next
<1>13. ASSUME NEW k \in Conn, AgentHangsUp(k) PROVE Calls!Next
  <2>1. \A l \in Conn : /\ Asked(l)' = Asked(l)
                        /\ agent'[l].at \in Busy <=> agent[l].at \in Busy
    BY <1>13 DEF AgentHangsUp, AgentAt, AgentGoes, Asked, Busy, TypeInv, TypeOK, AgentRec
  <2>2. Pending' \subseteq Pending
    BY <1>13, <2>1, OnceLost DEF AgentHangsUp, serverVars
  <2> QED BY <1>1, <1>13, <2>2 DEF AgentHangsUp, serverVars, composeVars, Calls!Next
<1>14. ASSUME NEW k \in Conn, AgentReads(k) PROVE UNCHANGED Calls!vars
  BY <1>0, <1>14, OnceRead DEF AgentReads, serverVars, composeVars
<1>15. ASSUME NEW k \in Conn, Lock(k) \/ WriteFile(k) PROVE UNCHANGED Calls!vars
  <2>1. Pending' = Pending
    BY <1>15, OnceGoesOn DEF Lock, WriteFile, AgentAt, Busy, serverVars, wireVars
  <2> QED BY <1>0, <1>15, <2>1 DEF Lock, WriteFile, serverVars
<1>16. CASE UNCHANGED vars
  <2>1. Pending' = Pending
    BY <1>16 DEF vars, wireVars, Pending, Asked
  <2> QED BY <1>0, <1>16, <2>1 DEF vars, serverVars, composeVars
<1> QED
  BY <1>3, <1>4, <1>5, <1>6, <1>8, <1>9, <1>10, <1>11, <1>12, <1>13, <1>14, <1>15, <1>16
  DEF Next, RequestStep, ComposeStep, ConnStep

\* Requests take effect at most once, one after the other and in one piece, and before
\* they are answered, whatever connections break and deadlines pass (Conn.Request,
\* serveConn, composeMutex).
THEOREM NodeRequestsImplementCalls == Spec => ImplementsCalls
<1>1. Init => Calls!Init
  <2> SUFFICES ASSUME Init PROVE Calls!Init
    OBVIOUS
  <2>1. \A k \in Conn : Asked(k) = NoOne /\ 1..Len(toAgent[k]) = {}
    <3>1. Len(<<>>) = 0
      OBVIOUS
    <3> QED BY <3>1 DEF Init, Asked
  <2>2. Pending = {}
    BY <2>1, ConstantsAssumption DEF Pending
  <2> QED BY <2>2 DEF Init, Calls!Init
<1>2. TypeInv /\ ComposeInv /\ AnswerInv /\ AnswerInv' /\ OnceInv /\ KindInv /\ [Next]_vars
        => [Calls!Next]_(Calls!vars)
  BY CallsStep
<1> QED BY <1>1, <1>2, CallsInvariant, PTL DEF Spec, ImplementsCalls, Calls!Spec
=============================================================================
