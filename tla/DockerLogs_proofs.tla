------------------------- MODULE DockerLogs_proofs -------------------------
(* Proofs about DockerLogs, for any number of viewers and any bounds.        *)
EXTENDS DockerLogs, TLAPS

\* What the two safety properties need from each other: both together are
\* inductive, given the types.
RegistryInv == FollowIsRegistered /\ RegisteredIsRunning

\* Every variable keeps its type: the queues hold requests and envelopes only.
THEOREM TypeCorrect == Spec => []TypeOK
<1>1. Init => TypeOK
  BY ConstantsAssumption DEF Init, TypeOK, OnlySubscribed, StreamRec, StreamPC, ViewerPC
<1>2. TypeOK /\ [Next]_vars => TypeOK'
  <2> SUFFICES ASSUME TypeOK, [Next]_vars PROVE TypeOK'
    OBVIOUS
  <2> USE DEF TypeOK
  <2>0. UNCHANGED <<viewer, sub>> => OnlySubscribed'
    BY DEF OnlySubscribed
  <2>1. ASSUME NEW e \in Envelope, SendToServer(e) PROVE toServer' \in Seq(Envelope)
    BY <2>1 DEF SendToServer
  <2>2. ASSUME NEW r \in Request, SendToAgent(r) PROVE toAgent' \in Seq(Request)
    BY <2>2 DEF SendToAgent
  <2>3. ASSUME NEW v \in Viewer, NEW from \in StreamPC, NEW to \in StreamPC,
               StreamGoesTo(v, from, to)
        PROVE  stream' \in [Viewer -> StreamRec]
    BY <2>3 DEF StreamGoesTo, StreamRec
  <2>4. ASSUME toAgent # <<>>
        PROVE  /\ Head(toAgent).from \in Viewer
               /\ Tail(toAgent) \in Seq(Request)
    <3>1. Head(toAgent) \in Request /\ Tail(toAgent) \in Seq(Request)
      BY <2>4
    <3> QED BY <3>1 DEF Request
  <2>5. \A s \in Viewer \union {NoStream} : Cancelled(s) \in [Viewer -> StreamRec]
    BY DEF Cancelled, StreamRec
  <2>6. CASE StreamLogs
    <3> DEFINE v == Head(toAgent).from
    <3>1. v \in Viewer /\ toAgent' \in Seq(Request)
      BY <2>4, <2>6 DEF StreamLogs
    <3>2. stream' \in [Viewer -> StreamRec]
      <4>1. stream' = [Cancelled(registered) EXCEPT ![v].pc = "opening"]
        BY <2>6 DEF StreamLogs
      <4>2. Cancelled(registered) \in [Viewer -> StreamRec]
        BY <2>5
      <4> QED BY <4>1, <4>2, <3>1 DEF StreamRec, StreamPC
    <3> QED BY <3>1, <3>2, <2>0, <2>6 DEF StreamLogs, serverVars
  <2>7. CASE StreamLogsRespond
    <3>1. agent \in Viewer /\ SendToServer([type |-> "response", of |-> agent])
      BY <2>7 DEF StreamLogsRespond
    <3>2. toServer' \in Seq(Envelope)
      BY <3>1, <2>1 DEF Envelope
    <3> QED BY <3>2, <2>0, <2>7 DEF StreamLogsRespond, serverVars
  <2>8. CASE StopLogs
    <3>1. stream' \in [Viewer -> StreamRec] /\ toAgent' \in Seq(Request)
      BY <2>4, <2>5, <2>8 DEF StopLogs
    <3> QED BY <3>1, <2>0, <2>8 DEF StopLogs, serverVars
  <2>9. ASSUME NEW v \in Viewer,
               StreamOpen(v) \/ StreamOpenFail(v) \/ StreamEof(v)
        PROVE  TypeOK'
    <3>1. stream' \in [Viewer -> StreamRec]
      BY <2>9, <2>3 DEF StreamOpen, StreamOpenFail, StreamEof, StreamPC
    <3> QED BY <3>1, <2>0, <2>9 DEF StreamOpen, StreamOpenFail, StreamEof, serverVars
  <2>10. ASSUME NEW v \in Viewer, StreamLine(v) PROVE TypeOK'
    <3>1. toServer' \in Seq(Envelope)
      BY <2>10, <2>1 DEF StreamLine, Envelope
    <3>2. stream[v].lines + 1 \in 0..MaxLines
      <4>1. stream[v].lines \in 0..MaxLines /\ stream[v].lines < MaxLines
        BY <2>10 DEF StreamLine, StreamRec
      <4> QED BY <4>1, ConstantsAssumption
    <3>3. [stream[v] EXCEPT !.lines = @ + 1] \in StreamRec
      BY <3>2 DEF StreamRec
    <3>4. stream' \in [Viewer -> StreamRec]
      BY <2>10, <3>3 DEF StreamLine
    <3> QED BY <3>1, <3>4, <2>0, <2>10 DEF StreamLine, serverVars
  <2>11. ASSUME NEW v \in Viewer, StreamEnd(v) PROVE TypeOK'
    <3>1. toServer' \in Seq(Envelope)
      BY <2>11, <2>1 DEF StreamEnd, Envelope
    <3>2. stream' \in [Viewer -> StreamRec]
      BY <2>11, <2>3 DEF StreamEnd, StreamPC
    <3> QED BY <3>1, <3>2, <2>0, <2>11 DEF StreamEnd, serverVars
  <2>12. ASSUME NEW v \in Viewer, StreamCleanup(v) PROVE TypeOK'
    <3>1. stream' \in [Viewer -> StreamRec]
      BY <2>12, <2>3 DEF StreamCleanup, StreamPC
    <3> QED BY <3>1, <2>0, <2>12 DEF StreamCleanup, serverVars
  <2>13. ASSUME NEW v \in Viewer, DoneClosed(v) PROVE TypeOK'
    <3>1. stream' \in [Viewer -> StreamRec]
      BY <2>13 DEF DoneClosed, StreamRec
    <3> QED BY <3>1, <2>0, <2>13 DEF DoneClosed, serverVars
  <2>14. CASE ReadLoop
    <3>1. toServer # <<>> /\ toServer' = Tail(toServer) /\ Head(toServer) \in Envelope
      BY <2>14 DEF ReadLoop
    <3>2. viewer' \in [Viewer -> ViewerPC]
      BY <2>14, <3>1 DEF ReadLoop, Envelope, ViewerPC
    <3>3. sub' \in [Viewer -> Seq(Envelope)]
      <4>1. \A v \in Viewer :
              /\ sub[v] \in Seq(Envelope)
              /\ Append(sub[v], Head(toServer)) \in Seq(Envelope)
        BY <3>1
      <4>2. CASE sub' = sub
        BY <4>2
      <4>3. CASE Broadcast(Head(toServer))
        BY <4>1, <4>3 DEF Broadcast
      <4> QED BY <2>14, <4>2, <4>3 DEF ReadLoop
    <3>4. OnlySubscribed'
      BY <2>14 DEF ReadLoop, Broadcast, OnlySubscribed
    <3> QED BY <3>1, <3>2, <3>3, <3>4, <2>14 DEF ReadLoop, agentVars
  <2>15. ASSUME NEW v \in Viewer, LogsOpen(v) PROVE TypeOK'
    <3>1. toAgent' \in Seq(Request)
      BY <2>15, <2>2 DEF LogsOpen, Request
    <3> QED BY <3>1, <2>15 DEF LogsOpen, ViewerPC, agentVars, OnlySubscribed
  <2>16. ASSUME NEW v \in Viewer, LogsTimeout(v) \/ LogsSubscribe(v) PROVE TypeOK'
    BY <2>16 DEF LogsTimeout, LogsSubscribe, ViewerPC, agentVars, OnlySubscribed
  <2>17. ASSUME NEW v \in Viewer, LogsRelay(v) PROVE TypeOK'
    <3>1. sub' \in [Viewer -> Seq(Envelope)]
      BY <2>17 DEF LogsRelay
    <3>2. shown' \in [Viewer -> {"stream", "ended", "resumed"}]
      BY <2>17 DEF LogsRelay, Show
    <3>3. OnlySubscribed'
      BY <2>17 DEF LogsRelay, OnlySubscribed
    <3> QED BY <3>1, <3>2, <3>3, <2>17 DEF LogsRelay, agentVars
  <2>18. ASSUME NEW v \in Viewer, LogsWriteFail(v) PROVE TypeOK'
    BY <2>18 DEF LogsWriteFail, ViewerPC, agentVars, OnlySubscribed
  <2>19. ASSUME NEW v \in Viewer, LogsClosed(v) PROVE TypeOK'
    <3>1. toAgent' \in Seq(Request)
      BY <2>19, <2>2 DEF LogsClosed, Request
    <3> QED BY <3>1, <2>19 DEF LogsClosed, ViewerPC, agentVars, OnlySubscribed
  <2>20. ASSUME NEW v \in Viewer, BrowserGone(v) PROVE TypeOK'
    BY <2>20, <2>0 DEF BrowserGone, agentVars, serverVars
  <2>21. CASE LinkBreak
    <3>1. toAgent' \in Seq(Request) /\ toServer' \in Seq(Envelope)
      BY <2>21 DEF LinkBreak
    <3>2. up' \in BOOLEAN /\ UNCHANGED <<agent, registered, stream, viewer, sub, shown, browser>>
      BY <2>21 DEF LinkBreak, agentVars, serverVars
    <3> QED BY <3>1, <3>2, <2>0
  <2>22. CASE UNCHANGED vars
    BY <2>22, <2>0 DEF vars, agentVars, serverVars
  <2> QED
    BY <2>6, <2>7, <2>8, <2>9, <2>10, <2>11, <2>12, <2>13, <2>14, <2>15, <2>16,
       <2>17, <2>18, <2>19, <2>20, <2>21, <2>22
    DEF Next, AgentReadLoop, StreamStep, HandlerStep
<1> QED BY <1>1, <1>2, PTL DEF Spec

\* Steps that leave the registry and the streams alone keep RegistryInv.
LEMMA RegistryUntouched ==
  ASSUME RegistryInv, UNCHANGED <<registered, stream>>
  PROVE  RegistryInv'
BY DEF RegistryInv, FollowIsRegistered, RegisteredIsRunning, Follows

\* Every uncancelled follow of the container is the registered one, and the
\* registered one is running: restart, stop, end and loss of the connection in
\* any order, of any number of viewers, leave no follow that nothing can stop.
THEOREM RegistryAlways == Spec => []RegistryInv
<1> USE ConstantsAssumption
<1>1. Init => RegistryInv
  BY DEF Init, RegistryInv, FollowIsRegistered, RegisteredIsRunning, Follows
<1>2. TypeOK /\ RegistryInv /\ [Next]_vars => RegistryInv'
  <2> SUFFICES ASSUME TypeOK, RegistryInv, [Next]_vars PROVE RegistryInv'
    OBVIOUS
  <2>0. stream \in [Viewer -> StreamRec] /\ registered \in Viewer \union {NoStream}
    BY DEF TypeOK
  <2> USE <2>0 DEF RegistryInv, FollowIsRegistered, RegisteredIsRunning, Follows,
                   StreamRec
  <2>1. CASE StreamLogs
    <3> DEFINE v == Head(toAgent).from
    <3>1. v \in Viewer /\ registered' = v
      <4>1. Head(toAgent) \in Request
        BY <2>1 DEF StreamLogs, TypeOK
      <4> QED BY <2>1, <4>1 DEF StreamLogs, Request
    <3>2. \A w \in Viewer \ {v} :
            /\ stream'[w].pc = stream[w].pc
            /\ stream'[w].cancelled = (stream[w].cancelled \/ w = registered)
      BY <2>1 DEF StreamLogs, Cancelled
    <3>3. stream'[v].pc = "opening"
      BY <2>1, <3>1 DEF StreamLogs, Cancelled
    <3>4. FollowIsRegistered'
      BY <3>1, <3>2
    <3> QED BY <3>1, <3>3, <3>4
  <2>2. CASE StopLogs
    BY <2>2 DEF StopLogs, Cancelled
  <2>3. ASSUME NEW v \in Viewer,
               StreamOpen(v) \/ StreamOpenFail(v) \/ StreamEof(v) \/ StreamEnd(v)
        PROVE  RegistryInv'
    BY <2>3 DEF StreamOpen, StreamOpenFail, StreamEof, StreamEnd, StreamGoesTo
  <2>4. ASSUME NEW v \in Viewer, StreamLine(v) PROVE RegistryInv'
    BY <2>4 DEF StreamLine
  <2>5. ASSUME NEW v \in Viewer, StreamCleanup(v) PROVE RegistryInv'
    BY <2>5 DEF StreamCleanup, StreamGoesTo
  <2>6. ASSUME NEW v \in Viewer, DoneClosed(v) PROVE RegistryInv'
    BY <2>6 DEF DoneClosed
  <2>7. ASSUME StreamLogsRespond \/ ReadLoop \/ LinkBreak PROVE RegistryInv'
    <3>1. UNCHANGED <<registered, stream>>
      BY <2>7 DEF StreamLogsRespond, ReadLoop, LinkBreak, agentVars
    <3> QED BY <3>1, RegistryUntouched
  <2>8. ASSUME NEW v \in Viewer,
               \/ LogsOpen(v) \/ LogsTimeout(v) \/ HandlerStep(v) \/ BrowserGone(v)
        PROVE  RegistryInv'
    <3>1. UNCHANGED <<registered, stream>>
      BY <2>8 DEF LogsOpen, LogsTimeout, HandlerStep, LogsSubscribe, LogsRelay,
                  LogsWriteFail, LogsClosed, BrowserGone, agentVars
    <3> QED BY <3>1, RegistryUntouched
  <2>9. CASE UNCHANGED vars
    BY <2>9, RegistryUntouched DEF vars, agentVars
  <2> QED
    BY <2>1, <2>2, <2>3, <2>4, <2>5, <2>6, <2>7, <2>8, <2>9
    DEF Next, AgentReadLoop, StreamStep
<1> QED BY <1>1, <1>2, TypeCorrect, PTL DEF Spec

\* a.streams names the only stream of the container that may still follow.
THEOREM FollowIsRegisteredAlways == Spec => []FollowIsRegistered
<1>1. RegistryInv => FollowIsRegistered
  BY DEF RegistryInv
<1> QED BY <1>1, RegistryAlways, PTL

\* a.streams never names a stream whose goroutine has ended.
THEOREM RegisteredIsRunningAlways == Spec => []RegisteredIsRunning
<1>1. RegistryInv => RegisteredIsRunning
  BY DEF RegistryInv
<1> QED BY <1>1, RegistryAlways, PTL

-----------------------------------------------------------------------------
(* Every viewer asks once                                                   *)

Asked(v, i) == i \in 1..Len(toAgent) /\ toAgent[i].type = "logs" /\ toAgent[i].from = v

\* A viewer asks at most once, and its stream starts after that.
RequestInv ==
  \A v \in Viewer :
    /\ viewer[v] = "idle" => stream[v].pc = "none"
    /\ \A i \in 1..Len(toAgent) : Asked(v, i) =>
         /\ stream[v].pc = "none"
         /\ viewer[v] # "idle"
         /\ \A j \in 1..Len(toAgent) : Asked(v, j) => i = j

\* A step that sends no logs request and starts no stream.
LEMMA RequestsKept ==
  ASSUME RequestInv,
         \A v \in Viewer : /\ viewer'[v] = "idle" => viewer[v] = "idle"
                           /\ viewer[v] # "idle" => viewer'[v] # "idle"
                           /\ stream[v].pc = "none" => stream'[v].pc = "none",
         \/ UNCHANGED toAgent
         \/ toAgent' = <<>>
         \/ toAgent \in Seq(Request) /\ toAgent # <<>> /\ toAgent' = Tail(toAgent)
         \/ \E r \in Request : toAgent \in Seq(Request) /\ r.type = "stop" /\ SendToAgent(r)
  PROVE  RequestInv'
<1>1. CASE UNCHANGED toAgent
  BY <1>1 DEF RequestInv, Asked
<1>2. CASE toAgent' = <<>>
  BY <1>2 DEF RequestInv, Asked
<1>3. CASE toAgent \in Seq(Request) /\ toAgent # <<>> /\ toAgent' = Tail(toAgent)
  <2>1. \A i \in 1..Len(toAgent') : i + 1 \in 1..Len(toAgent) /\ toAgent'[i] = toAgent[i + 1]
    BY <1>3
  <2>2. \A v \in Viewer, i \in 1..Len(toAgent') : Asked(v, i)' => Asked(v, i + 1)
    BY <2>1 DEF Asked
  <2>3. \A i, j \in 1..Len(toAgent') : i + 1 = j + 1 => i = j
    BY <1>3
  <2> QED BY <2>1, <2>2, <2>3 DEF RequestInv
<1>4. ASSUME NEW r \in Request, toAgent \in Seq(Request), r.type = "stop", SendToAgent(r)
      PROVE  RequestInv'
  <2>1. CASE toAgent' = Append(toAgent, r)
    <3>1. \A i \in 1..Len(toAgent') : toAgent'[i].type = "logs" =>
            i \in 1..Len(toAgent) /\ toAgent'[i] = toAgent[i]
      BY <1>4, <2>1
    <3>2. \A v \in Viewer, i \in 1..Len(toAgent') : Asked(v, i)' => Asked(v, i)
      BY <3>1 DEF Asked
    <3> QED BY <3>1, <3>2 DEF RequestInv, Asked
  <2> QED BY <1>1, <1>4, <2>1 DEF SendToAgent
<1> QED BY <1>1, <1>2, <1>3, <1>4

LEMMA RequestInvNext == TypeOK /\ RequestInv /\ [Next]_vars => RequestInv'
<1> SUFFICES ASSUME TypeOK, RequestInv, [Next]_vars PROVE RequestInv'
  OBVIOUS
<1>0. /\ toAgent \in Seq(Request) /\ viewer \in [Viewer -> ViewerPC]
      /\ stream \in [Viewer -> StreamRec] /\ registered \in Viewer \union {NoStream}
  BY DEF TypeOK
<1>a. toAgent # <<>> => Head(toAgent).from \in Viewer
  <2>1. toAgent # <<>> => Head(toAgent) \in Request
    BY <1>0
  <2> QED BY <2>1 DEF Request
<1>1. CASE StreamLogs
  <2> DEFINE v == Head(toAgent).from
  <2>1. /\ toAgent # <<>> /\ Head(toAgent).type = "logs" /\ v \in Viewer
        /\ toAgent' = Tail(toAgent) /\ UNCHANGED viewer
    BY <1>1, <1>a DEF StreamLogs, serverVars
  <2>2. Asked(v, 1) /\ 1 \in 1..Len(toAgent)
    BY <1>0, <2>1 DEF Asked
  <2>3. \A i \in 1..Len(toAgent') : i + 1 \in 1..Len(toAgent) /\ toAgent'[i] = toAgent[i + 1]
    BY <1>0, <2>1
  <2>4. \A w \in Viewer, i \in 1..Len(toAgent') : Asked(w, i)' => Asked(w, i + 1) /\ w # v
    <3>1. \A i \in 1..Len(toAgent') : i + 1 # 1
      BY <1>0
    <3> QED BY <2>1, <2>2, <2>3, <3>1 DEF Asked, RequestInv
  <2>5. \A w \in Viewer : w # v => stream'[w].pc = stream[w].pc
    BY <1>0, <1>1, <2>1 DEF StreamLogs, Cancelled, StreamRec
  <2>6. viewer[v] # "idle"
    BY <2>1, <2>2 DEF RequestInv
  <2>7. \A i, j \in 1..Len(toAgent') : i + 1 = j + 1 => i = j
    BY <1>0
  <2> HIDE DEF v
  <2> QED BY <2>1, <2>3, <2>4, <2>5, <2>6, <2>7 DEF RequestInv
<1>2. CASE StopLogs
  <2>1. \A v \in Viewer : stream'[v].pc = stream[v].pc
    BY <1>0, <1>2 DEF StopLogs, Cancelled, StreamRec
  <2> QED BY <1>0, <1>2, <2>1, RequestsKept DEF StopLogs, serverVars
<1>3. ASSUME NEW v \in Viewer,
             \/ StreamOpen(v) \/ StreamOpenFail(v) \/ StreamEof(v) \/ StreamEnd(v)
             \/ StreamCleanup(v)
      PROVE  RequestInv'
  <2>1. \A w \in Viewer : stream[w].pc = "none" => stream'[w].pc = "none"
    BY <1>0, <1>3 DEF StreamOpen, StreamOpenFail, StreamEof, StreamEnd, StreamCleanup,
                      StreamGoesTo, StreamRec
  <2> QED BY <1>3, <2>1, RequestsKept
        DEF StreamOpen, StreamOpenFail, StreamEof, StreamEnd, StreamCleanup, serverVars
<1>4. ASSUME NEW v \in Viewer, StreamLine(v) \/ DoneClosed(v) PROVE RequestInv'
  <2>1. \A w \in Viewer : stream[w].pc = "none" => stream'[w].pc = "none"
    BY <1>0, <1>4 DEF StreamLine, DoneClosed, StreamRec
  <2> QED BY <1>4, <2>1, RequestsKept DEF StreamLine, DoneClosed, serverVars
<1>5. CASE ReadLoop
  <2>1. \A w \in Viewer : /\ viewer'[w] = "idle" => viewer[w] = "idle"
                          /\ viewer[w] # "idle" => viewer'[w] # "idle"
    BY <1>0, <1>5 DEF ReadLoop
  <2> QED BY <1>5, <2>1, RequestsKept DEF ReadLoop, agentVars
<1>6. ASSUME NEW v \in Viewer, LogsOpen(v) PROVE RequestInv'
  <2> DEFINE r == [type |-> "logs", from |-> v]
  <2>1. /\ viewer[v] = "idle" /\ viewer' = [viewer EXCEPT ![v] = "requesting"]
        /\ toAgent' = Append(toAgent, r) /\ UNCHANGED stream
    BY <1>6 DEF LogsOpen, SendToAgent, agentVars
  <2>2. r \in Request /\ r.from = v
    BY DEF Request
  <2>3. \A i \in 1..Len(toAgent) : ~Asked(v, i)
    BY <2>1 DEF RequestInv
  <2> HIDE DEF r
  <2>4. \A i \in 1..Len(toAgent') :
          \/ i \in 1..Len(toAgent) /\ toAgent'[i] = toAgent[i]
          \/ i = Len(toAgent) + 1 /\ toAgent'[i].from = v
    BY <1>0, <2>1, <2>2
  <2>5. \A w \in Viewer, i \in 1..Len(toAgent') :
          Asked(w, i)' => \/ w # v /\ Asked(w, i) /\ i \in 1..Len(toAgent)
                          \/ w = v /\ i = Len(toAgent) + 1
    BY <2>3, <2>4 DEF Asked
  <2> QED BY <1>0, <2>1, <2>5 DEF RequestInv
<1>7. ASSUME NEW v \in Viewer, LogsClosed(v) PROVE RequestInv'
  <2>1. \A w \in Viewer : /\ viewer'[w] = "idle" => viewer[w] = "idle"
                          /\ viewer[w] # "idle" => viewer'[w] # "idle"
    BY <1>0, <1>7 DEF LogsClosed
  <2>2. [type |-> "stop", from |-> v] \in Request
    BY DEF Request
  <2> QED BY <1>0, <1>7, <2>1, <2>2, RequestsKept DEF LogsClosed, agentVars
<1>8. ASSUME NEW v \in Viewer, LogsTimeout(v) \/ LogsSubscribe(v) \/ LogsWriteFail(v)
      PROVE  RequestInv'
  <2>1. \A w \in Viewer : /\ viewer'[w] = "idle" => viewer[w] = "idle"
                          /\ viewer[w] # "idle" => viewer'[w] # "idle"
    BY <1>0, <1>8 DEF LogsTimeout, LogsSubscribe, LogsWriteFail
  <2> QED BY <1>8, <2>1, RequestsKept DEF LogsTimeout, LogsSubscribe, LogsWriteFail, agentVars
<1>9. ASSUME \/ StreamLogsRespond \/ LinkBreak \/ UNCHANGED vars
             \/ \E v \in Viewer : LogsRelay(v) \/ BrowserGone(v)
      PROVE  RequestInv'
  <2>1. UNCHANGED <<stream, viewer>> /\ (UNCHANGED toAgent \/ toAgent' = <<>>)
    BY <1>9 DEF StreamLogsRespond, LinkBreak, LogsRelay, BrowserGone, vars, agentVars, serverVars
  <2> QED BY <2>1, RequestsKept
<1> QED
  BY <1>1, <1>2, <1>3, <1>4, <1>5, <1>6, <1>7, <1>8, <1>9
  DEF Next, AgentReadLoop, StreamStep, HandlerStep

-----------------------------------------------------------------------------
(* The order of lines and ends                                              *)

Has(q, type) == \E i \in 1..Len(q) : q[i].type = type
EndsLast(q) ==
  \A i, j \in 1..Len(q) : i < j /\ q[i].type = "end" => q[j].type # "line"

LEMMA OrderOfEmpty == EndsLast(<<>>) /\ \A type : ~Has(<<>>, type)
BY DEF EndsLast, Has

LEMMA OrderOfAppend ==
  ASSUME NEW q \in Seq(Envelope), NEW e \in Envelope
  PROVE  /\ \A type : Has(Append(q, e), type) <=> Has(q, type) \/ e.type = type
         /\ EndsLast(q) /\ ~(e.type = "line" /\ Has(q, "end")) => EndsLast(Append(q, e))
<1>1. /\ Len(Append(q, e)) = Len(q) + 1 /\ Len(q) \in Nat
      /\ Append(q, e)[Len(q) + 1] = e
      /\ \A i \in 1..Len(q) : Append(q, e)[i] = q[i]
  OBVIOUS
<1>2. \A i \in 1..Len(Append(q, e)) : i \in 1..Len(q) \/ i = Len(q) + 1
  BY <1>1
<1>3. ASSUME NEW type PROVE Has(Append(q, e), type) <=> Has(q, type) \/ e.type = type
  BY <1>1, <1>2 DEF Has
<1>4. ASSUME EndsLast(q), ~(e.type = "line" /\ Has(q, "end")) PROVE EndsLast(Append(q, e))
  <2> SUFFICES ASSUME NEW i \in 1..Len(Append(q, e)), NEW j \in 1..Len(Append(q, e)), i < j,
                      Append(q, e)[i].type = "end", Append(q, e)[j].type = "line"
               PROVE  FALSE
    BY DEF EndsLast
  <2>1. i \in 1..Len(q) /\ q[i].type = "end" /\ Has(q, "end")
    BY <1>1, <1>2 DEF Has
  <2>2. CASE j \in 1..Len(q)
    BY <1>1, <1>4, <2>1, <2>2 DEF EndsLast
  <2>3. CASE j = Len(q) + 1
    BY <1>1, <1>4, <2>1, <2>3
  <2> QED BY <1>2, <2>2, <2>3
<1> QED BY <1>3, <1>4

LEMMA OrderOfTail ==
  ASSUME NEW q \in Seq(Envelope), q # <<>>
  PROVE  /\ \A type : Has(Tail(q), type) => Has(q, type)
         /\ Has(q, Head(q).type)
         /\ EndsLast(q) => EndsLast(Tail(q))
         /\ EndsLast(q) /\ Head(q).type = "end" => ~Has(Tail(q), "line")
<1>1. /\ Len(Tail(q)) = Len(q) - 1 /\ Len(q) \in Nat \ {0} /\ Head(q) = q[1]
      /\ \A i \in 1..Len(Tail(q)) : Tail(q)[i] = q[i + 1]
  OBVIOUS
<1>2. /\ 1 \in 1..Len(q)
      /\ \A i \in 1..Len(Tail(q)) : i + 1 \in 1..Len(q) /\ 1 < i + 1
      /\ \A i, j \in 1..Len(Tail(q)) : i < j => i + 1 < j + 1
  BY <1>1
<1> QED BY <1>1, <1>2 DEF Has, EndsLast

\* No other viewer has opened a stream of the container.
Alone(v) == \A w \in Viewer \ {v} : stream[w].pc = "none"

\* The browser of v has been sent an end, or is about to be.
Ended(v) == shown[v] # "stream" \/ Has(sub[v], "end")

\* Along the way from the agent through the channel to the browser, nothing of a
\* stream that is alone follows its end; no part of the way can be left out.
OrderInv ==
  \A v \in Viewer : Alone(v) =>
    /\ shown[v] # "resumed"
    /\ ~Has(sub[v], "response")
    /\ EndsLast(sub[v]) /\ EndsLast(toServer)
    /\ shown[v] # "stream" => ~Has(sub[v], "line")
    /\ Ended(v) => ~Has(toServer, "line")
    /\ Ended(v) \/ Has(toServer, "end") => stream[v].pc \in {"cleanup", "over"}

LEMMA OrderInvInit == Init => OrderInv
<1> SUFFICES ASSUME Init PROVE OrderInv
  OBVIOUS
<1>1. toServer = <<>> /\ \A v \in Viewer : sub[v] = <<>> /\ shown[v] = "stream"
  BY DEF Init
<1> QED BY <1>1, OrderOfEmpty DEF OrderInv, Ended

\* A step of the streams that sends nothing: they stay ended and stay started.
LEMMA OrderKept ==
  ASSUME OrderInv, UNCHANGED <<shown, sub>>, toServer' = toServer \/ toServer' = <<>>,
         \A v \in Viewer :
           /\ stream'[v].pc = "none" => stream[v].pc = "none"
           /\ stream[v].pc \in {"cleanup", "over"} => stream'[v].pc \in {"cleanup", "over"}
  PROVE  OrderInv'
<1> SUFFICES ASSUME NEW v \in Viewer, Alone(v)'
             PROVE  /\ shown[v] # "resumed"
                    /\ ~Has(sub[v], "response")
                    /\ EndsLast(sub[v]) /\ EndsLast(toServer')
                    /\ shown[v] # "stream" => ~Has(sub[v], "line")
                    /\ Ended(v) => ~Has(toServer', "line")
                    /\ Ended(v) \/ Has(toServer', "end") => stream'[v].pc \in {"cleanup", "over"}
  BY DEF OrderInv, Ended
<1>1. Alone(v)
  BY DEF Alone
<1> QED BY <1>1, OrderOfEmpty DEF OrderInv

LEMMA OrderInvNext == TypeOK /\ RequestInv /\ OrderInv /\ [Next]_vars => OrderInv'
<1> SUFFICES ASSUME TypeOK, RequestInv, OrderInv, [Next]_vars PROVE OrderInv'
  OBVIOUS
<1>0. /\ toServer \in Seq(Envelope) /\ toAgent \in Seq(Request)
      /\ stream \in [Viewer -> StreamRec] /\ registered \in Viewer \union {NoStream}
      /\ sub \in [Viewer -> Seq(Envelope)]
      /\ shown \in [Viewer -> {"stream", "ended", "resumed"}]
  BY DEF TypeOK
<1>1. CASE StreamLogs
  <2> DEFINE v == Head(toAgent).from
  <2>1. toAgent # <<>> /\ Head(toAgent).type = "logs" /\ Head(toAgent) \in Request
    BY <1>0, <1>1 DEF StreamLogs
  <2>2. v \in Viewer /\ Asked(v, 1) /\ 1 \in 1..Len(toAgent)
    BY <1>0, <2>1 DEF Asked, Request
  <2>3. stream[v].pc = "none"
    BY <2>2 DEF RequestInv
  <2>4. /\ stream'[v].pc = "opening"
        /\ \A w \in Viewer : w # v => stream'[w].pc = stream[w].pc
    BY <1>0, <1>1, <2>2 DEF StreamLogs, Cancelled, StreamRec
  <2> HIDE DEF v
  <2> QED BY <1>1, <2>2, <2>3, <2>4, OrderKept DEF StreamLogs, serverVars
<1>2. CASE StopLogs
  <2>1. \A v \in Viewer : stream'[v].pc = stream[v].pc
    BY <1>0, <1>2 DEF StopLogs, Cancelled, StreamRec
  <2> QED BY <1>2, <2>1, OrderKept DEF StopLogs, serverVars
<1>3. ASSUME NEW v \in Viewer,
             \/ StreamOpen(v) \/ StreamOpenFail(v) \/ StreamEof(v) \/ StreamCleanup(v)
             \/ DoneClosed(v)
      PROVE  OrderInv'
  <2>1. \A w \in Viewer :
          /\ stream'[w].pc = "none" => stream[w].pc = "none"
          /\ stream[w].pc \in {"cleanup", "over"} => stream'[w].pc \in {"cleanup", "over"}
    BY <1>0, <1>3 DEF StreamOpen, StreamOpenFail, StreamEof, StreamCleanup, DoneClosed,
                      StreamGoesTo, StreamRec
  <2> QED BY <1>3, <2>1, OrderKept
        DEF StreamOpen, StreamOpenFail, StreamEof, StreamCleanup, DoneClosed, serverVars
<1>4. CASE StreamLogsRespond
  <2> DEFINE e == [type |-> "response", of |-> agent]
  <2>1. e \in Envelope /\ e.type = "response"
    BY <1>4 DEF StreamLogsRespond, TypeOK, Envelope
  <2>2. toServer' = toServer \/ toServer' = Append(toServer, e)
    BY <1>4 DEF StreamLogsRespond, SendToServer
  <2> HIDE DEF e
  <2>3. /\ EndsLast(toServer) => EndsLast(toServer')
        /\ Has(toServer', "line") => Has(toServer, "line")
        /\ Has(toServer', "end") => Has(toServer, "end")
    <3>1. /\ \A type : Has(Append(toServer, e), type) <=> Has(toServer, type) \/ e.type = type
          /\ EndsLast(toServer) /\ ~(e.type = "line" /\ Has(toServer, "end")) =>
               EndsLast(Append(toServer, e))
      BY <1>0, <2>1, OrderOfAppend
    <3>2. CASE toServer' = toServer
      BY <3>2
    <3>3. CASE toServer' = Append(toServer, e)
      BY <2>1, <3>1, <3>3
    <3> QED BY <2>2, <3>2, <3>3
  <2>4. UNCHANGED <<shown, sub, stream>>
    BY <1>4 DEF StreamLogsRespond, serverVars
  <2> QED BY <2>3, <2>4 DEF OrderInv, Ended, Alone
<1>5. ASSUME NEW v \in Viewer, StreamLine(v) PROVE OrderInv'
  <2> DEFINE e == [type |-> "line", of |-> v]
  <2>1. e \in Envelope /\ e.type = "line"
    BY DEF Envelope
  <2>2. /\ toServer' = toServer \/ toServer' = Append(toServer, e)
        /\ stream[v].pc = "following"
        /\ \A w \in Viewer : stream'[w].pc = stream[w].pc
        /\ UNCHANGED <<shown, sub>>
    BY <1>0, <1>5 DEF StreamLine, SendToServer, serverVars, StreamRec
  <2> HIDE DEF e
  <2>3. /\ EndsLast(toServer) /\ ~Has(toServer, "end") => EndsLast(toServer')
        /\ Has(toServer', "end") => Has(toServer, "end")
    <3>1. /\ \A type : Has(Append(toServer, e), type) <=> Has(toServer, type) \/ e.type = type
          /\ EndsLast(toServer) /\ ~(e.type = "line" /\ Has(toServer, "end")) =>
               EndsLast(Append(toServer, e))
      BY <1>0, <2>1, OrderOfAppend
    <3>2. CASE toServer' = toServer
      BY <3>2
    <3>3. CASE toServer' = Append(toServer, e)
      BY <2>1, <3>1, <3>3
    <3> QED BY <2>2, <3>2, <3>3
  <2>4. \A w \in Viewer : Alone(w)' => Alone(w) /\ w = v
    BY <2>2 DEF Alone
  <2> QED BY <2>2, <2>3, <2>4 DEF OrderInv, Ended
<1>6. ASSUME NEW v \in Viewer, StreamEnd(v) PROVE OrderInv'
  <2> DEFINE e == [type |-> "end", of |-> v]
  <2>1. e \in Envelope /\ e.type = "end"
    BY DEF Envelope
  <2>2. /\ toServer' = toServer \/ toServer' = Append(toServer, e)
        /\ stream[v].pc = "ending" /\ stream'[v].pc = "cleanup"
        /\ \A w \in Viewer : w # v => stream'[w].pc = stream[w].pc
        /\ UNCHANGED <<shown, sub>>
    BY <1>0, <1>6 DEF StreamEnd, StreamGoesTo, SendToServer, serverVars, StreamRec
  <2> HIDE DEF e
  <2>3. /\ EndsLast(toServer) => EndsLast(toServer')
        /\ Has(toServer', "line") => Has(toServer, "line")
    <3>1. /\ \A type : Has(Append(toServer, e), type) <=> Has(toServer, type) \/ e.type = type
          /\ EndsLast(toServer) /\ ~(e.type = "line" /\ Has(toServer, "end")) =>
               EndsLast(Append(toServer, e))
      BY <1>0, <2>1, OrderOfAppend
    <3>2. CASE toServer' = toServer
      BY <3>2
    <3>3. CASE toServer' = Append(toServer, e)
      BY <2>1, <3>1, <3>3
    <3> QED BY <2>2, <3>2, <3>3
  <2>4. \A w \in Viewer : Alone(w)' => Alone(w) /\ w = v
    BY <2>2 DEF Alone
  <2> QED BY <2>2, <2>3, <2>4 DEF OrderInv, Ended
<1>7. CASE ReadLoop
  <2> DEFINE e == Head(toServer)
  <2>1. toServer # <<>> /\ toServer' = Tail(toServer) /\ e \in Envelope
        /\ UNCHANGED <<shown, stream>>
    BY <1>0, <1>7 DEF ReadLoop, agentVars
  <2>2. \A v \in Viewer :
          sub'[v] = sub[v] \/ (e.type # "response" /\ sub'[v] = Append(sub[v], e))
    BY <1>0, <1>7 DEF ReadLoop, Broadcast
  <2>3. /\ \A type : Has(toServer', type) => Has(toServer, type)
        /\ Has(toServer, e.type)
        /\ EndsLast(toServer) => EndsLast(toServer')
        /\ EndsLast(toServer) /\ e.type = "end" => ~Has(toServer', "line")
    BY <1>0, <2>1, OrderOfTail
  <2> HIDE DEF e
  <2> SUFFICES ASSUME NEW v \in Viewer, Alone(v)
               PROVE  /\ shown[v] # "resumed"
                      /\ ~Has(sub'[v], "response")
                      /\ EndsLast(sub'[v]) /\ EndsLast(toServer')
                      /\ shown[v] # "stream" => ~Has(sub'[v], "line")
                      /\ (shown[v] # "stream" \/ Has(sub'[v], "end")) => ~Has(toServer', "line")
                      /\ (shown[v] # "stream" \/ Has(sub'[v], "end")) \/ Has(toServer', "end") =>
                           stream[v].pc \in {"cleanup", "over"}
    BY <2>1 DEF OrderInv, Ended, Alone
  <2>4. CASE sub'[v] = sub[v]
    BY <2>3, <2>4 DEF OrderInv, Ended
  <2>5. CASE e.type # "response" /\ sub'[v] = Append(sub[v], e)
    <3>1. /\ \A type : Has(sub'[v], type) <=> Has(sub[v], type) \/ e.type = type
          /\ EndsLast(sub[v]) /\ ~(e.type = "line" /\ Has(sub[v], "end")) => EndsLast(sub'[v])
      BY <1>0, <2>1, <2>5, OrderOfAppend
    <3>2. e.type \in {"line", "end"}
      BY <2>1, <2>5 DEF Envelope
    <3>3. CASE e.type = "line"
      BY <2>3, <3>1, <3>3 DEF OrderInv, Ended
    <3>4. CASE e.type = "end"
      BY <2>3, <3>1, <3>4 DEF OrderInv, Ended
    <3> QED BY <3>2, <3>3, <3>4
  <2> QED BY <2>2, <2>4, <2>5
<1>8. ASSUME NEW v \in Viewer, LogsRelay(v) PROVE OrderInv'
  <2> DEFINE e == Head(sub[v])
  <2>1. /\ sub[v] # <<>> /\ sub[v] \in Seq(Envelope) /\ e \in Envelope
        /\ sub'[v] = Tail(sub[v])
        /\ \A w \in Viewer : w # v => sub'[w] = sub[w] /\ shown'[w] = shown[w]
        /\ shown'[v] \in {shown[v], Show(shown[v], e)}
        /\ UNCHANGED <<toServer, stream>>
    BY <1>0, <1>8 DEF LogsRelay, agentVars
  <2>2. e.type \in {"response", "line", "end"}
    BY <2>1 DEF Envelope
  <2>3. /\ \A type : Has(sub'[v], type) => Has(sub[v], type)
        /\ Has(sub[v], e.type)
        /\ EndsLast(sub[v]) => EndsLast(sub'[v])
        /\ EndsLast(sub[v]) /\ e.type = "end" => ~Has(sub'[v], "line")
    BY <2>1, OrderOfTail
  <2> HIDE DEF e
  <2>4. \A w \in Viewer : Alone(w)' = Alone(w)
    BY <2>1 DEF Alone
  <2>5. ASSUME NEW w \in Viewer, w # v, Alone(w)'
        PROVE  /\ shown'[w] # "resumed"
               /\ ~Has(sub'[w], "response")
               /\ EndsLast(sub'[w]) /\ EndsLast(toServer')
               /\ shown'[w] # "stream" => ~Has(sub'[w], "line")
               /\ Ended(w)' => ~Has(toServer', "line")
               /\ Ended(w)' \/ Has(toServer', "end") => stream'[w].pc \in {"cleanup", "over"}
    BY <2>1, <2>4, <2>5 DEF OrderInv, Ended
  <2>6. ASSUME Alone(v)'
        PROVE  /\ shown'[v] # "resumed"
               /\ ~Has(sub'[v], "response")
               /\ EndsLast(sub'[v]) /\ EndsLast(toServer')
               /\ shown'[v] # "stream" => ~Has(sub'[v], "line")
               /\ Ended(v)' => ~Has(toServer', "line")
               /\ Ended(v)' \/ Has(toServer', "end") => stream'[v].pc \in {"cleanup", "over"}
    <3>1. /\ shown[v] # "resumed" /\ EndsLast(sub[v]) /\ EndsLast(toServer)
          /\ ~Has(sub[v], "response")
          /\ shown[v] # "stream" => ~Has(sub[v], "line")
          /\ Ended(v) => ~Has(toServer, "line")
          /\ Ended(v) \/ Has(toServer, "end") => stream[v].pc \in {"cleanup", "over"}
      BY <2>4, <2>6 DEF OrderInv
    <3>2. \/ shown'[v] = shown[v]
          \/ shown'[v] = "ended" /\ e.type = "end"
      <4>1. CASE e.type = "end"
        BY <2>1, <4>1 DEF Show
      <4>2. CASE e.type = "line"
        <5>1. shown[v] = "stream"
          BY <2>3, <3>1, <4>2
        <5> QED BY <2>1, <4>2, <5>1 DEF Show
      <4> QED BY <2>2, <2>3, <3>1, <4>1, <4>2
    <3> QED BY <2>1, <2>3, <3>1, <3>2 DEF Ended
  <2> QED BY <2>5, <2>6 DEF OrderInv
<1>9. ASSUME NEW v \in Viewer, LogsWriteFail(v) \/ LogsClosed(v) PROVE OrderInv'
  <2>1. /\ sub'[v] = <<>> /\ \A w \in Viewer : w # v => sub'[w] = sub[w]
        /\ UNCHANGED <<toServer, stream, shown>>
    BY <1>0, <1>9 DEF LogsWriteFail, LogsClosed, agentVars
  <2>2. \A w \in Viewer : /\ EndsLast(sub[w]) => EndsLast(sub'[w])
                          /\ \A type : Has(sub'[w], type) => Has(sub[w], type)
    BY <2>1, OrderOfEmpty
  <2> QED BY <2>1, <2>2 DEF OrderInv, Ended, Alone
<1>10. ASSUME \/ LinkBreak \/ UNCHANGED vars
              \/ \E v \in Viewer : \/ LogsOpen(v) \/ LogsTimeout(v) \/ LogsSubscribe(v)
                                   \/ BrowserGone(v)
       PROVE  OrderInv'
  <2>1. UNCHANGED <<shown, sub, stream>> /\ (toServer' = toServer \/ toServer' = <<>>)
    BY <1>10 DEF LinkBreak, LogsOpen, LogsTimeout, LogsSubscribe, BrowserGone, vars, agentVars,
                 serverVars
  <2> QED BY <2>1, OrderKept
<1> QED
  BY <1>1, <1>2, <1>3, <1>4, <1>5, <1>6, <1>7, <1>8, <1>9, <1>10
  DEF Next, AgentReadLoop, StreamStep, HandlerStep

\* The end of a stream is the last a browser is shown of it, through the
\* connection, the channel with its losses and the relay, unless another viewer
\* has opened a stream of the container (StreamLogs, Logs).
THEOREM EndIsLastUnlessReplacedAlways == Spec => []EndIsLastUnlessReplaced
<1>1. Init => RequestInv
  <2>1. Init => Len(toAgent) = 0
    BY DEF Init
  <2>2. ASSUME Init, NEW v \in Viewer PROVE stream[v].pc = "none"
    <3>1. stream[v] = [pc |-> "none", cancelled |-> FALSE, lines |-> 0]
      BY <2>2 DEF Init
    <3> QED BY <3>1
  <2>3. \A i \in 1..0 : FALSE
    OBVIOUS
  <2> QED BY <2>1, <2>2, <2>3 DEF RequestInv
<1>2. OrderInv => EndIsLastUnlessReplaced
  BY DEF OrderInv, Alone, EndIsLastUnlessReplaced
<1> QED
  BY <1>1, <1>2, TypeCorrect, RequestInvNext, OrderInvInit, OrderInvNext, PTL DEF Spec

=============================================================================
