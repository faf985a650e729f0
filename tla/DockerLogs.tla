----------------------------- MODULE DockerLogs -----------------------------
(***************************************************************************)
(* Container logs from the docker daemon to a browser, for one container   *)
(* and one node connection: the agent's StreamLogs and StopLogs (package   *)
(* agent/docker), called by the agent's read loop, and the server's Logs   *)
(* handler (package api), one goroutine per browser.                       *)
(*                                                                         *)
(* A viewer is one run of the Logs handler with its browser. It asks for   *)
(* one stream, so its id also names that stream.                           *)
(***************************************************************************)
EXTENDS Naturals, Sequences

CONSTANTS
  Viewer,    \* browsers that open the log view of the container
  NoStream,  \* no entry for the container in a.streams
  MaxLines,  \* bound on the lines one stream emits
  SubCap     \* capacity of a viewer's channel (512 in the code)

ASSUME ConstantsAssumption ==
  /\ NoStream \notin Viewer
  /\ MaxLines \in Nat
  /\ SubCap \in Nat \ {0}

VARIABLES
  up,        \* the connection between agent and server works
  toAgent,   \* requests on it, oldest first
  toServer,  \* envelopes on it, oldest first
  agent,     \* viewer whose logs request the agent's read loop still answers
  registered,\* a.streams[container]
  stream,    \* streaming goroutines with their contexts
  viewer,    \* Logs handlers
  sub,       \* channels subscribed by the handlers
  browser,   \* "open" or "gone"
  shown      \* what each browser shows: "stream" (no logs.end yet), "ended",
             \* "resumed" (a line after a logs.end)

agentVars == <<agent, registered, stream>>
serverVars == <<viewer, sub, shown>>
vars == <<up, toAgent, toServer, agentVars, serverVars, browser>>

\* "opening": in ContainerLogs; "following": in StdCopy; "ending": the deferred
\* logs.end is to be sent; "cleanup": a.streams is to be cleaned.
StreamPC == {"none", "opening", "following", "ending", "cleanup", "over"}
StreamRec == [pc : StreamPC, cancelled : BOOLEAN, lines : 0..MaxLines]

\* "handshake": Request returned, Subscribe is still to come.
ViewerPC == {"idle", "requesting", "handshake", "relaying", "done"}

Request == [type : {"logs", "stop"}, from : Viewer]
Envelope == [type : {"response", "line", "end"}, of : Viewer]

\* A channel holds envelopes only while its handler is subscribed.
OnlySubscribed ==
  \A v \in Viewer : viewer[v] # "relaying" => sub[v] = <<>>

TypeOK ==
  /\ up \in BOOLEAN
  /\ toAgent \in Seq(Request)
  /\ toServer \in Seq(Envelope)
  /\ agent \in Viewer \union {NoStream}
  /\ registered \in Viewer \union {NoStream}
  /\ stream \in [Viewer -> StreamRec]
  /\ viewer \in [Viewer -> ViewerPC]
  /\ sub \in [Viewer -> Seq(Envelope)]
  /\ OnlySubscribed
  /\ browser \in [Viewer -> {"open", "gone"}]
  /\ shown \in [Viewer -> {"stream", "ended", "resumed"}]

Init ==
  /\ up = TRUE
  /\ toAgent = <<>>
  /\ toServer = <<>>
  /\ agent = NoStream
  /\ registered = NoStream
  /\ stream = [v \in Viewer |-> [pc |-> "none", cancelled |-> FALSE, lines |-> 0]]
  /\ viewer = [v \in Viewer |-> "idle"]
  /\ sub = [v \in Viewer |-> <<>>]
  /\ browser = [v \in Viewer |-> "open"]
  /\ shown = [v \in Viewer |-> "stream"]

\* writeEnv and Conn.WriteJSON: on a dead connection the envelope is lost.
SendToServer(e) == toServer' = IF up THEN Append(toServer, e) ELSE toServer
SendToAgent(r) == toAgent' = IF up THEN Append(toAgent, r) ELSE toAgent

-----------------------------------------------------------------------------
(* Agent: the read loop                                                     *)

\* The contexts after StreamLogs has cancelled the registered stream.
Cancelled(s) ==
  IF s = NoStream THEN stream ELSE [stream EXCEPT ![s].cancelled = TRUE]

\* Mutation: the stream that is replaced is not cancelled.
StreamLogsKeepingOld ==
  LET v == Head(toAgent).from IN
  /\ up /\ agent = NoStream /\ toAgent # <<>>
  /\ Head(toAgent).type = "logs"
  /\ toAgent' = Tail(toAgent)
  /\ stream' = [stream EXCEPT ![v].pc = "opening"]
  /\ registered' = v
  /\ agent' = v
  /\ UNCHANGED <<up, toServer, serverVars, browser>>

\* StreamLogs up to the two go statements: one follow per container, the new
\* one wins.
StreamLogs ==
  LET v == Head(toAgent).from IN
  /\ up /\ agent = NoStream /\ toAgent # <<>>
  /\ Head(toAgent).type = "logs"
  /\ toAgent' = Tail(toAgent)
  /\ stream' = [Cancelled(registered) EXCEPT ![v].pc = "opening"]
  /\ registered' = v
  /\ agent' = v
  /\ UNCHANGED <<up, toServer, serverVars, browser>>

\* The last statement of StreamLogs: {stream:true}, while the stream runs.
StreamLogsRespond ==
  /\ agent # NoStream
  /\ SendToServer([type |-> "response", of |-> agent])
  /\ agent' = NoStream
  /\ UNCHANGED <<up, toAgent, registered, stream, serverVars, browser>>

\* StopLogs: cancels whichever stream is registered. (The response that follows
\* matches no pending request and no viewer; it is left out.)
StopLogs ==
  /\ up /\ agent = NoStream /\ toAgent # <<>>
  /\ Head(toAgent).type = "stop"
  /\ toAgent' = Tail(toAgent)
  /\ stream' = Cancelled(registered)
  /\ UNCHANGED <<up, toServer, agent, registered, serverVars, browser>>

-----------------------------------------------------------------------------
(* Agent: a streaming goroutine and the goroutine that waits for done        *)

StreamGoesTo(v, from, to) ==
  /\ stream[v].pc = from
  /\ stream' = [stream EXCEPT ![v].pc = to]

\* ContainerLogs returns a reader.
StreamOpen(v) ==
  /\ ~ stream[v].cancelled
  /\ StreamGoesTo(v, "opening", "following")
  /\ UNCHANGED <<up, toAgent, toServer, agent, registered, serverVars, browser>>

\* ContainerLogs fails: no such container, or the context is cancelled.
StreamOpenFail(v) ==
  /\ StreamGoesTo(v, "opening", "ending")
  /\ UNCHANGED <<up, toAgent, toServer, agent, registered, serverVars, browser>>

\* Mutation: logs.end is sent before the last line is flushed.
StreamLineFlushedLate(v) ==
  /\ stream[v].pc \in {"following", "cleanup"}
  /\ stream[v].lines < MaxLines
  /\ stream' = [stream EXCEPT ![v].lines = @ + 1]
  /\ SendToServer([type |-> "line", of |-> v])
  /\ UNCHANGED <<up, toAgent, agent, registered, serverVars, browser>>

\* emit: one line of the container, also one read before a cancellation.
StreamLine(v) ==
  /\ stream[v].pc = "following"
  /\ stream[v].lines < MaxLines
  /\ stream' = [stream EXCEPT ![v].lines = @ + 1]
  /\ SendToServer([type |-> "line", of |-> v])
  /\ UNCHANGED <<up, toAgent, agent, registered, serverVars, browser>>

\* Mutation: the reader was opened without the context.
StreamEofUncancelled(v) ==
  /\ ~ stream[v].cancelled
  /\ StreamGoesTo(v, "following", "ending")
  /\ UNCHANGED <<up, toAgent, toServer, agent, registered, serverVars, browser>>

\* StdCopy returns: the container stopped, or the context was cancelled.
StreamEof(v) ==
  /\ StreamGoesTo(v, "following", "ending")
  /\ UNCHANGED <<up, toAgent, toServer, agent, registered, serverVars, browser>>

\* The deferred logs.end, which names the container only.
StreamEnd(v) ==
  /\ StreamGoesTo(v, "ending", "cleanup")
  /\ SendToServer([type |-> "end", of |-> v])
  /\ UNCHANGED <<up, toAgent, agent, registered, serverVars, browser>>

\* Mutation: the entry is never deleted.
StreamCleanupForgets(v) ==
  /\ StreamGoesTo(v, "cleanup", "over")
  /\ UNCHANGED <<up, toAgent, toServer, agent, registered, serverVars, browser>>

\* close(finished), and a.streams is cleaned if the entry is still ours.
StreamCleanup(v) ==
  /\ StreamGoesTo(v, "cleanup", "over")
  /\ registered' = IF registered = v THEN NoStream ELSE registered
  /\ UNCHANGED <<up, toAgent, toServer, agent, serverVars, browser>>

\* Mutation: done is watched only until ContainerLogs has returned.
DoneClosedEarly(v) ==
  /\ ~ up /\ agent = NoStream
  /\ stream[v].pc = "opening"
  /\ ~ stream[v].cancelled
  /\ stream' = [stream EXCEPT ![v].cancelled = TRUE]
  /\ UNCHANGED <<up, toAgent, toServer, agent, registered, serverVars, browser>>

\* <-done: serveConn of the connection has returned. finished ends the wait.
DoneClosed(v) ==
  /\ ~ up /\ agent = NoStream
  /\ stream[v].pc \in {"opening", "following", "ending"}
  /\ ~ stream[v].cancelled
  /\ stream' = [stream EXCEPT ![v].cancelled = TRUE]
  /\ UNCHANGED <<up, toAgent, toServer, agent, registered, serverVars, browser>>

-----------------------------------------------------------------------------
(* Server: the connection's readLoop                                        *)

\* broadcast: every subscribed viewer gets e unless its channel is full.
Broadcast(e) ==
  sub' = [v \in Viewer |->
            IF viewer[v] = "relaying" /\ Len(sub[v]) < SubCap
            THEN Append(sub[v], e) ELSE sub[v]]

\* One envelope. A response ends the Request that waits for it (the channel of
\* Request is the business of module NodeRequests) and, carrying no method,
\* is skipped by every relay loop.
ReadLoop ==
  LET e == Head(toServer) IN
  /\ toServer # <<>>
  /\ toServer' = Tail(toServer)
  /\ IF e.type = "response"
     THEN /\ viewer' = IF viewer[e.of] = "requesting"
                       THEN [viewer EXCEPT ![e.of] = "handshake"] ELSE viewer
          /\ UNCHANGED sub
     ELSE Broadcast(e) /\ UNCHANGED viewer
  /\ UNCHANGED <<up, toAgent, agentVars, shown, browser>>

-----------------------------------------------------------------------------
(* Server: the Logs handler                                                 *)

\* A live connection, the upgrade, and the request on the wire.
LogsOpen(v) ==
  /\ viewer[v] = "idle"
  /\ up
  /\ viewer' = [viewer EXCEPT ![v] = "requesting"]
  /\ SendToAgent([type |-> "logs", from |-> v])
  /\ UNCHANGED <<up, toServer, agentVars, sub, shown, browser>>

\* Request gives up after 15 s and the handler returns.
LogsTimeout(v) ==
  /\ viewer[v] = "requesting"
  /\ viewer' = [viewer EXCEPT ![v] = "done"]
  /\ UNCHANGED <<up, toAgent, toServer, agentVars, sub, shown, browser>>

\* conn.Subscribe(sub), after the response.
LogsSubscribe(v) ==
  /\ viewer[v] = "handshake"
  /\ viewer' = [viewer EXCEPT ![v] = "relaying"]
  /\ UNCHANGED <<up, toAgent, toServer, agentVars, sub, shown, browser>>

\* The display after one more log envelope.
Show(display, e) ==
  IF e.type = "end" THEN "ended"
  ELSE IF display = "stream" THEN "stream" ELSE "resumed"

\* case e := <-sub: the envelope goes to the browser. The write to a browser
\* that just went away may still succeed.
LogsRelay(v) ==
  /\ viewer[v] = "relaying"
  /\ sub[v] # <<>>
  /\ sub' = [sub EXCEPT ![v] = Tail(@)]
  /\ shown' = IF browser[v] = "open"
              THEN [shown EXCEPT ![v] = Show(@, Head(sub[v]))] ELSE shown
  /\ UNCHANGED <<up, toAgent, toServer, agentVars, viewer, browser>>

\* Mutation: the handler returns without Unsubscribe.
LogsWriteFailSubscribed(v) ==
  /\ viewer[v] = "relaying"
  /\ sub[v] # <<>>
  /\ browser[v] = "gone"
  /\ viewer' = [viewer EXCEPT ![v] = "done"]
  /\ UNCHANGED <<up, toAgent, toServer, agentVars, sub, shown, browser>>

\* The write fails, as it does once the close frame of the browser has been
\* answered: the handler returns and its subscription ends.
LogsWriteFail(v) ==
  /\ viewer[v] = "relaying"
  /\ sub[v] # <<>>
  /\ browser[v] = "gone"
  /\ viewer' = [viewer EXCEPT ![v] = "done"]
  /\ sub' = [sub EXCEPT ![v] = <<>>]
  /\ UNCHANGED <<up, toAgent, toServer, agentVars, shown, browser>>

\* Mutation: neither the reader nor the pinger closes the channel ping.
LogsClosedUnnoticed(v) ==
  /\ viewer[v] = "relaying"
  /\ browser[v] = "gone"
  /\ sub[v] # <<>>
  /\ viewer' = [viewer EXCEPT ![v] = "done"]
  /\ sub' = [sub EXCEPT ![v] = <<>>]
  /\ SendToAgent([type |-> "stop", from |-> v])
  /\ UNCHANGED <<up, toServer, agentVars, shown, browser>>

\* case <-ping: the reader or the pinger found the browser gone.
LogsClosed(v) ==
  /\ viewer[v] = "relaying"
  /\ browser[v] = "gone"
  /\ viewer' = [viewer EXCEPT ![v] = "done"]
  /\ sub' = [sub EXCEPT ![v] = <<>>]
  /\ SendToAgent([type |-> "stop", from |-> v])
  /\ UNCHANGED <<up, toServer, agentVars, shown, browser>>

-----------------------------------------------------------------------------
(* Browsers and the connection                                              *)

\* The user closes the dialog, or the browser is lost.
BrowserGone(v) ==
  /\ browser[v] = "open"
  /\ viewer[v] # "idle"
  /\ browser' = [browser EXCEPT ![v] = "gone"]
  /\ UNCHANGED <<up, toAgent, toServer, agentVars, serverVars>>

\* The connection breaks; what was on it is lost. Viewers of the connection
\* that replaces it are other viewers.
LinkBreak ==
  /\ up
  /\ up' = FALSE
  /\ toAgent' = <<>>
  /\ toServer' = <<>>
  /\ UNCHANGED <<agentVars, serverVars, browser>>

-----------------------------------------------------------------------------

AgentReadLoop == StreamLogs \/ StreamLogsRespond \/ StopLogs

\* What the goroutine of v does on its own; a container may be silent or run
\* for ever, so neither lines nor the end of an uncancelled stream are due.
StreamStep(v) ==
  \/ StreamOpen(v)
  \/ StreamOpenFail(v)
  \/ StreamEnd(v)
  \/ StreamCleanup(v)
  \/ DoneClosed(v)
  \/ stream[v].cancelled /\ StreamEof(v)

HandlerStep(v) ==
  \/ LogsSubscribe(v)
  \/ LogsRelay(v)
  \/ LogsWriteFail(v)
  \/ LogsClosed(v)

Next ==
  \/ AgentReadLoop
  \/ \E v \in Viewer : StreamStep(v) \/ StreamLine(v) \/ StreamEof(v)
  \/ ReadLoop
  \/ \E v \in Viewer : LogsOpen(v) \/ LogsTimeout(v) \/ HandlerStep(v)
  \/ \E v \in Viewer : BrowserGone(v)
  \/ LinkBreak

Spec == Init /\ [][Next]_vars

\* Goroutines that can run do run, a request that waits is answered or times
\* out, and a browser that went away is noticed: its reader gets an error or
\* misses its pongs, however busy the relay is. Nothing else is promised.
Fairness ==
  /\ WF_vars(AgentReadLoop)
  /\ WF_vars(ReadLoop)
  /\ \A v \in Viewer :
       /\ WF_vars(StreamStep(v))
       /\ WF_vars(HandlerStep(v))
       /\ WF_vars(LogsTimeout(v))

FairSpec == Spec /\ Fairness

-----------------------------------------------------------------------------
(* Properties                                                               *)

\* The stream of v reads, or is about to read, from the docker daemon.
Follows(v) == stream[v].pc \in {"opening", "following"}

\* Every stream that follows the container and was not cancelled is the one in
\* a.streams, so at most one follows and logs.stop can always find it.
FollowIsRegistered ==
  \A v \in Viewer : Follows(v) /\ ~ stream[v].cancelled => registered = v

\* a.streams never keeps an entry of a goroutine that has ended.
RegisteredIsRunning ==
  registered # NoStream => stream[registered].pc \notin {"none", "over"}

\* A browser is shown a line after a logs.end only if another viewer opened a
\* stream of the container: the end of its own stream is the last it can get.
EndIsLastUnlessReplaced ==
  \A v \in Viewer :
    shown[v] = "resumed" => \E w \in Viewer \ {v} : stream[w].pc # "none"

\* No stream that was cancelled, or whose connection is lost, goes on for ever
\* (StreamLogs and its watcher of done). Cancelled, lost and over are for good.
StreamsEnd ==
  []<>\A v \in Viewer :
        stream[v].pc # "none" /\ (stream[v].cancelled \/ ~ up) => stream[v].pc = "over"

\* No handler whose browser has gone goes on for ever; it frees its subscription.
HandlerEnds == []<>\A v \in Viewer : browser[v] = "gone" => viewer[v] = "done"
=============================================================================
