------------------------------ MODULE Terminal ------------------------------
(***************************************************************************)
(* One terminal session from the browser to the shell: the server's bridge *)
(* (TerminalAPI.Stream, package api) with its two relay goroutines, the    *)
(* agent connection it dials for this session alone, the agent's read loop *)
(* (serveConn, package agent/ws), the goroutine pump, and the shell in its *)
(* pseudo terminal (package agent/terminal).                               *)
(*                                                                         *)
(* Time advances in steps of 45 s; both read deadlines are two of them,    *)
(* and the bridge's pinger, every 30 s, pings in each.                     *)
(***************************************************************************)
EXTENDS Naturals, Sequences

CONSTANTS
  Record,     \* terminal.record is set and the recording file can be created
  QueueCap,   \* bound on the frames under way in one direction
  MaxPending  \* bound on the chunks of output waiting in the pty

Deadline == 2 \* read deadlines of 90 s, in steps of 45 s

ASSUME ConstantsAssumption ==
  /\ Record \in BOOLEAN
  /\ QueueCap \in Nat \ {0}
  /\ MaxPending \in Nat \ {0}

VARIABLES
  browser,     \* "open"; "closed"; "silent": there, but nothing comes from it
  ws,          \* the bridge's end of the browser's socket
  told,        \* the browser got {"type":"exit"}
  bridge,      \* Stream
  upstream,    \* its goroutine browser -> agent
  downstream,  \* its goroutine agent -> browser; "write": in ws.WriteMessage
               \* of a chunk, "tell": of {"type":"exit"}
  aw,          \* the bridge's end of the agent connection
  browserIdle, \* time since the last pong of the browser
  link,        \* the network between server and agent
  toAgent,     \* frames on the agent connection, oldest first
  toBridge,
  agent,       \* serveConn; "typing": in a write to the pty
  sock,        \* the agent's end of its connection; "broken": a write timed out,
               \* after which every write fails, but reads still work
  slot,        \* st.term holds the session
  agentIdle,   \* time since the agent read a frame
  pump,        \* the goroutine pump
  shell,       \* the child process
  pty,         \* the pty master
  pending,     \* chunks of output in the pty
  rec          \* the recording file

browserVars == <<browser, told>>
bridgeVars == <<ws, bridge, upstream, downstream, aw, browserIdle>>
agentVars == <<agent, sock, slot, agentIdle>>
sessionVars == <<pump, shell, pty, pending, rec>>
vars == <<browserVars, bridgeVars, link, toAgent, toBridge, agentVars, sessionVars>>

\* The relay goroutines of Stream run only between its start of the relay and
\* its return.
RelayShape ==
  /\ bridge \notin {"relaying", "done"} => upstream = "off" /\ downstream = "off"
  /\ bridge = "done" => upstream # "run" /\ downstream \notin {"run", "write", "tell"}

TypeOK ==
  /\ browser \in {"open", "closed", "silent"}
  /\ ws \in {"open", "closed"}
  /\ told \in BOOLEAN
  /\ bridge \in {"creds", "dialing", "requesting", "relaying", "done"}
  /\ upstream \in {"off", "run", "over"}
  /\ downstream \in {"off", "run", "write", "tell", "over"}
  /\ aw \in {"none", "open", "closed"}
  /\ browserIdle \in 0..Deadline
  /\ link \in {"up", "down"}
  /\ toAgent \in Seq({"open", "input", "close"})
  /\ toBridge \in Seq({"ok", "error", "output", "exit"})
  /\ agent \in {"none", "reading", "typing", "opening", "leaving", "over"}
  /\ sock \in {"none", "open", "broken", "closed"}
  /\ slot \in BOOLEAN
  /\ agentIdle \in 0..Deadline
  /\ pump \in {"off", "read", "write", "check", "take", "tell", "over"}
  /\ shell \in {"none", "running", "exited", "killed"}
  /\ pty \in {"none", "open", "closed"}
  /\ pending \in 0..MaxPending
  /\ rec \in {"none", "open", "closed"}
  /\ RelayShape

Init ==
  /\ browser = "open" /\ ws = "open" /\ told = FALSE
  /\ bridge = "creds" /\ upstream = "off" /\ downstream = "off"
  /\ aw = "none" /\ browserIdle = 0
  /\ link = "up" /\ toAgent = <<>> /\ toBridge = <<>>
  /\ agent = "none" /\ sock = "none" /\ slot = FALSE /\ agentIdle = 0
  /\ pump = "off" /\ shell = "none" /\ pty = "none" /\ pending = 0
  /\ rec = "none"

-----------------------------------------------------------------------------
(* The connection between bridge and agent                                  *)

Connected == link = "up" /\ aw = "open" /\ sock = "open"

\* A write of the bridge. What is written to a dead connection is lost.
SendToAgent(f) == toAgent' = IF Connected THEN Append(toAgent, f) ELSE toAgent

\* A write of the agent.
SendToBridge(f) == toBridge' = IF Connected THEN Append(toBridge, f) ELSE toBridge

\* What makes a read fail: the end was closed here, the network failed, or the
\* peer closed. In the last case frames under way may be lost (a reset).
BridgeReadFails == aw = "closed" \/ link = "down" \/ sock = "closed"
AgentReadFails == sock = "closed" \/ link = "down" \/ aw = "closed"

-----------------------------------------------------------------------------
(* Bridge: Stream up to the relay                                           *)

\* The deferred ws.Close and aw.Close of Stream.
Return ==
  /\ bridge' = "done"
  /\ ws' = "closed"
  /\ aw' = IF aw = "open" THEN "closed" ELSE aw

\* The first message carries the credentials.
ReadCreds ==
  /\ bridge = "creds"
  /\ browser = "open"
  /\ bridge' = "dialing"
  /\ UNCHANGED <<browserVars, ws, upstream, downstream, aw, browserIdle, link,
                 toAgent, toBridge, agentVars, sessionVars>>

\* No usable first message within 10 s, or the dial fails: Stream returns.
GiveUp ==
  /\ bridge \in {"creds", "dialing"}
  /\ Return
  /\ UNCHANGED <<browserVars, upstream, downstream, browserIdle, link, toAgent,
                 toBridge, agentVars, sessionVars>>

\* Dial authenticates; terminal.open is on its way.
DialAndOpen ==
  /\ bridge = "dialing"
  /\ link = "up"
  /\ bridge' = "requesting"
  /\ aw' = "open"
  /\ agent' = "reading" /\ sock' = "open"
  /\ toAgent' = <<"open">>
  /\ UNCHANGED <<browserVars, ws, upstream, downstream, browserIdle, link,
                 toBridge, slot, agentIdle, sessionVars>>

\* The response to terminal.open, and the acknowledgement to the browser:
\* without it Stream returns, otherwise the relay starts.
OpenAnswered ==
  /\ bridge = "requesting"
  /\ aw = "open" /\ toBridge # <<>>
  /\ toBridge' = Tail(toBridge)
  /\ \/ /\ Head(toBridge) = "ok"
        /\ browser # "closed"
        /\ bridge' = "relaying"
        /\ upstream' = "run" /\ downstream' = "run"
        /\ UNCHANGED <<ws, aw, browserIdle>>
     \/ /\ Head(toBridge) = "error" \/ browser # "open"
        /\ Return
        /\ UNCHANGED <<upstream, downstream, browserIdle>>
  /\ UNCHANGED <<browserVars, link, toAgent, agentVars, sessionVars>>

\* No answer within 15 s, or the connection is gone.
OpenUnanswered ==
  /\ bridge = "requesting"
  /\ Return
  /\ UNCHANGED <<browserVars, upstream, downstream, browserIdle, link, toAgent,
                 toBridge, agentVars, sessionVars>>

-----------------------------------------------------------------------------
(* Bridge: browser -> agent                                                 *)

\* The user types or resizes.
Input ==
  /\ upstream = "run" /\ ws = "open" /\ browser = "open"
  /\ Len(toAgent) < QueueCap
  /\ SendToAgent("input")
  /\ upstream' = IF aw = "closed" THEN "over" ELSE "run"
  /\ UNCHANGED <<browserVars, ws, bridge, downstream, aw, browserIdle, link,
                 toBridge, agentVars, sessionVars>>

\* The user ends the session, or the browser is found gone: its socket fails,
\* is closed by the other goroutine, or has not answered a ping for 90 s. The
\* last thing sent is terminal.close, unless the agent takes nothing for 5 s: that
\* fails this write, or the write of input before it, and every later one.
UpstreamEnds ==
  /\ upstream = "run"
  /\ \/ browser # "silent"
     \/ ws = "closed"
     \/ browserIdle = Deadline
  /\ upstream' = "over"
  /\ \/ SendToAgent("close")
     \/ Len(toAgent) >= QueueCap /\ UNCHANGED toAgent
  /\ UNCHANGED <<browserVars, ws, bridge, downstream, aw, browserIdle, link,
                 toBridge, agentVars, sessionVars>>

-----------------------------------------------------------------------------
(* Bridge: agent -> browser                                                 *)

\* One frame from the agent.
DownstreamRead ==
  /\ downstream = "run"
  /\ aw = "open" /\ toBridge # <<>>
  /\ toBridge' = Tail(toBridge)
  /\ downstream' = CASE Head(toBridge) = "output" -> "write"
                     [] Head(toBridge) = "exit" -> "tell"
                     [] OTHER -> "run"
  /\ UNCHANGED <<browserVars, ws, bridge, upstream, aw, browserIdle, link, toAgent,
                 agentVars, sessionVars>>

\* ws.WriteMessage returns: the browser's socket has taken the frame. There is
\* no deadline, so that a browser that reads nothing holds the goroutine here.
DownstreamWrite ==
  /\ downstream \in {"write", "tell"}
  /\ ws = "open" /\ browser # "closed"
  /\ downstream' = IF downstream = "tell" THEN "over" ELSE "run"
  /\ told' = (downstream = "tell" /\ browser = "open")
  /\ UNCHANGED <<browser, ws, bridge, upstream, aw, browserIdle, link, toAgent,
                 toBridge, agentVars, sessionVars>>

\* It fails: the socket is closed, or what was sent has not been acknowledged
\* for as long as the kernel tries.
DownstreamWriteFails ==
  /\ downstream \in {"write", "tell"}
  /\ ws = "closed" \/ browser # "open"
  /\ downstream' = "over"
  /\ UNCHANGED <<browserVars, ws, bridge, upstream, aw, browserIdle, link,
                 toAgent, toBridge, agentVars, sessionVars>>

\* NextReader fails.
DownstreamEnds ==
  /\ downstream = "run"
  /\ BridgeReadFails
  /\ downstream' = "over"
  /\ UNCHANGED <<browserVars, ws, bridge, upstream, aw, browserIdle, link,
                 toAgent, toBridge, agentVars, sessionVars>>

-----------------------------------------------------------------------------
(* Bridge: teardown                                                         *)

\* <-browserDone, then aw.Close.
CloseAgentSide ==
  /\ upstream = "over" /\ aw = "open"
  /\ aw' = "closed"
  /\ UNCHANGED <<browserVars, ws, bridge, upstream, downstream, browserIdle,
                 link, toAgent, toBridge, agentVars, sessionVars>>

\* Mutation: only one direction is watched.
CloseBrowserSideNever ==
  /\ downstream = "over" /\ upstream = "over" /\ ws = "open"
  /\ ws' = "closed"
  /\ UNCHANGED <<browserVars, bridge, upstream, downstream, aw, browserIdle,
                 link, toAgent, toBridge, agentVars, sessionVars>>

\* <-agentDone, then ws.Close.
CloseBrowserSide ==
  /\ downstream = "over" /\ ws = "open"
  /\ ws' = "closed"
  /\ UNCHANGED <<browserVars, bridge, upstream, downstream, aw, browserIdle,
                 link, toAgent, toBridge, agentVars, sessionVars>>

\* Mutation: Stream waits for one of its goroutines only.
StreamReturnsEarly ==
  /\ bridge = "relaying"
  /\ upstream = "over"
  /\ Return
  /\ UNCHANGED <<browserVars, upstream, downstream, browserIdle, link, toAgent,
                 toBridge, agentVars, sessionVars>>

\* Stream has waited for both goroutines.
StreamReturns ==
  /\ bridge = "relaying"
  /\ upstream = "over" /\ downstream = "over"
  /\ Return
  /\ UNCHANGED <<browserVars, upstream, downstream, browserIdle, link, toAgent,
                 toBridge, agentVars, sessionVars>>

-----------------------------------------------------------------------------
(* Agent: the session                                                       *)

\* Session.Close: pty master, recording and process.
SessionClose ==
  /\ pty' = "closed"
  /\ rec' = IF rec = "open" THEN "closed" ELSE rec
  /\ shell' = IF shell = "running" THEN "killed" ELSE shell

\* st.takeTerm, and Close of what it returns.
TakeAndClose ==
  /\ slot' = FALSE
  /\ IF slot THEN SessionClose ELSE UNCHANGED <<pty, rec, shell>>

-----------------------------------------------------------------------------
(* Agent: the read loop                                                     *)

AgentGets(f) ==
  /\ agent = "reading"
  /\ link = "up" /\ sock # "closed" /\ toAgent # <<>>
  /\ Head(toAgent) = f
  /\ toAgent' = Tail(toAgent)
  /\ agentIdle' = 0

\* TerminalOpen up to terminal.Open. The recorder is created first, if it can
\* be. (The bridge opens one session per connection, so the slot is free.)
AgentOpen ==
  /\ AgentGets("open")
  /\ agent' = "opening"
  /\ rec' = IF Record THEN "open" ELSE rec
  /\ UNCHANGED <<browserVars, bridgeVars, link, toBridge, sock, slot, pump,
                 shell, pty, pending>>

\* terminal.Open fails before there is a session.
OpenRejected ==
  /\ agent = "opening"
  /\ agent' = "reading"
  /\ SendToBridge("error")
  /\ UNCHANGED <<browserVars, bridgeVars, link, toAgent, sock, slot, agentIdle,
                 sessionVars>>

\* su refuses the validated password in the new pty: the session is closed.
OpenHandshakeFails ==
  /\ agent = "opening"
  /\ agent' = "reading"
  /\ pty' = "closed"
  /\ shell' = "killed"
  /\ rec' = IF rec = "open" THEN "closed" ELSE rec
  /\ SendToBridge("error")
  /\ UNCHANGED <<browserVars, bridgeVars, link, toAgent, sock, slot, agentIdle,
                 pump, pending>>

\* The session goes into the slot, then the response, then pump starts.
OpenSucceeds ==
  /\ agent = "opening"
  /\ agent' = "reading"
  /\ slot' = TRUE
  /\ pty' = "open" /\ shell' = "running" /\ pump' = "read"
  /\ SendToBridge("ok")
  /\ UNCHANGED <<browserVars, bridgeVars, link, toAgent, sock, agentIdle,
                 pending, rec>>

\* A resize changes the window size; a binary frame is written to the pty by the
\* read loop itself; without a session either is dropped.
AgentInput ==
  /\ AgentGets("input")
  /\ agent' \in IF slot THEN {"reading", "typing"} ELSE {"reading"}
  /\ UNCHANGED <<browserVars, bridgeVars, link, toBridge, sock, slot, sessionVars>>

\* t.Write returns: the pty has taken the input. The shell's program may read
\* nothing, and there is no deadline.
InputTaken ==
  /\ agent = "typing"
  /\ shell = "running"
  /\ agent' = "reading"
  /\ UNCHANGED <<browserVars, bridgeVars, link, toAgent, toBridge, sock, slot,
                 agentIdle, sessionVars>>

\* t.Write fails: the session was closed, or nobody has the pty open any more.
InputRefused ==
  /\ agent = "typing"
  /\ shell # "running"
  /\ agent' = "reading"
  /\ UNCHANGED <<browserVars, bridgeVars, link, toAgent, toBridge, sock, slot,
                 agentIdle, sessionVars>>

\* TerminalClose. (Its response is dropped by the bridge and left out.)
AgentClose ==
  /\ AgentGets("close")
  /\ TakeAndClose
  /\ UNCHANGED <<browserVars, bridgeVars, link, toBridge, agent, sock, pump,
                 pending>>

\* NextReader fails, at the latest when the read deadline has passed.
AgentStopsReading ==
  /\ agent = "reading"
  /\ AgentReadFails \/ agentIdle = Deadline
  /\ agent' = "leaving"
  /\ UNCHANGED <<browserVars, bridgeVars, link, toAgent, toBridge, sock, slot,
                 agentIdle, sessionVars>>

\* The deferred function of serveConn, then c.Close in serveWS.
AgentLeaves ==
  /\ agent = "leaving"
  /\ agent' = "over"
  /\ TakeAndClose
  /\ sock' = "closed"
  /\ UNCHANGED <<browserVars, bridgeVars, link, toAgent, toBridge, agentIdle,
                 pump, pending>>

-----------------------------------------------------------------------------
(* Agent: pump and shell                                                    *)

\* A chunk of output is in the pty.
ShellWrites ==
  /\ shell = "running"
  /\ pending < MaxPending
  /\ pending' = pending + 1
  /\ UNCHANGED <<browserVars, bridgeVars, link, toAgent, toBridge, agentVars,
                 pump, shell, pty, rec>>

\* The shell ends on its own.
ShellExits ==
  /\ shell = "running"
  /\ shell' = "exited"
  /\ UNCHANGED <<browserVars, bridgeVars, link, toAgent, toBridge, agentVars,
                 pump, pty, pending, rec>>

\* s.Read returns output.
PumpReads ==
  /\ pump = "read"
  /\ pty = "open" /\ pending > 0
  /\ pending' = pending - 1
  /\ pump' = "write"
  /\ UNCHANGED <<browserVars, bridgeVars, link, toAgent, toBridge, agentVars,
                 shell, pty, rec>>

\* c.WriteMessage succeeds.
PumpWrites ==
  /\ pump = "write"
  /\ sock = "open" /\ Len(toBridge) < QueueCap
  /\ SendToBridge("output")
  /\ pump' = "read"
  /\ UNCHANGED <<browserVars, bridgeVars, link, toAgent, agentVars, shell, pty,
                 pending, rec>>

\* Mutation: the session is left to serveConn.
PumpWriteFailsOpen ==
  /\ pump = "write"
  /\ ~ Connected \/ Len(toBridge) >= QueueCap
  /\ sock' = IF sock = "open" THEN "broken" ELSE sock
  /\ pump' = "check"
  /\ UNCHANGED <<browserVars, bridgeVars, link, toAgent, toBridge, agent, slot,
                 agentIdle, shell, pty, pending, rec>>

\* c.WriteMessage fails: the connection is dead, or the bridge has taken
\* nothing for 5 s. No write on this connection succeeds after that.
PumpWriteFails ==
  /\ pump = "write"
  /\ ~ Connected \/ Len(toBridge) >= QueueCap
  /\ sock' = IF sock = "open" THEN "broken" ELSE sock
  /\ SessionClose
  /\ pump' = "check"
  /\ UNCHANGED <<browserVars, bridgeVars, link, toAgent, toBridge, agent, slot,
                 agentIdle, pending>>

\* Mutation: the end of the shell is noticed before its output is read.
PumpEndsUnread ==
  /\ pump = "read"
  /\ pty = "closed" \/ shell # "running"
  /\ pump' = "check"
  /\ UNCHANGED <<browserVars, bridgeVars, link, toAgent, toBridge, agentVars,
                 shell, pty, pending, rec>>

\* s.Read fails: the pty was closed, or the shell has exited and all of its
\* output has been read.
PumpEnds ==
  /\ pump = "read"
  /\ pty = "closed" \/ (shell # "running" /\ pending = 0)
  /\ pump' = "check"
  /\ UNCHANGED <<browserVars, bridgeVars, link, toAgent, toBridge, agentVars,
                 shell, pty, pending, rec>>

\* Mutation: st.curTerm is not compared with the session.
PumpChecksNothing ==
  /\ pump = "check"
  /\ pump' = "take"
  /\ UNCHANGED <<browserVars, bridgeVars, link, toAgent, toBridge, agentVars,
                 shell, pty, pending, rec>>

\* st.curTerm() == s
PumpChecks ==
  /\ pump = "check"
  /\ pump' = IF slot THEN "take" ELSE "over"
  /\ UNCHANGED <<browserVars, bridgeVars, link, toAgent, toBridge, agentVars,
                 shell, pty, pending, rec>>

\* st.takeTerm(), without Close.
PumpTakes ==
  /\ pump = "take"
  /\ slot' = FALSE
  /\ pump' = "tell"
  /\ UNCHANGED <<browserVars, bridgeVars, link, toAgent, toBridge, agent, sock,
                 agentIdle, shell, pty, pending, rec>>

\* The event terminal.exit.
PumpTells ==
  /\ pump = "tell"
  /\ SendToBridge("exit")
  /\ pump' = "over"
  /\ UNCHANGED <<browserVars, bridgeVars, link, toAgent, agentVars, shell, pty,
                 pending, rec>>

\* statsLoop sends an event every second, which the bridge drops, and closes a
\* connection that does not take it.
StatsLoopCloses ==
  /\ agent \in {"reading", "typing", "opening"}
  /\ sock # "closed"
  /\ ~ Connected \/ Len(toBridge) >= QueueCap
  /\ sock' = "closed"
  /\ UNCHANGED <<browserVars, bridgeVars, link, toAgent, toBridge, agent, slot,
                 agentIdle, sessionVars>>

-----------------------------------------------------------------------------
(* Environment                                                              *)

\* The browser is closed, or goes silent (a suspended machine, a dead network).
BrowserLeaves ==
  /\ browser = "open"
  /\ browser' \in {"closed", "silent"}
  /\ UNCHANGED <<told, bridgeVars, link, toAgent, toBridge, agentVars,
                 sessionVars>>

\* The network between server and agent fails; both ends find out.
LinkFails ==
  /\ link = "up"
  /\ link' = "down"
  /\ toAgent' = <<>> /\ toBridge' = <<>>
  /\ UNCHANGED <<browserVars, bridgeVars, agentVars, sessionVars>>

Older(t) == IF t < Deadline THEN t + 1 ELSE t

\* 45 s pass. A frame takes far less than that to reach a read loop that reads.
\* The pinger pings the browser, whose pong rolls the deadline; nobody pings the
\* agent.
Tick ==
  /\ bridge = "relaying"
  /\ \/ agent = "reading" /\ toAgent = <<>>
     \/ agent \in {"typing", "over"}
  /\ agentIdle' = Older(agentIdle)
  /\ browserIdle' = IF browser = "open" /\ ws = "open" THEN 0 ELSE Older(browserIdle)
  /\ <<agentIdle, browserIdle>>' # <<agentIdle, browserIdle>>
  /\ UNCHANGED <<browserVars, ws, bridge, upstream, downstream, aw, link,
                 toAgent, toBridge, agent, sock, slot, sessionVars>>

-----------------------------------------------------------------------------

StreamStep ==
  \/ ReadCreds \/ GiveUp \/ DialAndOpen \/ OpenAnswered \/ OpenUnanswered
  \/ StreamReturns

DownstreamStep ==
  \/ DownstreamRead \/ DownstreamWrite \/ DownstreamWriteFails \/ DownstreamEnds

AgentStep ==
  \/ AgentOpen \/ OpenRejected \/ OpenHandshakeFails \/ OpenSucceeds
  \/ AgentInput \/ InputRefused \/ AgentClose \/ AgentStopsReading \/ AgentLeaves

PumpStep ==
  \/ PumpReads \/ PumpWrites \/ PumpWriteFails \/ PumpEnds
  \/ PumpChecks \/ PumpTakes \/ PumpTells

Next ==
  \/ StreamStep \/ Input \/ UpstreamEnds \/ DownstreamStep
  \/ CloseAgentSide \/ CloseBrowserSide
  \/ AgentStep
  \/ ShellWrites \/ ShellExits \/ InputTaken \/ PumpStep \/ StatsLoopCloses
  \/ BrowserLeaves \/ LinkFails \/ Tick

Spec == Init /\ [][Next]_vars

\* Upstream has a reason to end other than the user's wish.
UpstreamMustEnd ==
  (browser = "closed" \/ ws = "closed" \/ browserIdle = Deadline) /\ UpstreamEnds

\* Downstream goes on without the browser's help.
DownstreamMustRun ==
  \/ DownstreamRead \/ DownstreamEnds
  \/ (ws = "closed" \/ browser = "closed") /\ DownstreamWriteFails

\* Goroutines that can run do run and time passes. The user, the shell, the
\* browser and the network owe nothing: neither need ever take what a goroutine
\* writes to the pty (InputTaken) or to the browser (DownstreamWrite).
Fairness ==
  /\ WF_vars(StreamStep)
  /\ WF_vars(UpstreamMustEnd)
  /\ WF_vars(DownstreamMustRun)
  /\ WF_vars(CloseAgentSide)
  /\ WF_vars(CloseBrowserSide)
  /\ WF_vars(AgentStep)
  /\ WF_vars(PumpStep)
  /\ WF_vars(sock = "broken" /\ StatsLoopCloses)
  /\ WF_vars(Tick)

FairSpec == Spec /\ Fairness

-----------------------------------------------------------------------------
(* Properties                                                               *)

\* A running shell is always in st.term, where terminal.close and the end of
\* the connection find it: no background shell is left behind.
RunningShellIsHeld == shell = "running" => slot

\* The browser is told exit only when the shell ended on its own, never for a
\* session that was closed or torn down.
ExitMeansExited == told => shell = "exited"

\* By then everything the shell wrote has been read and relayed.
NothingIsDropped ==
  told => /\ pending = 0
          /\ downstream # "write"
          /\ \A i \in 1..Len(toBridge) : toBridge[i] # "output"

\* A write into the pty, and one to the browser, returns some time.
WritesReturn == []<>(agent # "typing") /\ []<>(downstream \notin {"write", "tell"})

\* However a session that was opened ends, at whichever of its ends, the bridge
\* returns, the connection is closed, and the shell and its pump are gone: provided
\* the two writes without a deadline return, which the code does not see to.
EndsEverywhere ==
  WritesReturn =>
    (pump # "off" /\ (browser # "open" \/ link = "down" \/ shell # "running")
       ~> /\ bridge = "done"
          /\ agent = "over"
          /\ pump = "over"
          /\ shell # "running")

\* Closing the connection ends the shell ("No background shells are left behind:
\* closing the connection tears the PTY process group down"): fails while the read
\* loop is in a write to a pty that nobody reads (serveConn).
ShellEndsWithConnection == shell = "running" /\ aw = "closed" ~> shell # "running"

\* The agent gives up a connection only when it is gone ("quiet but live terminals
\* stay up"): fails when the user types nothing for the agent's read deadline, since
\* the bridge pings the browser and nobody the agent (serveConn).
QuietTerminalStays == [][AgentStopsReading => AgentReadFails]_vars
=============================================================================
