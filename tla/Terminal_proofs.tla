-------------------------- MODULE Terminal_proofs --------------------------
(* Proofs about Terminal, for any queue and pty capacity.                    *)
EXTENDS Terminal, TLAPS

\* Every variable keeps its type, and the relay goroutines run only inside
\* Stream, whatever the capacities.
THEOREM TypeCorrect == Spec => []TypeOK
<1>1. Init => TypeOK
  <2> SUFFICES ASSUME Init PROVE TypeOK
    OBVIOUS
  <2>1. 0 \in 0..Deadline /\ 0 \in 0..MaxPending
    BY ConstantsAssumption DEF Deadline
  <2>2. /\ toAgent \in Seq({"open", "input", "close"})
        /\ toBridge \in Seq({"ok", "error", "output", "exit"})
    BY DEF Init
  <2> QED BY <2>1, <2>2 DEF Init, TypeOK, RelayShape
<1>2. TypeOK /\ [Next]_vars => TypeOK'
  <2> SUFFICES ASSUME TypeOK, [Next]_vars PROVE TypeOK'
    OBVIOUS
  <2> USE DEF TypeOK
  <2>1. ASSUME NEW f \in {"open", "input", "close"}, SendToAgent(f)
        PROVE  toAgent' \in Seq({"open", "input", "close"})
    BY <2>1 DEF SendToAgent
  <2>2. ASSUME NEW f \in {"ok", "error", "output", "exit"}, SendToBridge(f)
        PROVE  toBridge' \in Seq({"ok", "error", "output", "exit"})
    BY <2>2 DEF SendToBridge
  <2>3. ASSUME NEW f \in {"open", "input", "close"}, AgentGets(f)
        PROVE  toAgent' \in Seq({"open", "input", "close"}) /\ agentIdle' \in 0..Deadline
    BY <2>3 DEF AgentGets, Deadline
  <2>4. \A t \in 0..Deadline : Older(t) \in 0..Deadline
    BY DEF Older, Deadline
  <2> DEFINE SessionOK == /\ pty \in {"none", "open", "closed"}
                          /\ rec \in {"none", "open", "closed"}
                          /\ shell \in {"none", "running", "exited", "killed"}
  <2>5. SessionClose => SessionOK'
    BY DEF SessionClose
  <2>6. TakeAndClose => SessionOK' /\ slot' \in BOOLEAN
    BY <2>5 DEF TakeAndClose
  <2>7. CASE StreamStep
    <3> USE DEF RelayShape, browserVars, agentVars, sessionVars
    <3>1. CASE ReadCreds
      BY <3>1 DEF ReadCreds
    <3>2. CASE GiveUp \/ OpenUnanswered \/ StreamReturns
      BY <3>2 DEF GiveUp, OpenUnanswered, StreamReturns, Return
    <3>3. CASE DialAndOpen
      <4>1. toAgent' \in Seq({"open", "input", "close"})
        BY <3>3 DEF DialAndOpen
      <4> QED BY <3>3, <4>1 DEF DialAndOpen
    <3>4. CASE OpenAnswered
      <4>1. toBridge' \in Seq({"ok", "error", "output", "exit"})
        BY <3>4 DEF OpenAnswered
      <4> QED BY <3>4, <4>1 DEF OpenAnswered, Return
    <3> QED BY <2>7, <3>1, <3>2, <3>3, <3>4 DEF StreamStep
  <2>8. CASE Input \/ UpstreamEnds
    <3>1. toAgent' \in Seq({"open", "input", "close"})
      <4>1. SendToAgent("input") \/ SendToAgent("close") \/ UNCHANGED toAgent
        BY <2>8 DEF Input, UpstreamEnds
      <4> QED BY <4>1, <2>1
    <3> QED BY <2>8, <3>1 DEF Input, UpstreamEnds, RelayShape, browserVars,
                              agentVars, sessionVars
  <2>9. CASE DownstreamStep
    <3>1. toBridge' \in Seq({"ok", "error", "output", "exit"})
      BY <2>9 DEF DownstreamStep, DownstreamRead, DownstreamWrite, DownstreamWriteFails, DownstreamEnds
    <3> QED BY <2>9, <3>1
        DEF DownstreamStep, DownstreamRead, DownstreamWrite, DownstreamWriteFails, DownstreamEnds,
            RelayShape, browserVars, agentVars, sessionVars
  <2>10. CASE CloseAgentSide \/ CloseBrowserSide
    BY <2>10 DEF CloseAgentSide, CloseBrowserSide, RelayShape, browserVars,
                agentVars, sessionVars
  <2> USE DEF RelayShape
  <2>11. CASE AgentStep
    <3>1. CASE AgentOpen
      <4>1. toAgent' \in Seq({"open", "input", "close"}) /\ agentIdle' \in 0..Deadline
        BY <2>3, <3>1 DEF AgentOpen
      <4> QED BY <3>1, <4>1 DEF AgentOpen, browserVars, bridgeVars
    <3>2. CASE OpenRejected \/ OpenHandshakeFails \/ OpenSucceeds
      <4>1. toBridge' \in Seq({"ok", "error", "output", "exit"})
        BY <2>2, <3>2 DEF OpenRejected, OpenHandshakeFails, OpenSucceeds
      <4>2. CASE OpenRejected
        BY <4>1, <4>2 DEF OpenRejected, browserVars, bridgeVars, sessionVars
      <4>3. CASE OpenHandshakeFails
        BY <4>1, <4>3 DEF OpenHandshakeFails, browserVars, bridgeVars
      <4>4. CASE OpenSucceeds
        BY <4>1, <4>4 DEF OpenSucceeds, browserVars, bridgeVars
      <4> QED BY <3>2, <4>2, <4>3, <4>4
    <3>3. CASE AgentInput
      <4>1. toAgent' \in Seq({"open", "input", "close"}) /\ agentIdle' \in 0..Deadline
        BY <2>3, <3>3 DEF AgentInput
      <4>2. agent' \in {"reading", "typing"}
        BY <3>3 DEF AgentInput
      <4> QED BY <3>3, <4>1, <4>2 DEF AgentInput, browserVars, bridgeVars, sessionVars
    <3>4. CASE AgentClose
      <4>1. toAgent' \in Seq({"open", "input", "close"}) /\ agentIdle' \in 0..Deadline
        BY <2>3, <3>4 DEF AgentClose
      <4> QED BY <3>4, <4>1, <2>6 DEF AgentClose, browserVars, bridgeVars
    <3>5. CASE InputRefused \/ AgentStopsReading
      BY <3>5 DEF InputRefused, AgentStopsReading, browserVars, bridgeVars, sessionVars
    <3>6. CASE AgentLeaves
      BY <3>6, <2>6 DEF AgentLeaves, browserVars, bridgeVars
    <3> QED BY <2>11, <3>1, <3>2, <3>3, <3>4, <3>5, <3>6 DEF AgentStep
  <2> USE DEF browserVars, bridgeVars
  <2>12. CASE ShellWrites \/ ShellExits \/ InputTaken \/ StatsLoopCloses
    <3>1. pending' \in 0..MaxPending
      <4>1. pending + 1 \in 0..MaxPending \/ ~ pending < MaxPending
        BY ConstantsAssumption
      <4> QED BY <2>12, <4>1 DEF ShellWrites, ShellExits, InputTaken, StatsLoopCloses, sessionVars
    <3> QED BY <2>12, <3>1 DEF ShellWrites, ShellExits, InputTaken, StatsLoopCloses,
                               agentVars, sessionVars
  <2>13. CASE PumpStep
    <3>1. toBridge' \in Seq({"ok", "error", "output", "exit"})
      BY <2>2, <2>13 DEF PumpStep, PumpReads, PumpWrites, PumpWriteFails, PumpEnds,
                  PumpChecks, PumpTakes, PumpTells
    <3>2. pending' \in 0..MaxPending
      <4>1. pending - 1 \in 0..MaxPending \/ ~ pending > 0
        BY ConstantsAssumption
      <4> QED BY <2>13, <4>1
      DEF PumpStep, PumpReads, PumpWrites, PumpWriteFails, PumpEnds, PumpChecks,
          PumpTakes, PumpTells
    <3>3. CASE PumpWriteFails
      <4>1. sock' \in {"none", "open", "broken", "closed"} /\ pump' = "check"
        BY <3>3 DEF PumpWriteFails
      <4>2. SessionOK'
        BY <3>3, <2>5 DEF PumpWriteFails
      <4> QED BY <3>1, <3>2, <3>3, <4>1, <4>2 DEF PumpWriteFails
    <3>4. CASE PumpReads \/ PumpWrites
      BY <3>1, <3>2, <3>4 DEF PumpReads, PumpWrites, agentVars
    <3>5. CASE PumpEnds \/ PumpChecks \/ PumpTakes \/ PumpTells
      <4>1. slot' \in BOOLEAN
        BY <3>5 DEF PumpEnds, PumpChecks, PumpTakes, PumpTells, agentVars
      <4>2. pump' \in {"off", "read", "write", "check", "take", "tell", "over"}
        BY <3>5 DEF PumpEnds, PumpChecks, PumpTakes, PumpTells
      <4>3. UNCHANGED <<browserVars, bridgeVars, link, toAgent, agent, sock,
                        agentIdle, shell, pty, rec>>
        BY <3>5 DEF PumpEnds, PumpChecks, PumpTakes, PumpTells, agentVars
      <4> QED BY <3>1, <3>2, <4>1, <4>2, <4>3
    <3> QED BY <2>13, <3>3, <3>4, <3>5 DEF PumpStep
  <2>14. CASE BrowserLeaves
    BY <2>14 DEF BrowserLeaves, agentVars, sessionVars
  <2>15. CASE LinkFails
    <3>1. /\ toAgent' \in Seq({"open", "input", "close"})
          /\ toBridge' \in Seq({"ok", "error", "output", "exit"})
      BY <2>15 DEF LinkFails
    <3> QED BY <2>15, <3>1 DEF LinkFails, agentVars, sessionVars
  <2>16. CASE Tick
    <3>1. agentIdle' \in 0..Deadline /\ browserIdle' \in 0..Deadline
      BY <2>4, <2>16 DEF Tick, Deadline
    <3> QED BY <2>16, <3>1 DEF Tick, sessionVars
  <2>17. CASE UNCHANGED vars
    BY <2>17 DEF vars, agentVars, sessionVars
  <2> QED
    BY <2>7, <2>8, <2>9, <2>10, <2>11, <2>12, <2>13, <2>14, <2>15, <2>16, <2>17
    DEF Next
<1> QED BY <1>1, <1>2, PTL DEF Spec

\* A session that has been closed, or whose pump has left its read loop, has no
\* running shell: with this, RunningShellIsHeld is inductive.
EndedHasNoShell ==
  /\ pty = "closed" => shell # "running"
  /\ pump \in {"check", "take", "tell", "over"} => shell # "running"

HeldInv == RunningShellIsHeld /\ EndedHasNoShell

\* Steps that touch neither the session nor the slot keep HeldInv.
LEMMA SessionUntouched ==
  ASSUME HeldInv, UNCHANGED <<slot, shell, pty, pump>>
  PROVE  HeldInv'
BY DEF HeldInv, RunningShellIsHeld, EndedHasNoShell

\* In every reachable state a running shell is in st.term, where terminal.close
\* and the deferred function of serveConn find it.
THEOREM HeldAlways == Spec => []HeldInv
<1>1. Init => HeldInv
  BY DEF Init, HeldInv, RunningShellIsHeld, EndedHasNoShell
<1>2. HeldInv /\ [Next]_vars => HeldInv'
  <2> SUFFICES ASSUME HeldInv, [Next]_vars PROVE HeldInv'
    OBVIOUS
  <2>1. CASE StreamStep
    <3>1. UNCHANGED <<slot, shell, pty, pump>>
      BY <2>1 DEF StreamStep, ReadCreds, GiveUp, DialAndOpen, OpenAnswered,
                  OpenUnanswered, StreamReturns, agentVars, sessionVars
    <3> QED BY <3>1, SessionUntouched
  <2>2. CASE Input \/ UpstreamEnds \/ DownstreamStep \/ CloseAgentSide \/ CloseBrowserSide
    <3>1. UNCHANGED <<slot, shell, pty, pump>>
      BY <2>2 DEF Input, UpstreamEnds, DownstreamStep, DownstreamRead,
                  DownstreamWrite, DownstreamWriteFails, DownstreamEnds, CloseAgentSide,
                  CloseBrowserSide, agentVars, sessionVars
    <3> QED BY <3>1, SessionUntouched
  <2>3. CASE \/ AgentOpen \/ OpenRejected \/ AgentInput \/ InputTaken \/ InputRefused
             \/ AgentStopsReading \/ StatsLoopCloses
    <3>1. UNCHANGED <<slot, shell, pty, pump>>
      BY <2>3 DEF AgentOpen, OpenRejected, AgentInput, InputTaken, InputRefused,
                  AgentStopsReading, StatsLoopCloses, agentVars, sessionVars
    <3> QED BY <3>1, SessionUntouched
  <2>4. CASE BrowserLeaves \/ LinkFails \/ Tick \/ UNCHANGED vars
    <3>1. UNCHANGED <<slot, shell, pty, pump>>
      BY <2>4 DEF BrowserLeaves, LinkFails, Tick, vars, agentVars, sessionVars
    <3> QED BY <3>1, SessionUntouched
  <2> USE DEF HeldInv, RunningShellIsHeld, EndedHasNoShell
  <2>5. CASE OpenHandshakeFails
    BY <2>5 DEF OpenHandshakeFails
  <2>6. CASE OpenSucceeds
    BY <2>6 DEF OpenSucceeds
  <2>7. CASE AgentClose \/ AgentLeaves
    <3>1. shell' # "running"
      BY <2>7 DEF AgentClose, AgentLeaves, TakeAndClose, SessionClose
    <3> QED BY <3>1
  <2>8. CASE ShellWrites \/ ShellExits
    BY <2>8 DEF ShellWrites, ShellExits, agentVars
  <2>9. CASE PumpStep
    <3>1. CASE PumpReads \/ PumpWrites
      BY <3>1 DEF PumpReads, PumpWrites, agentVars
    <3>2. CASE PumpWriteFails
      BY <3>2 DEF PumpWriteFails, SessionClose
    <3>3. CASE PumpEnds
      BY <3>3 DEF PumpEnds, agentVars
    <3>4. CASE PumpChecks
      BY <3>4 DEF PumpChecks, agentVars
    <3>5. CASE PumpTakes
      BY <3>5 DEF PumpTakes
    <3>6. CASE PumpTells
      BY <3>6 DEF PumpTells, agentVars
    <3> QED BY <2>9, <3>1, <3>2, <3>3, <3>4, <3>5, <3>6 DEF PumpStep
  <2> QED
    BY <2>1, <2>2, <2>3, <2>4, <2>5, <2>6, <2>7, <2>8, <2>9 DEF Next, AgentStep
<1> QED BY <1>1, <1>2, PTL DEF Spec

\* No shell runs that nothing could close: the invariant the runs check.
THEOREM RunningShellIsHeldAlways == Spec => []RunningShellIsHeld
<1>1. HeldInv => RunningShellIsHeld
  BY DEF HeldInv
<1> QED BY <1>1, HeldAlways, PTL

-----------------------------------------------------------------------------
(* What the browser is told                                                  *)

\* Before the connection is dialed nothing of the session exists.
NothingBeforeDial ==
  bridge \in {"creds", "dialing"} =>
    agent = "none" /\ shell = "none" /\ pump = "off"

\* One terminal.open is sent, as the first frame, and while it is under way or
\* served there is no session yet.
OneOpen ==
  /\ \A i \in 1..Len(toAgent) :
       toAgent[i] = "open" =>
         i = 1 /\ agent # "opening" /\ shell = "none" /\ pump = "off"
  /\ agent = "opening" => shell = "none" /\ pump = "off"

\* A pump belongs to a session that was opened. If somebody closed the session
\* then st.term is empty, so that the pump stays silent, or nothing reaches
\* the bridge any more.
SilentWhenClosed ==
  /\ pump # "off" => shell # "none"
  /\ pump # "off" /\ shell = "killed" => ~ slot \/ ~ Connected
  /\ pump \in {"take", "tell"} => shell = "exited" \/ ~ Connected

\* An exit under way, or delivered, is of a shell that ended on its own.
ExitIsTrue ==
  /\ \A i \in 1..Len(toBridge) : toBridge[i] = "exit" => shell = "exited"
  /\ downstream = "tell" => shell = "exited"
  /\ ExitMeansExited

ExitInv == NothingBeforeDial /\ OneOpen /\ SilentWhenClosed /\ ExitIsTrue

\* The frames after a write of the bridge, other than terminal.open.
LEMMA BridgeWrite ==
  ASSUME TypeOK, OneOpen, NEW f \in {"input", "close"},
         SendToAgent(f) \/ UNCHANGED toAgent,
         UNCHANGED <<agent, shell, pump>>
  PROVE  OneOpen'
<1>1. \A i \in 1..Len(toAgent') : toAgent'[i] = "open" =>
        i \in 1..Len(toAgent) /\ toAgent[i] = "open"
  BY DEF TypeOK, SendToAgent
<1> QED BY <1>1 DEF OneOpen

\* The frame terminal.open is gone once the agent has read a frame.
LEMMA AgentRead ==
  ASSUME TypeOK, OneOpen, NEW f, AgentGets(f)
  PROVE  /\ \A i \in 1..Len(toAgent') : toAgent'[i] # "open"
         /\ f = "open" => shell = "none" /\ pump = "off"
<1>1. 1 \in 1..Len(toAgent) /\ toAgent[1] = f
  BY DEF TypeOK, AgentGets
<1>2. \A i \in 1..Len(toAgent') : /\ i + 1 \in 1..Len(toAgent)
                                  /\ i + 1 # 1
                                  /\ toAgent'[i] = toAgent[i + 1]
  BY DEF TypeOK, AgentGets
<1> QED BY <1>1, <1>2 DEF OneOpen

\* The events after a write of the agent.
LEMMA AgentWrite ==
  ASSUME TypeOK, NEW f \in {"ok", "error", "output", "exit"}, SendToBridge(f)
  PROVE  \A i \in 1..Len(toBridge') : toBridge'[i] = "exit" =>
           \/ i \in 1..Len(toBridge) /\ toBridge[i] = "exit"
           \/ f = "exit" /\ Connected
BY DEF TypeOK, SendToBridge

\* The events after a read of the bridge.
LEMMA BridgeRead ==
  ASSUME TypeOK, toBridge # <<>>, toBridge' = Tail(toBridge)
  PROVE  /\ 1 \in 1..Len(toBridge) /\ toBridge[1] = Head(toBridge)
         /\ \A i \in 1..Len(toBridge') : /\ i + 1 \in 1..Len(toBridge)
                                         /\ toBridge'[i] = toBridge[i + 1]
BY DEF TypeOK

\* The connection is made by DialAndOpen only.
LEMMA ConnectedOnce ==
  ASSUME [Next]_vars, Connected'
  PROVE  Connected \/ DialAndOpen
<1> USE DEF Connected
<1>1. CASE StreamStep
  BY <1>1 DEF StreamStep, ReadCreds, GiveUp, OpenAnswered, OpenUnanswered,
              StreamReturns, Return, agentVars
<1>2. CASE Input \/ UpstreamEnds \/ DownstreamStep \/ CloseAgentSide \/ CloseBrowserSide
  BY <1>2 DEF Input, UpstreamEnds, DownstreamStep, DownstreamRead,
              DownstreamWrite, DownstreamWriteFails, DownstreamEnds, CloseAgentSide, CloseBrowserSide,
              agentVars
<1>3. CASE AgentStep
  BY <1>3 DEF AgentStep, AgentOpen, OpenRejected, OpenHandshakeFails,
              OpenSucceeds, AgentInput, InputRefused, AgentClose, AgentStopsReading,
              AgentLeaves, bridgeVars
<1>4. CASE PumpStep
  BY <1>4 DEF PumpStep, PumpReads, PumpWrites, PumpWriteFails, PumpEnds,
              PumpChecks, PumpTakes, PumpTells, bridgeVars, agentVars
<1>5. CASE ShellWrites \/ ShellExits \/ InputTaken \/ StatsLoopCloses \/ UNCHANGED vars
  BY <1>5 DEF ShellWrites, ShellExits, InputTaken, StatsLoopCloses, vars, bridgeVars, agentVars
<1>6. CASE BrowserLeaves \/ LinkFails \/ Tick
  BY <1>6 DEF BrowserLeaves, LinkFails, Tick, bridgeVars, agentVars
<1> QED BY <1>1, <1>2, <1>3, <1>4, <1>5, <1>6 DEF Next

\* What a browser may be told is kept by the steps of the server, which touch
\* neither the session nor the agent.
LEMMA ServerKeepsExit ==
  ASSUME TypeOK, ExitInv,
         \/ StreamStep \/ Input \/ UpstreamEnds \/ DownstreamStep
         \/ CloseAgentSide \/ CloseBrowserSide
  PROVE  ExitInv'
<1> USE DEF ExitInv
<1>1. CASE DialAndOpen
  <2>1. shell = "none" /\ pump = "off"
    BY <1>1 DEF DialAndOpen, NothingBeforeDial
  <2>2. OneOpen'
    BY <1>1, <2>1 DEF DialAndOpen, OneOpen, sessionVars
  <2>3. NothingBeforeDial' /\ SilentWhenClosed'
    BY <1>1, <2>1 DEF DialAndOpen, NothingBeforeDial, SilentWhenClosed, sessionVars
  <2>4. ExitIsTrue'
    BY <1>1 DEF DialAndOpen, ExitIsTrue, ExitMeansExited, sessionVars, browserVars
  <2> QED BY <2>2, <2>3, <2>4
<1>2. CASE ~ DialAndOpen
  <2>1. UNCHANGED <<agent, slot, pump, shell>>
    BY <1>2 DEF StreamStep, ReadCreds, GiveUp, OpenAnswered, OpenUnanswered,
                StreamReturns, Input, UpstreamEnds, DownstreamStep,
                DownstreamRead, DownstreamWrite, DownstreamWriteFails, DownstreamEnds, CloseAgentSide,
                CloseBrowserSide, agentVars, sessionVars
  <2>2. Connected' => Connected
    BY <1>2, ConnectedOnce DEF Next
  <2>3. SilentWhenClosed'
    BY <2>1, <2>2 DEF SilentWhenClosed
  <2>4. NothingBeforeDial'
    <3>1. bridge' \in {"creds", "dialing"} => bridge \in {"creds", "dialing"}
      BY <1>2 DEF StreamStep, ReadCreds, GiveUp, OpenAnswered, OpenUnanswered,
                  StreamReturns, Return, Input, UpstreamEnds, DownstreamStep,
                  DownstreamRead, DownstreamWrite, DownstreamWriteFails, DownstreamEnds,
                  CloseAgentSide, CloseBrowserSide
    <3> QED BY <2>1, <3>1 DEF NothingBeforeDial
  <2>5. OneOpen'
    <3>1. CASE Input \/ UpstreamEnds
      BY <2>1, <3>1, BridgeWrite DEF Input, UpstreamEnds
    <3>2. CASE UNCHANGED toAgent
      BY <2>1, <3>2 DEF OneOpen
    <3> QED
      BY <1>2, <3>1, <3>2
      DEF StreamStep, ReadCreds, GiveUp, OpenAnswered, OpenUnanswered,
          StreamReturns, DownstreamStep, DownstreamRead, DownstreamWrite, DownstreamWriteFails,
          DownstreamEnds, CloseAgentSide, CloseBrowserSide
  <2>6. ExitIsTrue'
    <3>1. CASE DownstreamRead
      <4>1. (downstream' = "tell" => Head(toBridge) = "exit") /\ UNCHANGED told
        BY <3>1 DEF DownstreamRead, browserVars
      <4> QED BY <2>1, <3>1, <4>1, BridgeRead
              DEF DownstreamRead, ExitIsTrue, ExitMeansExited
    <3>2. CASE OpenAnswered
      BY <2>1, <3>2, BridgeRead
      DEF OpenAnswered, ExitIsTrue, ExitMeansExited, browserVars
    <3>3. CASE DownstreamWrite
      BY <2>1, <3>3 DEF DownstreamWrite, ExitIsTrue, ExitMeansExited
    <3>4. CASE UNCHANGED <<toBridge, told>> /\ (downstream' = "tell" => downstream = "tell")
      BY <2>1, <3>4 DEF ExitIsTrue, ExitMeansExited
    <3> QED
      BY <1>2, <3>1, <3>2, <3>3, <3>4
      DEF StreamStep, ReadCreds, GiveUp, OpenUnanswered, StreamReturns, Input,
          UpstreamEnds, DownstreamStep, DownstreamWriteFails, DownstreamEnds,
          CloseAgentSide, CloseBrowserSide, browserVars
  <2> QED BY <2>3, <2>4, <2>5, <2>6
<1> QED BY <1>1, <1>2

\* It is kept by the steps of the agent's read loop.
LEMMA ReadLoopKeepsExit ==
  ASSUME TypeOK, ExitInv, AgentStep
  PROVE  ExitInv'
<1> USE DEF ExitInv
<1>1. Connected' => Connected
  <2>1. ~ DialAndOpen
    BY DEF DialAndOpen, AgentStep, AgentOpen, AgentGets, OpenRejected,
           OpenHandshakeFails, OpenSucceeds, AgentInput, InputRefused, AgentClose,
           AgentStopsReading, AgentLeaves, bridgeVars, TypeOK
  <2> QED BY <2>1, ConnectedOnce DEF Next
<1>2. bridge \notin {"creds", "dialing"}
  BY DEF NothingBeforeDial, AgentStep, AgentOpen, AgentGets, OpenRejected,
         OpenHandshakeFails, OpenSucceeds, AgentInput, InputRefused, AgentClose,
         AgentStopsReading, AgentLeaves
<1>3. NothingBeforeDial' /\ UNCHANGED <<told, downstream>>
  BY <1>2 DEF NothingBeforeDial, AgentStep, AgentOpen, OpenRejected,
              OpenHandshakeFails, OpenSucceeds, AgentInput, InputRefused, AgentClose,
              AgentStopsReading, AgentLeaves, bridgeVars, browserVars
<1>4. CASE AgentOpen
  <2>1. /\ \A i \in 1..Len(toAgent') : toAgent'[i] # "open"
        /\ shell = "none" /\ pump = "off"
    BY <1>4, AgentRead DEF AgentOpen
  <2> QED BY <1>3, <1>4, <2>1 DEF AgentOpen, OneOpen, SilentWhenClosed,
                                  ExitIsTrue, ExitMeansExited
<1>5. CASE OpenRejected \/ OpenHandshakeFails \/ OpenSucceeds
  <2>1. agent = "opening" /\ shell = "none" /\ pump = "off"
    BY <1>5 DEF OpenRejected, OpenHandshakeFails, OpenSucceeds, OneOpen
  <2>2. \A i \in 1..Len(toBridge') : toBridge'[i] # "exit"
    BY <1>5, <2>1, AgentWrite
    DEF OpenRejected, OpenHandshakeFails, OpenSucceeds, ExitIsTrue
  <2>3. ~ told /\ downstream # "tell" /\ \A i \in 1..Len(toAgent) : toAgent[i] # "open"
    BY <2>1 DEF ExitIsTrue, ExitMeansExited, OneOpen
  <2>4. ExitIsTrue'
    BY <1>3, <2>2, <2>3 DEF ExitIsTrue, ExitMeansExited
  <2>5. OneOpen'
    BY <1>5, <2>3 DEF OneOpen, OpenRejected, OpenHandshakeFails, OpenSucceeds
  <2>6. SilentWhenClosed'
    BY <1>5, <2>1 DEF SilentWhenClosed, OpenRejected, OpenHandshakeFails,
                      OpenSucceeds, sessionVars
  <2> QED BY <1>3, <2>4, <2>5, <2>6
<1>6. CASE AgentInput \/ InputRefused \/ AgentStopsReading
  <2>1. UNCHANGED <<toBridge, slot, pump, shell>> /\ agent' # "opening"
    BY <1>6 DEF AgentInput, InputRefused, AgentStopsReading, AgentGets, sessionVars
  <2>2. OneOpen'
    BY <1>6, <2>1, AgentRead DEF AgentInput, InputRefused, AgentStopsReading, OneOpen
  <2> QED BY <1>1, <1>3, <2>1, <2>2 DEF SilentWhenClosed, ExitIsTrue, ExitMeansExited
<1>7. CASE AgentClose \/ AgentLeaves
  <2>1. /\ UNCHANGED <<toBridge, pump>>
        /\ agent' # "opening"
        /\ ~ slot'
        /\ shell' = shell \/ (shell = "running" /\ shell' = "killed")
    BY <1>7 DEF AgentClose, AgentLeaves, AgentGets, TakeAndClose, SessionClose
  <2>2. OneOpen'
    BY <1>7, <2>1, AgentRead DEF AgentClose, AgentLeaves, OneOpen
  <2> QED BY <1>1, <1>3, <2>1, <2>2 DEF SilentWhenClosed, ExitIsTrue, ExitMeansExited
<1> QED BY <1>4, <1>5, <1>6, <1>7 DEF AgentStep

\* It is kept by the steps of the goroutine pump.
LEMMA PumpKeepsExit ==
  ASSUME TypeOK, HeldInv, ExitInv, PumpStep
  PROVE  ExitInv'
<1> USE DEF ExitInv
<1>1. /\ UNCHANGED <<bridge, downstream, agent, toAgent, told>>
      /\ pump # "off" /\ pump' # "off"
      /\ shell' = shell \/ (shell = "running" /\ shell' = "killed")
  BY DEF PumpStep, PumpReads, PumpWrites, PumpWriteFails, PumpEnds, PumpChecks,
         PumpTakes, PumpTells, SessionClose, bridgeVars, browserVars, agentVars
<1>2. NothingBeforeDial' /\ OneOpen'
  BY <1>1 DEF NothingBeforeDial, OneOpen
<1>3. Connected' => Connected
  <2>1. ~ DialAndOpen
    BY <1>1 DEF DialAndOpen, NothingBeforeDial
  <2> QED BY <2>1, ConnectedOnce DEF Next
<1>4. ExitIsTrue'
  <2>1. CASE PumpTells
    BY <1>1, <2>1, AgentWrite
    DEF PumpTells, ExitIsTrue, ExitMeansExited, SilentWhenClosed
  <2>2. CASE PumpWrites
    BY <1>1, <2>2, AgentWrite DEF PumpWrites, ExitIsTrue, ExitMeansExited
  <2>3. CASE UNCHANGED toBridge
    BY <1>1, <2>3 DEF ExitIsTrue, ExitMeansExited
  <2> QED BY <2>1, <2>2, <2>3
          DEF PumpStep, PumpReads, PumpWriteFails, PumpEnds, PumpChecks, PumpTakes
<1>5. SilentWhenClosed'
  <2> USE DEF SilentWhenClosed
  <2>1. CASE PumpReads \/ PumpWrites
    BY <1>3, <2>1 DEF PumpReads, PumpWrites, agentVars
  <2>2. CASE PumpWriteFails
    <3>1. ~ Connected'
      BY <2>2 DEF PumpWriteFails, Connected
    <3>2. pump' = "check" /\ shell' \notin {"none", "running"}
      BY <1>1, <2>2 DEF PumpWriteFails, SessionClose
    <3> QED BY <3>1, <3>2
  <2>3. CASE PumpEnds
    BY <1>3, <2>3 DEF PumpEnds, agentVars
  <2>4. CASE PumpChecks
    <3>1. shell # "running"
      BY <2>4 DEF PumpChecks, HeldInv, EndedHasNoShell
    <3> QED BY <1>3, <2>4, <3>1 DEF PumpChecks, agentVars, TypeOK
  <2>5. CASE PumpTakes \/ PumpTells
    BY <1>3, <2>5 DEF PumpTakes, PumpTells, agentVars
  <2> QED BY <2>1, <2>2, <2>3, <2>4, <2>5 DEF PumpStep
<1> QED BY <1>2, <1>4, <1>5

\* The four parts of ExitInv hold in every reachable state.
THEOREM ExitInvAlways == Spec => []ExitInv
<1>1. Init => ExitInv
  BY DEF Init, ExitInv, NothingBeforeDial, OneOpen, SilentWhenClosed,
         ExitIsTrue, ExitMeansExited
<1>2. TypeOK /\ HeldInv /\ ExitInv /\ [Next]_vars => ExitInv'
  <2> SUFFICES ASSUME TypeOK, HeldInv, ExitInv, [Next]_vars PROVE ExitInv'
    OBVIOUS
  <2>1. CASE StreamStep \/ Input \/ UpstreamEnds \/ DownstreamStep
             \/ CloseAgentSide \/ CloseBrowserSide
    BY <2>1, ServerKeepsExit
  <2>2. CASE AgentStep
    BY <2>2, ReadLoopKeepsExit
  <2>3. CASE PumpStep
    BY <2>3, PumpKeepsExit
  <2> USE DEF ExitInv, NothingBeforeDial, OneOpen, SilentWhenClosed,
              ExitIsTrue, ExitMeansExited
  <2>4. CASE ShellWrites \/ ShellExits \/ InputTaken \/ StatsLoopCloses \/ UNCHANGED vars
    <3>1. Connected' => Connected
      BY <2>4 DEF Connected, ShellWrites, ShellExits, InputTaken, StatsLoopCloses, vars,
                  bridgeVars, agentVars
    <3>2. /\ UNCHANGED <<bridge, downstream, toAgent, toBridge, told, pump, slot>>
          /\ agent' = agent \/ (agent = "typing" /\ agent' = "reading")
          /\ shell' = shell \/ (shell = "running" /\ shell' = "exited")
      BY <2>4 DEF ShellWrites, ShellExits, InputTaken, StatsLoopCloses, vars, browserVars,
                  bridgeVars, agentVars, sessionVars
    <3> QED BY <3>1, <3>2
  <2>5. CASE BrowserLeaves \/ Tick
    BY <2>5 DEF BrowserLeaves, Tick, Connected, browserVars, bridgeVars,
                agentVars, sessionVars
  <2>6. CASE LinkFails
    BY <2>6 DEF LinkFails, Connected, browserVars, bridgeVars, agentVars, sessionVars
  <2> QED BY <2>1, <2>2, <2>3, <2>4, <2>5, <2>6 DEF Next
<1> QED BY <1>1, <1>2, TypeCorrect, HeldAlways, PTL DEF Spec

\* The browser is told exit only when the shell ended on its own: no
\* interleaving of terminal.close, a failed write, the end of the connection
\* and the pump reports a session that was closed.
THEOREM ExitMeansExitedAlways == Spec => []ExitMeansExited
<1>1. ExitInv => ExitMeansExited
  BY DEF ExitInv, ExitIsTrue
<1> QED BY <1>1, ExitInvAlways, PTL

-----------------------------------------------------------------------------
(* What the shell wrote                                                     *)

Sent(f) == \E i \in 1..Len(toBridge) : toBridge[i] = f
ExitLast ==
  \A i, j \in 1..Len(toBridge) : i < j /\ toBridge[i] = "exit" => toBridge[j] # "output"
AllRead == pending = 0 /\ shell # "running"

\* A pty that is closed under a pump has silenced it, so a pump that is about to
\* report an exit has read everything.
ReadInv ==
  /\ pump # "off" /\ pty = "closed" => ~ slot \/ ~ Connected
  /\ pump \in {"check", "take", "tell"} /\ Connected /\ (pump = "check" => slot) => AllRead

\* The exit is the last that comes from the pump.
LastInv ==
  /\ told \/ Sent("exit") => pump = "over" /\ AllRead
  /\ ExitLast
  /\ downstream = "tell" => pump = "over" /\ AllRead /\ ~ Sent("output")
  /\ told => downstream = "over" /\ ~ Sent("output")

\* The frames to the bridge after a write of the agent ...
LEMMA SentByAgent ==
  ASSUME TypeOK, NEW f \in {"ok", "error", "output", "exit"}, SendToBridge(f)
  PROVE  /\ \A x : Sent(x)' => Sent(x) \/ (f = x /\ Connected)
         /\ ExitLast /\ ~ (f = "output" /\ Sent("exit")) => ExitLast'
<1>1. CASE UNCHANGED toBridge
  BY <1>1 DEF Sent, ExitLast
<1>2. CASE Connected /\ toBridge' = Append(toBridge, f)
  <2>1. /\ Len(toBridge') = Len(toBridge) + 1 /\ Len(toBridge) \in Nat
        /\ toBridge'[Len(toBridge) + 1] = f
        /\ \A i \in 1..Len(toBridge) : toBridge'[i] = toBridge[i]
    BY <1>2 DEF TypeOK
  <2>2. \A i \in 1..Len(toBridge') : i \in 1..Len(toBridge) \/ i = Len(toBridge) + 1
    BY <2>1
  <2>3. ASSUME NEW x, Sent(x)' PROVE Sent(x) \/ f = x
    BY <2>1, <2>2, <2>3 DEF Sent
  <2>4. ASSUME ExitLast, ~ (f = "output" /\ Sent("exit")), NEW i \in 1..Len(toBridge'),
               NEW j \in 1..Len(toBridge'), i < j, toBridge'[i] = "exit", toBridge'[j] = "output"
        PROVE  FALSE
    <3>1. i \in 1..Len(toBridge) /\ toBridge[i] = "exit"
      BY <2>1, <2>2, <2>4
    <3>2. CASE j \in 1..Len(toBridge)
      BY <2>1, <2>4, <3>1, <3>2 DEF ExitLast
    <3>3. CASE j = Len(toBridge) + 1
      BY <2>1, <2>4, <3>1, <3>3 DEF Sent
    <3> QED BY <2>2, <3>2, <3>3
  <2>5. ExitLast /\ ~ (f = "output" /\ Sent("exit")) => ExitLast'
    BY <2>4 DEF ExitLast
  <2> QED BY <1>2, <2>3, <2>5
<1> QED BY <1>1, <1>2 DEF SendToBridge

\* ... and after a read of the bridge.
LEMMA ReadByBridge ==
  ASSUME TypeOK, toBridge # <<>>, toBridge' = Tail(toBridge)
  PROVE  /\ \A x : Sent(x)' => Sent(x)
         /\ Sent(Head(toBridge))
         /\ ExitLast => ExitLast'
         /\ ExitLast /\ Head(toBridge) = "exit" => ~ Sent("output")'
<1>1. /\ 1 \in 1..Len(toBridge) /\ toBridge[1] = Head(toBridge)
      /\ \A i \in 1..Len(toBridge') : /\ i + 1 \in 1..Len(toBridge) /\ 1 < i + 1
                                      /\ toBridge'[i] = toBridge[i + 1]
      /\ \A i, j \in 1..Len(toBridge') : i < j => i + 1 < j + 1
  BY BridgeRead DEF TypeOK
<1> QED BY <1>1 DEF Sent, ExitLast

LEMMA ReadInvNext ==
  ASSUME TypeOK, HeldInv, ExitInv, ReadInv, [Next]_vars
  PROVE  ReadInv'
<1> USE DEF ReadInv, AllRead
<1>1. CASE DialAndOpen
  <2>1. pump = "off" /\ UNCHANGED pump
    BY <1>1 DEF DialAndOpen, ExitInv, NothingBeforeDial, sessionVars
  <2> QED BY <2>1
<1>2. ASSUME ~ DialAndOpen PROVE Connected' => Connected
  BY <1>2, ConnectedOnce
<1>3. CASE UNCHANGED <<pump, pty, slot, pending, shell>>
  BY <1>1, <1>2, <1>3
<1>4. CASE \/ StreamStep \/ Input \/ UpstreamEnds \/ DownstreamStep
           \/ CloseAgentSide \/ CloseBrowserSide
  BY <1>1, <1>3, <1>4
  DEF StreamStep, ReadCreds, GiveUp, OpenAnswered, OpenUnanswered, StreamReturns, Input,
      UpstreamEnds, DownstreamStep, DownstreamRead, DownstreamWrite, DownstreamWriteFails, DownstreamEnds,
      CloseAgentSide, CloseBrowserSide, agentVars, sessionVars
<1>5. CASE AgentStep
  <2>1. ~ DialAndOpen
    BY <1>5 DEF DialAndOpen, AgentStep, AgentOpen, AgentGets, OpenRejected, OpenHandshakeFails,
                OpenSucceeds, AgentInput, InputRefused, AgentClose, AgentStopsReading, AgentLeaves,
                bridgeVars, TypeOK
  <2>2. CASE AgentOpen \/ OpenRejected \/ AgentInput \/ InputRefused \/ AgentStopsReading
    <3>1. UNCHANGED <<pump, pty, slot, pending, shell>>
      BY <2>2 DEF AgentOpen, OpenRejected, AgentInput, InputRefused, AgentStopsReading, sessionVars
    <3> QED BY <1>3, <3>1
  <2>3. CASE OpenHandshakeFails
    <3>1. pump' = "off"
      BY <2>3 DEF OpenHandshakeFails, ExitInv, OneOpen
    <3> QED BY <3>1
  <2>4. CASE OpenSucceeds
    <3>1. pump' = "read" /\ pty' = "open"
      BY <2>4 DEF OpenSucceeds
    <3> QED BY <3>1
  <2>5. CASE AgentClose \/ AgentLeaves
    <3>1. ~ slot' /\ UNCHANGED <<pump, pending>> /\ (shell' = "running" => shell = "running")
      BY <2>5 DEF AgentClose, AgentLeaves, TakeAndClose, SessionClose
    <3> QED BY <1>2, <2>1, <3>1
  <2> QED BY <1>5, <2>2, <2>3, <2>4, <2>5 DEF AgentStep
<1>6. CASE PumpStep
  <2>0. Connected' => Connected
    <3>1. pump # "off"
      BY <1>6 DEF PumpStep, PumpReads, PumpWrites, PumpWriteFails, PumpEnds, PumpChecks,
                  PumpTakes, PumpTells
    <3>2. ~ DialAndOpen
      BY <3>1 DEF DialAndOpen, ExitInv, NothingBeforeDial
    <3> QED BY <1>2, <3>2
  <2>1. CASE PumpReads \/ PumpWrites
    BY <2>0, <2>1 DEF PumpReads, PumpWrites, agentVars
  <2>2. CASE PumpWriteFails
    <3>1. ~ Connected'
      BY <2>2 DEF PumpWriteFails, Connected
    <3> QED BY <3>1
  <2>3. CASE PumpEnds
    BY <2>0, <2>3 DEF PumpEnds, agentVars
  <2>4. CASE PumpChecks
    BY <2>0, <2>4 DEF PumpChecks, agentVars
  <2>5. CASE PumpTakes
    BY <2>0, <2>5 DEF PumpTakes
  <2>6. CASE PumpTells
    BY <2>0, <2>6 DEF PumpTells, agentVars
  <2> QED BY <1>6, <2>1, <2>2, <2>3, <2>4, <2>5, <2>6 DEF PumpStep
<1>7. CASE ShellWrites \/ ShellExits
  <2>1. ~ DialAndOpen
    BY <1>7 DEF ShellWrites, ShellExits, DialAndOpen, bridgeVars, TypeOK
  <2> QED BY <1>2, <1>7, <2>1 DEF ShellWrites, ShellExits, agentVars
<1>8. CASE \/ InputTaken \/ StatsLoopCloses \/ BrowserLeaves \/ LinkFails \/ Tick
           \/ UNCHANGED vars
  BY <1>3, <1>8 DEF InputTaken, StatsLoopCloses, BrowserLeaves, LinkFails, Tick, vars, agentVars, sessionVars
<1> QED BY <1>4, <1>5, <1>6, <1>7, <1>8 DEF Next

LEMMA LastInvNext ==
  ASSUME TypeOK, HeldInv, ExitInv, ReadInv, LastInv, [Next]_vars
  PROVE  LastInv'
<1> USE DEF LastInv
<1>1. ASSUME UNCHANGED <<told, downstream, toBridge, pump, pending, shell>> PROVE LastInv'
  BY <1>1 DEF Sent, ExitLast, AllRead
<1>2. CASE StreamStep
  <2>1. CASE OpenAnswered
    <3>1. toBridge # <<>> /\ toBridge' = Tail(toBridge)
      BY <2>1 DEF OpenAnswered
    <3>2. /\ Sent("exit")' => Sent("exit")
          /\ Sent("output")' => Sent("output")
          /\ ExitLast => ExitLast'
      BY <3>1, ReadByBridge
    <3>3. ~ told /\ downstream # "tell" /\ downstream' # "tell"
      BY <2>1 DEF OpenAnswered, TypeOK, RelayShape
    <3> QED BY <2>1, <3>2, <3>3 DEF OpenAnswered, AllRead, browserVars, sessionVars
  <2> QED BY <1>1, <1>2, <2>1 DEF StreamStep, ReadCreds, GiveUp, DialAndOpen, OpenUnanswered,
                                  StreamReturns, browserVars, sessionVars
<1>3. CASE DownstreamStep
  <2>1. CASE DownstreamRead
    <3>1. toBridge # <<>> /\ toBridge' = Tail(toBridge) /\ ~ told
          /\ UNCHANGED <<told, pump, pending, shell>>
      BY <2>1 DEF DownstreamRead, browserVars, sessionVars
    <3>2. /\ Sent("exit")' => Sent("exit")
          /\ Sent(Head(toBridge))
          /\ ExitLast => ExitLast'
          /\ ExitLast /\ Head(toBridge) = "exit" => ~ Sent("output")'
      BY <3>1, ReadByBridge
    <3>3. downstream' = "tell" => Head(toBridge) = "exit"
      BY <2>1, <3>1 DEF DownstreamRead
    <3> QED BY <3>1, <3>2, <3>3 DEF AllRead
  <2>2. CASE DownstreamWrite \/ DownstreamWriteFails \/ DownstreamEnds
    <3>1. /\ UNCHANGED <<toBridge, pump, pending, shell>>
          /\ downstream' # "tell"
      BY <2>2 DEF DownstreamWrite, DownstreamWriteFails, DownstreamEnds, sessionVars
    <3>2. ~ told
      BY <2>2 DEF DownstreamWrite, DownstreamWriteFails, DownstreamEnds
    <3>3. told' => downstream = "tell" /\ downstream' = "over"
      BY <2>2, <3>2 DEF DownstreamWrite, DownstreamWriteFails, DownstreamEnds, browserVars
    <3> QED BY <3>1, <3>3 DEF Sent, ExitLast, AllRead
  <2> QED BY <1>3, <2>1, <2>2 DEF DownstreamStep
<1>4. CASE Input \/ UpstreamEnds \/ CloseAgentSide \/ CloseBrowserSide
  BY <1>1, <1>4 DEF Input, UpstreamEnds, CloseAgentSide, CloseBrowserSide, browserVars, sessionVars
<1>5. CASE OpenRejected \/ OpenHandshakeFails \/ OpenSucceeds
  <2>1. ~ told /\ downstream # "tell" /\ ~ Sent("exit")
    <3>1. pump = "off"
      BY <1>5 DEF OpenRejected, OpenHandshakeFails, OpenSucceeds, ExitInv, OneOpen
    <3> QED BY <3>1
  <2>2. PICK f \in {"ok", "error"} : SendToBridge(f)
    BY <1>5 DEF OpenRejected, OpenHandshakeFails, OpenSucceeds
  <2>3. ~ Sent("exit")' /\ ExitLast'
    BY <2>1, <2>2, SentByAgent
  <2>4. UNCHANGED <<told, downstream>>
    BY <1>5 DEF OpenRejected, OpenHandshakeFails, OpenSucceeds, browserVars, bridgeVars
  <2> QED BY <2>1, <2>3, <2>4
<1>6. CASE AgentOpen \/ AgentInput \/ InputRefused \/ AgentStopsReading
  BY <1>1, <1>6 DEF AgentOpen, AgentInput, InputRefused, AgentStopsReading, browserVars, bridgeVars, sessionVars
<1>7. CASE AgentClose \/ AgentLeaves
  <2>1. /\ UNCHANGED <<told, downstream, toBridge, pump, pending>>
        /\ shell' = "running" => shell = "running"
    BY <1>7 DEF AgentClose, AgentLeaves, TakeAndClose, SessionClose, browserVars, bridgeVars
  <2> QED BY <2>1 DEF Sent, ExitLast, AllRead
<1>8. CASE PumpStep
  <2>0. /\ pump # "over" /\ ~ told /\ downstream # "tell" /\ ~ Sent("exit")
        /\ UNCHANGED <<told, downstream>>
    BY <1>8 DEF PumpStep, PumpReads, PumpWrites, PumpWriteFails, PumpEnds, PumpChecks,
                PumpTakes, PumpTells, browserVars, bridgeVars
  <2>1. CASE PumpWrites
    <3>1. ~ Sent("exit")' /\ ExitLast'
      BY <2>0, <2>1, SentByAgent DEF PumpWrites
    <3> QED BY <2>0, <3>1
  <2>2. CASE PumpTells
    <3>1. /\ Sent("exit")' => Connected
          /\ ExitLast'
      BY <2>0, <2>2, SentByAgent DEF PumpTells
    <3>2. Connected => AllRead
      BY <2>2 DEF PumpTells, ReadInv
    <3> QED BY <2>0, <2>2, <3>1, <3>2 DEF PumpTells, AllRead
  <2>3. CASE UNCHANGED toBridge
    BY <2>0, <2>3 DEF Sent, ExitLast
  <2> QED BY <1>8, <2>1, <2>2, <2>3
        DEF PumpStep, PumpReads, PumpWriteFails, PumpEnds, PumpChecks, PumpTakes
<1>9. CASE ShellWrites \/ ShellExits
  <2>1. UNCHANGED <<told, downstream, toBridge, pump>> /\ shell = "running" /\ ~ AllRead
    BY <1>9 DEF ShellWrites, ShellExits, browserVars, bridgeVars, AllRead
  <2> QED BY <2>1 DEF Sent, ExitLast
<1>10. CASE LinkFails
  <2>1. Len(toBridge') = 0 /\ UNCHANGED <<told, downstream, pump, pending, shell>>
    BY <1>10 DEF LinkFails, browserVars, bridgeVars, sessionVars
  <2>2. ~ Sent("exit")' /\ ~ Sent("output")' /\ ExitLast'
    BY <2>1 DEF Sent, ExitLast
  <2> QED BY <2>1, <2>2 DEF AllRead
<1>11. CASE InputTaken \/ StatsLoopCloses \/ BrowserLeaves \/ Tick \/ UNCHANGED vars
  BY <1>1, <1>11 DEF InputTaken, StatsLoopCloses, BrowserLeaves, Tick, vars, browserVars, bridgeVars, sessionVars
<1> QED
  BY <1>2, <1>3, <1>4, <1>5, <1>6, <1>7, <1>8, <1>9, <1>10, <1>11 DEF Next, AgentStep

\* When the browser is told that the shell exited, every chunk the shell wrote has
\* gone through the pty, the connection and the bridge to the browser (pump,
\* Stream): the exit overtakes nothing, and no close or lost connection makes up one.
THEOREM NothingIsDroppedAlways == Spec => []NothingIsDropped
<1>1. Init => ReadInv /\ LastInv
  BY DEF Init, ReadInv, LastInv, Sent, ExitLast
<1>2. TypeOK /\ HeldInv /\ ExitInv /\ ReadInv /\ LastInv /\ [Next]_vars => ReadInv' /\ LastInv'
  BY ReadInvNext, LastInvNext
<1>3. LastInv => NothingIsDropped
  BY DEF LastInv, AllRead, Sent, NothingIsDropped
<1> QED
  BY <1>1, <1>2, <1>3, TypeCorrect, HeldAlways, ExitInvAlways, PTL DEF Spec

=============================================================================
