------------------------- MODULE NodeManager_proofs -------------------------
(***************************************************************************)
(* Safety of the node manager for every set of nodes and every size of the *)
(* pools of goroutines and connections.                                    *)
(***************************************************************************)
EXTENDS NodeManager, TLAPS

LEMMA AnyNodeType == AnyNode \in Node
  BY ConstantsAssumption DEF AnyNode

LEMMA RestingTypes ==
  /\ IdleLoop \in LoopRec
  /\ FreeConn \in ConnRec
  /\ IdleRec \in ReconcileRec
  /\ StartedRec \in ReconcileRec
  /\ IdleAppr \in ApproveRec
  /\ NoTokens \in [Node -> TokenOrNone]
  /\ NoConns \in [Node -> ConnOrNone]
<1> USE AnyNodeType DEF TokenOrNone, ConnOrNone
<1>1. IdleLoop \in LoopRec
  BY DEF IdleLoop, LoopRec, LoopPC
<1>2. FreeConn \in ConnRec
  BY DEF FreeConn, ConnRec, Phase
<1>3. NoTokens \in [Node -> TokenOrNone] /\ NoConns \in [Node -> ConnOrNone]
  BY DEF NoTokens, NoConns
<1>4. IdleRec \in ReconcileRec /\ StartedRec \in ReconcileRec
  BY <1>3 DEF IdleRec, StartedRec, ReconcileRec
<1>5. IdleAppr \in ApproveRec
  BY DEF IdleAppr, ApproveRec
<1> QED BY <1>1, <1>2, <1>3, <1>4, <1>5

\* A connectLoop moves on, with another conn or none.
LEMMA LoopUpdate ==
  ASSUME loop \in [Loop -> LoopRec], NEW g \in Loop, NEW p \in LoopPC,
         NEW c \in ConnOrNone
  PROVE  [loop EXCEPT ![g].pc = p, ![g].conn = c] \in [Loop -> LoopRec]
  BY DEF LoopRec

LEMMA TypeInit == Init => TypeOK
<1> SUFFICES ASSUME Init PROVE TypeOK
  OBVIOUS
<1>1. loop \in [Loop -> LoopRec] /\ conn \in [Conn -> ConnRec]
  BY RestingTypes DEF Init, NoLoops, NoConnObjects
<1>2. rec \in [Reconciler -> ReconcileRec] /\ appr \in [Approver -> ApproveRec]
  BY RestingTypes DEF Init, FirstReconcile, NoHandlers
<1> QED BY <1>1, <1>2, RestingTypes DEF Init, TypeOK, Status

LEMMA TypeStep == TypeOK /\ [Next]_vars => TypeOK'
<1> SUFFICES ASSUME TypeOK, [Next]_vars PROVE TypeOK'
  OBVIOUS
<1> USE DEF TypeOK, rowVars, history, mgrVars, apiVars
<1>1. ASSUME NEW g \in Loop, LoopStep(g) PROVE TypeOK'
  <2> USE DEF LoopOnly
  <2>1. CASE LoopTop(g)
    BY <2>1 DEF LoopTop, LoopRec, LoopPC
  <2>2. CASE LoopGetNode(g)
    BY <2>2 DEF LoopGetNode, LoopRec, LoopPC
  <2>3. CASE ConnectCheck(g)
    <3>1. conns[loop[g].node] \in ConnOrNone
      BY DEF LoopRec
    <3>2. loop' \in [Loop -> LoopRec]
      BY <2>3, <3>1, LoopUpdate DEF ConnectCheck, LoopPC
    <3> QED BY <2>3, <3>2 DEF ConnectCheck
  <2>4. ASSUME NEW c \in Conn, DialOk(g, c) PROVE TypeOK'
    <3>1. loop' \in [Loop -> LoopRec]
      BY <2>4, LoopUpdate DEF DialOk, LoopPC, ConnOrNone
    <3>2. conn' \in [Conn -> ConnRec]
      BY <2>4 DEF DialOk, ConnRec, Phase, LoopRec
    <3> QED BY <2>4, <3>1, <3>2 DEF DialOk
  <2>5. CASE DialFail(g)
    BY <2>5 DEF DialFail, LoopRec, LoopPC
  <2>6. CASE Install(g)
    <3>1. loop[g].conn \in ConnOrNone /\ loop[g].node \in Node
      BY DEF LoopRec
    <3>2. conns' \in [Node -> ConnOrNone]
      BY <2>6, <3>1 DEF Install
    <3>3. loop' \in [Loop -> LoopRec]
      <4>1. conns[loop[g].node] \in ConnOrNone
        BY <3>1
      <4>2. CASE conns[loop[g].node] # NoConn
        BY <2>6, <4>1, <4>2, LoopUpdate DEF Install, LoopPC
      <4>3. CASE conns[loop[g].node] = NoConn
        BY <2>6, <4>3 DEF Install, LoopRec, LoopPC
      <4> QED BY <4>2, <4>3
    <3>4. conn' \in [Conn -> ConnRec]
      BY <2>6, RestingTypes DEF Install, ConnRec, Phase
    <3> QED BY <2>6, <3>2, <3>3, <3>4 DEF Install
  <2>7. CASE Online(g)
    <3>1. loop' \in [Loop -> LoopRec]
      BY <2>7 DEF Online, LoopRec, LoopPC
    <3>2. conn' \in [Conn -> ConnRec]
      BY <2>7 DEF Online, ConnRec, Phase
    <3>3. status' \in [Node -> Status]
      BY <2>7 DEF Online, SetNodeStatus, Status, Connectable
    <3> QED BY <2>7, <3>1, <3>2, <3>3 DEF Online
  <2>8. CASE LoopWake(g)
    <3>1. loop' \in [Loop -> LoopRec]
      BY <2>8, LoopUpdate DEF LoopWake, LoopPC, ConnOrNone
    <3>2. conn' \in [Conn -> ConnRec]
      BY <2>8, RestingTypes DEF LoopWake
    <3> QED BY <2>8, <3>1, <3>2 DEF LoopWake
  <2>9. CASE BackoffOver(g) \/ BackoffStop(g)
    BY <2>9 DEF BackoffOver, BackoffStop, LoopRec, LoopPC
  <2>10. CASE LoopExit(g)
    BY <2>10, RestingTypes DEF LoopExit
  <2> QED BY <1>1, <2>1, <2>2, <2>3, <2>4, <2>5, <2>6, <2>7, <2>8, <2>9, <2>10
          DEF LoopStep
<1>2. ASSUME NEW c \in Conn, ReadLoopStep(c) PROVE TypeOK'
  <2>1. CASE ReadLoopLeave(c)
    BY <2>1 DEF ReadLoopLeave, ConnOrNone, ConnRec, Phase
  <2>2. CASE ReadLoopOffline(c)
    BY <2>2 DEF ReadLoopOffline, SetNodeStatus, Status, Connectable, ConnRec,
       Phase
  <2>3. CASE ReadLoopStop(c)
    BY <2>3 DEF ReadLoopStop, ConnRec, Phase
  <2> QED BY <1>2, <2>1, <2>2, <2>3 DEF ReadLoopStep
<1>3. ASSUME NEW r \in Reconciler, ReconcileStep(r) PROVE TypeOK'
  <2>1. CASE ReconcileTick(r)
    BY <2>1, RestingTypes DEF ReconcileTick
  <2>2. CASE ReconcileList(r)
    <3>1. rec' \in [Reconciler -> ReconcileRec]
      BY <2>2, RestingTypes DEF ReconcileList, Snapshot, ReconcileRec, TokenOrNone
    <3> QED BY <2>2, <3>1 DEF ReconcileList
  <2>3. ASSUME NEW n \in Node, Walked(r, n) PROVE rec' \in [Reconciler -> ReconcileRec]
    BY <2>3, RestingTypes DEF Walked, ReconcileRec, TokenOrNone
  <2>4. ASSUME NEW n \in Node, ReconcileSkip(r, n) PROVE TypeOK'
    BY <2>3, <2>4 DEF ReconcileSkip
  <2>5. ASSUME NEW n \in Node, NEW g \in Loop, ReconcileStart(r, n, g)
        PROVE TypeOK'
    <3>1. loop' \in [Loop -> LoopRec]
      BY <2>5 DEF ReconcileStart, LoopRec, LoopPC, ConnOrNone, ReconcileRec
    <3> QED BY <2>3, <2>5, <3>1 DEF ReconcileStart
  <2> QED BY <1>3, <2>1, <2>2, <2>4, <2>5 DEF ReconcileStep
<1>4. ASSUME NEW a \in Approver, ApproveStep(a) PROVE TypeOK'
  <2>1. CASE ApproveToken(a)
    BY <2>1, RestingTypes DEF ApproveToken, ApproveRec, TokenOrNone
  <2>2. ASSUME NEW r \in Reconciler, ApproveStatus(a, r) PROVE TypeOK'
    <3>1. appr[a].node \in Node
      BY DEF ApproveRec
    <3> QED BY <2>2, <3>1, RestingTypes
            DEF ApproveStatus, SetNodeStatus, Status, Connectable
  <2> QED BY <1>4, <2>1, <2>2 DEF ApproveStep
<1>5. ASSUME NEW n \in Node, Drop(n) PROVE TypeOK'
  BY <1>5 DEF Drop, ConnOrNone, ConnRec
<1>6. CASE CloseStop
  BY <1>6 DEF CloseStop
<1>7. CASE CloseConns
  <2>1. conn' \in [Conn -> ConnRec]
    BY <1>7 DEF CloseConns, ConnRec
  <2> QED BY <1>7, <2>1, RestingTypes DEF CloseConns, NoConns
<1>8. CASE Operator
  <2>1. ASSUME NEW n \in Node, Discover(n) PROVE TypeOK'
    BY <2>1 DEF Discover, UpsertNode, Status, TokenOrNone
  <2>2. ASSUME NEW n \in Node, NEW t \in Token, Create(n, t) PROVE TypeOK'
    BY <2>2 DEF Create, UpsertNode, Status, TokenOrNone
  <2>3. ASSUME NEW n \in Node, NEW t \in Token, SetToken(n, t) PROVE TypeOK'
    BY <2>3 DEF SetToken, TokenOrNone
  <2>4. ASSUME NEW a \in Approver, NEW n \in Node, ApproveGet(a, n) PROVE TypeOK'
    BY <2>4 DEF ApproveGet, ApproveRec
  <2>5. ASSUME NEW n \in Node, Delete(n) PROVE TypeOK'
    BY <2>5 DEF Delete, Status, TokenOrNone
  <2> QED BY <1>8, <2>1, <2>2, <2>3, <2>4, <2>5 DEF Operator
<1>9. CASE Environment
  <2>1. ASSUME NEW n \in Node, AgentDown(n) \/ AgentStart(n) PROVE TypeOK'
    <3>1. CASE AgentDown(n)
      <4>1. conn' \in [Conn -> ConnRec]
        BY <3>1 DEF AgentDown, ConnRec
      <4> QED BY <3>1, <4>1 DEF AgentDown
    <3>2. CASE AgentStart(n)
      BY <3>2 DEF AgentStart
    <3> QED BY <2>1, <3>1, <3>2
  <2>2. ASSUME NEW c \in Conn, ConnBreak(c) PROVE TypeOK'
    <3>1. conn' \in [Conn -> ConnRec]
      BY <2>2 DEF ConnBreak, ConnRec
    <3> QED BY <2>2, <3>1 DEF ConnBreak
  <2>3. ASSUME NEW r \in Reconciler, Restart(r) PROVE TypeOK'
    BY <2>3, RestingTypes DEF Restart, NoLoops, NoConnObjects, FirstReconcile,
       NoHandlers
  <2> QED BY <1>9, <2>1, <2>2, <2>3 DEF Environment
<1>10. CASE UNCHANGED vars
  BY <1>10 DEF vars
<1> QED BY <1>1, <1>2, <1>3, <1>4, <1>5, <1>6, <1>7, <1>8, <1>9, <1>10 DEF Next

\* Every variable keeps its type.
THEOREM TypeCorrect == Spec => []TypeOK
  BY TypeInit, TypeStep, PTL DEF Spec

-----------------------------------------------------------------------------
(* connectLoop goroutines: never two that work for one node.               *)

\* A step that moves loops along, and neither starts nor ends one, keeps
\* LoopInv if none becomes active once Close has emptied m.looping.
LEMMA LoopsOnlyMove ==
  ASSUME LoopInv, mgr' = mgr, looping' = looping,
         \A h \in Loop : loop'[h].node = loop[h].node,
         \A h \in Loop : loop'[h].pc = "idle" <=> loop[h].pc = "idle",
         \A h \in Loop : Active(h)' => Active(h) \/ mgr # "closed"
  PROVE  LoopInv'
<1>1. OneLoopUntilClosed'
  BY DEF LoopInv, OneLoopUntilClosed
<1>2. OneLoopPerNode'
  <2>1. CASE mgr = "closed"
    BY <2>1 DEF LoopInv, OneLoopPerNode
  <2>2. CASE mgr # "closed"
    BY <2>2, <1>1 DEF OneLoopUntilClosed, OneLoopPerNode, Active
  <2> QED BY <2>1, <2>2
<1>3. LoopingIsAccurate'
  BY DEF LoopInv, LoopingIsAccurate
<1> QED BY <1>1, <1>2, <1>3 DEF LoopInv

LEMMA LoopInvStep == TypeOK /\ LoopInv /\ [Next]_vars => LoopInv'
<1> SUFFICES ASSUME TypeOK, LoopInv, [Next]_vars PROVE LoopInv'
  OBVIOUS
<1>0. loop \in [Loop -> LoopRec] /\ looping \in SUBSET Node
  BY DEF TypeOK
<1>1. ASSUME UNCHANGED <<mgr, looping, loop>> PROVE LoopInv'
  BY <1>1, LoopsOnlyMove DEF Active
<1>2. ASSUME NEW g \in Loop, LoopStep(g) PROVE LoopInv'
  <2> DEFINE Moves == /\ mgr' = mgr
                      /\ looping' = looping
                      /\ \A h \in Loop : loop'[h].node = loop[h].node
                      /\ \A h \in Loop : h # g => loop'[h] = loop[h]
                      /\ loop[g].pc # "idle"
                      /\ loop'[g].pc # "idle"
                      /\ Active(g)' => Active(g) \/ mgr # "closed"
  <2>1. Moves => LoopInv'
    <3> SUFFICES ASSUME Moves PROVE LoopInv'
      OBVIOUS
    <3>1. \A h \in Loop : loop'[h].pc = "idle" <=> loop[h].pc = "idle"
      OBVIOUS
    <3>2. \A h \in Loop : Active(h)' => Active(h) \/ mgr # "closed"
      BY DEF Active
    <3> HIDE DEF LoopInv
    <3> QED BY <3>1, <3>2, LoopsOnlyMove
  <2> USE <1>0 DEF LoopRec, LoopOnly, mgrVars, Active
  <2>2. CASE LoopTop(g)
    BY <2>1, <2>2 DEF LoopTop
  <2>3. CASE LoopGetNode(g) \/ DialFail(g)
    BY <2>1, <2>3 DEF LoopGetNode, DialFail
  <2>4. CASE ConnectCheck(g) \/ Install(g)
    BY <2>1, <2>4 DEF ConnectCheck, Install
  <2>5. CASE \E c \in Conn : DialOk(g, c)
    BY <2>1, <2>5 DEF DialOk
  <2>6. CASE Online(g) \/ LoopWake(g)
    BY <2>1, <2>6 DEF Online, LoopWake
  <2>7. CASE BackoffOver(g) \/ BackoffStop(g)
    BY <2>1, <2>7 DEF BackoffOver, BackoffStop
  <2>8. CASE LoopExit(g)
    <3>1. /\ loop'[g].pc = "idle" /\ loop[g].pc = "exit"
          /\ \A h \in Loop : h # g => loop'[h] = loop[h]
          /\ looping' = looping \ {loop[g].node}
          /\ mgr' = mgr
      BY <2>8 DEF LoopExit, IdleLoop
    <3>2. OneLoopPerNode' /\ OneLoopUntilClosed'
      BY <3>1 DEF LoopInv, OneLoopPerNode, OneLoopUntilClosed
    <3>3. LoopingIsAccurate'
      BY <3>1 DEF LoopInv, LoopingIsAccurate, OneLoopUntilClosed
    <3> QED BY <3>2, <3>3 DEF LoopInv
  <2> QED BY <1>2, <2>2, <2>3, <2>4, <2>5, <2>6, <2>7, <2>8 DEF LoopStep
<1>3. ASSUME NEW r \in Reconciler, ReconcileStep(r) PROVE LoopInv'
  <2>1. CASE ReconcileTick(r) \/ ReconcileList(r)
    BY <1>1, <2>1 DEF ReconcileTick, ReconcileList, mgrVars
  <2>2. ASSUME NEW n \in Node, ReconcileSkip(r, n) PROVE LoopInv'
    BY <1>1, <2>2 DEF ReconcileSkip, mgrVars
  <2>3. ASSUME NEW n \in Node, NEW g \in Loop, ReconcileStart(r, n, g)
        PROVE LoopInv'
    <3>1. /\ loop[g].pc = "idle" /\ loop'[g].pc = "top" /\ loop'[g].node = n
          /\ \A h \in Loop : h # g => loop'[h] = loop[h]
          /\ n \notin looping /\ looping' = looping \union {n}
          /\ mgr' = mgr
      BY <1>0, <2>3 DEF ReconcileStart
    <3>2. mgr # "closed" => \A h \in Loop : loop[h].pc # "idle" => loop[h].node # n
      BY <3>1 DEF LoopInv, LoopingIsAccurate
    <3>3. OneLoopPerNode'
      BY <3>1 DEF LoopInv, OneLoopPerNode, Active
    <3>4. OneLoopUntilClosed'
      BY <3>1, <3>2 DEF LoopInv, OneLoopUntilClosed
    <3>5. LoopingIsAccurate'
      BY <3>1 DEF LoopInv, LoopingIsAccurate
    <3> QED BY <3>3, <3>4, <3>5 DEF LoopInv
  <2> QED BY <1>3, <2>1, <2>2, <2>3 DEF ReconcileStep
<1>4. CASE CloseStop
  BY <1>4 DEF CloseStop, LoopInv, OneLoopPerNode, OneLoopUntilClosed,
     LoopingIsAccurate, Active
<1>5. CASE CloseConns
  BY <1>5 DEF CloseConns, LoopInv, OneLoopPerNode, OneLoopUntilClosed,
     LoopingIsAccurate, Active
<1>6. ASSUME NEW r \in Reconciler, Restart(r) PROVE LoopInv'
  BY <1>6 DEF Restart, NoLoops, IdleLoop, LoopInv, OneLoopPerNode,
     OneLoopUntilClosed, LoopingIsAccurate, Active
<1>7. ASSUME NEW c \in Conn, ReadLoopStep(c) PROVE LoopInv'
  BY <1>1, <1>7 DEF ReadLoopStep, ReadLoopLeave, ReadLoopOffline, ReadLoopStop,
     mgrVars
<1>8. ASSUME NEW a \in Approver, ApproveStep(a) PROVE LoopInv'
  BY <1>1, <1>8 DEF ApproveStep, ApproveToken, ApproveStatus, mgrVars
<1>9. ASSUME NEW n \in Node, Drop(n) PROVE LoopInv'
  BY <1>1, <1>9 DEF Drop
<1>10. CASE Operator
  BY <1>1, <1>10 DEF Operator, Discover, Create, SetToken, ApproveGet, Delete,
     mgrVars
<1>11. CASE Environment
  BY <1>1, <1>6, <1>11 DEF Environment, AgentDown, AgentStart, ConnBreak, mgrVars
<1>12. CASE UNCHANGED vars
  BY <1>1, <1>12 DEF vars, mgrVars
<1> QED BY <1>2, <1>3, <1>4, <1>5, <1>7, <1>8, <1>9, <1>10, <1>11, <1>12 DEF Next

-----------------------------------------------------------------------------
(* Conns: each has one owner, the loop that dialed it.                     *)

Owned == TypeOK /\ LoopInv /\ ConnInv

\* Two loops never hold the same conn.
LEMMA HoldersDiffer ==
  ASSUME Owned, NEW g \in Loop, NEW h \in Loop, Holding(g), Holding(h),
         loop[g].conn = loop[h].conn
  PROVE  g = h
  BY DEF Owned, LoopInv, OneLoopPerNode, Active, Holding, ConnInv, HoldsItsConn

\* The entry of a node in m.conns belongs to that node's loop, which is past
\* Install; so the loop finds no entry when it checks and when it installs.
LEMMA NoRaceForTheMap ==
  ASSUME Owned, NEW g \in Loop, loop[g].pc \in {"check", "install"}
  PROVE  conns[loop[g].node] = NoConn
<1> DEFINE n == loop[g].node
<1> SUFFICES ASSUME conns[n] # NoConn PROVE FALSE
  OBVIOUS
<1>1. n \in Node
  BY DEF Owned, TypeOK, LoopRec
<1>2. conns[n] \in Conn
  BY <1>1 DEF Owned, TypeOK, ConnOrNone
<1>3. conn[conns[n]].node = n /\ conn[conns[n]].phase \in {"installed", "live"}
  BY <1>1 DEF Owned, ConnInv, ConnsAreServed
<1>4. PICK h \in Loop : Holding(h) /\ loop[h].conn = conns[n]
  BY <1>2, <1>3 DEF Owned, ConnInv, EveryConnIsHeld
<1>5. loop[h].node = n /\ loop[h].pc \in {"online", "wait"}
  BY <1>3, <1>4 DEF Owned, ConnInv, HoldsItsConn, Holding
<1>6. h = g
  BY <1>5 DEF Owned, LoopInv, OneLoopPerNode, Active
<1> QED BY <1>5, <1>6

\* A step that only moves loops that hold nothing.
LEMMA ConnInvMove ==
  ASSUME ConnInv, conn' = conn, conns' = conns,
         \A h \in Loop :
           \/ loop'[h] = loop[h]
           \/ ~ Holding(h) /\ ~ Holding(h)' /\ loop'[h].conn = NoConn
  PROVE  ConnInv'
<1>1. HoldsItsConn'
  BY DEF ConnInv, HoldsItsConn, Holding
<1>2. EveryConnIsHeld'
  BY DEF ConnInv, EveryConnIsHeld, Holding
<1>3. ConnsAreServed'
  BY DEF ConnInv, ConnsAreServed
<1> QED BY <1>1, <1>2, <1>3 DEF ConnInv

\* A step that only breaks sockets and empties entries of m.conns.
LEMMA ConnInvBreak ==
  ASSUME ConnInv, TypeOK, loop' = loop,
         \A c \in Conn : conn'[c].phase = conn[c].phase /\ conn'[c].node = conn[c].node,
         \A n \in Node : conns'[n] \in {conns[n], NoConn}
  PROVE  ConnInv'
<1>1. HoldsItsConn'
  BY DEF ConnInv, HoldsItsConn, Holding
<1>2. EveryConnIsHeld'
  BY DEF ConnInv, EveryConnIsHeld, Holding
<1>3. ConnsAreServed'
  BY DEF ConnInv, ConnsAreServed, TypeOK, ConnOrNone
<1> QED BY <1>1, <1>2, <1>3 DEF ConnInv

LEMMA ConnInvStep == Owned /\ [Next]_vars => ConnInv'
<1> SUFFICES ASSUME Owned, [Next]_vars PROVE ConnInv'
  OBVIOUS
<1>0. /\ loop \in [Loop -> LoopRec] /\ conn \in [Conn -> ConnRec]
      /\ conns \in [Node -> ConnOrNone] /\ TypeOK /\ ConnInv
      /\ NoConn \notin Conn
  BY ConstantsAssumption DEF Owned, TypeOK
<1>1. ASSUME UNCHANGED <<loop, conn, conns>> PROVE ConnInv'
  BY <1>0, <1>1, ConnInvMove
<1>2. ASSUME NEW g \in Loop, LoopStep(g) PROVE ConnInv'
  <2> DEFINE n == loop[g].node
  <2> USE <1>0 DEF LoopOnly
  <2>0. n \in Node
    BY DEF LoopRec
  <2>1. ASSUME conn' = conn, conns' = conns, ~ Holding(g), ~ Holding(g)',
               loop'[g].conn = NoConn, \A h \in Loop : h # g => loop'[h] = loop[h]
        PROVE  ConnInv'
    BY <2>1, ConnInvMove
  <2>2. CASE LoopTop(g) \/ LoopGetNode(g) \/ DialFail(g)
    BY <2>1, <2>2 DEF LoopTop, LoopGetNode, DialFail, LoopRec, Holding, ConnInv,
       HoldsItsConn
  <2>3. CASE ConnectCheck(g)
    <3>1. conns[n] = NoConn
      BY <2>3, NoRaceForTheMap DEF ConnectCheck
    <3> QED BY <2>1, <2>3, <3>1 DEF ConnectCheck, LoopRec, Holding
  <2>4. CASE BackoffOver(g) \/ BackoffStop(g) \/ LoopExit(g)
    BY <2>1, <2>4 DEF BackoffOver, BackoffStop, LoopExit, IdleLoop, LoopRec,
       Holding, ConnInv, HoldsItsConn
  <2>5. ASSUME NEW c \in Conn, DialOk(g, c) PROVE ConnInv'
    <3>1. /\ loop[g].pc = "dial" /\ loop'[g].pc = "install" /\ loop'[g].conn = c
          /\ loop'[g].node = n
          /\ \A h \in Loop : h # g => loop'[h] = loop[h]
          /\ conn[c].phase = "free" /\ conn'[c].phase = "dialed" /\ conn'[c].node = n
          /\ \A d \in Conn : d # c => conn'[d] = conn[d]
          /\ conns' = conns
      BY <2>5 DEF DialOk, LoopRec, ConnRec
    <3>2. \A h \in Loop : Holding(h) => loop[h].conn # c
      BY <3>1 DEF ConnInv, HoldsItsConn, Holding
    <3>3. HoldsItsConn'
      BY <3>1, <3>2 DEF ConnInv, HoldsItsConn, Holding
    <3>4. EveryConnIsHeld'
      BY <3>1 DEF ConnInv, EveryConnIsHeld, Holding
    <3>5. ConnsAreServed'
      BY <3>1 DEF ConnInv, ConnsAreServed, ConnOrNone
    <3> QED BY <3>3, <3>4, <3>5 DEF ConnInv
  <2>6. CASE Install(g)
    <3>1. conns[n] = NoConn
      BY <2>6, NoRaceForTheMap DEF Install
    <3>2. PICK c \in Conn : loop[g].conn = c /\ conn[c].node = n /\ conn[c].phase = "dialed"
      BY <2>6 DEF Install, ConnInv, HoldsItsConn, Holding
    <3>3. /\ loop[g].pc = "install" /\ loop'[g].pc = "online"
          /\ loop'[g].conn = c /\ loop'[g].node = n
          /\ \A h \in Loop : h # g => loop'[h] = loop[h]
          /\ conn'[c].phase = "installed" /\ conn'[c].node = n
          /\ \A d \in Conn : d # c => conn'[d] = conn[d]
          /\ conns' = [conns EXCEPT ![n] = c]
      BY <2>6, <3>1, <3>2 DEF Install, LoopRec, ConnRec
    <3>4. \A h \in Loop : Holding(h) /\ loop[h].conn = c => h = g
      BY <3>2, <3>3, HoldersDiffer DEF Holding
    <3>5. HoldsItsConn'
      BY <3>2, <3>3, <3>4 DEF ConnInv, HoldsItsConn, Holding
    <3>6. EveryConnIsHeld'
      BY <3>2, <3>3 DEF ConnInv, EveryConnIsHeld, Holding
    <3>7. ConnsAreServed'
      BY <2>0, <3>2, <3>3 DEF ConnInv, ConnsAreServed, ConnOrNone
    <3> QED BY <3>5, <3>6, <3>7 DEF ConnInv
  <2>7. CASE Online(g)
    <3>2. PICK c \in Conn : loop[g].conn = c /\ conn[c].node = n /\ conn[c].phase = "installed"
      BY <2>7 DEF Online, ConnInv, HoldsItsConn, Holding
    <3>3. /\ loop[g].pc = "online" /\ loop'[g].pc = "wait"
          /\ loop'[g].conn = c /\ loop'[g].node = n
          /\ \A h \in Loop : h # g => loop'[h] = loop[h]
          /\ conn'[c].phase = "live" /\ conn'[c].node = n
          /\ \A d \in Conn : d # c => conn'[d] = conn[d]
          /\ conns' = conns
      BY <2>7, <3>2 DEF Online, mgrVars, LoopRec, ConnRec
    <3>4. \A h \in Loop : Holding(h) /\ loop[h].conn = c => h = g
      BY <3>2, <3>3, HoldersDiffer DEF Holding
    <3>5. HoldsItsConn'
      BY <3>2, <3>3, <3>4 DEF ConnInv, HoldsItsConn, Holding
    <3>6. EveryConnIsHeld'
      BY <3>2, <3>3 DEF ConnInv, EveryConnIsHeld, Holding
    <3>7. ConnsAreServed'
      BY <3>2, <3>3 DEF ConnInv, ConnsAreServed, ConnOrNone
    <3> QED BY <3>5, <3>6, <3>7 DEF ConnInv
  <2>8. CASE LoopWake(g)
    <3>2. PICK c \in Conn : loop[g].conn = c /\ conn[c].phase = "stopped"
      BY <2>8 DEF LoopWake, ConnInv, HoldsItsConn, Holding
    <3>3. \A h \in Loop : Holding(h) /\ loop[h].conn = c => h = g
      BY <2>8, <3>2, HoldersDiffer DEF Holding, LoopWake
    <3>4. \A h \in Loop : h # g => loop[h].conn # c
      BY <3>2, <3>3 DEF ConnInv, HoldsItsConn
    <3>5. /\ loop'[g].pc = "top" /\ loop'[g].conn = NoConn
          /\ \A h \in Loop : h # g => loop'[h] = loop[h]
          /\ conn'[c].phase = "free"
          /\ \A d \in Conn : d # c => conn'[d] = conn[d]
          /\ conns' = conns
      BY <2>8, <3>2, <3>4 DEF LoopWake, LoopRec, FreeConn
    <3>6. HoldsItsConn'
      BY <3>2, <3>4, <3>5 DEF ConnInv, HoldsItsConn, Holding
    <3>7. EveryConnIsHeld'
      BY <3>2, <3>5 DEF ConnInv, EveryConnIsHeld, Holding
    <3>8. ConnsAreServed'
      BY <3>2, <3>5 DEF ConnInv, ConnsAreServed, ConnOrNone
    <3> QED BY <3>6, <3>7, <3>8 DEF ConnInv
  <2> QED BY <1>2, <2>2, <2>3, <2>4, <2>5, <2>6, <2>7, <2>8 DEF LoopStep
<1>3. ASSUME NEW c \in Conn, ReadLoopStep(c) PROVE ConnInv'
  <2> USE <1>0
  <2>1. /\ loop' = loop
        /\ \A d \in Conn : d # c => conn'[d] = conn[d]
        /\ conn'[c].node = conn[c].node
        /\ conn[c].phase \in {"live", "left", "told"}
        /\ conn'[c].phase \in {"left", "told", "stopped"}
    BY <1>3 DEF ReadLoopStep, ReadLoopLeave, ReadLoopOffline, ReadLoopStop, ConnRec
  <2>2. \A n \in Node : conns'[n] # NoConn => conns'[n] = conns[n] /\ conns[n] # c
    <3>1. CASE ReadLoopLeave(c)
      <4>1. \A n \in Node : conns[n] = c => conn[c].node = n
        BY DEF ConnInv, ConnsAreServed
      <4> QED BY <3>1, <4>1 DEF ReadLoopLeave, ConnRec
    <3>2. CASE ReadLoopOffline(c) \/ ReadLoopStop(c)
      BY <3>2 DEF ReadLoopOffline, ReadLoopStop, mgrVars, ConnInv, ConnsAreServed
    <3> QED BY <1>3, <3>1, <3>2 DEF ReadLoopStep
  <2>3. HoldsItsConn'
    BY <2>1 DEF ConnInv, HoldsItsConn, Holding
  <2>4. EveryConnIsHeld'
    BY <2>1 DEF ConnInv, EveryConnIsHeld, Holding
  <2>5. ConnsAreServed'
    BY <2>1, <2>2 DEF ConnInv, ConnsAreServed, ConnOrNone
  <2> QED BY <2>3, <2>4, <2>5 DEF ConnInv
<1>4. ASSUME NEW r \in Reconciler, ReconcileStep(r) PROVE ConnInv'
  <2>1. CASE ReconcileTick(r) \/ ReconcileList(r)
    BY <1>1, <2>1 DEF ReconcileTick, ReconcileList, mgrVars
  <2>2. ASSUME NEW n \in Node, ReconcileSkip(r, n) PROVE ConnInv'
    BY <1>1, <2>2 DEF ReconcileSkip, mgrVars
  <2>3. ASSUME NEW n \in Node, NEW g \in Loop, ReconcileStart(r, n, g)
        PROVE ConnInv'
    BY <1>0, <2>3, ConnInvMove DEF ReconcileStart, Holding
  <2> QED BY <1>4, <2>1, <2>2, <2>3 DEF ReconcileStep
<1>5. ASSUME NEW a \in Approver, ApproveStep(a) PROVE ConnInv'
  BY <1>1, <1>5 DEF ApproveStep, ApproveToken, ApproveStatus, mgrVars
<1>6. ASSUME NEW n \in Node, Drop(n) PROVE ConnInv'
  BY <1>0, <1>6, ConnInvBreak DEF Drop, ConnRec, ConnOrNone
<1>7. CASE CloseStop
  BY <1>1, <1>7 DEF CloseStop
<1>8. CASE CloseConns
  BY <1>0, <1>8, ConnInvBreak DEF CloseConns, ConnRec
<1>9. CASE Operator
  BY <1>1, <1>9 DEF Operator, Discover, Create, SetToken, ApproveGet, Delete, mgrVars
<1>10. CASE Environment
  <2>1. ASSUME NEW n \in Node, AgentDown(n) PROVE ConnInv'
    BY <1>0, <2>1, ConnInvBreak DEF AgentDown, ConnRec, mgrVars
  <2>2. ASSUME NEW n \in Node, AgentStart(n) PROVE ConnInv'
    BY <1>1, <2>2 DEF AgentStart, mgrVars
  <2>3. ASSUME NEW c \in Conn, ConnBreak(c) PROVE ConnInv'
    BY <1>0, <2>3, ConnInvBreak DEF ConnBreak, ConnRec, mgrVars
  <2>4. ASSUME NEW r \in Reconciler, Restart(r) PROVE ConnInv'
    BY <2>4 DEF Restart, NoLoops, NoConns, NoConnObjects, IdleLoop, FreeConn,
       ConnInv, HoldsItsConn, EveryConnIsHeld, ConnsAreServed, Holding
  <2> QED BY <1>10, <2>1, <2>2, <2>3, <2>4 DEF Environment
<1>11. CASE UNCHANGED vars
  BY <1>1, <1>11 DEF vars, mgrVars
<1> QED BY <1>2, <1>3, <1>4, <1>5, <1>6, <1>7, <1>8, <1>9, <1>10, <1>11 DEF Next

-----------------------------------------------------------------------------
(* Approval: nothing works for a node no operator ever approved.           *)

LEMMA ApprovedInvStep == Owned /\ ApprovedInv /\ [Next]_vars => ApprovedInv'
<1> SUFFICES ASSUME Owned, ApprovedInv, [Next]_vars PROVE ApprovedInv'
  OBVIOUS
<1>0. /\ loop \in [Loop -> LoopRec] /\ conn \in [Conn -> ConnRec]
      /\ rec \in [Reconciler -> ReconcileRec] /\ status \in [Node -> Status]
      /\ ConnInv
  BY DEF Owned, TypeOK
<1> USE DEF ApprovedInv, NeverApprovedNeverDialed
<1>1. ASSUME UNCHANGED <<status, everApproved, loop, conn, rec>> PROVE ApprovedInv'
  BY <1>1
<1>2. ASSUME NEW g \in Loop, LoopStep(g) PROVE ApprovedInv'
  <2> USE <1>0 DEF LoopOnly, rowVars, history
  <2>1. ASSUME conn' = conn, status' = status, everApproved' = everApproved, rec' = rec,
               \A h \in Loop : loop'[h].pc = "idle" \/ loop'[h].node = loop[h].node,
               \A h \in Loop : loop[h].pc = "idle" => loop'[h].pc = "idle"
        PROVE  ApprovedInv'
    BY <2>1
  <2>2. CASE LoopTop(g) \/ LoopGetNode(g) \/ DialFail(g)
    BY <2>1, <2>2 DEF LoopTop, LoopGetNode, DialFail, LoopRec
  <2>3. CASE ConnectCheck(g)
    BY <2>1, <2>3 DEF ConnectCheck, LoopRec
  <2>4. CASE BackoffOver(g) \/ BackoffStop(g) \/ LoopExit(g)
    BY <2>1, <2>4 DEF BackoffOver, BackoffStop, LoopExit, IdleLoop, LoopRec
  <2>5. ASSUME NEW c \in Conn, DialOk(g, c) PROVE ApprovedInv'
    BY <2>5 DEF DialOk, LoopRec, ConnRec
  <2>6. CASE Install(g)
    <3>1. conns[loop[g].node] = NoConn
      BY <2>6, NoRaceForTheMap DEF Install
    <3>2. loop[g].conn \in Conn /\ conn[loop[g].conn].phase # "free"
      BY <2>6 DEF Install, ConnInv, HoldsItsConn, Holding
    <3> QED BY <2>6, <3>1, <3>2 DEF Install, LoopRec, ConnRec
  <2>7. CASE Online(g)
    <3>1. loop[g].node \in everApproved
      BY <2>7 DEF Online
    <3>2. loop[g].conn \in Conn /\ conn[loop[g].conn].phase # "free"
      BY <2>7 DEF Online, ConnInv, HoldsItsConn, Holding
    <3> QED BY <2>7, <3>1, <3>2 DEF Online, SetNodeStatus, LoopRec, ConnRec
  <2>8. CASE LoopWake(g)
    BY <2>8 DEF LoopWake, LoopRec, ConnRec, FreeConn
  <2> QED BY <1>2, <2>2, <2>3, <2>4, <2>5, <2>6, <2>7, <2>8 DEF LoopStep
<1>3. ASSUME NEW c \in Conn, ReadLoopStep(c) PROVE ApprovedInv'
  <2>1. conn[c].node \in everApproved /\ conn[c].phase # "free"
    BY <1>3 DEF ReadLoopStep, ReadLoopLeave, ReadLoopOffline, ReadLoopStop
  <2> QED BY <1>0, <1>3, <2>1 DEF ReadLoopStep, ReadLoopLeave, ReadLoopOffline,
          ReadLoopStop, SetNodeStatus, ConnRec, rowVars, history
<1>4. ASSUME NEW r \in Reconciler, ReconcileStep(r) PROVE ApprovedInv'
  <2> USE <1>0 DEF rowVars, history
  <2>1. CASE ReconcileTick(r)
    BY <2>1 DEF ReconcileTick, StartedRec, IdleRec
  <2>2. CASE ReconcileList(r)
    BY <2>2 DEF ReconcileList, Snapshot, IdleRec
  <2>3. ASSUME NEW n \in Node, Walked(r, n)
        PROVE  \A q \in Reconciler : rec'[q].todo \subseteq everApproved
    BY <2>3 DEF Walked, ReconcileRec, IdleRec
  <2>4. ASSUME NEW n \in Node, ReconcileSkip(r, n) PROVE ApprovedInv'
    BY <2>3, <2>4 DEF ReconcileSkip
  <2>5. ASSUME NEW n \in Node, NEW g \in Loop, ReconcileStart(r, n, g)
        PROVE ApprovedInv'
    BY <2>3, <2>5 DEF ReconcileStart, LoopRec
  <2> QED BY <1>4, <2>1, <2>2, <2>4, <2>5 DEF ReconcileStep
<1>5. ASSUME NEW a \in Approver, ApproveStep(a) PROVE ApprovedInv'
  <2> USE <1>0
  <2>1. CASE ApproveToken(a)
    BY <1>1, <2>1 DEF ApproveToken, mgrVars, history
  <2>2. ASSUME NEW r \in Reconciler, ApproveStatus(a, r) PROVE ApprovedInv'
    BY <2>2 DEF ApproveStatus, SetNodeStatus, Exists, Connectable, Status,
       StartedRec, IdleRec
  <2> QED BY <1>5, <2>1, <2>2 DEF ApproveStep
<1>6. ASSUME NEW n \in Node, Drop(n) PROVE ApprovedInv'
  BY <1>0, <1>6 DEF Drop, ConnRec, rowVars, history
<1>7. CASE CloseStop \/ CloseConns
  BY <1>0, <1>7 DEF CloseStop, CloseConns, ConnRec, rowVars, history
<1>8. CASE Operator
  <2> USE <1>0
  <2>1. ASSUME NEW n \in Node, Discover(n) PROVE ApprovedInv'
    BY <2>1 DEF Discover, UpsertNode, Connectable, history
  <2>2. ASSUME NEW n \in Node, NEW t \in Token, Create(n, t) PROVE ApprovedInv'
    BY <2>2 DEF Create, UpsertNode, Unmentioned, Exists, Connectable
  <2>3. ASSUME NEW n \in Node, NEW t \in Token, SetToken(n, t) PROVE ApprovedInv'
    BY <2>3 DEF SetToken, history
  <2>4. ASSUME NEW a \in Approver, NEW n \in Node, ApproveGet(a, n)
        PROVE  ApprovedInv'
    BY <2>4 DEF ApproveGet, rowVars, history
  <2>5. ASSUME NEW n \in Node, Delete(n) PROVE ApprovedInv'
    BY <2>5 DEF Delete, Connectable
  <2> QED BY <1>8, <2>1, <2>2, <2>3, <2>4, <2>5 DEF Operator
<1>9. CASE Environment
  <2> USE <1>0 DEF rowVars, history
  <2>1. ASSUME NEW n \in Node, AgentDown(n) \/ AgentStart(n) PROVE ApprovedInv'
    BY <2>1 DEF AgentDown, AgentStart, ConnRec
  <2>2. ASSUME NEW c \in Conn, ConnBreak(c) PROVE ApprovedInv'
    BY <2>2 DEF ConnBreak, ConnRec
  <2>3. ASSUME NEW r \in Reconciler, Restart(r) PROVE ApprovedInv'
    BY <2>3 DEF Restart, NoLoops, NoConnObjects, FirstReconcile, IdleLoop,
       FreeConn, StartedRec, IdleRec
  <2> QED BY <1>9, <2>1, <2>2, <2>3 DEF Environment
<1>10. CASE UNCHANGED vars
  BY <1>1, <1>10 DEF vars, rowVars, history
<1> QED BY <1>2, <1>3, <1>4, <1>5, <1>6, <1>7, <1>8, <1>9, <1>10 DEF Next

-----------------------------------------------------------------------------

\* The inductive invariant: for every fleet, and any number of goroutines.
THEOREM InductiveInvariant == Spec => []IInv
<1>1. Init => IInv
  <2> SUFFICES ASSUME Init, TypeOK PROVE LoopInv /\ ConnInv /\ ApprovedInv
    BY TypeInit DEF IInv
  <2> USE DEF Init, NoLoops, IdleLoop, NoConnObjects, FreeConn, NoConns
  <2>1. LoopInv
    BY DEF LoopInv, OneLoopPerNode, OneLoopUntilClosed, LoopingIsAccurate, Active
  <2>2. ConnInv
    BY DEF ConnInv, HoldsItsConn, EveryConnIsHeld, ConnsAreServed, Holding
  <2>3. ApprovedInv
    BY DEF ApprovedInv, NeverApprovedNeverDialed, Connectable, FirstReconcile,
       StartedRec, IdleRec
  <2> QED BY <2>1, <2>2, <2>3
<1>2. IInv /\ [Next]_vars => IInv'
  BY TypeStep, LoopInvStep, ConnInvStep, ApprovedInvStep DEF IInv, Owned
<1> QED BY <1>1, <1>2, PTL DEF Spec

\* At most one connectLoop works for a node, whatever Close and Reconcile do.
THEOREM OneLoopPerNodeAlways == Spec => []OneLoopPerNode
<1>1. IInv => OneLoopPerNode
  BY DEF IInv, LoopInv
<1> QED BY <1>1, InductiveInvariant, PTL

\* m.looping names exactly the nodes that have a loop, until Close.
THEOREM LoopingIsAccurateAlways == Spec => []LoopingIsAccurate
<1>1. IInv => LoopingIsAccurate
  BY DEF IInv, LoopInv
<1> QED BY <1>1, InductiveInvariant, PTL

\* No node has two conns, even while the deferred teardown of one still runs.
THEOREM OneConnPerNodeAlways == Spec => []OneConnPerNode
<1>1. ASSUME IInv, NEW n \in Node, NEW c \in Conn, NEW d \in Conn,
             Unfinished(c, n), Unfinished(d, n)
      PROVE  c = d
  <2>1. PICK g \in Loop : Holding(g) /\ loop[g].conn = c
    BY <1>1 DEF IInv, ConnInv, EveryConnIsHeld, Unfinished
  <2>2. PICK h \in Loop : Holding(h) /\ loop[h].conn = d
    BY <1>1 DEF IInv, ConnInv, EveryConnIsHeld, Unfinished
  <2>3. loop[g].node = n /\ loop[h].node = n
    BY <1>1, <2>1, <2>2 DEF IInv, ConnInv, HoldsItsConn, Unfinished
  <2>4. g = h
    BY <1>1, <2>1, <2>2, <2>3 DEF IInv, LoopInv, OneLoopPerNode, Active, Holding
  <2> QED BY <2>1, <2>2, <2>4
<1>2. IInv => OneConnPerNode
  BY <1>1 DEF OneConnPerNode
<1> QED BY <1>2, InductiveInvariant, PTL

\* Every entry of m.conns is a conn of its node whose readLoop has not ended.
THEOREM ConnsAreServedAlways == Spec => []ConnsAreServed
<1>1. IInv => ConnsAreServed
  BY DEF IInv, ConnInv
<1> QED BY <1>1, InductiveInvariant, PTL

\* A node that was never approved is never dialed.
THEOREM NeverApprovedNeverDialedAlways == Spec => []NeverApprovedNeverDialed
<1>1. IInv => NeverApprovedNeverDialed
  BY DEF IInv, ApprovedInv
<1> QED BY <1>1, InductiveInvariant, PTL

-----------------------------------------------------------------------------
(* Refinement: the reports of the node manager are those of NodeFleet.     *)

Link == [n \in Node |-> Reported(n)]
Linked(c) == conn[c].phase \in {"live", "left"}

LEMMA LinkUnchanged ==
  ASSUME \A c \in Conn : Linked(c)' <=> Linked(c),
         \A c \in Conn : Linked(c) => conn'[c].node = conn[c].node
  PROVE  Link' = Link
<1>1. ASSUME NEW n \in Node PROVE Reported(n)' = Reported(n)
  BY DEF Reported, Linked
<1> QED BY <1>1 DEF Link

\* A step that changes the link of n only.
LEMMA LinkChanges ==
  ASSUME NEW n \in Node, NEW c \in Conn,
         \A d \in Conn : d # c => conn'[d] = conn[d],
         conn'[c].node = n, conn[c].node = n,
         \A d \in Conn : Linked(d) /\ conn[d].node = n => d = c
  PROVE  Link' = [Link EXCEPT ![n] = IF Linked(c)' THEN "up" ELSE "down"]
<1>1. ASSUME NEW m \in Node, m # n PROVE Reported(m)' = Reported(m)
  BY <1>1 DEF Reported, Linked
<1>2. Reported(n)' = IF Linked(c)' THEN "up" ELSE "down"
  BY DEF Reported, Linked
<1> QED BY <1>1, <1>2 DEF Link

LEMMA FleetStep == IInv /\ [Next]_vars => [Fleet!Next]_(Fleet!vars)
<1> SUFFICES ASSUME IInv, [Next]_vars PROVE [Fleet!Next]_(Fleet!vars)
  OBVIOUS
<1>0. /\ loop \in [Loop -> LoopRec] /\ conn \in [Conn -> ConnRec]
      /\ status \in [Node -> Status]
      /\ Owned /\ ConnInv /\ LoopInv /\ NeverApprovedNeverDialed
  BY DEF IInv, Owned, TypeOK, ApprovedInv
<1> USE <1>0
<1>1. ASSUME Link' = Link, status' = status, everApproved' = everApproved
      PROVE  [Fleet!Next]_(Fleet!vars)
  BY <1>1 DEF Fleet!vars, Link
<1>2. ASSUME conn' = conn PROVE Link' = Link
  BY <1>2, LinkUnchanged DEF Linked
\* No other conn of n is linked when one of n is installed, live or left.
<1>3. ASSUME NEW n \in Node, NEW c \in Conn, Unfinished(c, n)
      PROVE  \A d \in Conn : Linked(d) /\ conn[d].node = n => d = c
  <2> SUFFICES ASSUME NEW d \in Conn, Linked(d), conn[d].node = n PROVE d = c
    OBVIOUS
  <2>1. PICK g \in Loop : Holding(g) /\ loop[g].conn = c
    BY <1>3 DEF ConnInv, EveryConnIsHeld, Unfinished
  <2>2. PICK h \in Loop : Holding(h) /\ loop[h].conn = d
    BY DEF ConnInv, EveryConnIsHeld, Linked
  <2>3. loop[g].node = n /\ loop[h].node = n
    BY <1>3, <2>1, <2>2 DEF ConnInv, HoldsItsConn, Unfinished
  <2>4. g = h
    BY <2>1, <2>2, <2>3 DEF LoopInv, OneLoopPerNode, Active, Holding
  <2> QED BY <2>1, <2>2, <2>4
<1>4. ASSUME NEW g \in Loop, LoopStep(g) PROVE [Fleet!Next]_(Fleet!vars)
  <2> USE DEF LoopOnly, rowVars, history
  <2>1. CASE \/ LoopTop(g) \/ LoopGetNode(g) \/ ConnectCheck(g) \/ DialFail(g)
             \/ BackoffOver(g) \/ BackoffStop(g) \/ LoopExit(g)
    BY <1>1, <1>2, <2>1 DEF LoopTop, LoopGetNode, ConnectCheck, DialFail,
       BackoffOver, BackoffStop, LoopExit
  <2>2. ASSUME NEW c \in Conn, DialOk(g, c) PROVE [Fleet!Next]_(Fleet!vars)
    BY <1>1, <2>2, LinkUnchanged DEF DialOk, Linked, ConnRec
  <2>3. CASE Install(g)
    <3>1. conns[loop[g].node] = NoConn
      BY <2>3, NoRaceForTheMap DEF Install
    <3>2. loop[g].conn \in Conn /\ conn[loop[g].conn].phase = "dialed"
      BY <2>3 DEF Install, ConnInv, HoldsItsConn, Holding
    <3> QED BY <1>1, <2>3, <3>1, <3>2, LinkUnchanged DEF Install, Linked, ConnRec
  <2>4. CASE Online(g)
    <3>1. PICK n \in Node : n = loop[g].node /\ n \in everApproved
      BY <2>4 DEF Online, NeverApprovedNeverDialed, LoopRec
    <3>2. PICK c \in Conn : /\ c = loop[g].conn
                            /\ conn[c].phase = "installed" /\ conn[c].node = n
      BY <2>4, <3>1 DEF Online, ConnInv, HoldsItsConn, Holding
    <3>3. \A d \in Conn : Linked(d) /\ conn[d].node = n => d = c
      BY <1>3, <3>1, <3>2 DEF Unfinished
    <3>4. /\ conn'[c].phase = "live" /\ conn'[c].node = n
          /\ \A d \in Conn : d # c => conn'[d] = conn[d]
      BY <2>4, <3>2 DEF Online, ConnRec
    <3>5. Link[n] = "down"
      BY <3>1, <3>2, <3>3 DEF Link, Reported, Linked
    <3>6. Linked(c)'
      BY <3>4 DEF Linked
    <3>7. Link' = [Link EXCEPT ![n] = "up"]
      BY <3>1, <3>2, <3>3, <3>4, <3>6, LinkChanges
    <3>8. Fleet!LinkUp(n)
      BY <2>4, <3>1, <3>5, <3>7 DEF Fleet!LinkUp, Fleet!Report, Link, Online,
         SetNodeStatus, Exists
    <3> QED BY <3>1, <3>8 DEF Fleet!Next
  <2>5. CASE LoopWake(g)
    <3>1. conn[loop[g].conn].phase = "stopped" /\ loop[g].conn \in Conn
      BY <2>5 DEF LoopWake, ConnInv, HoldsItsConn, Holding
    <3> QED BY <1>1, <2>5, <3>1, LinkUnchanged DEF LoopWake, Linked, FreeConn
  <2> QED BY <1>4, <2>1, <2>2, <2>3, <2>4, <2>5 DEF LoopStep
<1>5. ASSUME NEW c \in Conn, ReadLoopStep(c) PROVE [Fleet!Next]_(Fleet!vars)
  <2>1. CASE ReadLoopLeave(c) \/ ReadLoopStop(c)
    BY <1>1, <2>1, LinkUnchanged DEF ReadLoopLeave, ReadLoopStop, Linked, ConnRec,
       rowVars, history
  <2>2. CASE ReadLoopOffline(c)
    <3> DEFINE n == conn[c].node
    <3>1. n \in Node
      BY DEF ConnRec
    <3>2. \A d \in Conn : Linked(d) /\ conn[d].node = n => d = c
      BY <1>3, <2>2, <3>1 DEF Unfinished, ReadLoopOffline
    <3>3. /\ conn'[c].phase = "told" /\ conn'[c].node = n
          /\ \A d \in Conn : d # c => conn'[d] = conn[d]
      BY <2>2 DEF ReadLoopOffline, ConnRec
    <3>4. Link[n] = "up"
      BY <2>2, <3>1 DEF Link, Reported, ReadLoopOffline
    <3>5. ~ Linked(c)'
      BY <3>3 DEF Linked
    <3>6. Link' = [Link EXCEPT ![n] = "down"]
      BY <3>1, <3>2, <3>3, <3>5, LinkChanges
    <3>7. Fleet!LinkDown(n)
      BY <2>2, <3>1, <3>4, <3>6 DEF Fleet!LinkDown, Fleet!Report, Link,
         ReadLoopOffline, history, SetNodeStatus, Exists
    <3> QED BY <3>1, <3>7 DEF Fleet!Next
  <2> QED BY <1>5, <2>1, <2>2 DEF ReadLoopStep
<1>6. ASSUME NEW r \in Reconciler, ReconcileStep(r) PROVE [Fleet!Next]_(Fleet!vars)
  BY <1>1, <1>2, <1>6 DEF ReconcileStep, ReconcileTick, ReconcileList,
     ReconcileSkip, ReconcileStart, rowVars, history
<1>7. ASSUME NEW a \in Approver, ApproveStep(a) PROVE [Fleet!Next]_(Fleet!vars)
  <2>1. CASE ApproveToken(a)
    BY <1>1, <1>2, <2>1 DEF ApproveToken, history
  <2>2. ASSUME NEW r \in Reconciler, ApproveStatus(a, r)
        PROVE  [Fleet!Next]_(Fleet!vars)
    <3> DEFINE n == appr[a].node
    <3>1. n \in Node /\ Link' = Link
      BY <1>2, <2>2 DEF ApproveStatus, IInv, TypeOK, ApproveRec
    <3>2. CASE Exists(n)
      <4>1. Fleet!Approve(n)
        BY <2>2, <3>1, <3>2 DEF Fleet!Approve, ApproveStatus, SetNodeStatus,
           Exists, Link
      <4> QED BY <3>1, <4>1 DEF Fleet!Next
    <3>3. CASE ~ Exists(n)
      BY <1>1, <2>2, <3>1, <3>3 DEF ApproveStatus, SetNodeStatus
    <3> QED BY <3>2, <3>3
  <2> QED BY <1>7, <2>1, <2>2 DEF ApproveStep
<1>8. ASSUME NEW n \in Node, Drop(n) PROVE [Fleet!Next]_(Fleet!vars)
  BY <1>1, <1>8, LinkUnchanged DEF Drop, Linked, ConnRec, rowVars, history
<1>9. CASE CloseStop \/ CloseConns
  BY <1>1, <1>9, LinkUnchanged DEF CloseStop, CloseConns, Linked, ConnRec, rowVars, history
<1>10. CASE Operator
  <2>1. ASSUME NEW n \in Node, Discover(n) PROVE [Fleet!Next]_(Fleet!vars)
    <3>1. Link' = Link
      BY <1>2, <2>1 DEF Discover
    <3>2. CASE Exists(n)
      BY <1>1, <2>1, <3>1, <3>2 DEF Discover, UpsertNode, history
    <3>3. CASE ~ Exists(n)
      <4>1. Fleet!Add(n, FALSE)
        BY <2>1, <3>1, <3>3 DEF Fleet!Add, Discover, UpsertNode, history, Exists, Link
      <4> QED BY <4>1 DEF Fleet!Next
    <3> QED BY <3>2, <3>3
  <2>2. ASSUME NEW n \in Node, NEW t \in Token, Create(n, t)
        PROVE  [Fleet!Next]_(Fleet!vars)
    <3>1. Link' = Link
      BY <1>2, <2>2 DEF Create
    <3>2. Link[n] = "down"
      BY <2>2 DEF Create, Unmentioned, Link, Reported
    <3>3. Fleet!Add(n, TRUE)
      BY <2>2, <3>1, <3>2 DEF Fleet!Add, Create, Unmentioned, UpsertNode, Exists,
         Link
    <3> QED BY <3>3 DEF Fleet!Next
  <2>3. ASSUME NEW n \in Node, NEW t \in Token, SetToken(n, t)
        PROVE  [Fleet!Next]_(Fleet!vars)
    BY <1>1, <1>2, <2>3 DEF SetToken, history
  <2>4. ASSUME NEW a \in Approver, NEW n \in Node, ApproveGet(a, n)
        PROVE  [Fleet!Next]_(Fleet!vars)
    BY <1>1, <1>2, <2>4 DEF ApproveGet, rowVars, history
  <2>5. ASSUME NEW n \in Node, Delete(n) PROVE [Fleet!Next]_(Fleet!vars)
    <3>1. Link' = Link
      BY <1>2, <2>5 DEF Delete
    <3>2. Fleet!Forget(n)
      BY <2>5, <3>1 DEF Fleet!Forget, Delete, Exists, Link
    <3> QED BY <3>2 DEF Fleet!Next
  <2> QED BY <1>10, <2>1, <2>2, <2>3, <2>4, <2>5 DEF Operator
<1>11. CASE Environment
  <2> USE DEF rowVars, history
  <2>1. ASSUME NEW n \in Node, AgentDown(n) PROVE [Fleet!Next]_(Fleet!vars)
    BY <1>1, <2>1, LinkUnchanged DEF AgentDown, Linked, ConnRec
  <2>2. ASSUME NEW n \in Node, AgentStart(n) PROVE [Fleet!Next]_(Fleet!vars)
    BY <1>1, <1>2, <2>2 DEF AgentStart
  <2>3. ASSUME NEW c \in Conn, ConnBreak(c) PROVE [Fleet!Next]_(Fleet!vars)
    BY <1>1, <2>3, LinkUnchanged DEF ConnBreak, Linked, ConnRec
  <2>4. ASSUME NEW r \in Reconciler, Restart(r) PROVE [Fleet!Next]_(Fleet!vars)
    <3>1. Link' = [n \in Node |-> "down"]
      BY <2>4 DEF Restart, NoConnObjects, FreeConn, Link, Reported
    <3>2. Fleet!LoseAll
      BY <2>4, <3>1 DEF Restart, Fleet!LoseAll, Link
    <3> QED BY <3>2 DEF Fleet!Next
  <2> QED BY <1>11, <2>1, <2>2, <2>3, <2>4 DEF Environment
<1>12. CASE UNCHANGED vars
  BY <1>1, <1>2, <1>12 DEF vars, rowVars, history
<1> QED BY <1>4, <1>5, <1>6, <1>7, <1>8, <1>9, <1>10, <1>11, <1>12 DEF Next

\* The node manager implements the fleet it promises: online and offline
\* reports alternate, come after an approval, and are what rows say.
THEOREM NodeManagerImplementsFleet == Spec => ImplementsFleet
<1>1. Init => Fleet!Init
  BY DEF Init, Fleet!Init, Reported, NoConnObjects, FreeConn
<1>2. IInv /\ [Next]_vars => [Fleet!Next]_(Fleet!vars)
  BY FleetStep
<1> QED BY <1>1, <1>2, InductiveInvariant, PTL DEF Spec, ImplementsFleet, Fleet!Spec
=============================================================================
