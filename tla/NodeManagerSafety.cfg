\* One node, room for two loops, two conns and two reconcilers at once.
SPECIFICATION Spec
CONSTANTS
  Node = {n1}
  Loop = {l1, l2}
  Conn = {c1, c2}
  Reconciler = {r1, r2}
  Approver = {a1}
  Good = Good
  Bad = Bad
  Token = {Good, Bad}
  PairToken = Good
  NoToken = NoToken
  NoConn = NoConn
  AgentToken <- MCAgentToken
SYMMETRY PoolSymmetry
INVARIANTS
  TypeOK
  OneLoopPerNode
  LoopingIsAccurate
  OneConnPerNode
  ConnsAreServed
  NeverApprovedNeverDialed
PROPERTY ImplementsFleet
