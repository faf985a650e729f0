\* One node and one member in every pool; no symmetry, the properties are
\* temporal. After Restart the pools are empty, so one member each suffices
\* for every history in which Close is not followed by an Approve.
SPECIFICATION FairSpec
CONSTANTS
  Node = {n1}
  Loop = {l1}
  Conn = {c1}
  Reconciler = {r1}
  Approver = {a1}
  Good = Good
  Bad = Bad
  Token = {Good, Bad}
  PairToken = Good
  NoToken = NoToken
  NoConn = NoConn
  AgentToken <- MCAgentToken
PROPERTIES
  Reconnects
  BrokenConnIsReleased
  DeletedNodeIsForgotten
