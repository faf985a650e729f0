\* The node is deleted and announced again while its loop waits to dial.
SPECIFICATION Spec
CONSTANTS
  Node = {n1}
  Loop = {l1}
  Conn = {c1}
  Reconciler = {r1}
  Approver = {a1}
  Good = Good
  Bad = Bad
  Token = {Good, Bad}
  PairToken = Good
  NoToken = NoToken
  NoConn = NoConn
  AgentToken <- MCAgentToken
PROPERTY DialedOnlyAfterApproval
