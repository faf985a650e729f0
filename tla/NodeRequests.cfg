\* Any two of two deploys of different files, a down and a list, over two connections.
SPECIFICATION FairSpec
CONSTANTS
  q1 = q1
  q2 = q2
  q3 = q3
  q4 = q4
  Request = {q1, q2, q3, q4}
  Conn = {k1, k2}
  NoOne = NoOne
  Service = {"a", "b"}
  Kind <- MCKind
  Yaml <- MCYaml
  ChanCap = 1
  MaxSent = 2
  Silence = 90
  ComposeMax = 120
INVARIANTS
  TypeOK
  UpRunsItsOwnFile
  FileNamesStack
PROPERTIES
  ImplementsCalls
  ServeConnResumes
CHECK_DEADLOCK FALSE
