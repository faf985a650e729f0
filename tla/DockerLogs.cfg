\* Two viewers of one container, one line each. A run ends when every browser has gone.
SPECIFICATION FairSpec
CONSTANTS
  Viewer = {v1, v2}
  NoStream = NoStream
  MaxLines = 1
  SubCap = 1
INVARIANTS
  TypeOK
  FollowIsRegistered
  RegisteredIsRunning
  EndIsLastUnlessReplaced
PROPERTIES
  StreamsEnd
  HandlerEnds
CHECK_DEADLOCK FALSE
