\* The exit of the main goroutine against the drain.
SPECIFICATION FairSpec
CONSTANTS
  r1 = r1
  r2 = r2
  Row = {r1, r2}
  Tables <- MCTables
  Table <- MCTable
  NoWal = NoWal
  Client = {c1}
PROPERTIES
  DrainsBeforeExit
