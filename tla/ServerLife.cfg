\* The process with one client, a database of two rows in two tables, and the tools.
SPECIFICATION FairSpec
CONSTANTS
  r1 = r1
  r2 = r2
  Row = {r1, r2}
  Tables <- MCTables
  Table <- MCTable
  NoWal = NoWal
  Client = {c1}
INVARIANTS
  TypeOK
  DumpIsSnapshot
PROPERTIES
  CleanlyLeftIsKept
  ExitIsBounded
