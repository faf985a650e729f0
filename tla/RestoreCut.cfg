\* A dump that was cut after a statement is restored after the server has died.
SPECIFICATION FairSpec
CONSTANTS
  r1 = r1
  r2 = r2
  Row = {r1, r2}
  Tables <- MCTables
  Table <- MCTable
  NoWal = NoWal
  Client = {c1}
PROPERTY RestoreIsAtomic
