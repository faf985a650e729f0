------------------------- MODULE ServerLife_proofs -------------------------
(* Proofs about ServerLife: the database and the tools beside the server,   *)
(* for any tables, rows and clients.                                         *)
EXTENDS ServerLife, SequenceTheorems, TLAPS

Suffix(i) == SubSeq(Tables, i, Len(Tables))
WhatIsLeft == {Suffix(i) : i \in 1..Len(Tables) + 1}

\* What is left of the tables is all of them, then less one with every step, then
\* nothing.
LEMMA AllTables == Tables \in WhatIsLeft
<1>1. Tables \in Seq(STRING) /\ Len(Tables) \in Nat
  BY StorageAssumption, LenProperties
<1>2. Tables = Suffix(1)
  BY <1>1, SubSeqFull DEF Suffix
<1> QED BY <1>1, <1>2 DEF WhatIsLeft

LEMMA NoTable == <<>> \in WhatIsLeft
<1>1. Tables \in Seq(STRING) /\ Len(Tables) \in Nat
  BY StorageAssumption, LenProperties
<1>2. Suffix(Len(Tables) + 1) = <<>>
  BY <1>1, SubSeqEmpty DEF Suffix
<1> QED BY <1>1, <1>2 DEF WhatIsLeft

LEMMA NextTable ==
  ASSUME NEW left \in WhatIsLeft, left # <<>>
  PROVE  /\ Tail(left) \in WhatIsLeft
         /\ \A t \in ToSet(left) : t = Head(left) \/ t \in ToSet(Tail(left))
<1>1. Tables \in Seq(STRING) /\ Len(Tables) \in Nat
  BY StorageAssumption, LenProperties
<1>2. PICK i \in 1..Len(Tables) + 1 : left = Suffix(i)
  BY DEF WhatIsLeft
<1>3. i \in 1..Len(Tables)
  BY <1>1, <1>2, SubSeqEmpty DEF Suffix
<1>4. Head(left) = Tables[i] /\ Tail(left) = Suffix(i + 1)
  BY <1>1, <1>2, <1>3, HeadTailOfSubSeq DEF Suffix
<1>5. left \in Seq(STRING) /\ Len(left) \in Nat
  BY <1>1, <1>2, <1>3, SubSeqProperties DEF Suffix
<1>6. ASSUME NEW t \in ToSet(left) PROVE t = Head(left) \/ t \in ToSet(Tail(left))
  <2>1. PICK k \in 1..Len(left) : t = left[k]
    BY <1>5, <1>6 DEF ToSet
  <2>2. CASE k = 1
    BY <1>5, <2>1, <2>2
  <2>3. CASE k # 1
    <3>1. k - 1 \in 1..Len(Tail(left)) /\ Tail(left)[k - 1] = left[k]
      BY <1>5, <2>1, <2>3
    <3>2. DOMAIN Tail(left) = 1..Len(Tail(left))
      BY <1>5
    <3> QED BY <2>1, <3>1, <3>2 DEF ToSet
  <2> QED BY <2>2, <2>3
<1>7. i + 1 \in 1..Len(Tables) + 1
  BY <1>1, <1>3
<1> QED BY <1>4, <1>6, <1>7 DEF WhatIsLeft

-----------------------------------------------------------------------------
(* The inductive invariant                                                  *)

DumpType ==
  [at : {"none", "reading"}, snap : SUBSET Row, left : WhatIsLeft, out : SUBSET Row]
FileType == [form : {"none", "complete", "cut", "torn"}, rows : SUBSET Row]
RestoreType == [at : {"none", "loaded", "unlogged"}, tmp : SUBSET Row]

\* Every row of the snapshot is written or its table is still to come.
DumpInv ==
  /\ dump.at = "none" => dump.left = <<>>
  /\ dump.at = "reading" =>
       /\ dump.snap \in past
       /\ dump.out \subseteq dump.snap
       /\ \A r \in dump.snap : r \in dump.out \/ Table[r] \in ToSet(dump.left)

\* A restore has the database for itself, and finds a log only where somebody died.
RestoreInv ==
  /\ restore.at # "none" => ~open /\ dump.at = "none"
  /\ restore.at = "unlogged" => wal = NoWal
  /\ ~open /\ dump.at = "none" /\ wal # NoWal => died

\* StorageTypeOK, with names for its record types.
Types ==
  /\ open \in BOOLEAN
  /\ main \in SUBSET Row
  /\ wal \in {NoWal} \union SUBSET Row
  /\ died \in BOOLEAN
  /\ past \subseteq SUBSET Row
  /\ dump \in DumpType
  /\ file \in FileType
  /\ restore \in RestoreType

Inv == Types /\ DumpInv /\ RestoreInv

LEMMA StorageTypes == Types => StorageTypeOK
BY DEF Types, StorageTypeOK, DumpType, FileType, RestoreType, WhatIsLeft, Suffix

LEMMA ContentType ==
  ASSUME Types
  PROVE  Content \in SUBSET Row /\ Content # NoWal
BY StorageAssumption DEF Types, Content

\* What happens to the database and to the tools' files.
StorageStep ==
  \/ Open \/ Checkpoint \/ Close \/ Killed \/ Tools
  \/ \E r \in Row : Commit(r)
  \/ UNCHANGED storageVars

LEMMA StorageSteps == [Next]_vars => StorageStep
BY DEF Next, Serve, Drain, Stop, Dies, Beside, Answer, Stream, StorageStep, vars

LEMMA InvInit == Init => Inv
<1> SUFFICES ASSUME Init PROVE Inv
  OBVIOUS
<1>1. NoDump \in DumpType
  BY NoTable DEF NoDump, DumpType
<1>2. NoFile \in FileType /\ NoRestore \in RestoreType
  BY DEF NoFile, NoRestore, FileType, RestoreType
<1>3. dump.at = "none" /\ dump.left = <<>> /\ restore.at = "none"
  BY DEF Init, StorageInit, NoDump, NoRestore
<1> QED BY <1>1, <1>2, <1>3 DEF Types, Init, StorageInit, Inv, DumpInv, RestoreInv

LEMMA InvStep == Inv /\ StorageStep => Inv'
<1> SUFFICES ASSUME Inv, StorageStep PROVE Inv'
  OBVIOUS
<1>a. /\ open \in BOOLEAN /\ main \in SUBSET Row /\ wal \in {NoWal} \union SUBSET Row
      /\ died \in BOOLEAN /\ past \subseteq SUBSET Row /\ dump \in DumpType /\ file \in FileType
      /\ restore \in RestoreType
      /\ Content \in SUBSET Row
  BY ContentType DEF Types, Inv
<1>b. /\ dump.at \in {"none", "reading"} /\ dump.snap \in SUBSET Row /\ dump.left \in WhatIsLeft
      /\ dump.out \in SUBSET Row
      /\ file.rows \in SUBSET Row /\ restore.at \in {"none", "loaded", "unlogged"}
      /\ restore.tmp \in SUBSET Row
  BY <1>a DEF DumpType, FileType, RestoreType
<1>c. /\ NoDump \in DumpType /\ NoDump.at = "none" /\ NoDump.left = <<>>
      /\ NoFile \in FileType
      /\ NoRestore \in RestoreType /\ NoRestore.at = "none"
  BY NoTable DEF NoDump, NoFile, NoRestore, DumpType, FileType, RestoreType
<1>d. ASSUME NEW last, LastLeaves(last)
      PROVE  /\ main' \in SUBSET Row /\ wal' \in {NoWal} \union SUBSET Row
             /\ died' \in BOOLEAN
             /\ wal = NoWal => wal' = NoWal
             /\ IF last THEN wal' = NoWal ELSE UNCHANGED <<wal, died>>
  BY <1>a, <1>d DEF LastLeaves
<1>1. CASE Open
  <2>1. Types'
    BY <1>1, <1>a DEF Types, Open
  <2> QED BY <1>1, <2>1 DEF Open, Inv, DumpInv, RestoreInv
<1>2. ASSUME NEW r \in Row, Commit(r) PROVE Inv'
  <2> DEFINE rows == IF r \in Content THEN Content \ {r} ELSE Content \union {r}
  <2>1. rows \in SUBSET Row
    BY <1>a
  <2>2. /\ open /\ wal' = rows /\ past' \in {past, past \union {rows}}
        /\ UNCHANGED <<open, main, died, dump, file, restore>>
    BY <1>2 DEF Commit
  <2> HIDE DEF rows
  <2>3. Types'
    BY <1>a, <2>1, <2>2 DEF Types
  <2> QED BY <1>a, <2>2, <2>3 DEF Inv, DumpInv, RestoreInv
<1>3. CASE Checkpoint
  <2>1. Types'
    BY <1>3, <1>a DEF Types, Checkpoint
  <2> QED BY <1>3, <2>1 DEF Checkpoint, Inv, DumpInv, RestoreInv
<1>4. CASE Close
  <2>1. Types'
    BY <1>4, <1>a, <1>d DEF Types, Close
  <2>2. dump.at = "none" => wal' = NoWal
    BY <1>4, <1>d DEF Close
  <2> QED BY <1>4, <2>1, <2>2 DEF Close, Inv, DumpInv, RestoreInv
<1>5. CASE Killed
  <2>1. Types'
    BY <1>5, <1>a DEF Types, Killed
  <2>2. died' = (died \/ open) /\ open' = FALSE /\ UNCHANGED <<main, wal, past, dump, file, restore>>
    BY <1>5 DEF Killed
  <2>3. RestoreInv'
    <3>1. open => died'
      BY <2>2
    <3>2. died => died'
      BY <2>2
    <3> QED BY <1>a, <2>2, <3>1, <3>2 DEF Inv, RestoreInv
  <2> QED BY <2>1, <2>2, <2>3 DEF Inv, DumpInv
<1>6. CASE DumpBegins
  <2> DEFINE d == [at |-> "reading", snap |-> Content, left |-> Tables, out |-> {}]
  <2>1. /\ d \in DumpType /\ d.at = "reading" /\ d.snap = Content
        /\ d.out = {} /\ d.left = Tables
    BY <1>a, AllTables DEF DumpType
  <2>2. dump' = d /\ past' = {Content} /\ restore.at = "none"
        /\ UNCHANGED <<open, main, wal, died, file, restore>>
    BY <1>6 DEF DumpBegins
  <2> HIDE DEF d
  <2>3. Types'
    BY <1>a, <2>1, <2>2 DEF Types
  <2>4. \A r \in Row : Table[r] \in ToSet(Tables)
    BY StorageAssumption
  <2> QED BY <1>a, <2>1, <2>2, <2>3, <2>4 DEF Inv, DumpInv, RestoreInv
<1>7. CASE DumpTable
  <2>1. /\ dump.at = "reading" /\ dump.left # <<>> /\ UNCHANGED <<dbVars, file, restore>>
        /\ dump' = [dump EXCEPT !.left = Tail(@), !.out = @ \union Of(dump.snap, Head(dump.left))]
    BY <1>7, <1>b DEF DumpTable, Inv, DumpInv
  <2>2. Tail(dump.left) \in WhatIsLeft
    BY <1>b, <2>1, NextTable
  <2>3. Of(dump.snap, Head(dump.left)) \subseteq dump.snap
    BY DEF Of
  <2>4. /\ dump'.at = "reading" /\ dump'.snap = dump.snap
        /\ dump'.left = Tail(dump.left)
        /\ dump'.out = dump.out \union Of(dump.snap, Head(dump.left))
        /\ dump' \in DumpType
    BY <1>a, <2>1, <2>2, <2>3, <1>b DEF DumpType
  <2>5. Types'
    BY <1>a, <2>1, <2>4 DEF Types, dbVars
  <2>6. DumpInv'
    <3>1. dump.snap \in past' /\ dump'.out \subseteq dump.snap
      BY <2>1, <2>3, <2>4 DEF Inv, DumpInv, dbVars
    <3>2. ASSUME NEW r \in dump.snap PROVE r \in dump'.out \/ Table[r] \in ToSet(dump'.left)
      <4>1. r \in dump.out \/ Table[r] \in ToSet(dump.left)
        BY <2>1 DEF Inv, DumpInv
      <4>2. CASE r \in dump.out
        BY <2>4, <4>2
      <4>3. CASE Table[r] \in ToSet(dump.left)
        <5>1. Table[r] = Head(dump.left) \/ Table[r] \in ToSet(Tail(dump.left))
          BY <1>b, <2>1, <4>3, NextTable
        <5> QED BY <2>4, <5>1 DEF Of
      <4> QED BY <4>1, <4>2, <4>3
    <3> QED BY <2>4, <3>1, <3>2 DEF DumpInv
  <2> QED BY <2>1, <2>4, <2>5, <2>6 DEF Inv, RestoreInv, dbVars
<1>8. ASSUME NEW form \in {"complete", "cut", "torn"}, DumpEnds(form),
             LastLeaves(~open) \/ (died' = TRUE /\ UNCHANGED <<main, wal>>)
      PROVE  Inv'
  <2>1. file' \in FileType
    BY <1>8, <1>b DEF DumpEnds, FileType
  <2>2. /\ main' \in SUBSET Row /\ wal' \in {NoWal} \union SUBSET Row
        /\ died' \in BOOLEAN
        /\ wal = NoWal => wal' = NoWal
        /\ open \/ wal' = NoWal \/ died'
    BY <1>8, <1>a, <1>d
  <2>3. Types'
    BY <1>8, <1>a, <1>c, <2>1, <2>2 DEF Types, DumpEnds
  <2> QED BY <1>8, <1>c, <2>2, <2>3 DEF DumpEnds, Inv, DumpInv, RestoreInv
<1>9. CASE Load
  <2> DEFINE l == [at |-> "loaded", tmp |-> file.rows]
  <2>1. l \in RestoreType /\ l.at = "loaded"
    BY <1>b DEF RestoreType
  <2>2. ~open /\ dump.at = "none" /\ restore' = l /\ UNCHANGED <<dbVars, dump, file>>
    BY <1>9 DEF Load
  <2> HIDE DEF l
  <2>3. Types'
    BY <1>a, <2>1, <2>2 DEF Types, dbVars
  <2> QED BY <2>1, <2>2, <2>3 DEF Inv, DumpInv, RestoreInv, dbVars
<1>10. CASE LoadFails
  <2>1. Types'
    BY <1>10, <1>a, <1>c DEF Types, LoadFails, dbVars
  <2> QED BY <1>10, <2>1 DEF LoadFails, Inv, DumpInv, RestoreInv, dbVars
<1>11. CASE RemoveWal
  <2>1. restore' \in RestoreType /\ restore'.at = "unlogged" /\ restore.at = "loaded"
    BY <1>11, <1>a DEF RemoveWal, RestoreType
  <2>2. Types'
    BY <1>11, <1>a, <2>1 DEF Types, RemoveWal
  <2> QED BY <1>11, <2>1, <2>2 DEF RemoveWal, Inv, DumpInv, RestoreInv
<1>12. CASE Rename \/ RestoreKilled
  <2>1. Types'
    BY <1>12, <1>a, <1>b, <1>c DEF Types, Rename, RestoreKilled, dbVars
  <2> QED BY <1>12, <1>c, <2>1 DEF Rename, RestoreKilled, Inv, DumpInv, RestoreInv, dbVars
<1>13. CASE UNCHANGED storageVars
  <2>1. Types'
    BY <1>13, <1>a DEF Types, storageVars, dbVars
  <2> QED BY <1>13, <2>1 DEF storageVars, dbVars, Inv, DumpInv, RestoreInv
<1> QED
  BY <1>1, <1>2, <1>3, <1>4, <1>5, <1>6, <1>7, <1>8, <1>9, <1>10, <1>11, <1>12, <1>13
  DEF StorageStep, Tools, DumpCommits, DumpIsCut, DumpKilled

LEMMA Invariant == Spec => []Inv
<1>1. Inv /\ [Next]_vars => Inv'
  BY StorageSteps, InvStep
<1> QED BY <1>1, InvInit, PTL DEF Spec

-----------------------------------------------------------------------------
(* Results                                                                  *)

LEMMA ShutdownType == ShutdownTypeOK /\ [Next]_vars => ShutdownTypeOK'
<1> SUFFICES ASSUME ShutdownTypeOK, [Next]_vars PROVE ShutdownTypeOK'
  OBVIOUS
<1> USE DEF ShutdownTypeOK
<1>a. ASSUME NEW c \in Client, NEW from, NEW to \in {"handling", "upgraded", "tracked", "done"},
             Becomes(c, from, to)
      PROVE  ShutdownTypeOK'
  BY <1>a DEF Becomes
<1>1. ASSUME NEW c \in Client, Answer(c) \/ Stream(c) PROVE ShutdownTypeOK'
  BY <1>1, <1>a DEF Answer, Stream, Reply, Accept, Upgrade, TrackWS, Release
<1>2. CASE Serve \/ Dies
  BY <1>2 DEF Serve, Dies, Start, Fresh, DrainExits, MainExits, Crash, Exits
<1>3. CASE Drain \/ Stop
  BY <1>3 DEF Drain, Stop, Signal, DrainStep, CtxExpires, HttpDrained, WsDrained, ManagerClose,
              StoreClose, SigGoes
<1>4. CASE Beside \/ UNCHANGED vars
  BY <1>4 DEF Beside, vars, shutdownVars
<1> QED BY <1>1, <1>2, <1>3, <1>4 DEF Next

\* Every state of the process, its database and the tools is well-formed.
THEOREM TypeCorrect == Spec => []TypeOK
<1>1. Init => ShutdownTypeOK
  BY DEF Init, ShutdownInit, ShutdownTypeOK
<1>2. Inv /\ ShutdownTypeOK => TypeOK
  BY StorageTypes DEF Inv, TypeOK
<1> QED BY <1>1, <1>2, ShutdownType, Invariant, PTL DEF Spec

\* A dump that has read every table holds one state the database has had since the
\* dump began, whatever the server commits meanwhile (Dump).
THEOREM DumpIsSnapshotAlways == Spec => []DumpIsSnapshot
<1>1. Inv => DumpIsSnapshot
  <2> SUFFICES ASSUME Inv, dump.at = "reading", dump.left = <<>> PROVE dump.out \in past
    BY DEF DumpIsSnapshot
  <2>1. ToSet(<<>>) = {}
    BY DEF ToSet
  <2>2. dump.out = dump.snap
    BY <2>1 DEF Inv, DumpInv
  <2> QED BY <2>2 DEF Inv, DumpInv
<1> QED BY <1>1, Invariant, PTL

\* What the database holds changes with a commit and with the rename of a restore,
\* which leaves what the dump held. The removal of the log before that rename loses
\* something only if a process has died with the database open since it was last left
\* (Open, Close, Dump, Restore).
THEOREM CleanlyLeftIsKeptAlways == Spec => CleanlyLeftIsKept
<1> DEFINE Kept ==
      /\ Content' # Content => Rename \/ (RemoveWal /\ died) \/ \E r \in Row : Commit(r)
      /\ Rename => Content' = restore.tmp
<1>1. ASSUME Inv, StorageStep PROVE Kept
  <2>1. Types /\ Content # NoWal
    BY <1>1, ContentType DEF Inv
  <2>2. Rename => Content' = restore.tmp
    BY <1>1 DEF Rename, Inv, RestoreInv, Content
  <2>3. \A last : LastLeaves(last) => Content' = Content
    BY <2>1 DEF LastLeaves, Content
  <2>4. CASE Open \/ Checkpoint \/ Close \/ Killed \/ UNCHANGED storageVars
    <3>1. Content' = Content
      BY <2>1, <2>3, <2>4 DEF Open, Checkpoint, Close, Killed, storageVars, dbVars, Content
    <3> QED BY <2>2, <3>1
  <2>5. CASE RemoveWal
    <3>1. died \/ wal = NoWal
      BY <1>1, <2>5 DEF RemoveWal, Inv, RestoreInv
    <3>2. wal = NoWal => Content' = Content
      BY <2>5 DEF RemoveWal, Content
    <3> QED BY <2>2, <2>5, <3>1, <3>2
  <2>6. CASE Tools /\ ~RemoveWal
    <3>1. Rename \/ Content' = Content
      BY <2>3, <2>6 DEF Tools, DumpBegins, DumpTable, DumpCommits, DumpIsCut, DumpKilled,
                        DumpEnds, Load, LoadFails, RestoreKilled, dbVars, Content
    <3> QED BY <2>2, <3>1
  <2>7. CASE \E r \in Row : Commit(r)
    BY <2>2, <2>7
  <2> QED BY <1>1, <2>4, <2>5, <2>6, <2>7 DEF StorageStep
<1>2. Inv /\ [Next]_vars => [Kept]_storageVars
  BY <1>1, StorageSteps
<1>3. [Kept]_storageVars <=>
        [/\ Content' # Content =>
              Rename \/ (RemoveWal /\ died) \/ \E r \in Row : Commit(r)
         /\ Rename => Content' = restore.tmp]_storageVars
  OBVIOUS
<1> HIDE DEF Kept
<1> QED BY <1>2, <1>3, Invariant, PTL DEF Spec, CleanlyLeftIsKept

=============================================================================
