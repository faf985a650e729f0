------------------------------ MODULE Storage ------------------------------
(***************************************************************************)
(* The database of the server and its backup: the file and its write-ahead *)
(* log, the commits of the running server, Dump beside it and Restore after*)
(* it has stopped.                                                         *)
(*                                                                         *)
(* A row stands for what one commit adds to a table or takes from it. What *)
(* SQLite does with the two files is external; its commits are durable.    *)
(***************************************************************************)
EXTENDS Naturals, Sequences, SequencesExt

CONSTANTS
  Row,    \* rows
  Tables, \* the tables in the order of the dump
  Table,  \* Table[r]: the table of a row
  NoWal   \* no write-ahead log beside the file

ASSUME StorageAssumption ==
  /\ Tables \in Seq(STRING)
  /\ Table \in [Row -> ToSet(Tables)]
  /\ \A rows \in SUBSET Row : NoWal # rows

VARIABLES
  open,     \* the server has the database open
  main,     \* rows in the database file
  wal,      \* rows that are read through the write-ahead log
  died,     \* history: a process died with the database open, since it was last left
  past,     \* contents the database has had since the running backup began
  dump,     \* Dump: at, its read snapshot, the tables left, the rows written
  file,     \* the dump at hand: "none", "complete", "cut" after a statement, "torn" in one
  restore   \* Restore: at, the rows of the temporary database

dbVars == <<open, main, wal, died, past>>
storageVars == <<dbVars, dump, file, restore>>

Content == IF wal = NoWal THEN main ELSE wal

StorageTypeOK ==
  /\ open \in BOOLEAN
  /\ main \in SUBSET Row
  /\ wal \in {NoWal} \union SUBSET Row
  /\ died \in BOOLEAN
  /\ past \subseteq SUBSET Row
  /\ dump \in [at : {"none", "reading"}, snap : SUBSET Row,
               left : {SubSeq(Tables, i, Len(Tables)) : i \in 1..Len(Tables) + 1},
               out : SUBSET Row]
  /\ file \in [form : {"none", "complete", "cut", "torn"}, rows : SUBSET Row]
  /\ restore \in [at : {"none", "loaded", "unlogged"}, tmp : SUBSET Row]

NoDump == [at |-> "none", snap |-> {}, left |-> <<>>, out |-> {}]
NoFile == [form |-> "none", rows |-> {}]
NoRestore == [at |-> "none", tmp |-> {}]

StorageInit ==
  /\ open = FALSE
  /\ main = {}
  /\ wal = NoWal
  /\ died = FALSE
  /\ past = {}
  /\ dump = NoDump
  /\ file = NoFile
  /\ restore = NoRestore

-----------------------------------------------------------------------------
(* The running server                                                       *)

\* journal_mode(WAL); a log that is there is recovered.
Open ==
  /\ ~open
  /\ restore.at = "none"
  /\ open' = TRUE
  /\ wal' = Content
  /\ UNCHANGED <<main, died, past, dump, file, restore>>

Commit(r) ==
  /\ open
  /\ LET rows == IF r \in Content THEN Content \ {r} ELSE Content \union {r} IN
     /\ wal' = rows
     /\ past' = IF dump.at = "reading" THEN past \union {rows} ELSE past
  /\ UNCHANGED <<open, main, died, dump, file, restore>>

\* SQLite after enough commits, or StartMaintenance; VACUUM changes no row.
Checkpoint ==
  /\ open
  /\ main # Content
  /\ main' = Content
  /\ UNCHANGED <<open, wal, died, past, dump, file, restore>>

\* The last connection to the database checkpoints the log and removes it.
LastLeaves(last) ==
  IF last
  THEN main' = Content /\ wal' = NoWal /\ died' = FALSE
  ELSE UNCHANGED <<main, wal, died>>

Close ==
  /\ open
  /\ open' = FALSE
  /\ LastLeaves(dump.at = "none")
  /\ UNCHANGED <<past, dump, file, restore>>

\* The process ends without Close.
Killed ==
  /\ open' = FALSE
  /\ died' = (died \/ open)
  /\ UNCHANGED <<main, wal, past, dump, file, restore>>

-----------------------------------------------------------------------------
(* gopit backup                                                             *)

\* Mutant: the internal tables are not left out.
DumpBeginsInternal ==
  /\ dump.at = "none"
  /\ restore.at = "none"
  /\ dump' = [at |-> "reading", snap |-> Content, left |-> Append(Tables, "sqlite_sequence"),
               out |-> {}]
  /\ past' = {Content}
  /\ UNCHANGED <<open, main, wal, died, file, restore>>

DumpBegins ==
  /\ dump.at = "none"
  /\ restore.at = "none"
  /\ dump' = [at |-> "reading", snap |-> Content, left |-> Tables, out |-> {}]
  /\ past' = {Content}
  /\ UNCHANGED <<open, main, wal, died, file, restore>>

Of(rows, t) == {r \in rows : Table[r] = t}

\* Mutant: no BEGIN, so every query reads the database as it is by then.
DumpTableAsItIs ==
  /\ dump.left # <<>>
  /\ dump' = [dump EXCEPT !.left = Tail(@), !.out = @ \union Of(Content, Head(dump.left))]
  /\ UNCHANGED <<dbVars, file, restore>>

\* The rows of the next table, of the transaction's snapshot.
DumpTable ==
  /\ dump.left # <<>>
  /\ dump' = [dump EXCEPT !.left = Tail(@), !.out = @ \union Of(dump.snap, Head(dump.left))]
  /\ UNCHANGED <<dbVars, file, restore>>

DumpEnds(form) ==
  /\ dump.at = "reading"
  /\ file' = [form |-> form, rows |-> IF form = "complete" THEN dump.out ELSE {}]
  /\ dump' = NoDump
  /\ past' = {}
  /\ UNCHANGED <<open, restore>>

DumpCommits == dump.left = <<>> /\ DumpEnds("complete") /\ LastLeaves(~open)

\* Dump fails, or the writes to a full disk fail, which it ignores.
\* Nothing a cut dump holds is ever committed, so its rows do not matter.
DumpIsCut == \E form \in {"cut", "torn"} : DumpEnds(form) /\ LastLeaves(~open)

DumpKilled ==
  /\ \E form \in {"cut", "torn"} : DumpEnds(form)
  /\ died' = TRUE
  /\ UNCHANGED <<main, wal>>

-----------------------------------------------------------------------------
(* gopit restore, which wants the server stopped                            *)

\* The statements are executed in a fresh temporary database. A dump that lacks its
\* COMMIT after a whole statement executes without an error, and closing the
\* database rolls it back.
Load ==
  /\ ~open /\ dump.at = "none"
  /\ restore.at = "none"
  /\ file.form \in {"complete", "cut"}
  /\ restore' = [at |-> "loaded", tmp |-> file.rows]
  /\ UNCHANGED <<dbVars, dump, file>>

\* A torn statement is a syntax error: the temporary file goes, and the operator
\* drops the dump.
LoadFails ==
  /\ ~open /\ dump.at = "none"
  /\ restore.at = "none"
  /\ file.form = "torn"
  /\ file' = NoFile
  /\ UNCHANGED <<dbVars, dump, restore>>

\* Mutant: the log stays beside the restored file.
RemoveWalSkipped ==
  /\ restore.at = "loaded"
  /\ restore' = [restore EXCEPT !.at = "unlogged"]
  /\ UNCHANGED <<dbVars, dump, file>>

RemoveWal ==
  /\ restore.at = "loaded"
  /\ wal' = NoWal
  /\ restore' = [restore EXCEPT !.at = "unlogged"]
  /\ UNCHANGED <<open, main, died, past, dump, file>>

Rename ==
  /\ restore.at = "unlogged"
  /\ main' = restore.tmp
  /\ restore' = NoRestore
  /\ UNCHANGED <<open, wal, died, past, dump, file>>

RestoreKilled ==
  /\ restore.at # "none"
  /\ restore' = NoRestore
  /\ UNCHANGED <<dbVars, dump, file>>

Tools ==
  \/ DumpBegins \/ DumpTable \/ DumpCommits \/ DumpIsCut \/ DumpKilled
  \/ Load \/ LoadFails \/ RemoveWal \/ Rename \/ RestoreKilled

-----------------------------------------------------------------------------
(* Properties                                                               *)

\* What the database holds changes with a commit and with the rename of a restore,
\* which leaves what the dump held, whoever is killed in between and whichever log was
\* left beside the file. A restore that removes the log loses something only when a
\* process died with the database open since it was last left: the last one that
\* leaves, the server or a backup that outlives it, has put everything into the file
\* (Open, Close, Dump, Restore).
CleanlyLeftIsKept ==
  [][/\ Content' # Content => Rename \/ (RemoveWal /\ died) \/ \E r \in Row : Commit(r)
     /\ Rename => Content' = restore.tmp]_storageVars

\* What a dump beside the live server has read is one state of the database (Dump:
\* "BEGIN/COMMIT wraps a consistent snapshot").
DumpIsSnapshot == dump.at = "reading" /\ dump.left = <<>> => dump.out \in past

\* What the comment on Restore says: "The dump is applied to a temp file first so a
\* broken dump never clobbers the live DB, then swapped in atomically". While it runs,
\* nothing but the swap changes what the database holds, and to a complete dump only.
RestoreIsAtomic ==
  [][restore.at # "none" /\ Content' # Content
       => Rename /\ file.form = "complete"]_storageVars
=============================================================================
