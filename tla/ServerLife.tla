----------------------------- MODULE ServerLife -----------------------------
(***************************************************************************)
(* The server process (Shutdown) and its database (Storage): requests      *)
(* commit while the store is open, the end of the process closes it or     *)
(* leaves its write-ahead log behind, and the command-line tools run       *)
(* beside the process and between two of them.                             *)
(***************************************************************************)
EXTENDS Storage, Shutdown

vars == <<storageVars, shutdownVars>>

TypeOK == StorageTypeOK /\ ShutdownTypeOK

Init == StorageInit /\ ShutdownInit

\* server.New opens the store.
Serve == Start /\ Open

\* A handler answers; one that changes something has committed it, unless the store
\* was closed by then.
Answer(c) ==
  /\ Reply(c)
  /\ \/ UNCHANGED storageVars
     \/ \E r \in Row : Commit(r)

Stream(c) == (Accept(c) \/ Upgrade(c) \/ TrackWS(c) \/ Release(c)) /\ UNCHANGED storageVars

Drain == (Signal \/ DrainStep) /\ UNCHANGED storageVars
Stop == StoreClose /\ Close

\* os.Exit runs no deferred call.
Dies == (DrainExits \/ MainExits \/ Crash) /\ Killed

Beside == (Checkpoint \/ Tools) /\ UNCHANGED shutdownVars

Next ==
  \/ Serve \/ Drain \/ Stop \/ Dies \/ Beside
  \/ \E c \in Client : Answer(c) \/ Stream(c)

Spec == Init /\ [][Next]_vars

\* The signal goroutine runs and its context expires. Nothing is asked of the main
\* goroutine, of handlers or of browsers.
FairSpec ==
  /\ Spec
  /\ WF_vars(DrainStep /\ UNCHANGED storageVars)
  /\ WF_vars(Stop)
  /\ WF_vars(DrainExits /\ Killed)
=============================================================================
