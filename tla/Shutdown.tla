------------------------------ MODULE Shutdown ------------------------------
(***************************************************************************)
(* The server process from its start to its exit: the main goroutine in    *)
(* Run, the signal goroutine in Shutdown, the HTTP handlers and the browser*)
(* streams that DrainWS closes.                                            *)
(***************************************************************************)
CONSTANT Client \* clients, each with one request of a process

VARIABLES
  up,     \* the process runs
  sig,    \* Shutdown: "waiting" for the signal, "http", "ws", "manager", "store", "closed"
  ctx,    \* its context has expired
  client  \* a request: "none", "handling", "upgraded", "tracked" (wsSet), "done"

shutdownVars == <<up, sig, ctx, client>>

ShutdownTypeOK ==
  /\ up \in BOOLEAN
  /\ sig \in {"waiting", "http", "ws", "manager", "store", "closed"}
  /\ ctx \in BOOLEAN
  /\ client \in [Client -> {"none", "handling", "upgraded", "tracked", "done"}]

Fresh ==
  /\ sig' = "waiting"
  /\ ctx' = FALSE
  /\ client' = [c \in Client |-> "none"]

\* No process yet.
ShutdownInit ==
  /\ up = FALSE
  /\ sig = "waiting"
  /\ ctx = FALSE
  /\ client = [c \in Client |-> "none"]

At(states) == {c \in Client : client[c] \in states}

Start ==
  /\ ~up
  /\ up' = TRUE
  /\ Fresh

-----------------------------------------------------------------------------
(* Requests                                                                 *)

Becomes(c, from, to) ==
  /\ up
  /\ client[c] = from
  /\ client' = [client EXCEPT ![c] = to]
  /\ UNCHANGED <<up, sig, ctx>>

\* http.Server.Shutdown closes the listener first.
Accept(c) == sig = "waiting" /\ Becomes(c, "none", "handling")
Reply(c) == Becomes(c, "handling", "done")

\* Stream or Logs hijacks its connection, and then registers it.
Upgrade(c) == Becomes(c, "handling", "upgraded")
TrackWS(c) == Becomes(c, "upgraded", "tracked")

\* The handler of a stream ends: the browser has left, or has answered the close frame.
Release(c) == Becomes(c, "tracked", "done")

-----------------------------------------------------------------------------
(* The signal goroutine                                                     *)

SigGoes(from, to) ==
  /\ up
  /\ sig = from
  /\ sig' = to

Signal ==
  /\ SigGoes("waiting", "http")
  /\ UNCHANGED <<up, ctx, client>>

CtxExpires ==
  /\ up
  /\ sig \in {"http", "ws"}
  /\ ~ctx
  /\ ctx' = TRUE
  /\ UNCHANGED <<up, sig, client>>

\* http.Shutdown returns; it does not know of hijacked connections. DrainWS sends its
\* close frames and waits.
HttpDrained ==
  /\ SigGoes("http", "ws")
  /\ At({"handling"}) = {} \/ ctx
  /\ UNCHANGED <<up, ctx, client>>

\* Mutant: DrainWS waits for the browsers, whatever the context says.
WsDrainedByAll ==
  /\ SigGoes("ws", "manager")
  /\ At({"tracked"}) = {}
  /\ UNCHANGED <<up, ctx, client>>

WsDrained ==
  /\ SigGoes("ws", "manager")
  /\ At({"tracked"}) = {} \/ ctx
  /\ UNCHANGED <<up, ctx, client>>

ManagerClose ==
  /\ SigGoes("manager", "store")
  /\ UNCHANGED <<up, ctx, client>>

StoreClose ==
  /\ SigGoes("store", "closed")
  /\ UNCHANGED <<up, ctx, client>>

\* os.Exit, or the end by other means.
Exits ==
  /\ up
  /\ up' = FALSE
  /\ Fresh

DrainExits == sig = "closed" /\ Exits

\* The listener is closed, so Run returns ErrServerClosed and main exits.
MainExits == sig # "waiting" /\ Exits

\* Killed. After the signal that looks like the exit of the main goroutine.
Crash == sig = "waiting" /\ Exits

DrainStep == CtxExpires \/ HttpDrained \/ WsDrained \/ ManagerClose

-----------------------------------------------------------------------------
(* Properties                                                               *)

\* After the signal the process ends within its context, whatever its handlers and
\* browsers do, and without the help of the main goroutine (Shutdown, DrainWS).
ExitIsBounded == up /\ sig # "waiting" ~> ~up

\* What main says of the signal: "drain in-flight HTTP handlers and WS sessions, then
\* stop manager + store; the context caps the drain".
DrainsBeforeExit ==
  [][sig # "waiting" /\ Exits =>
       sig = "closed" /\ (ctx \/ At({"handling", "tracked"}) = {})]_shutdownVars
=============================================================================
