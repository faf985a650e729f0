# TLA+ project for gopit

gopit is a dashboard for a fleet of Linux machines. A server (`cmd/gopit`)
serves the web interface, keeps the fleet in SQLite and holds one WebSocket
connection to an agent (`cmd/gopitd`) on every node. Agents announce
themselves by UDP, answer requests about docker and the firewall, stream stats
and container logs, and open terminals.

This directory models the parts of gopit in which goroutines, connections and
crashes interleave, checks them with TLC on small instances, and proves the
main safety results with TLAPS for every value of the constants.

## Running it

    tlc -config NodeManagerSafety.cfg MCNodeManager.tla
    tlapm NodeManager_proofs.tla

`PROJECT.json` lists the runs with the properties each checks, the mutations
each property detects, the source lines of every definition, the hazards, the
findings and the theorems.

## Inventory of the system

Paths are relative to `internal/`.

| Component | State | Operations | What is hard, and what must hold |
|:--|:--|:--|:--|
| node manager, `server/nodemanager/manager.go` | `conns`, `looping`, a `connectLoop` per node, a `Conn` with `readLoop` and `pingLoop` | `Reconcile`, `Connect`, `Drop`, `Close`, `OnStatus` | loops, teardowns and handlers race: one loop and one connection per node, a broken one is replaced, reports alternate |
| node rows, `server/store/sqlite.go` | `nodes.status`, `nodes.token` | upsert, set status, set token, delete | late writers: a report must not revive a deleted row |
| node handlers, `server/api/nodes.go` | none | discover, create, approve, token, delete | multi-step handlers that read, write and then drop |
| request routing, `manager.go`, `protocol/messages.go` | pending ids, subscriber channels | `Request`, `Subscribe`, `broadcast` | full channels drop envelopes, also the response |
| status stream, `server/api/status.go` | one subscription per browser | relay of stats | outlives the connection it subscribed to |
| log relay, `server/api/docker.go` and `agent/docker/client.go` | `streams` on the agent, one handler per browser | `Logs`, `StreamLogs`, `StopLogs` | viewers replace and stop each other's streams; streams must not leak |
| terminal, `server/api/terminal.go`, `agent/ws`, `agent/terminal` | two relays, a read loop, a pump, a pty, a recorder | open, input, resize, close, exit | either end may die at any time: nothing may stay behind |
| agent docker and compose, `agent/docker` | project files, `composeMutex` | start, stop, remove, deploy, down | partial failures between file and command; deploys at once; a command that outlasts the read deadline |
| firewall, `agent/nftfw`, `agent/ufw` | kernel table, boot file | status, add, delete, toggle | crash between the two; numbering that shifts |
| users and sessions, `server/api/auth.go`, `setup.go`, `middleware.go` | users, secret, limiter | login, setup, rotate, authenticate | check-then-act under concurrency |
| webhooks, `server/webhooks` | none | `Fire` | order and duplication of deliveries |
| shutdown and drain, `server/server.go`, `server/api/wsdrain.go` | tracked sockets | `Shutdown`, `DrainWS` | sockets that appear while draining |
| backup and restore, `server/store/backup.go` | database file and its log | `Dump`, `Restore` | crash between file operations, a dump that is cut off |
| discovery, `server/discovery`, `agent/discovery` | sockets | announce, listen | repeated and reordered announces |
| configuration, metrics, router, system stats, command lines, web interface | read once, counters, or none | | no state that other parts depend on |

Components meet in five places: the rows of the store; `m.conns`, from which
handlers take a connection; the envelopes on that connection, matched by id or
broadcast to subscribers; `OnStatus`, which writes the row and fires the
webhooks; and HTTP handlers, each in a goroutine of its own.

## Modules

| Module | Models |
|:--|:--|
| `NodeFleet` | abstract: what the node manager promises about links and rows |
| `NodeManager` | node manager, node rows, node handlers, `OnStatus`, shutdown and restart |
| `MCNodeManager` | its instances |
| `NodeManager_proofs` | its inductive invariant, refinement and type correctness |
| `DockerLogs` | container logs: agent streams, the connection, the browsers' handlers |
| `MCDockerLogs`, `DockerLogs_proofs` | its instances; its theorems |
| `Terminal` | one terminal session from browser to shell |
| `MCTerminal`, `Terminal_proofs` | its instances; its theorems |
| `Nftfw` | the agent's firewall: calls, kernel table, boot file |
| `MCNftfw`, `Nftfw_proofs` | its instance; its theorems |
| `AuthSessions` | accounts, sessions, the login limiter, the signing secret |
| `MCAuthSessions`, `AuthSessions_proofs` | its instance; its theorems |
| `NodeRequests`, `MCNodeRequests` | requests to an agent, the agent's serial dispatch, compose; its instance |
| `RemoteCalls` | abstract: what a request to a node promises |
| `NodeRequests_proofs` | the theorems of `NodeRequests`, its refinement among them |
| `Storage` | the database file and its log, `Dump` and `Restore` |
| `Shutdown` | the server process: main and signal goroutine, handlers, browser streams |
| `ServerLife` | composition of `Storage` and `Shutdown` |
| `MCServerLife`, `ServerLife_proofs` | its instances; its theorems, those of `Storage` among them |

### NodeManager

Goroutines and `*Conn` values come from finite pools. The program counter of a
`connectLoop` names the place in the code: `top` is the select on `m.stop`,
`get` the read of the row, `check` to `install` are `Connect` (look, dial,
lock and install), `online` is the report, `wait` is `<-conn.stop`, `backoff`
the timer, `exit` the deferred delete from `looping`. A conn goes through
`dialed`, `installed`, `live`, then the three steps of the deferred function
of `readLoop`: `left` (deleted from `conns` if it is still the entry), `told`
(`OnStatus(offline)`), `stopped` (`close(c.stop)`).

`Reconcile` reads the rows in one step and walks its snapshot in others, since
the code holds no lock in between. `Approve` is three steps (read, token,
status), `Delete` two (row, `Drop`), `Close` two (`close(m.stop)`, then the
locked section). Each SQL statement is one atomic step. A crash is a restart at
any moment: rows stay, memory goes. Two history variables: `approved` names the
nodes whose row an operator has approved since it was added, and loses a node
with its row; `everApproved` those that were approved at any time under their
id, also for an earlier row.

Abstracted: a dial succeeds only on an agent that is up with the right token
and may fail at any time; the backoff is a step without duration; `pingLoop`
and read deadlines appear as `ConnBreak`, since all they do is break a
connection.

`NodeFleet` has a link per node that is down or up. `NodeManager` implements
it with a link that is up from `OnStatus(online)` to `OnStatus(offline)`.

### DockerLogs

One container on one connection. A viewer is one run of the handler `Logs`
with its browser, and names the stream it asks for. The agent's read loop
registers the stream, cancels the one it replaces, starts the two goroutines
and responds; the streaming goroutine opens, follows, sends `logs.end` and
cleans `a.streams`; the other one waits for the end of the connection. The
handler subscribes only after the response, relays, and leaves by one of two
exits: a failed write, or the channel `ping`, which sends `logs.stop`.
A browser that keeps its socket open but reads nothing is not modelled: the
write to it has no deadline and may wait as long as TCP does.

### Terminal

The bridge dials a connection for every session and opens one session on it,
so sessions share nothing and one is modelled. `upstream` and `downstream` are
the two relay goroutines, `CloseAgentSide` and `CloseBrowserSide` the two that
wait for them. The agent has its read loop, the slot `st.term`, and `pump`,
whose check of the slot, removal from it and `terminal.exit` are three steps.
Output waits in the pty in chunks; the bytes are abstracted.

Two writes have no deadline. The read loop writes input to the pty itself
(`agent = "typing"`, until `InputTaken` or, once the session is closed,
`InputRefused`): while the program in the shell reads nothing, it comes back to
neither the connection nor its read deadline. The bridge writes to the browser
(`downstream` in `"write"` or `"tell"`, until `DownstreamWrite` or
`DownstreamWriteFails`). The acknowledgement or error that precedes the relay
is a first small frame, and is taken to fit the socket's buffer. Writes between
bridge and agent have a deadline of 5 s and fail.

Time advances by `Tick`, 45 s each, in which the bridge's pinger pings; the
read deadlines of 90 s are two ticks. A tick waits until the frames on the
way to the agent have arrived, so that idleness is the user's and not the
network's. The dialogue with `su` has three outcomes: refused before a session
exists, refused after, accepted.

### Nftfw

A call goes through `lock`, `ensure` (is there a table?), `recover` (apply
what the boot file says), `read` (the kernel's rules), `apply` (one netlink
batch, which is atomic), and the four steps of `writeConf`. Only recovery and
changes write; a status or preview returns after `read`. Rules exist in three
forms, as in the code: logical (`protocol` may be `both`), in the kernel (one
per protocol, the address without its spelling) and in the file (one per
protocol, the address as it was written). `Expand`, `Canonical` and `Merge`
translate between them. `Merge` skips what the decoder of kernel rules does not
know. The agent's own rules it knows; but `nft`, which loads the boot file,
puts a match of the address family before that of an address, and with that
a rule is not decoded. `byNft` says that the table in the kernel was loaded and
not applied, and then the rules with a source are `Undecodable`. `disk` is the set of files a power loss may leave:
a rename is durable only once the directory is synced, and a file that was not
synced before its rename may be torn.

Facts about the code that the model keeps and no property forbids. Adjacent
tcp and udp rules that were added one by one read back as a single rule for
both, so a listing may differ from the preview that was shown. An address
spelled `::ffff:a.b.c.d` is accepted, is right in the kernel, and makes the
boot file unloadable: `SavedChangeSurvives` has that as its premise. The
handlers accept a CIDR, which the agent then refuses. A table that was flushed
comes back with the next call and not before.

### AuthSessions

Each handler is split where others may come between: `Setup` counts and later
inserts, `Login` passes the limiter, compares and later signs, `RotateJWT`
stores and later swaps, `ChangePassword` is verified, compares by name and
writes by id. A cookie is a name and the secret that signed it; `verify` asks
for a row with that name, so the cookie of a deleted account works again when
its name is given away (`docs/security.md:96` promises only that sessions of a
deleted user die, which they do while the name is unused). `retired` is a
history variable: the secrets of tokens that a completed rotation was to
invalidate. With a pinned `jwt_secret` a restart brings the old secret back,
so `RotatedTokensAreRefused` is about the other configurations. Two rotations
at once may leave one secret stored and the other in memory until a restart;
neither is an old one. Two first-run `Setup` requests may both create an
account; only the first is the administrator.

### NodeRequests

A request subscribes its channel, writes, and waits for its id. The agent
reads a frame, handles it to its end and answers before it reads the next.
`deploy` and `down` take `composeMutex`, which requests on another connection
may hold. A connection is up, cut (half-open: what is sent is lost and nobody
knows yet) or dead. Time is abstracted: every wait may end at any moment, and
only whether a compose command may outlast the agent's read deadline is told
apart, by `ComposeMax` (120 s) and `Silence` (90 s). It may: then `serveConn`
finds its deadline passed when it returns to a healthy connection and drops it
(`late`).

`RemoteCalls` has no connections, queues, mutex or project file. A request is
sent, may be lost, may have its effect once, as one step on the stack, and is
answered only after that. A request that has failed may have had its effect or
may have it later, which is all a browser that sees a timeout may conclude. In
particular a request is answered only after the agent has answered that very
request (`AnswerIsOwn`). `NodeRequests` implements it with `pending` as the
requests that are on a connection or with the agent; the steps of a compose
are invisible until the one that ends it.

### Storage, Shutdown and ServerLife

`main` and `wal` are the rows in the two files, and `Content` is what a reader
sees. A commit writes the log; a checkpoint, which SQLite or the maintenance
loop makes, copies it; the last connection that closes checkpoints and removes
it; a kill leaves it, of the server or of a backup that has outlived it. The
history variable `died` says that there was such a kill since the database was
last left. `Dump` reads table by table from one snapshot while
commits go on, and `past` holds the contents the database has had meanwhile.
`Restore` loads a temporary file, removes the log, renames; it may be killed
in between. As the documents ask, it runs with the server stopped and no dump
under way.

The signal goroutine goes from `waiting` through `http.Shutdown`, `DrainWS`,
`Manager.Close` and `Store.Close` to `os.Exit`. The main goroutine may exit at
any time after the signal, as `ListenAndServe` returns when the listener is
closed. In `ServerLife` handlers commit when they answer, the end of the drain
closes the store, and every other end of the process leaves it open.

## Runs

| Run | Instance | Shows |
|:--|:--|:--|
| `node_manager_safety` | one node, two loops, two conns, two `Reconcile`, one `Approve`; symmetric pools | `OneLoopPerNode`, `LoopingIsAccurate`, `OneConnPerNode`, `ConnsAreServed`, `NeverApprovedNeverDialed`, and that it implements `NodeFleet` |
| `node_manager_live` | one of each | `Reconnects`, `BrokenConnIsReleased`, `DeletedNodeIsForgotten` |
| `docker_logs` | two viewers, one line each, channels of one | `FollowIsRegistered`, `RegisteredIsRunning`, `EndIsLastUnlessReplaced`, `StreamsEnd`, `HandlerEnds` |
| `terminal_life` | one recorded session, one frame queued, one chunk waiting | `RunningShellIsHeld`, `ExitMeansExited`, `NothingIsDropped`, `EndsEverywhere` |
| `nftfw` | two calls at once, three in a behaviour, four rules on offer, two spellings of an address | `AppliedTableIsListed`, `BootFileIsTable`, `SavedChangeSurvives`, `NoLostUpdate` |
| `auth_sessions` | two handlers, two names, three ids, two rotations, a limit of one | `AdministratorStays`, `GuessesAreBounded`, `RotatedTokensAreRefused`, `PasswordOfCallerOnly` |
| `node_requests` | two of four requests (two deploys, a down, a list) over two connections, channels of one | `UpRunsItsOwnFile`, `FileNamesStack`, `ServeConnResumes`, and that it implements `RemoteCalls` |
| `server_life` | one client, two tables with a row each, any number of processes | `CleanlyLeftIsKept`, `DumpIsSnapshot`, `ExitIsBounded` |

What some of them do not say. `NeverApprovedNeverDialed` is about ids: an old
approval outlives its row, which `node_dialed_while_pending` shows. A stream
that was replaced is outside of `EndIsLastUnlessReplaced`: its end carries only
the container and may reach the viewer of its successor. `NoLostUpdate` is about
the list as it reads back, so rules that do not read back are lost all the same;
`AppliedTableIsListed` names the tables that do. `EndsEverywhere` has a premise
that the code does not see to (see Fairness). `FileNamesStack` is about deploys
that did not fail. `CleanlyLeftIsKept` leaves out the removal of a log that a
dead process has left, which is what `restore_cut` shows. `BootFileIsTable` and `SavedChangeSurvives` speak of
changes that were written to the end; a kill between the netlink batch and
`writeConf` leaves the old file.

Why the bounds are enough. Nodes share only `m.mu` and the database, and every
property of the node manager speaks of one node, so one node suffices; two
loops, conns and `Reconcile` runs are what it takes to race, and a third can
only wait for a pool member. The state of a log stream involves its own viewer
and the one that replaces it. With one frame under way in a direction a queue
can be full, and a shell's output, its exit and what the browser is told can still
overtake one another, as they wait in different places (pty, connection, relay).
Two firewall calls are what it takes to lose an update, and the third call
deletes by a number the first two have shifted; two clients are interchangeable.
Every hazard of `AuthSessions` has two actors; its limit of one failure stands
for ten, and its third id is the one a deleted account's name may get. A
channel of one stands for eight: what matters is that it can be full. Two
deploys with different files, or one of them with a `down` or a `list`, are
the pairs that can disturb each other, and two connections are needed for
composes to overlap, since each connection has one request at a time. A drain
only tests whether any client is left, so one client suffices; two tables are
needed for a commit to fall between them.

Bounds in guards: `MaxLines` of a log, `MaxRules`, `MaxNumber` and `MaxCalls`
of `Nftfw`, `MaxId`, `MaxSecret` and `MaxCookies` of `AuthSessions`, `MaxSent`
of `NodeRequests`.

`CHECK_DEADLOCK FALSE` stands where the system really stops: when every
browser has gone, the bridge has returned, or all requests that may be sent
have come to their end.

### Where code and documents disagree

Shown by a run:

| Run | The code | What says otherwise |
|:--|:--|:--|
| `node_delete_during_dial` | a dial in flight is installed after `Delete` has dropped nothing | `nodes.go:238` |
| `node_dialed_while_pending` | the loop of a deleted node dials again when the node is announced, while its new row is pending (`manager.go:230`) | `docs/usage.md:70` |
| `shutdown_drain` | the main goroutine exits while the signal goroutine still drains | `cmd/gopit/main.go:99` |
| `restore_cut` | a dump that was cut after a whole statement is executed, rolled back and swapped in (`backup.go:124`); the log of a server that died is removed before the swap, so a stop between the two leaves neither the old content nor the dump (`backup.go:136`) | `backup.go:109` |

The shortest trace of `restore_cut` has both: the cut dump is loaded without
an error, and the content is lost with the log, before the rename.

Stated in the modules, refuted by TLC when checked in place of the properties
of the configuration named, and not repeated by a run:

| Property | The code | What says otherwise |
|:--|:--|:--|
| `ListShowsTheTable`, `Nftfw.cfg` | rules with a source that were loaded at boot are not decoded and missing from the listing (`nftfw.go:616`) | `nftfw.go:14` |
| `ToggleKeepsTheRules`, `Nftfw.cfg` | the next change then removes them from kernel and boot file | `nftfw.go:416` |
| `ShellEndsWithConnection`, `TerminalLife.cfg` | a read loop that writes to a full pty notices neither `terminal.close` nor the end of its connection (`agent/ws/server.go:207`) | `docs/security.md:72` |
| `QuietTerminalStays`, `TerminalLife.cfg` | nobody pings the agent on a terminal's connection, so 90 s without input end the session (`agent/ws/server.go:189`) | `server/api/terminal.go:116` |
| `SlowConnIsKept`, `NodeRequests.cfg` | a compose command that takes longer than 90 s makes the agent drop a connection that is up (`agent/ws/server.go:218`) | `agent/ws/server.go:146` |

Other known disagreements. The models contain the behaviour; no property
forbids it:

- A loop dials with the row it was started with, so a corrected token is used
  only after a restart (`manager.go:233`; `docs/architecture.md:37`).
- A failed write ends the log handler without `logs.stop`, so the agent goes
  on following (`docker.go:250`; its comment at 171).
- The `logs.stop` of a replaced viewer cancels the stream of its successor
  (`client.go:313`; its comment at 30).
- A session whose shell exits is not closed, nor is its recorder
  (`agent/ws/terminal.go:85`; `pty.go:58`).

## Fairness

Goroutines that can run do run, and so do timers: weak fairness on every loop,
relay, handler and teardown step, because the Go scheduler starves no runnable
goroutine and each wait in question has a timeout or a closed channel at its
end (the exceptions follow). Dialing is the one strong fairness: an agent that is reachable with the
right token for ever is not missed by every attempt. Nothing is assumed of
operators, users, browsers, shells, agents, the network or crashes.
`Reconnects` is stated for executions in which the server stops restarting
and no loop holds an old token. `StreamsEnd` relies on the agent noticing a
dead connection, which its read deadline ensures.

In `Terminal` the two writes without a deadline owe nothing: neither
`InputTaken` nor `DownstreamWrite` is fair. `EndsEverywhere` has their return as
its premise (`WritesReturn`: again and again nobody is in one);
`ShellEndsWithConnection`, which has no such premise, is false. A write to a browser whose
socket is closed, and one to a closed pty, do fail. A frame that fits no queue
may be lost with the connection that did not take it, `terminal.close` included.

In `NodeRequests` the handling of a request and a compose command end (weakly
fair, the command because of `composeTimeout`; that is an assumption, since
`runCompose` sets no `WaitDelay` and a child of the killed command that keeps its
output open would hold `CombinedOutput`), and whoever waits for
`composeMutex` gets it if it becomes free again and again (strongly fair:
`sync.Mutex` hands itself to a goroutine that has waited for a millisecond).
In `ServerLife` only the signal goroutine is fair, with the timer of its
context. Nothing is asked of the main goroutine, of handlers or of browsers,
so `ExitIsBounded` says that the drain needs none of them.
`Nftfw` and `AuthSessions` state safety only and assume no fairness.

## Proofs

Every safety invariant and every action property that a passing run checks is
also a theorem. The theorems hold for any constants that satisfy the assumption
of their module: any number of nodes, goroutines, connections, viewers,
requests, accounts, tables and rules, any capacity. Where a module caps a
counter, the cap is a constant like any other.

`NodeManager_proofs`. The safety properties are not inductive. That a node has
one loop also needs `OneLoopUntilClosed` (before `Close` even loops that are
about to end count, because `Reconcile` starts a loop only if `looping` does
not name the node, and `looping` is accurate); that it has one connection
needs `HoldsItsConn` and `EveryConnIsHeld`: a loop holds a conn from the dial
until `<-conn.stop` returns, and no conn outlives its loop. `IInv` collects
these with the types and the approvals. From it follow the five invariants,
and `NodeManagerImplementsFleet`: initial states map to initial states, and
each step maps to a step of `NodeFleet` or to a stutter.

`DockerLogs_proofs`. `FollowIsRegistered` and `RegisteredIsRunning` are
inductive together, given the types. A restart cancels what is registered, and
by the invariant that was the only uncancelled stream.
`EndIsLastUnlessReplaced` is about three queues in a row. `RequestInv` says that
a viewer asks once and that its stream starts after that, so a stream starts
once; `OrderInv` says of each part of the way, connection, channel and display,
that no line follows the end there, and that no line is behind an end which has
already left that part.

`Terminal_proofs`. `RunningShellIsHeld` needs `EndedHasNoShell`: a closed pty,
or a pump past its read loop, has no running shell, so the pump may empty the
slot. `ExitMeansExited` rests on `ExitInv`, on top of that: one
`terminal.open` is sent per connection, so a killed shell is the session's own
and an opened one never follows it; a session that was closed has left the slot
or its connection is dead (`SilentWhenClosed`), and a dead connection stays dead
(`ConnectedOnce`); so an `exit` that is under way or was delivered is true. `NothingIsDropped`
needs `ReadInv`, that a pump which is about to report an exit has read all the
shell wrote (a pty that is closed under it has emptied the slot or the
connection is dead, and then nothing is reported), and `LastInv`, that nothing
follows the `exit` on the connection.

`NodeRequests_proofs`. That an agent at work has a request (`BusyHasRequest`) is
part of the types. `ComposeInv` covers the steps under `composeMutex`:
whoever writes the project file or runs compose holds it, only a deploy writes,
an up still has its own file, and outside of an up a deploy that did not fail
left a file that names what runs. `UpRunsItsOwnFile` and `FileNamesStack`
follow. `AnswersAreOwn` needs `AnswerInv`: every id on its way to the server, or
in the channel of a request, is one the agent has answered.
`NodeRequestsImplementCalls` needs `OnceInv` as well, that a request is in one
queue, once, or with one agent, and no longer there when it has been answered,
and `KindInv`, that what an agent composes is a deploy or a down. The step that
matters is the end of an up: by `ComposeInv` the file it runs is that of its
own request, so the stack becomes what that request said.

`AuthSessions_proofs`. `AccountsInv`: ids grow and are never used again, no two
accounts share a name or an id, and once there was an account, the one with
id 1 is there; with `Checked`, that a handler about to delete has seen another
id and one about to write a password holds the id of the account that was
verified, it gives `AdministratorStays` and `PasswordOfCallerOnly`. `LoginInv`
counts the handlers between the limiter and their answer together with the
failures. `SecretInv` is about secrets: all are numbers that were made
(`MadeInv`); the one a rotation is about to install is not in use and signs
nothing, and no other rotation has it (`FreshInv`); neither the stored secret
nor, unless it is pinned, the one in use is retired (`RetiredInv`). It assumes
that the handlers are finitely many, since it counts them.

`ServerLife_proofs`. `DumpInv`: what a dump has written so far is part of its
snapshot, lacks only rows of the tables that are left, and the snapshot is one
of the contents the database has had meanwhile. `RestoreInv`: a restore has the
database for itself, its rename finds no log, and while nobody has the database
open there is a log only if somebody died with it open. The last is what
`CleanlyLeftIsKept` needs: a restore removes a log that matters only then.

`Nftfw_proofs`. The first half is about lists. `Induct` derives induction over
the natural numbers from the well-foundedness of `<`, in a form without an
operator parameter; `ExpandSteps` and `MergeSteps` derive with it that the
recursive functions in `Expand` and `Merge` exist and satisfy their equations.
By induction from the last rule to the first, `ExpandOfMerge` shows that what
was merged, with nothing skipped, expands to the rules it was merged from; with
`KernelAddresses`, that an applied table has its addresses in the kernel's form,
this is `AppliedTableIsListed`. Nothing of the kind is proved of tables that were
loaded at boot, for which it is false. The second half is the
invariant of the calls: past its `Lock` a call holds the mutex (`Exclusive`), so
that what `CallInv` says of its step stays true until it takes the next one. A
call that writes the file has its own table in the kernel, or none is left; the
temporary file holds what that call renders and is synced before the rename;
the list about to be applied is the change of the table that is there.
`FileInv` relates file, disk and table. Types rest on all of it: that `rename`
finds a temporary file is mutual exclusion.

Only model-checked: liveness (`Reconnects`, `BrokenConnIsReleased`,
`DeletedNodeIsForgotten`, `StreamsEnd`, `HandlerEnds`, `EndsEverywhere`,
`ServeConnResumes`, `ExitIsBounded`) and everything else that depends on
fairness or `ENABLED`, which the provers do not handle.

## Not modelled

- The firewall over `ufw`: each call is one command of an external program
  under a mutex. Its parser is formatting.
- Webhooks: `Fire` starts a goroutine per delivery; deliveries of one hook are
  unordered, a delivery is tried three times in all, and the exit of the
  process drops what is under way. Nothing in the server waits for one.
- The CSRF token, the origin check, the global rate limiter and password
  strength: checks of one request without state that others depend on.
- The status stream's relay (it drops what does not fit), docker one-shot
  calls, discovery sockets, metrics, system stats, configuration, flags, the
  agent's `main`, the web interface: no control state of their own.
- TLS, tokens as strings, the SQL dialect, JSON, `nft` syntax: data the
  properties do not tell apart.
- Within the models: a stream that is upgraded and not yet tracked when
  `DrainWS` takes its snapshot gets no close frame. If it is tracked while
  `DrainWS` still polls, the drain waits for it like for the others, until it
  leaves or the context expires. The offline reports of connections that `Manager.Close`
  cuts race with `Store.Close` and may be lost. A kill during the shutdown
  looks like an exit of the main goroutine. A dump leaves out
  `sqlite_sequence`, so ids of deleted accounts may be used again after a
  restore.
- Gaps known to the models but demanded by no property, because the code
  permits what follows from them: `Approve` writes `approved` over `online` on
  a connected node (`nodes.go:152`) and the pairing token over one that was set
  since it looked (`nodes.go:142`); `Logs` may subscribe after `logs.end` has
  passed (`docker.go:194`); a response that does not fit its channel is lost
  and its request times out (`manager.go:76`); an up that fails leaves the new
  project file beside what ran before (`compose.go:209`); two rotations at once
  may leave one secret stored and another in memory (`auth.go:259`).

## Plan

Every safety property of the runs is proved. What is left is to state more:
abstract specifications for the terminal, the logs and the firewall, with the
refinement checked and proved, as the node manager and the requests have it.
