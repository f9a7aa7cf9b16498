# HavokRust: specification and proofs

This directory holds TLA+ models of the HavokRust MUD server (`src/src/*.rs`),
the TLC runs that check them and the TLAPS proofs about them.

    tlc -workers 2 -config MCServer_sessions.cfg MCServer.tla
    tlapm ServerProofs.tla

## 1. The system

One process on the Tokio multi-threaded runtime. Long-lived tasks, all started
by `main` (main.rs):

| Part | Source | State | Operations |
|---|---|---|---|
| main | main.rs | settings, task handles, two barriers, the control broadcast (4 places) | spawn everything, meet at the start barrier, broadcast the settings, wait for Shutdown, account for finished tasks, meet at the shutdown barrier, join |
| Ctrl-C task | main.rs:75-82 | none | first SIGINT: broadcast Shutdown and end, leaving a task that exits the process on the next SIGINT |
| SIGHUP task | main.rs:91-121 | a control receiver, a signal stream | SIGHUP: read the settings again, broadcast Reconfigure, set the log level |
| Server task | server.rs:185-308 | a clone of the static SERVER: endpoint and four maps by client address (`connections`, `wr_streams`, `rd_streams`, `rd_handles`); the listener; the shared queues tx and rx (2048 places each) | select! over control signals, accept, transmit queue, receive queue; reconfiguration; shutdown |
| Read task, one per connection | server.rs:310-352 | the read half, a control receiver | pass every chunk, and finally an empty message, to the receive queue |
| Rx task, one per connection | connection.rs:132-182 | telnet and line buffer, its queue (256) | split input into lines for the user channel; on an empty message send a last line and an empty message to the transmit queue |
| Tx task, one per connection | connection.rs:93-116 | user channel (256) | turn user messages (bytes, text, or a template) into network messages; nothing in the repository sends to it yet |
| DNS task and lookups | dnslookup.rs | request queue, answer broadcast | spawn a reverse lookup per request; the asker waits at most 3 s |
| Log task | logging.rs | static LOGGER behind an RwLock, log queue (256) | write messages; at Shutdown wait at the barrier, then drain |
| AnsiColors | ansicolors.rs | colour tables | convert `$cNNNX` codes |
| Settings | settings.rs | none | merge files and environment |
| EOSIO scripts, start scripts, images | docker/, scripts/ | pid files, wallets | start and stop a blockchain node in a container |

How they interact: the control broadcast carries `Reconfigure` and `Shutdown`
from main, the Ctrl-C task and the SIGHUP task to main, log, SIGHUP, server, DNS
and every read task. A chunk from a client goes read task → shared rx queue →
server task → the connection's queue → Rx task. Output goes Rx task (or the
server task itself) → shared tx queue → server task → socket. A message names
its connection only by the client's socket address; an empty message means "end".

What is hard here:

* the server task is producer and consumer of the tx queue, directly and
  through Rx tasks it waits for;
* sessions live in four maps that are filled around two awaits and emptied in
  three different places;
* an address can be used again while messages of its previous user are on
  their way, and tasks of old sessions survive a reconfiguration;
* the end of a session is a relay through four tasks;
* shutdown may come before the first settings, during a DNS wait, during a
  disconnection the Rx task has begun;
* the two barriers work only if the number of arrivals is exactly right, and
  the log task holds a lock for its whole life.

`PROJECT.json` lists every such hazard with its line.

What makes each part correct:

| Part | Properties |
|---|---|
| Server task and tables | the four maps describe the same sessions; no session outlives the shutdown; new settings are listened to; the task never waits for itself |
| Read and Rx tasks | every chunk arrives, in order; a client that closes is cleaned up, unless its Rx task has died |
| Output of a session | greeting first and once, a farewell before the close, nothing after it, nothing meant for somebody else |
| Lines and telnet commands | what the user channel gets is what was typed, however the network cut it |
| DNS lookup | every call ends, with names of its own address or none; no answer in time is missed |
| Start-up | nobody misses the first settings or a later signal; main gets to its loop |
| Shutdown and reload | every task that has subscribed hears Shutdown, all meet and the process ends; a reload ends |
| Logging | a message is queued, written or lost, once; what is queued is written; main's set-up gets the lock; what a reload does to the level and to later calls |
| Tx task | what the user side says is sent; a text never closes the socket |
| Colours | the text survives, every character is shown in the colour of its code |
| Node scripts | stop signals the node that start started (not modelled) |

## 2. Modules

| Module | Models |
|---|---|
| `Server` | the server task, the read tasks and Rx tasks, with clients and signals as environment |
| `MCServer` | instances of `Server` for TLC |
| `ServerProofs` | TLAPS: types, agreement of the tables, what a socket's state is and what shutdown leaves; greeting, lines, end on every socket |
| `SessionProofs` | TLAPS: the last line before the close; room in the transmit queue; messages reach their own connection, closes have a reason, chunks arrive |
| `Lifecycle` | main, the signal tasks, the barriers, the control broadcast, the LOGGER lock |
| `LifecycleProofs` | TLAPS: types, start-up order, no lag, the barrier that never opens |
| `Resolver` | abstract: one question at a time, answered for its own address or not at all |
| `DnsLookup` | the DNS task, its lookups, and `resolve_ip` with its time-out; implements `Resolver` |
| `DnsProofs` | TLAPS: neither question nor answer is lost on the way, and the refinement |
| `LineInput` | telnet commands, line reading and the buffer of one Rx task, byte for byte |
| `LineInputProofs` | TLAPS: types, lines arrive as typed, chunks do not matter, which chunks make the Rx task panic |
| `LogQueue` | log calls, the fair lock of LOGGER, the log queue and the log task |
| `LogQueueProofs` | TLAPS: types, where every message is, the level that stays, the silence after a reload |
| `AnsiColors` | the conversion of colour codes, on texts of characters and codes |
| `Output` | the Tx task of one connection, its user channel and the transmit queue |
| `OutputProofs` | TLAPS: types, no text closes the socket, a text arrives as it was said, in its own colours |
| `Induction` | TLAPS: least and greatest elements, induction over numbers and sequences, and what `FlattenSeq` yields, for the proofs about loops and folds |

They meet in `Server`. Its place `dns` is the caller of `DnsLookup`, and its weak
fairness there is what `CallEnds` shows (with `DnsLookup`'s `srv` and `dns` the
two tasks of `Lifecycle` that hear Shutdown each in its own time). A `"cut"`
chunk of `Server` is one for which `HandleTelnetCommands` is `Panicked`: without
an escaped IAC, one that ends after the second byte of an option command
(`PanicsWhenOptionCut`).
`Output` has the part of the transmit queue that one connection sees, and uses
`AnsiColors` for every text. `LogQueue` looks into the lock and the queue that
`Lifecycle` reduces to "held from the log task's start on".

### Server

A member of `Sock` is a TCP connection that a client may open; `AddrOf` gives
its client address, so several connections may share one. A message carries its
`sock` as a history value: the actions look only at `AddrOf[m.sock]`, as the
code looks only at `dest`; the properties ask whose message it really was.

`pc` is the place of the server task:

| `pc` | Code |
|---|---|
| `init` | the `while !initialized` loop (server.rs:203-215) |
| `select` | the select! of the main loop (217-272) |
| `dns`, `greet` | inside the accept branch: waiting in `start_processing`, then for room for the greeting (260-263) |
| `forward` | inside the receive branch, waiting for room in the Rx task's queue (152) |
| `reconf`, `reconfEof` | the disconnect loop of a reconfiguration (225-227) |
| `stop`, `stopEof` | the disconnect loop of the shutdown (276-279) |
| `finish`, `barrier` | draining the closed queue (284-294); `shutdown_barrier.wait()` (297) |
| `dead` | the task panicked |

Between two places of this table the code does not suspend, or suspends only
on locks nobody else holds, so it is one action. Each place where the task waits
for room in a queue is a state of its own, because that is where it can
deadlock. `held` is the message taken from the rx queue and not yet forwarded,
`todo` the connections a disconnect loop has still to visit. `conf` is the
endpoint in the static SERVER, `endpoint` the one in the task's clone, `wanted`
the one in the last Reconfigure and `listenAt` where the listener really is.

`rdpc` and `rxpc` are the places of a connection's read and Rx task: a read
task is in `run` (its select!), `send` or `eof` (waiting for room in the rx
queue), `done` or `dead`; an Rx task in `recv`, `line` or `eof` (waiting for
room in the tx queue inside `disconnect`), `done` or `dead`. `attached[s]` says
that the queue `s` sends to is the one still in use: false after a
reconfiguration or a close, when every send is lost at once.

Data is abstracted: a chunk is `"text"`, or `"cut"` when it ends inside a
telnet command so that the Rx task panics (connection.rs:260-264). A text
chunk that reaches an Rx task is recorded in `heard`. What the server writes is
`"greet"`, `"line"` and `"shut"`, the shutdown of the write half.

The environment: clients connect when something listens, send, close, abort
(`AllowReset`); the kernel may give an address to a new connection once the old
one is over on both sides, or aborted. With `AllowIoErr` the operating system may
refuse: `accept` fails (`SrvAcceptError`), `bind` fails, which the code ignores,
so that the kernel picks a port (`Bind`), and `start_server` panics for want of a
usable address, a socket or a successful `listen` (`SrvStartError`). `MaxChunks`
says of each connection how many chunks its client may send.
Writes to a client do not wait: a client that stops reading is not modelled.
The DNS wait ends at any moment (it is bounded by 3 s in the code).

`net`, `peer`, `sent` and `out` are the TCP connections; no action of the code
reads more of them than the code could see.

### Lifecycle

`pc` has the place of every party that waits at the barriers (main and the log,
SIGHUP, server and DNS tasks), `ctrlc` that of the Ctrl-C task. `pos[p]` is
how many signals of `ctl` party `p` has passed, or `Unsub`. main and the
SIGHUP task have their receivers from the start (main.rs:54, 90), the others
subscribe when they first run. `nth` counts the handles main has pushed and,
after Shutdown, those it has accounted for. The two barriers are counters,
`ready` and `shut`. The server task is reduced to what matters here: it needs
its settings before it stops, and it may die of a failing accept or while it applies
settings (`ServerPanic`). A SIGHUP whose settings do not load kills the SIGHUP
task (`HupReloadFails`). A signal whose handler is not yet
installed kills the process, as its default action does.

### DnsLookup

`asker` is where the one caller, the server task, is: `idle`, `send` (waiting
for room in the request queue) or `wait` (in `timeout(response_inner)`).
`answers` is everything ever broadcast, `pos` how far the caller's receiver has
come; it starts at the end, because the caller subscribes anew for every call.
A receiver more than `RespCap` behind gets an error, which `response_inner`
turns into "no names". Each request has the number `n` of its call as a history
value: the code matches answers by address only. `Timeout` is possible only
while the receiver has nothing, since `timeout` polls it first. Lookups end in any
order, or never.

### LineInput

`Receive(chunk)` is one round of the Rx task's loop. The loops inside it are
recursive functions on the number of rounds (`Rounds`), with as many rounds as the
length of what they work on allows; a round that has nothing to do changes nothing.
`DrainCommand`, `RuboutFirst` and `Deliver` are their bodies. `Found` says at which
CRs the search of `read_line` stops: it skips the byte after a CR that is not the
end, so of a run of CRs it finds every other one. `LineEnd` has the code's
arithmetic: the position of a CR is counted from where the search resumed, so
after a bare CR it is too small. `ReadLines` stops at an empty line, as the code
does, whether there is none or backspaces have eaten it. `Telnet` is the
reference: RFC 854 as the comment at connection.rs:219-238 has it, a byte at a
time; `cut` remembers that a chunk ended where `Telnet` was inside a command.

### LogQueue

`waiters` is the queue of Tokio's fair RwLock: requests are granted in the order
they were made, whatever they want. A call's task is in `spawned` until it runs
(`CallAsk`), in `waiters` until it is granted (`CallSend`, which is also the
`try_send` and, if that fails, the panic), and its message then in `queue` or
`lost`. These two steps of many tasks give every order the runtime can. `logpc`
is the place of the log task:

| `logpc` | Code |
|---|---|
| `none`, `spawned` | main has not spawned it; it has not run |
| `ask` | waiting for `LOGGER.read()` |
| `start`, `run` | at the start barrier; in its select! |
| `shut`, `drain` | at the shutdown barrier; draining the closed queue |
| `end`, `dead` | returned, which gives up the lock; panicked |

`LogStart` is the grant together with the task's first message, which it logs
directly. `hup` is the reload's `set_debug`; `late` remembers the messages that
asked after it did. The barriers are one step each, since their other parties
are in `Lifecycle`; `ShutBarrier` need not happen there, and cannot
(`ShutdownBarrierStarves`), so what follows it is what the code would do if that
were repaired. A message is a number and a level. Whether it is shown depends on
LOGGER's level when it is written, which is why `LevelAsStarted` matters.

### AnsiColors and Output

A text is a sequence of tokens: characters, of which only CR and LF are told
apart, and codes `$cNNNX`. Every code has one match of the regular expression,
`Capture`, searched from where the match before it ended (`SearchedFrom`): the
text of a code ends at a line end or the next code, the line ends there are
captured but only looked at, and a search does not take an LF into what it
matches. `Parts`, `ConvertCode` and `ConvertString` are the
functions of the same names. Some consequences are odd and kept: in a text with
codes, a line without one is dropped, and so are line ends before the first
code; a CR before a further code of its line is shown twice; a part in the
parameters of the one before is not painted, although that one ended with a
reset; a bold style on a plain colour is lost. Codes are ASCII in the model.

In `Output` the user side is environment: it finds the sender in the server's
table once `start_processing` has returned and says anything. `tx` is the Tx
task: `start` (spawned, without a receiver yet), `run` (in `recv`), `send`
(waiting for room in the transmit queue), `end`, `dead`. It dies of a lagging
receiver and of a template that does not parse or render (both `unwrap`). `made`
remembers the text `held` came from. `ansi_mode` is always true, as nothing
resets it; `TextKept` also asks about false. `ServerDrop` is the end of the
queue in a reconfiguration, a shutdown or a panic of the server; what is sent after
it is gone, since `send_raw` ignores the error, and is not counted in `done`.

## 3. Runs

| Run | Instance | Question |
|---|---|---|
| server_sessions | 2 clients, own addresses, aborts, 1 chunk each, rx queue and Rx queues of 1, tx queue of 10 | `FarewellBeforeClose`, `NoSelfDeadlock`, `TablesAgree`, `ShutdownClosesAll` |
| server_reuse | 3 connections from one address, one after the other, 2 chunks from the first and 1 from each other, some cut, rx queue of 1, Rx queues of 2, fair tasks | `OwnMessagesOnly`, `OutputProtocol`, `ChunksConserved`, `CloseJustified`, `EofCleansUp` |
| server_reconf | 2 connections from one address, 2 endpoints, 2 Reconfigure, failing accepts, binds and listens, a broadcast of 2, fair tasks | `TablesAgree`, `ShutdownClosesAll`, `ShutdownReachesBarrier` |
| server_applied | 2 clients, 2 endpoints, 2 Reconfigure | `ReconfigureApplied` is violated |
| lifecycle | the whole process, SIGINT and SIGHUP at any time | six properties of start-up and shutdown |
| lifecycle_shutdown | same | `ShutdownCompletes` is violated |
| lifecycle_reload | same | `ReloadFinishes` is violated |
| dns | 4 calls, 2 addresses, queue of 2, broadcast of 2, fair tasks | `AnswerStillAhead`, `RequestKept`, `CallEnds`, refinement `ResolverSpec` |
| lineinput | every input of up to 6 bytes of 7, in every division | only bytes of the input, in order (`TypeOK`), `LinesAsTyped`, `PanicsOnlyOnCut`, `ChunksDoNotMatter` |
| lineinput_escape | inputs of up to 4 bytes | `EscapedIacKept` is violated |
| logqueue | 3 log calls, a queue of 2, a reload and a Shutdown at any time, fair tasks | `Accounted`, `LevelAsStarted`, `SilentAfterReload`, `QueuedIsReceived`, `CallsGetThrough`, `SetupEnds` |
| output | every text of up to 5 tokens of 5, in up to 2 messages, queues of 1, fair Tx task | `TextKept`, `ColourAsMarked`, `TextNeverCloses`, `SaidIsSent` |

Bounds. Two connections are enough for the interactions the code has: everything
shared is a queue or a map, and a third party adds only more of the same
messages; address reuse needs a chain, so server_reuse has three. The rx queue
and the Rx queues have one or two places, so that every wait for room happens.
The tx queue is the interesting one: `NoSelfDeadlock` holds with five places per
connection (greeting, and line and end from the Rx task and again from the
server) and TLC finds it violated with one place less. The code has 2048 places for any
number of connections; that five each are enough for any number of them is a
theorem (`NeverBlocksItself`), so it is safe up to 409 at a time. That count has
no output of Tx tasks in it: nothing in the repository sends any to them today, and
once something does, it takes places in the same queue.
`MaxReconf` is 2: the process can broadcast no more than two (section 4,
`NoLag`). For the same reason a receiver cannot lag behind a broadcast of 4;
server_reconf uses a broadcast of 2 to reach the `unwrap` on `Lagged` as the
server task alone would meet it.

In `DnsLookup` four calls about two addresses give two late answers to one
address besides the answer to a third call, and a broadcast of 2 makes the
receiver lag. Six bytes in `LineInput` are two lines of one letter, or a
backspace, a command with its option and a line end; the seven values are one
of each kind the code tells apart (a letter, BS, LF, CR, a command without and
one with option, IAC).

In `LogQueue` three calls and the log task's own message overfill a queue of two,
before the task starts and while it runs; one call can be before a reload and
two after it. There is one reload because the first never ends while the task
lives, and the SIGHUP task waits for it. In `Output` five tokens are two lines
with a code each, or a line with two codes, or one with a repeated code and
text around them; of the two codes one is bold by its style on the plain colour,
which is then lost, and the other has a background. A user channel of one place
makes the receiver lag, a transmit queue of one makes both senders wait.

What holds only in part, with the reason the runs are as they are:

* With two connections from one address and aborts TLC finds `OutputProtocol`,
  `OwnMessagesOnly`, `CloseJustified`, `FarewellBeforeClose` and
  `ChunksConserved` violated: the kernel gives the address to a new connection
  while the old one is still listed, and what is on its way for the old one is
  written to, or closes, the new one. With a change of endpoint instead of
  aborts all but `OutputProtocol` are violated: the read tasks of the old
  sessions live on. server_sessions therefore has aborts without reuse, and
  server_reuse reuse without aborts and without a second endpoint; the
  hypotheses of the theorems in section 4 are the same two conditions.
* `EofCleansUp` has an exception: a chunk that ends inside a telnet command kills
  the Rx task (connection.rs:262), and the end of input that follows reaches nobody.
  The session stays listed, and its socket half open, until a reconfiguration or the
  shutdown.
* `TablesAgree` says that the tables agree, not that sessions survive: when the
  server task panics (a failing accept, a lagging receiver) all four are gone
  together.
* `FarewellBeforeClose` is false across a change of endpoint even without reuse:
  the queue that holds the farewell is discarded (server.rs:231-236).
* `CallEnds` has an exception: the send to the request queue is outside the
  time-out, so a queue that is full when the DNS task stops holds the caller.
  256 places for one caller make that unlikely, not impossible in principle.
* `LinesAsTyped` is for inputs whose lines end in CR LF, without an escaped IAC and
  not cut inside a command. A bare CR makes `read_line` split at the wrong
  byte, and CR CR LF is no line end to it; `ChunksDoNotMatter` holds even then.
  A chunk that ends just after IAC leaves that byte in the text, one that ends
  before an option kills the Rx task.
* `QueuedIsReceived` has an exception: once the log task waits at the shutdown
  barrier it receives nothing more, and the barrier never opens. `CallsGetThrough`
  has one too: after the first SIGHUP no log call gets the lock. Both follow
  from the two hangs below.
* `ShutdownHeard` is about tasks that have subscribed. One that subscribes after the
  broadcast, as a SIGINT early in start-up allows, never hears it.
* `TextKept` and `ColourAsMarked` are for texts in which every line that is not
  empty has a code (or none has), and CR stands only at line ends; the section
  on `AnsiColors` says what becomes of others.
* `SaidIsSent` has four exceptions: messages sent before the Tx task has
  subscribed, after a lag or a bad template killed it, after the end message, and
  after the server has dropped the queue.

Fairness. The runtime runs every task that can run, so read tasks, Rx tasks and
the steps of the server task outside its select! are weakly fair. Tokio's
`select!` polls its branches in random order, so a branch that is ready again
and again is taken: signals, sends and receives are strongly fair. Accepts,
clients, signals from outside and panics are not fair. In `Lifecycle` every task
is weakly fair. In `DnsLookup` the caller, its clock and the DNS task are weakly
fair, lookups are not. In `LogQueue` tasks that can run and locks that can be
granted are weakly fair, and receiving is strongly fair, being a branch of a
select!; the opening of the shutdown barrier, calls and signals are not fair. In
`Output` the Tx task is weakly fair, and so is the server's taking from the
transmit queue.

Deadlock checking is off because the system really stops: at the barrier, after
a panic, or when no more connections, signals, calls or messages are left in the
instance.

### What the violations show

* **Reload of the endpoint has no effect.** `Server::get` initializes the static
  once (server.rs:65-67), so the clone made at 239 has the old endpoint.
  `start_server` then binds the very address its own listener still holds;
  the error is ignored (108), and `listen` takes a port the kernel picks. Every
  connection has been closed for nothing, and the next reload binds the old
  address again.
* **Shutdown hangs.** `thread_count` is 6, but besides the four tasks only main
  arrives: it waits at the barrier itself, at the first finished handle.
  Only a second SIGINT ends the process.
* **A SIGHUP hangs its task.** `set_debug` wants the LOGGER lock for writing; the log
  task holds it for reading from its start to its end.

* **An escaped 0xFF is lost.** `handle_telnet_commands` leaves one of two IACs
  and then finds it again: `FF FF CR LF` becomes a lone LF, and the line never
  ends.

### Mutants

A definition named `X_mutation` stands before `X` and is `X` with a bug one
could write; nothing uses it. Put in the place of `X`, it must break the
property that `PROJECT.json` pairs it with, in the same run.

| Mutant | Bug |
|---|---|
| `Transmit_writesEmpty` | the empty message is written, not taken as the end |
| `ToServer_dropsWhenFull` | `try_send` in the place of `send` in the read task |
| `RxSendLine_silent` | `disconnect` without its last line |
| `ToClient_resends` | a message is queued twice |
| `SrvFinish_undrained` | the task goes to the barrier without draining |
| `SrvSend_newestFirst` | the queue is used as a stack |
| `In_clearedFirst` | the buffer is cleared before it is copied, so every chunk is empty |
| `SrvDnsDone_forgets` | no `connections.insert` |
| `SrvInitConfigure_starts` | a Shutdown before the settings is forgotten |
| `StartParties_mainForgotten`, `StartParties_ctrlcCounted` | start barrier one too small, one too large |
| `LoggerHeld_released` | the log task gives up the lock |
| `ThreadCount_counted` | five parties at the shutdown barrier |
| `Take_newest` | a receiver skips to the newest signal |
| `Ask_oneTooFar` | the receiver starts one answer too late |
| `Receive_resubscribes` | after a foreign answer the receiver starts at the end again |
| `Receive_unmatched` | any answer is taken |
| `DnsTake_drops` | no second lookup while one is under way |
| `Timeout_never` | no time-out |
| `Drained_alwaysOption` | every command is taken to have an option |
| `Rubout_next` | a backspace takes the byte after it |
| `Collected_twice`, `Collected_forgets` | the buffer is appended twice, or lost |
| `TrySend_unbounded`, `TrySend_overwrites` | the log queue grows, or forgets its oldest message |
| `LogHolds_released` | the log task gives up the lock |
| `LogEnd_undrained` | the log task ends with messages in its queue |
| `StepAfter_spawnFirst` | the log task is spawned before `set_debug` |
| `SendRaw_unbounded` | the transmit queue has no bound |
| `Split_noPreamble` | the text before a code is dropped |
| `SameParams_ignoresBg` | a part that differs in its background only is not painted |
| `Paint_skipsEmpty` | an empty text gets no escape sequence, and becomes the end marker |
| `IsEnd_noText` | bytes and templates are taken as the end message |

## 4. Proofs

Each inductive invariant below was first checked by TLC, as an invariant of the
runs of its module. Each action has a lemma, which has a step for every conjunct
the action can disturb; steps of the server task that differ only in their place
are grouped (`SrvFrame`, `DropType`, `ByeOrder` and so on).

**Server: tables and sockets** (`ServerProofs`). `SessionsAgree` proves
`TablesAgree` for any sets of connections, addresses, endpoints and any
capacities, so also in the cases TLC does not combine (reuse with
reconfiguration and aborts and panics). The inductive invariant is `IInv`, that is
`TypeOK /\ InHand /\ TablesAgree`. `TablesAgree` already says what is true while
the tables disagree: `connections` lags behind for the address being accepted
(`pc = "dns"`) and is empty ahead of the others in the disconnect loop of a
reconfiguration. `InHand` is what types alone do not give: `cur` is a connection
wherever the task uses it, `held` is not empty in `forward`, and a read task that
has a chunk in hand has read one. Assumptions: `SockAssumption` only says that
`AddrOf` is a function into `Addr` and `NoSock` is no connection.

`ShutdownLeavesNone` proves `ShutdownClosesAll`, as generally. It needs `SInv`:
`Idle` (what the task has in hand only in some of its places), `Entries` (a
session is in the tables under its own address, and its Rx task can still send),
`Sockets` (an accepted socket is open or closed, never both, and the close is the
last thing on it), `Unopened` (nothing has happened for a connection that is not
accepted) and `Leaving`, the heart of it: during the shutdown every session still
listed is to be visited, being visited, or closed by a message in the queue that
`SrvFinish` drains. `NothingAfterClose` and `OpenAreListed` are consequences.

**Server: what a client reads** (`ServerProofs`). `OutputInOrder` proves
`OutputProtocol` under `NoTakeover`: clients do not abort connections, or no two
connections come from one address. Reconfigurations, panics and failing accepts
are allowed. The inductive invariant `OInv` says that a message in the queue, and
one that can still be put there, belongs to the session in the tables or finds
none (`Present`); that only the first thing
written to a socket is a greeting (`GreetOnce`); that the message that closes a socket is the last its Rx task
sends (`LastWords`); that a connection being accepted has nothing to say yet
(`Fresh`); and that its greeting is the first message (`FirstWords`). What
`NoTakeover` gives is `Alone`: of the connections from one address at most one
still holds it.

**Server: goodbyes and room for them** (`SessionProofs`). `GoodbyeFirst` proves
`FarewellBeforeClose` under `NoTakeover` and `NoReload` (settings that keep one
endpoint). Its invariant `FInv` follows every closing message back to the line
that was queued, or written, before it.

`NeverBlocksItself` proves `NoSelfDeadlock` under `NoTakeover`, if the transmit
queue has five places for each client address; `RoomToSpeak` says the same of the
sessions there are at the moment. The invariant `GInv` gives every queued message
a voice of its session (`Voice`: the greeting, line and close of its Rx task, line
and close of the server's loop), no voice twice, and says which of them are still to
come (`Spoken`). Messages are thus different pairs of a session and a voice, and
while a session has a voice still to raise, the queue has fewer messages than there
are pairs (`RoomFor`, by `Pigeonhole`). Five is tight, as the violation with nine
places and two sessions shows.

**Server: what a client says** (`SessionProofs`). `MessagesReachTheirOwn`,
`ClosedForAReason` and `ChunksArrive` prove `OwnMessagesOnly`, `CloseJustified` and
`ChunksConserved` under `Undisturbed`: no two connections come from one address, or
clients do not abort and the settings keep one endpoint. `RInv` says that while a
connection can still produce messages, or has some on the way, its address has its
own session or none (`Own`), that the end of input is the last message of a read
task at every stage of the relay (`Ends`), and that outside of reconfigurations
the session is there (`Kept`). For `ChunksArrive`, `CInv` says where the next
chunk of every connection is: what is handled and what is in the Rx task's queue
are numbered without a gap (`Handled`), and for a session that is served the next
is with the server task and the receive queue has the rest, each once and in
order (`Listed`).

The hypotheses are constants of the instance, not assumptions about behaviours,
and each is needed: section 3 lists what TLC finds violated without them.
`NoTakeover` and `Undisturbed` hold when every client has a port of its own, and,
with shared ports, when the clients and the settings behave; the other theorems on
the server have none.

**Lifecycle.** `BarrierStarves`, `NeverLagged`, `ConfigNotMissed` and
`TypeCorrect` follow from one inductive invariant:

* `StartBarrierCounts`: before the start barrier opens `ready` counts the
  parties waiting there and nobody is past it; afterwards everybody is.
* `Subscribed`, `SpawnInOrder`: who has a receiver, and what main has not
  spawned yet.
* `ShutBarrierCounts`: `shut` counts the parties waiting at the shutdown
  barrier. There are five parties, and one that waits never moves again, so
  the sixth arrival cannot happen.
* `FewSignals`: one Shutdown, one Reconfigure from main, one from the SIGHUP
  task, which hangs after its first. It needs `ShutBarrierCounts`, because the
  log task would release the lock if the barrier ever opened.

`CtlCapAssumption` is `CtlCap >= 3`; the code has 4.

**DnsLookup.** `AnswerReachable` (`AnswerStillAhead`), `QuestionKept`
(`RequestKept`) and `ImplementsResolver`, for any addresses, capacities and number
of calls. The inductive invariant adds to the two properties `CallAddr` (an
address is set exactly during a call), `Numbers` (what carries the number of the
current call is about its address, everything else is older) and `AnswersMatch`
(an answer has the names of its own address, or none). `Numbers` is why a late
answer to an earlier call cannot be mistaken for the loss of the current one;
`AnswersMatch` is what the refinement needs of `Receive`. Assumptions: `NoAddr`
and `NoNames` are no addresses. `TypeCorrect` is from the same invariant; it bounds
the request queue by `ReqCap` and the receiver by what was broadcast.

**LogQueue.** `LevelKept`, `SilentReload`, `NothingUnaccounted` and `TypeCorrect`,
for any number of calls and any capacity. The inductive invariant adds to the
properties

* `Order`: the log task comes after main's set-up, which has set the level; a
  reload comes after the start barrier, and is over only when the log task is;
* `Requests`: a request of main, the log task or the reload is in the line only
  while its owner waits for it, and once;
* `Apart`: a message whose task has not run is nowhere else, so it cannot be
  one that was sent before and becomes late now;
* `Behind`: while the reload waits, its request is in the line, and no late
  message is before it.

A call that is granted is the first in the line, so by `Behind` it is not late;
`Order` says that the log task does not take the lock after a reload has
asked for it. Lemmas about requests say once what asking and being granted do
to the line (`AskRequests`, `GrantRequests`, `AskBehind`, `GrantBehind`); each
action has a lemma of its own. `CapAssumption` says the queue has a place.

`NothingUnaccounted` proves `Accounted`, from `AInv` besides: a message is at one
position at most of the requests, of the queue and of what was received (`Singly`)
and in one of the five places at most (`Once`), the message of every call is
somewhere (`Somewhere`), and the log task logs its own start once (`Begun`). The
count in `Accounted` is then the size of a sequence without repetitions.

**Output: what is said stays said** (`OutputProofs`). `SocketOutlivesText` proves
`TextNeverCloses` for texts of any length, any codes and any capacities. `TxInv`
adds `Carried` to the property: what the Tx task holds is not empty, and an empty
message in the queue is the marker of a disconnect. For that, `ConvertString` of
any text must be a nonempty text when `ansi_mode` is on. The lemmas follow the
conversion:

* `TextEndOf`, `EolEndOf`, `SearchedOf` and `MatchOf` say what one match of the regular
  expression is, and from where the next one is searched;
* `FoundOf`, `PartsToOf` and `NextParts` give the parts, one code after the other:
  each makes one part or two;
* `RenderedAppend` gives what is painted, one part after the other; whether a part is
  painted depends only on the one before it;
* `SomePart`, `SomeSent` and `ConvertStringOf`: there is a part, and the first is
  painted.

`TypeCorrect` is from the same invariant; it says of every variable, and of every
message in a queue, what it may be. The state invariant of the other two
theorems is `Made`: what the Tx task holds is `ConvertString` of the text that it
recorded. TLC checked it on the instance of the run `output`.

**Output: a text arrives** (`OutputProofs`). `TextArrives` proves `TextKept`, for texts
of any length and any codes. Its three parts have different reasons:

* with ANSI and without, the same characters are sent: `SameChars`, by induction over
  the parts (`SeqUpward`), because painting adds no character (`DrawnOf`);
* no letter is sent more often than it is written: `SentAtMost`. The parts of the codes
  up to a position contain only letters from before the place where the search
  goes on (`NoMoreOf`). This holds for every text, well-marked or not;
* of a well-marked text every character is sent: `KeptText`, from what follows.

**Output: colours** (`OutputProofs`). `ColourArrives` proves `ColourAsMarked`. The claim
that goes through the conversion is `Follows(m, a, h)`: `h` has the characters of `m`
before position `a`, one by one, and each is shown in a rendition that `Fits` it (its
own colour, or none if it only repeats that of the stretch before; a line end may have
any).

* `RegionReached` is one part: a preamble, or the text of a code with the line ends
  after it. Painted, it has its own colour and leaves none behind (`PaintRun`);
  unpainted, the part before it has the same parameters (`RepeatsAt`), which
  is where the code relies on `same_params`.
* `Ahead` joins them: after the codes up to `k` the parts are shown as everything
  before some `l`, the place where the next part will begin. `AheadCode` is the step
  to the next code. It needs the text to be well-marked: only then does every
  match begin exactly where the last part ended (`StartsWhereAhead`, `MarkedFrom`,
  `NoneBeforeCode`, `FreshLine`), and nothing between two matches gets lost.
* `PlainReached` is a text without codes, `AllReached` the end of any text.

**LineInput.** `TypeCorrect`, `TypedLinesArrive` (`LinesAsTyped`), `OneChunkWouldDo`
(`ChunksDoNotMatter`) and `PanicNeedsCut` (`PanicsOnlyOnCut`), for inputs of any
length, in any chunks. The only assumptions are that bytes are numbers up to 255 and that
`Panicked` is not a sequence of bytes. The exceptions are those of the
properties, which section 3 explains. The inductive invariant `Understood` says
of an input without an escaped IAC, of which no chunk ended inside a command, that
the Rx task lives, that telnet is between commands, that lines and buffer are
what some number of rounds of the delivering loop makes of the whole text (`Comes`),
and that no whole line is left in the buffer if lines end in CR LF; and that a cut
needs an IAC. (TLC checked it with as many rounds as the text has bytes.) The
argument:

* `TypeCorrect` says that the delivered lines and the buffer are together what was
  sent without some of its bytes, in order (`InOrder`, a search for each byte behind
  the one before). `Part` says the same by the set of places kept (`PartFound`
  compares the two); taking bytes out (`PartWithout`), once more (`PartOfPart`) and
  from both halves (`PartBoth`) leaves a part, so a round of the loop does
  (`LoopKeeps`).
* `CommandsHeard`: on such a chunk the draining loop of `handle_telnet_commands`,
  which starts from the beginning in every round, does what the byte-wise
  `Telnet` does, and no drain reaches beyond the chunk; `TelnetBoth` joins chunks.
  It also says what becomes of a chunk that does end inside a command: a round
  never changes what a chunk is heard as (`DrainFollows`), so the loop ends in a
  panic if, and only if, the chunk ends after the second byte of an option
  command. `PanicsWhenOptionCut` states that of every step.
* `EndSame`, `ReadLineSame`: a line that is found in the buffer is found again,
  with the same end, when more is received. This holds for the code's odd search
  too, which is why chunks do not matter even where it is wrong. `ComesMore`
  is the same for any number of rounds, `LoopComes` and `AllComes` for the loop.
* `Settles`, `ComesOnce`: the loop has found everything after as many rounds as
  the text is long, so its result does not depend on when it paused.
* `BackspacesTyped`: rubbing out the first backspace again and again leaves what
  a typist sees; `OneLine`, `LineTyped` and `ComesTyped` add the line ends. Here
  the lines must end in CR LF, so that `read_line` splits at the right byte.

**Induction.** The library's induction theorems take an operator as a parameter, and
no backend can instantiate that. `Least` says instead that every set of naturals
that is not empty has a least element (finite sets are well-founded), and `Upward`
that a set with zero, and with the successor of each of its numbers up to n, has all of
them; a claim about all rounds of a loop is then a set. `SeqUpward` is the same for
the sequences over a set, from the empty one by `Append`. `GluedExists` and `FlattenOf` show that
the recursive functions they are about exist and what they yield, and the first
part of `LineInputProofs` the same of `Rounds` and `Over`.

Only model-checked is everything under fairness: liveness and `ENABLED` are out of
the prover's reach. Every invariant and action property of a passing run has a
theorem.

## 5. Not modelled, and the plan

In this order:

1. `Sessions`: an abstract server (a set of sessions, their output streams),
   implemented by `Server` on instances without address reuse after aborts.
2. `NodeScripts`: the pid-file protocol of the EOSIO scripts.

Left out for good: Settings (merging done by a library), the start scripts and images
(sequential commands), the wizlock fields, which nothing reads. Writes to a
socket that block, growth of the tables over an unbounded run, and codes with
digits that are not ASCII are hazards without a property; `PROJECT.json` says
why.
