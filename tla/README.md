# smolmux: models, checks and proofs

smolmux holds a device connection open (a serial port, a serial-tcp server, a
GDB child) and multiplexes it to many clients over Unix sockets, TCP, WebSockets
and MCP. This directory holds TLA+ models of its broker, of the links, the
sinks and the two MCP servers around it, the TLC runs that check them, and
TLAPS proofs of the main invariants of seven of them. `PROJECT.json` maps every
definition to the lines of the source it models.

## 1. Inventory

| Part | State | Operations | Interacts with |
|---|---|---|---|
| Event loop (`broker.c`, `sm_broker_run`) | the batch of epoll events, `stopped` | wait, checks at the top of a turn, one handler per event, flush, housekeeping, cleanup, destroy | everything: it is the only thread that changes the broker |
| Link life cycle (`broker.c`, `links/`) | `suspended`, `link_disconnected`, `link_connecting`, `pending_resume_ack`, the backoff | loss, reconnect, asynchronous connect and its deadline, suspend, resume | cancels the line machines, aborts or cancels expects, restarts the boot tracker, clears the windows, broadcasts |
| Pulse machine (`broker.c`) | `break_state`, pin, follow-up, completion callback, timerfd | schedule BREAK or reset, timer, cancel | the link's lines; answers clients and MCP calls |
| Autoboot flood (`broker.c`) | `flood_active`, the reset pin and its hold, deadline, timerfd | start, tick, feed, cancel | the same lines, concurrently with the pulse machine |
| Boot tracker (`boot_stage.c`) and stall watchdog | stages reached, the window of text, timerfd, `stall_notified` | feed, restart, timer | fed by link data; broadcasts |
| Roles and takeover (`broker.c`) | role of each client, `takeover_client` | takeover, release, `can_send` | every handler that writes or drives a line |
| Registration and hello (`broker.c`, `client.c`, `sinks/tcp.c`) | client array, `reg_pipe`, hello, name, role and token of a client | accept, register from another thread, hello, replace by name, time out, sweep, remove | every door by which a peer comes |
| WebSocket sink (`sinks/ws.c`) | its own thread, an array of peers with two buffers each, a socketpair per peer | poll, accept, frames to lines, lines to frames, remove, stop and join | the loop, through `reg_pipe` and the socketpairs |
| Expect engine (`expect.c`) | array of pending requests | add, feed, collect, abort, cancel by id, by client, all | link data, anomalies, suspend, leaving clients, MCP calls |
| MCP sink (`sinks/mcp*.c`) | open calls, unread output | tools, results of expects and pulses, output | expect engine, pulse machine, link, history |
| Autoresponder and anomaly detector | sliding windows, rules, cooldowns, incident store | feed, configure, reset | link data; abort of expects; writes; broadcasts |
| History (`ring_buffer.c`, `broker.c`) | ring of chunks, one request in progress | append with eviction, page by cursor, last bytes, encode over turns | link data, clients, agents |
| Client input (`client.c`) | read buffer | feed, event rounds, hang-up | every message handler |
| Client output (`client.c`, `util/shared_line.c`) | bounded queue, partial writes, shared lines | send, coalesce, drop, flush | every broadcast |
| Link write queue (`links/link_wq.c`) | bytes the kernel did not take | write, flush, clear | every write to the device; the loop's interest in EPOLLOUT |
| Serial-tcp link (`links/serial_tcp.c`) | telnet parser, negotiated control, cached address | connect, filter, escape, COM-port commands | the terminal server |
| UART link (`links/uart.c`) | settings, exclusive claim | open, set a parameter, write, close | the tty, which other programs use too |
| GDB link (`links/gdb.c`) | child process and pipes | spawn, first commands, line filter, close, reap | the child |
| MCP client (`mcp_client.c`, `mcp_broker_conn.c`) | connection, read buffer, wire ids | connect and hello, request and wait, soft failure, loop | the broker's socket; an agent on standard input |
| GDB MCP server (`gdb_mcp.c`) | MI tokens, the result awaited, what is believed of the target | MI command, wait for a stop, interrupt, reset | the broker's socket; gdb behind it |
| Other client programs (`watcher.c`, `monitor.c`, `cli.c`) | connection, cursor, terminal | reconnect, catch up, request and wait | the broker's socket |
| Logs, profiles, protocol, discovery | files, configuration | read, write, encode | data to the rest |

What is hard about this system: the loop takes a *batch* of events and handles
them one after the other, so a handler may act on readiness that another
handler of the same batch has made untrue; two timer machines drive the same
three lines while clients come and go and the link is lost, suspended and
reopened; results are delivered a bounded number at a time; the history is
read while it is evicted; bytes are cut by reads and writes wherever they like,
in escapes, prompts and frames alike; a second thread hands descriptors to the
loop; answers come after the question was given up; and the driver may refuse
any of it half-way. The `hazards` of `PROJECT.json` list these at the lines
where they bite.

What makes each part correct, in a sentence: the link's flags are true and
suspend means the wire is free; a line that was asserted is released and a
requester answered once; a stalled boot is reported once; every request gets
one final outcome and every call its own answer; no byte of history is lost
silently or repeated; every command is handled once; every line of output
reaches a client in order or is counted as dropped; bytes reach the wire and the
broker as they were meant; what a link claimed it hands back; a prompt is seen
wherever it is cut and never where it is not; every descriptor has one owner and
nobody is in without a hello; no server takes a late answer for a present one.

## 2. Modules

| Module | Models |
|---|---|
| `LineControl` | the pulse machine, the flood, the lines and their timers |
| `BootProgress` | the boot tracker and the stall timer |
| `LinkState` | the link's life cycle |
| `Broker` | the loop that composes the three, the clients' requests, shutdown, fairness, and the properties that span them |
| `ExpectTable` | the array operations of `expect.c`, as operators |
| `Expect` | the broker's use of them: who asks, what feeds, aborts, cancels and collects |
| `ExpectPromise` | the abstract specification: every accepted request gets one final outcome |
| `RingBuffer` | `ring_buffer.c`, as operators |
| `History` | readers, paging, the last bytes, encoding over turns, reconnects and restarts |
| `McpOutput` | `History` with the MCP sink beside it: the buffer of unread output |
| `ClientInput` | one client's byte stream, the read buffer and the rounds of an event |
| `ClientQueue` | the output queues of all clients, the lines they share, merging, drops, partial writes |
| `LossyFifo` | the abstract specification of an output queue |
| `LinkQueue` | the write queue that every link has |
| `SerialTcp`, `Uart`, `GdbLink` | the three links, each on `LinkQueue` |
| `Links` | one of them as the loop drives it, with its interest in writability |
| `Rules` | the autoresponder and the anomaly detector in the read path |
| `Registration` | how a connection becomes a client, on the loop's side |
| `WsSink` | the WebSocket thread, composed with `Registration` |
| `BrokerConn` | which line of a read answers a request: operators of the two servers |
| `McpServer` | `smolmux-mcp`: connections, tool calls and the wait for their answers |
| `GdbSession` | `smolmux-gdb-mcp`: MI commands, their results, stops and the target |
| `MC*` | the instances TLC runs, and what they assume of their bounds |
| `Broker_proofs`, `Expect_proofs`, `History_proofs`, `Client_proofs`, `Links_proofs`, `Rules_proofs`, `McpServer_proofs`, `GdbSession_proofs` | the proofs, one module per component; `Client_proofs` has those of `ClientInput`, `ClientQueue` and `WsSink` with `Registration` |

### How state and actions correspond to the code

`Broker`. `pc` walks one turn of `sm_broker_run`: *wait* (`epoll_wait`),
*reconnect* (`attempt_reconnect`), *deadline* (the connect deadline), *events*
(the loop over the batch), and at the end *stopping* (the loop is left and the
sinks are told to stop), *cleanup* and *destroyed*. `batch`
holds the tags of the events taken and not yet handled and `link_ev` the bits
of the link's event; `fd_ready` is what the descriptor would report *now*. The
two differ when a handler of the same batch closed and reopened the link, and
that difference is the point of the model. A client's event is a sequence of
messages: `OnActor` begins it, each `handle_...` action is one message handled
to completion, `ActorDone` or `Hangup` ends it. Timers are *off*, *armed* or
*expired* (readable); an event of a timer that was disarmed after the batch was
taken is still handled, as in the code, by the handler's own tests. A request
the code answers with an error and no other effect is not an action. The reads
of one drain of the link are one chunk, and a chunk is the set of boot markers
it completes and whether it completes the flood's stop pattern.

`LineControl`. `lines` is the level last commanded on each pin. A release may
be refused by the driver (`stuck`); an assertion that is refused changes
nothing and is not an action, except for the reset, which drives two lines
(`sm_broker_schedule_line_reset` has the half-way outcomes). A timer may fail to be
made or armed after the line was driven (`GiveUp`): the line is taken back, and the
driver may refuse that too. `ctx` counts the
completion contexts (`pin_break_ctx_t`, `mcp_break_ctx_t`, `mcp_reset_ctx_t`)
of each requester that are allocated and not yet freed; `in_reset` remembers
which pins a flood asserted and nobody has driven since.

`LinkState`. `said` is the last link state broadcast (`link_up` and `resumed`
are *up*, `link_down` is *down*). Times are abstracted to whether the clock has
passed them (`reconnect_due`, `connect_late`); the backoff keeps its seconds,
because its doubling and its cap matter. A link with `connect_begin` (`Async`)
may connect at once, later or never.

`Expect`. The link is up, down or suspended, and the sink's calls are slots of
`pending` with the kind of call each was allocated for. `asked` and `reply`
remember what an agent called and what it was told. `heard` is whether a request
has captured anything. A request carries a serial number that the code does not have, so
that outcomes can be told apart although ids clash; the operators of
`ExpectTable` never look at it except to say which patterns a chunk completes.
Handlers and collections are atomic as they are on the loop. `outcome` records
what each request has come to and is the variable of `ExpectPromise`.

`History`. Bytes are their sequence numbers. `received`, `count` and `lost` are
what a reader has been given and told by the present broker. The time stamps
matter only in that equal ones allow a merge. The circular arrays of the code
(the chunk array, the pool of chunk buffers) are sequences. A request for the
last bytes (`handle_tail_request`) takes the same slot as a page; an agent of
the sink reads a page at once and without the NULs. `McpOutput` adds the sink's
own buffer: `output_buf` holds sequence numbers too, a failed growth is a choice,
and the lines the broker itself puts into the ring (`history_fence`) do not pass
through it. A client and an agent share nothing but the ring, which reading does
not change; a behaviour therefore has one `audience` or the other.

`ClientInput`. Only which bytes are line ends matters. A line of text is a
decodable message; reads take all the kernel has, up to the room in the buffer.

`ClientQueue`. A line is the sequence of the messages merged in it; a message is
one byte and the newline one more, so that a line may be partly sent. `wq` is the
circular array with its `head`, `count` and `drops`; the slot's `shared` field is
kept apart from its data because `sm_client_send` does not write it. `refs` has an
entry for every line that a broadcast or a merge ever made. One `sm_client_flush`
step is one `write`; a flush is a run of them, which ends when the kernel takes no
more. `wire` is what the kernel took, and the refinement mapping reads the
messages that have arrived from its complete lines. A merge that cannot be built
(allocation, decoding) falls through to the queue, as in the code. Clients before
their hello, which receive replies only, are not distinguished.

`LinkQueue`, `SerialTcp`, `Uart`, `GdbLink`, `Links`. The entries of the write
queue are one sequence of bytes. Bytes are named for what telnet makes of them,
so that a typed `DO` and a command `DO` are the same byte; `ServerView` and
`RxFaithful` read a stream as the far end does, independently of the code's
parser. A write says how many bytes the kernel takes and whether it then fails.
The tty of `Uart` is one that another program also holds open, because otherwise
nothing would outlive a close; an open of it is refused outright, or fails after the
port was claimed, or succeeds, with or without the claim. A child of `GdbLink` may die at any moment or
ignore every polite request. `Links` adds what the loop does: which operations
arm `EPOLLOUT` (`watched`), and which do not. `kind` is fixed in a behaviour: a
broker has one link. `taken`, `spoilt`, `meant`, `delivered`, `offered`,
`unapplied` and `strayed` are history variables; the exceptions that `spoilt`,
`unapplied` and `strayed` make in the properties are listed with the refuted
statements below.

`Rules`. A window holds positions of the device's stream, so that a match is
known by the text it is of; every rule and signature matches the two bytes
`pq`. A lost link is a mark in the stream. Cooldowns pass at any moment. The sink
or client that adds, replaces or clears rules is one action.

`Registration`, `WsSink`. A peer makes one connection, by one of its doors. The
events of a batch carry the address of the client they are about, as
`events[].data.ptr` does, and an address is reused once it is free. `fd` says
where the broker's end of a connection is (in the pipe, held, closed) and
`closings` how often it was closed. `pc` walks the thread's loop: poll, then for
each slot its frames, its bridge and its lines; `idx` and `slots` are the code's
loop variable and its bound, `polled` the answers of the `poll` that may be stale
once a slot has been refilled. Both threads interleave at every system call that
the other can see. What a peer sends is a sequence of frames of a few units, cut
by reads; a line of the broker is two units.

`BrokerConn`, `McpServer`, `GdbSession`. A tool is the set of scripts its
arguments can give, a script a sequence of requests with what the failure of each
means to the tool. A line of the socket carries its type, its id and (a number
the code does not have) the request it was made for. `McpServer` keeps `read_buf`,
with the beginning of a line that was cut by a loss, and the numbering of wire ids
across connections. `GdbSession` has gdb and its target as environment: they
answer late or never, and refuse what needs a halted target while it runs;
`target` is what the target does, `g` what the server believes; `g.overridden` is a
history of a stop that was read and then dropped by `gdb_reset`.

## 3. Runs

All runs pass.

| Run | Instance | Checks |
|---|---|---|
| `lines` | one client; BREAK and RTS pulses, a flood that may hold RTS | `CompletedOnce`, `BreakHeldByMachine`, `ResetReleased` |
| `link` | a client and the MCP sink, asynchronous link, backoff 2, 4, 5, BREAK pulses and SysRq | `SuspendOwnsWire`, `LinkFlagsTrue`, `TakeoverIsLive`, `LinkComesBack`, `PulseEnds`, `StopIsHonoured` |
| `boot` | a client, three boot stages, two chunks, a flood | `ClientsKnowLink`, `StallPushedOnce`, `StallReported`, `FloodEnds` |
| `expect` | two clients sharing one id, the MCP sink with two slots, table of three, two results a round, three requests | `TableHoldsWaiting`, `AnswerFits`, `Delivers` |
| `history` | a client or an agent, a ring of five bytes, pages of two, one byte a turn, chunks of one, two and four bytes, a sink buffer of four that may grow to six, one restart | `NewestKept`, `Lossless`, `UnreadIsNewest`, `CatchesUp` |
| `input` | streams of eight bytes, a buffer of seven, two messages a round, two rounds | `CommandsExact`, `BurstHandled` |
| `output` | two clients that come and go, queues of two lines, lines merged up to two messages, four messages | `RefsExact`, `DeliversInOrder`, `NoneLeftQueued` |
| `wire` | a serial-tcp, a UART or a GDB link, opened twice, two writes or parameters each, reads of up to three bytes, two units of the server | `BytesFaithful`, `SettingsTrue`, `HandedBack`, `Drains` |
| `rules` | two rules, three signatures, streams of five bytes in chunks of up to three, a search of three bytes, three changes of the rules | `MatchesExact`, `EveryIncidentAnnounced` |
| `register` | two peers by WebSocket, TCP or Unix socket, two client slots, a pipe of one record, two frames | `OneOwner`, `DoorKept`, `PeersServed` |
| `mcp` | two tool calls, three connections, two lines in the socket, no anomaly to arm | `AnswerIsOwn`, `OnlineIsWelcomed`, `CallAnswered` |
| `gdb` | two tool calls, one refusal, one late answer, three lines in the socket | `AnswerIsOwn`, `RunningIsTrue`, `CallAnswered` |

What they show. `Delivers` is `CollectComplete`, that a collection skips nothing,
and `KeepsPromise`, that the engine implements `ExpectPromise`; `DeliversInOrder`
is the refinement of `LossyFifo`. `LinkComesBack` is that no attempt hangs, none is
the last and none follows another without pause. `StopIsHonoured` is that a stopped
broker leaves its loop with every pulse answered, and that after its sinks have stopped
it is destroyed; that the sinks stop is not promised, because the code does not keep it
(`JoinEnds` below). `CallAnswered` of `mcp` is about brokers that let connects and
writes return, whether they answer or not. `CommandsExact`, `MatchesExact`,
`DoorKept`, `PeersServed` and `BytesFaithful` are conjunctions of parts that pull
against each other; each part is a definition of its own, with its own comment.
The type invariants (`TypeOK` of each module) hold in all of these instances and
take no run of their own; in the modules with proofs they are proved (of a
serial-tcp link only the part that has no telnet).

Why these bounds. The line machines are single (one pulse, one flood), so one client
that may ask for anything at any time already produces every overlap; sharing RTS
between a reset pulse and a flood is the case where they touch. The link has one
descriptor; the client and the sink are there for the takeover and for two
requesters in one batch. The backoff of 2, 4, 5 doubles once and is cut once. Three
boot stages are a start, an advance that is not the end, and the end; the theorem
about the stall event holds for any number. The table of three with collections of
two leaves a request over; one id for both clients makes them clash; three requests
over two slots reuse a slot for a call of another kind. Eight bytes over a ring of
five with chunks of one, two and four make every combination of merge, whole
eviction and trim; the page is smaller than the ring and the turn than the page, and
a page may be cut in the chunk it was entered in the middle of. Eight bytes with
rounds of two messages and a buffer of seven fill rounds, leave messages in the
buffer, cut lines at reads and fill the buffer with one line. On the wire, a typed
`IAC DO` is an escape and a byte that telnet could take for a command; three bytes a
read cut every telnet command at every place, and two opens are needed for what must
not survive a reconnect. A stream of five bytes holds two prompts with a line end or
a lost link between them, and its windows trim; two crashes with three signatures
overflow the store of four incidents, and a rule that is added, removed and added
again meets a window with a hole in it. Two peers fill the pipe and the
client array, have the array shift under the thread and want the same name; reads
cut the frames. In `mcp` and `gdb` one request given up leaves its answer in the
socket for the next, and three connections are a first, one that is lost and one
that is spoilt by what was left of it. Two queues of two with four messages wrap,
overflow, share a line, merge it in one queue while the other still holds it, and
refuse to merge a line that is long or partly sent. The assumptions of the `MC`
modules state the relations between the bounds that make this so. `input` and
`output` allow the system to stop: a client that has been removed does nothing, and
with every message sent and every queue empty nothing is left to do; `wire`,
`rules`, `register`, `mcp` and `gdb` allow it because their bounds on opens, bytes,
frames and calls are used up in the end.

Fairness. Of the loop: it turns (`epoll_wait` has a timeout of 100 ms, and every
handler returns), a client's event ends (at most 64 rounds of 16 messages), and once
stopped the loop is left. Not of the step from there to the cleanup (`RunCleanup`): it
waits for the sinks' `stop`, and `ws_stop` joins a thread. Of
time: armed timers expire, the hold and the deadline of a flood, the connect
deadline, the backoff and the deadlines of requests pass. In `History`, a reader
that is connected asks again. In `ClientQueue`, a connected client reads, and every
turn of the loop flushes every queue. In `Links`, a flush of a watched descriptor
that can take bytes happens: the kernel reports it writable as long as the other end
reads. In `McpServer` and `GdbSession`, the server runs and its waits end, because
each has a deadline; of the broker and of gdb nothing is assumed. `connect` and `write`
of `McpServer` have no deadline (`sock_util.c:687`, `744`), and against a broker that
hangs with its backlog of 8 full they never return: they are not fair
(`try_connect_broker`, `broker_send`), and `CallAnswered` has as its hypothesis that
the server does not stay in either. `GdbSession` models a connection that is made; the
same blocking write, when the socket's buffer is full, is left out there. Nothing else is
assumed of clients, devices, networks or drivers. `CatchesUp` speaks of the last
reader to stay: while several page, one may be refused for as long as the others
keep the only request slot busy.

### What the code does not keep

These statements are in the modules, each with its comment, and TLC refutes each
of them when it is added to the configuration named here. None is among the runs;
they are a record of where the code and what it says of itself part.

Broker (module `MCBroker`):

- `ResetReleasedAtExit` (`lines.cfg`): the cleanup of `sm_broker_run`
  (`broker.c:2859`) clears `flood_active` before `sm_broker_destroy` calls
  `flood_cancel`, so a board that a flood holds in reset stays there;
  `broker.c:2900` says "Cancel pending break/flood before the link goes away".
- `StallIsReal` (`boot.cfg`): an expiry of the stall timer taken in the same batch
  as the bytes that advance the boot pushes `boot_stall` right after the advance
  (`broker.c:626`); `broker.c:595` says "if the timeout elapses with no further
  advance the boot is, by construction, stalled".
- `ClientsKnowLink` (`link.cfg`, an asynchronous link): suspend, resume
  (connecting), suspend, resume (at once), loss, a reconnect that times out:
  `pending_resume_ack` is still set, so the broker suspends itself without a word
  (`broker.c:2533`).
- `PulseHoldsItsTime` (`lines.cfg`): an expiry of the break timer of a pulse that
  was cancelled, handled after a new pulse began in the same batch, ends the new
  one at once (`handle_break_timer` does not look at what it reads).
- `LinkDownIsReal` (`link.cfg`): a hang-up of a descriptor that was suspended and
  reopened within the batch is taken for a hang-up of the new one.

Expects, history and input:

- `OpenCallsWait` (`expect.cfg`): suspend frees the expects of the MCP sink
  (`broker.c:667`); its open calls are never answered and their slots never freed.
  `mcp_tools.c:127` says "Response will be sent when expect resolves". The same
  happens to the sink's other calls when `serial_send_command` or `serial_monitor`
  finds no free slot and cancels by the sink's name (`mcp_tools.c:122`, `635`).
- `AbortedNeverMatches` (`expect.cfg`): a request that was aborted and left over by
  a full collection may still be matched by the next chunk; `expect.h` says
  "(matched stays 0)".
- `ListenerUndisturbed` (`expect.cfg` with an observer): a `send_expect` whose write
  fails cancels every request with its id, also those of other clients.
- `LosslessAcrossRestart` (`history.cfg`): a reader that comes back to a restarted
  broker with a cursor inside the new numbering is not told of the bytes it misses.
- `FarewellHandled` (`input.cfg`): commands a client sent before it closed are
  dropped when one round does not take them all; the comment in
  `process_client_event` says that input is drained before a hang-up.
- `EveryCommandHandled` (`input.cfg` with `MaxStream = 10`): commands left in the read buffer after 64
  full rounds wait until the client writes again.

Links (`wire.cfg`):

- `NothingStaysQueued`: `set_param` and a BREAK of a serial-tcp link may queue
  bytes, and nobody then calls `broker_update_link_epoll` (`broker.c:222`, `262`,
  `310`, `1316`, ...): they wait for the next write.
- `EveryChildReaped`: `gdb_spawn` overwrites the pid of a child that was killed and
  could not be reaped yet, which leaves a zombie; the comment in `gdb_close` says
  "leave pid for gdb_reap on the next open/close/destroy".
- `OptionHonoured`: `main` applies `--gdb-allow-shell` before the link is open, when
  `gdb_set_param` refuses every parameter; the option has no effect, although
  `main.c:145` and the repository's `README.md:169` offer it.
- Exceptions in the properties that hold: a telnet reply is sent past a queued tail
  and may split an escape (`serial_tcp.c:269`; `spoilt` in `WireFaithful`); an
  open that fails after `TIOCEXCL` keeps the claim (`strayed` in `PortHandedBack`);
  `uart_set_param` stores a frame before the tty has accepted it (`unapplied` in
  `SettingsTrue`).

Rules (`rules.cfg`):

- `FiresOncePerText`: a prompt that stays on an unfinished line is answered again
  after the cooldown as soon as any byte arrives; the comment at
  `autoresponder.c:157` says it 'cannot rematch after cooldown when a new byte
  arrives'. The detector's overlap does the same with a crash signature.
- Exceptions in the properties that hold: the detector searches 4096 bytes from 256
  before the chunk (`anomaly.c:299`), and a chunk may have 4096. The end of a full
  chunk is then searched only with the next one, and a signature across its byte 3840
  not at all: `NoPanicMissed` speaks of chunks that fit with the overlap.
- Output that comes while there is no rule is not in the window (`skipped`). A rule
  added later may match text put together across that hole (`MatchIsReal`), misses a
  prompt that began in it (`NoPromptMissed`), and takes the line before a line end that
  came in it for unfinished (`NoStaleAnswer`): with the window at `login:`, the rule
  removed, a line end skipped and the rule added again, the old prompt is answered at
  the next byte (`autoresponder.c:152`).

Registration (`register.cfg`):

- `NothingLeaks`: a record in `reg_pipe` when the broker stops is never read, and
  its descriptor stays open (`broker.c:2866`).
- `JoinEnds`: the broker joins the thread while the thread waits for the broker to
  read the bridge (`write_all`, `ws.c:306`). For this reason the broker's
  `StopIsHonoured` ends where the sinks are told to stop.
- `OneOwner` with `AllocFailures` containing `"buffers"`: `sm_client_new` closes the
  descriptor and its caller closes it again (`broker.c:1995`).
- `RelayFaithful` with `LineCap = 1`: a line that fills the thread's buffer is
  dropped in part, and its rest sent as a line of its own (`ws.c:515`).
- `EventIsOwn` with three peers: a hang-up taken in a batch for a client that was
  freed is applied to a new client at the same address (`is_client_live`).

Servers:

- `OutlivesBroker` (`mcp.cfg`): an end of the stream that a read in the main loop or
  in a wait meets clears `conn.running`, which is also the condition of the main loop:
  the server ends with its broker, although `mcp_client.c` says "broker disconnected
  (will soft-fail tools)".
- `HelloDecides` (`mcp.cfg` with `MaxCalls = 3`): of two late answers read at once one
  stays in the read buffer; after a loss the next hello takes it for its reply and goes
  offline, and its welcome is left over in turn: a later connection that the broker
  refuses is believed to be online. Neither `try_connect_broker` (`mcp_client.c:1519`)
  nor `set_offline` clears the buffer; the comment behind the hello says "The handshake
  reply decides whether we are actually usable". `OnlineIsWelcomed` excepts this
  (`stale`).
- `gdb_reset` with mode `run` says that the target runs although the stop that followed
  its `-exec-continue` has already been read (`gdb_mcp.c:815`). `RunningIsTrue` excepts
  this (`overridden`), until a `*running` or `*stopped` or the next reset sets it
  right; without the exception TLC refutes it.
- `CallAnswered` of `McpServer` without its hypothesis is refuted by a broker that hangs:
  the server stays in `connect` or `write`.

## 4. Proofs

The theorems hold for every value of the constants that satisfies the named
assumptions of the modules; what those assumptions say is what the code's limits
satisfy (sizes are positive, a first size is at most the largest, and the like).
Liveness, `ENABLED` and fairness are outside the prover. A loop of the code is a
recursive function in the model; what it computes is proved here from the
function's defining equation, by way of the least number of rounds at which the
claim would fail.

| Module | Theorem | States |
|---|---|---|
| `Broker_proofs` | `InductiveInvariant` | `Spec => []IInv` |
| | `TypeCorrect` | `Spec => []TypeOK` |
| | `SuspendSafety` | a suspended broker holds no descriptor |
| | `FlagSafety` | the flags are true of the descriptor |
| | `BackoffSafety` | a waiting link has a real backoff |
| | `CompletionSafety` | a requester is answered exactly once |
| | `BreakSafety` | BREAK is asserted only under a running pulse, which has its timer |
| | `FloodSafety` | a board is in reset only under a flood that will release it |
| | `TakeoverSafety` | the takeover pointer never dangles |
| | `StallSafety` | on a synchronous link, one `boot_stall` per advance |
| | `ToldSafety` | on a synchronous link, what clients were told last is true (`ClientsKnowLink`) |
| `Expect_proofs` | `InductiveInvariant` | `Spec => []IInv` |
| | `TableSafety` | the table holds every waiting request once (`TableHoldsWaiting`) |
| | `AnswerSafety` | a call of the sink is told what became of its own request (`AnswerFits`) |
| | `CollectsAll` | a collection with room left has delivered all that was ready (`CollectComplete`) |
| | `KeepsSafePromise` | the engine implements the safety part of `ExpectPromise` |
| `History_proofs` | `InductiveInvariant` | `SinkSpec => []IInv` |
| | `KeepsNewest` | the ring holds the newest bytes and the last-bytes query returns them (`NewestKept`) |
| | `PagesLossless` | a reader has every byte once or was told that it is lost (`Lossless`) |
| | `UnreadSafety` | `serial_read` has the newest unread output in order, all of it while memory was not refused (`UnreadIsNewest`) |
| `Client_proofs` | `InductiveInvariant` | `Spec => []IInv` |
| | `InputSafety` | commands are handled once, in order and whole (`CommandsExact`) |
| | `QueueInvariant` | `QueueSpec => []QInv` |
| | `RefsSafety` | a shared line is counted once for every entry that points to it (`RefsExact`) |
| | `OrderSafety` | the queues implement `LossyFifo`: what a client is sent arrives whole, once and in order, or is counted as dropped by a full queue (`DeliversInOrder`) |
| | `RegistrationInvariant` | `WsSpec => []WsInv` |
| | `OwnershipSafety` | unless a client's buffers cannot be allocated, every connection has one owner until it is closed, and it is closed once (`OneOwner`) |
| | `DoorSafety` | nobody gets past the hello unasked, names are unique, and when both threads rest nobody is forgotten (`DoorKept`) |
| `Links_proofs` | `InductiveInvariant` | `Spec => []IInv` |
| | `LetsGo` | a closed link has handed back port and child, except the claim of an open that failed after `TIOCEXCL` (`HandedBack`) |
| | `SettingsKept` | the tty of an open link has the settings the link keeps, except a frame that the tty refused after it was stored (`SettingsTrue`) |
| | `PlainWireOrdered` | a link without telnet writes its bytes in order, none twice (`PlainWireFaithful`) |
| `Rules_proofs` | `RulesInvariant` | `Spec => [](RInv /\ MatchesExact)` |
| | `RulesTypes` | windows, rules and incidents stay within their buffers (`TypeOK`) |
| | `MatchesSafety` | what fires is real and current, and what should fire does (`MatchesExact`) |
| | `AnnouncedSafety` | clients are told of every incident that is recorded (`EveryIncidentAnnounced`) |
| `McpServer_proofs` | `InductiveInvariant` | `Spec => []IInv` |
| | `AnswersMatch` | no late answer is taken for a present one (`AnswerIsOwn`) |
| | `OnlineSafety` | online means welcomed on this connection (`OnlineIsWelcomed`) |
| `GdbSession_proofs` | `InductiveInvariant` | `Spec => []IInv` |
| | `AnswersMatch` | a command is answered by its own result (`AnswerIsOwn`) |
| | `StopsNotLost` | a target believed to run runs or its stop is still to be read, except where `gdb_reset` in mode `run` dropped a stop that was read (`RunningIsTrue`) |

### The arguments

`Broker`. The link and the lines share no variable, so each has its own
lemmas: `LinkStepSafe` says that every fragment of `LinkState` keeps the link's
part of the invariant, and `LineStepSafe` the same of `LineControl`. A step of
the broker is one fragment of each, so `InductiveInvariant` only has to show, per
action, which fragments it uses and that the loop's own part (`CurIsLive`,
`TakeoverIsLive`) is kept. None of the properties is inductive alone:

- `BackoffNeverZero` needs `BackoffKept`: a link that is connecting although it
  was not lost has either a pending resume (whose failure suspends) or a delay
  that was already set; without it a failed resume could leave the delay at its
  initial zero.
- `ResetReleased` needs `FloodPinKnown`: a flood that holds a reset names a pin.
- `TakeoverIsLive` needs `CurIsLive`: the client whose message is handled is
  connected.
- `CompletedOnce` and `BreakHeldByMachine` need each other and the pulse's timer.
- `StallPushedOnce` needs `StallInv`: one push since the last advance means that
  `stall_notified` is set or the link is unusable. It is stated for synchronous
  links: while a resume is connecting the code neither restarts the tracker nor
  marks the link unusable, and a stale expiry may push a second time.
- `ClientsKnowLink` needs `KnowInv`: no connect is ever in progress, and then every
  step of the link tells the clients of its new state (`LinkStepTells`). It too is
  stated for synchronous links; of an asynchronous one it is false (section 3).

Assumptions: `ActorsAssumption`, `PinsAssumption`, `LastStageAssumption`,
`LinkAssumption`, `BrokerAssumption`.

`Expect`. `IInv` adds to the two properties that requests are numbered in order
(`Numbered`), that a slot of the sink has the kind of the call it was taken for and a
waiting call has a slot (`SlotsTrue`), and that nothing is answered before its time
(`NoReplyYet`).
The work is in the array: `sm_expect_collect` and the cancellations walk the table and
fill a hole with its last entry, so the entry now at the index has to be looked at
again. Lemmas about `Sweep` show, round by round, that what was passed is what stays,
that what is ahead is untouched, and that each entry removed had its outcome set in
the same step. Assumptions: `ExpectAssumption`, `ExpectTableAssumption`.

`History`. The central notion is `Covers(cs, a, b)`: the chunks `cs` are adjacent and
non-empty and hold the bytes from `a` up to, not including, `b`. Appending, merging,
evicting a chunk, trimming one, taking a tail of the sequence and cutting a chunk each
have a lemma in these terms. From them: `evict` leaves the last `MaxBytes` bytes, or
all if there are fewer; a page starts at the cursor or at the oldest byte, whichever is
newer, and ends at the end of the ring or at the limit of the page, in whichever chunk
that falls; a request that is encoded over several turns has put out exactly the bytes
between its start and the chunk it is at. `IInv` then says of the ring that it holds the
newest bytes, of the pending request that it was begun at its reader's cursor, and of
each reader that what it received and lost lies below its cursor. A request in progress
keeps its own copies of the chunks, so the ring may be evicted under it; that is why
`PendingOK` speaks of the request's chunks and not of the ring.
For the sink's own buffer `UnreadInv` says that it is a rising list of the newest
unread bytes (`Holds`), every one of them as long as the buffer was never refused room
and they fit its maximum, and that all bytes known lie below the ring's end. The rounds
of growth end at enough room or at the maximum; what eviction gives up are the oldest
bytes, and it always makes room because a chunk is no longer than the first buffer
(a read of the link is at most 4096 bytes, the buffer begins with 8192;
`McpOutputAssumption`). Assumptions: `RingAssumption`, `HistoryAssumption`, `McpOutputAssumption`.

`ClientInput`. `CommandsExact` relates the commands handled to the part of the stream
that was taken and used. It needs that a full buffer holds no line end, so that every
extraction makes room (`FullIsOneLine`), that a message stays in the buffer only behind
a full round (`AllOrMany`), and that a client that was removed is not read again
(`GoneIsIdle`). Assumption: `InputAssumption`.

`ClientQueue`. `RefsExact` counts, for each line, the used slots of all queues that
point to it, and is inductive only with what makes such a count change by one: a free
slot points to no line, so that filling or clearing one slot is the only change
(`Clean`), and an entry points to its own line or to none, so that a line that no one
has sent yet is counted nowhere. While a broadcast goes from client to client the
broker holds the line too, so its count is one more than the slots that point to it;
the release at the end of `broadcast` takes that one away. The lemmas follow a queue
through appending, merging (which gives up the shared line for a private copy),
dropping, a partial write and `sm_client_destroy`, which releases entry by entry; the
broadcast and the destruction are recursive functions, proved from their defining
equations.

`OrderSafety` is a refinement, of both halves of what a client gets: `fifo` is the
messages of the lines in its queue, one line behind the other, and `got` those of its
stream up to the last newline. The mapping is recursive over the lines and over the
bytes, and what is needed of it is proved from the defining equations: a line behind the
others, a message behind the last line's, the first line taken away, bytes added behind
the ones that were read. Two invariants make the steps of the code steps of the
specification (`OutInv`). No line in a queue is empty and none but the oldest has been
sent in part (`Tidy`): a merge, which only looks at `offset == 0`, never changes a line
of which the client has seen the beginning, and a full queue is at least `WqCap`
messages behind. And what was sent behind the last newline is the beginning of the
oldest line, as long as its `offset` says (`Begins`): the write that takes the line's
last byte ends one line and begins none, so that `got` grows by just the messages that
leave `fifo`. A partial write changes neither. Assumption: `QueueAssumption`.

`WsSink`. `WsInv` has a part for each place a connection can be. Of the broker's table
(`Sound`): the array lists each client in the heap once, a descriptor is held exactly
by one client of the array, and it is closed once and never again (`Held`, `Sums`); who
is past the hello said an acceptable one, who came by TCP or WebSocket is marked to be
asked for the token (`Greeted`), and no two clients past it share a name (`Named`). Of
the pipe (`PipeInv`): its records are those of the descriptors in it, each once, and all
are marked. Of the thread (`BridgeInv`, `SlotInv`): it has one end of every bridge whose
other end the broker has, until it closes it, and the slot it serves exists.
`OneOwner` needs all of these: a registration may only be taken from a connection
that no client has yet, and the pipe is what says so across the two threads.
Removal is where it is delicate. The sweep for namesakes walks the array from its end and
fills a hole with the last entry; `SweptIs` follows it place by place and shows
that exactly the clients that were not named stay. `handle_hello` gives the client its
name before the namesakes go, so the table is for a moment sound but for names (`Fit`):
`RemovedSound` needs unique names only of those that stay. The remaining steps of the broker
only close descriptors that it holds (`Fades`), and one lemma (`FadingStep`) serves
them all. `NobodyForgotten` then follows from what `Quiet` means: no event is left,
so nobody is late, dropped, hung up or in the pipe. `DoorSafety` has no exception;
`OwnershipSafety` excepts `"buffers"`, where the code closes twice (section 3). The number of
peers, the sizes of the table, the pipe and the thread's array and what peers may say
are arbitrary. Assumption: `RegistrationAssumption`.

`Rules`. `RInv` says of each window which positions of the stream it holds. The
detector's are the newest (`Recent`): all of the link's output up to its end. The
autoresponder's are in order and, from the first one on, lack only positions that no
rule was there to see (`Kept`). An empty window stands behind a lost link or a skipped
byte (`Fresh`), and both offsets are the lengths of the windows. None of the parts of
`MatchesExact` follows from the search alone: that two cells of a match adjoin is
`Kept` of two neighbouring cells, that a prompt cut by a read is found is `Fresh` or
that the last old cell is the newest position, and that an answer is current is that a
line end not skipped is a cell and the search starts behind the last of those.
A trim keeps `Recent` and leaves at least the overlap; making room keeps at least one
older cell, because the largest chunk is shorter than the window (4096 of 8192). For
`EveryIncidentAnnounced` the store is followed through the incidents of one chunk: its
last ones are those recorded so far, also when it drops a quarter in between, because
the signatures number no more than what is left (64 of 768). Assumption:
`RulesAssumption`.

`Links`. `IInv` adds that the state of the two kinds of link a behaviour does not have
stays as it began (`OwnKindOnly`) and that a closed link has nothing queued
(`ClosedIsDrained`). `PlainWireFaithful`: what was taken, followed by what is queued, is
what was written since the open. Assumption: `LinksAssumption`.

`McpServer`. A late answer is harmless only because wire ids are never used twice and a
wait knows its id: `AwaitedById` says that a request that is awaited has one and that what
was handed over carries it, `ListenFirst` that a tool that sends its listen early and
waits for it late still has the id when it comes to wait. `OnlineIsWelcomed` needs to know
of every welcome in sight, in the socket, in the buffer or just read, that the broker sent
it on this connection (`WelcomeIsOwn`); both except a hello that met a reply left over
from an earlier connection (`stale`; see `HelloDecides` in section 3). Assumption:
`McpBounds`.

`GdbSession`. The token in flight is the last one given out (`TokensTrue`), so a result
with an older token is never taken. For the target's state the invariant speaks of the
lines that are still to be read: every `*running` among them is true or has a `*stopped`
behind it (`StopsBehind`), and so has what is believed at present (`Believed`). The
delicate tool is `gdb_reset` in mode `run`, which says that the target runs because its
`-exec-continue` was answered. The resume is the last command of its script
(`ContinuesLast`), its token is newer than every result on the way before it was sent
(`TokensOld`), and a result of it that is no error means that the target runs or that
its stop was read or is on the way (`RunAnswered`); so what the tool leaves behind is
true or is the case that `overridden` records. Assumption: `GdbBounds`.

### Only model-checked

All liveness: the `LinkComesBack`, `PulseEnds`, `StopIsHonoured`, `StallReported`,
`FloodEnds`, `CatchesUp`, `BurstHandled`, `NoneLeftQueued`, `Drains` and
`CallAnswered` of the runs, and the liveness half of `KeepsPromise`. `ClientsKnowLink` of
asynchronous links where a run has it. The telnet half of `BytesFaithful`: `ServerView`
and `RxFaithful` are readers of whole streams, and their agreement with the code's
parser is an induction over the stream. So it is with `PeersServed`: what the thread
relays is compared with what a peer's whole stream of frames says.

## 5. Not modelled, and the plan

Not modelled: the MI parser, the wire protocol with JSON and base64, the regular
expressions (data, or pure parsing with no state that another part reads); the logs,
the profiles and manifests, discovery and token files (file-system state); the
watcher, the monitor and the command line tools (single-threaded programs whose
protocol with the broker is that of the clients in `Broker`, `Expect` and `History`).
`PROJECT.json` gives the reason for each. Within the modelled parts: the bytes of an
expect's capture, history queries by time, the idle-health flag, the follow-up bytes of
SysRq, the keys of a flood, the modem lines of a serial-tcp link, the HTTP request of a
WebSocket, the profile that `gdb_mcp.c:1443` writes and the contents of MCP results
are data.

Outcomes that the modelled parts leave out:

- Memory. A ring that cannot allocate drops bytes silently (`ring_buffer.c:136`, `149`),
  and a page that cannot be copied is empty with the cursor at the end
  (`ring_buffer.c:171`, `broker.c:1505`): `Lossless` is about a broker that has memory.
  The windows and incidents of the detector that cannot grow (`anomaly.c:231`, `323`)
  likewise.
- `epoll_wait` failing with anything but EINTR, which ends the loop (`broker.c:2697`).
- A write accepted while a resume's asynchronous connect is in progress
  (`broker.c:781`); `Drains` is about writes to an open link.
- The failed write of an automatic response (`broker.c:2205`): in `Rules` *answered*
  means fired.
- The removal of a client on a failed write in its own event (`broker.c:2645`, `2676`);
  in `Registration` a client leaves by its hang-up, which follows.
- A write of the WebSocket thread to a peer that has left but whose socket still takes
  bytes (`ws.c:544`): in `WsSink` the peer is dropped then.
- `gdb_close` of a link that is closed already, which kills and reaps a child left over
  (`gdb.c:276`).
- Results of other clients' MI commands with an equal token (`gdb_mcp.c:173`), and the
  wrap of the token (`gdb_mcp.c:280`): `AnswerIsOwn` of `GdbSession` is about a session
  that has gdb for itself.

Work that remains:

1. Theorems: `DroppedForCause`, the half of `PeersServed` that does not read streams.
2. `Watcher`: reconnection and catch-up through the history cursor, composed with
   `History`; `with-port` of the command line: suspend, run a tool, resume.
3. The monitor's escape keys and CR/LF translation.
