# A verification of ponter remote

Ponter remote lets a browser open terminals and a desktop stream on a host that runs an agent.  A small server
authenticates both sides and relays WebRTC signalling between them; terminal and desktop data then flow over a
peer-to-peer connection.  This directory holds TLA+ models of the parts whose behaviour depends on interleaving,
failure and ordering, the TLC configurations that check them on small instances, and TLAPS proofs of the
properties that matter most for every value of the constants.

Paths below are relative to the repository's root (the `src/` of `PROJECT.json`'s references).

## The system

| Component | State it keeps | Operations | Talks to |
|---|---|---|---|
| Agent terminal multiplexer (`apps/agent/src/main.rs` `PtyManager`, dispatcher, session teardown; `pty.rs`) | map terminal id -> live PTY, child processes, input channels, pump tasks, the dispatcher's queue | create, data, resize, close, close_all, end of output | browser over the `terminal` data channel |
| Agent session supervision (`main.rs` `run_with_reconnect`, `supervise_sessions`, `run_one_session`; `signal.rs`; `rtc.rs`) | one signalling socket, bounded inbound/outbound/ICE channels, at most one session, ICE candidates seen before the remote description | reconnect with backoff, route an inbound signal, accept or refuse an offer, hourly cap | server over the agent socket, `PtyManager`, desktop session |
| Agent desktop session (`desktop.rs`, `input.rs`, `main.rs` 1120-1535) | capture and encoder tasks, quality controls, pressed keys and buttons | start, frame, control message, input event, teardown | browser over media track and control channel |
| Signalling relay (`apps/server/src/routes/ws.ts`, `signal.ts`, `utils/signals.ts`, `cleanup.ts`) | signal rows with a five-minute life, session status, agent sockets, browser sockets with their subscriptions (state, ids already replayed, buffered pushes) | record and push a signal, subscribe and replay by pages, poll, agent connect/supersede/close, cleanup | agent socket, browser socket, REST |
| Sessions, agents, devices, authentication (`routes/sessions.ts`, `agents.ts`, `devices.ts`, `auth.ts`, `utils/ws-ticket.ts`, `jwt.ts`) | rows of one synchronous SQLite connection; one-time tickets in memory; revoked token ids | create/terminate a session, register an agent, login/refresh/logout, mint and consume a ticket | browser over REST |
| Browser signal transports (`packages/webrtc-core/src/transport.ts`) | pending signals, replay cursor, retry count, awaiting-ack flag, the fallback once it took over | subscribe, send, reconnect, hand off to polling | relay |
| Peer connection (`packages/webrtc-core/src/connection.ts`, `data-channel.ts`) | offer/answer applied, buffered candidates (cap 64), refusal | start, handle a signal, close with a bounded wait | transport, WebRTC |
| Terminal client (`packages/terminal-core`) | sessions by id with their state, a bounded output buffer, resize timers | create, write, resize, close, handle data/exit/error | multiplexer over the data channel |
| Desktop client (`packages/desktop-core`) | latest frame, control state, debounce timers | controls, input, lifecycle | agent desktop session |
| Terminal store (`apps/web/src/stores/terminal.ts`) | tabs, connections and pending connections by agent | open/close/retry tab, error fan-out | sessions API, transports, clients |
| HTTP client and auth store (`packages/api-client`, `stores/auth.ts`) | access and refresh token, one refresh in flight | request with one retry after 401, logout | server |

Hard behaviours, component by component:

- **Multiplexer.**  Five kinds of activity share the map, and its lock is held for single operations only: a shell runs
  before it is in the map, leaves the map before it is reaped, and is looked up by an id that may have been reused.
  Waiting for a child is a blocking call made from an asynchronous task.
- **Supervision.**  Messages are dropped when a bounded channel is full; a message taken off the outbound channel is lost
  when the socket fails; a queued offer may be stale when the session before it ends.
- **Relay and transport.**  A browser that reconnects must get each signal once, in order, across pages, buffered pushes
  and live pushes; rows expire under a cursor; a push to an agent without a socket is lost.
- **Desktop.**  Four tasks and a capture thread per source share two bounded channels; bitrate, fall-back and swap each
  change encoder and profile in their own order; a source is built under a timeout while the old one streams; threads
  are joined from asynchronous code.
- **Stores and HTTP client.**  State read before an `await` and used after it; several tabs share one connection; several
  requests share one refresh.

What makes each correct: a served session never has more shells on terminals than its cap, never shares or loses a child handle, never leaves a
terminal blank (multiplexer); one session per agent, no candidate of it lost, every offer decided, the slot given up by a dead peer (supervision);
one live source whatever becomes of a swap, an encoder that follows the profile and the viewer's choice, captures and keys
that do not outlive the session (desktop);
each signal at most once and in order, none skipped before it expires, the peer told when its session ends (relay and
transport); no connection torn down while a tab uses it, none leaked when no tab does (store); one refresh per expiry
and no token resurrected by a late answer (HTTP client); a ticket opens at most one socket (tickets).

## Modules

| Module | What it is |
|---|---|
| `AgentSupervisor` | the agent's reconnect loop and socket, its bounded channels, and the supervisor that serves one session at a time |
| `AgentSupervisorProofs` | TLAPS proofs about it |
| `DesktopFrames` | the arithmetic of the desktop session: scaling, cropping, bitrate clamps, pointer positions, the auto-ABR step |
| `DesktopStream` | one remote-desktop session: capture threads, stream, control dispatcher, auto-ABR, session loop |
| `DesktopFramesProofs` | lemmas about that arithmetic, for the two modules below |
| `DesktopSourceProofs` | TLAPS proofs about the capture threads and sources of `DesktopStream` |
| `DesktopStreamProofs` | TLAPS proofs about the rest of `DesktopStream` |
| `MCDesktopStream` | frame sizes, origin, profile and positions for its runs |
| `PtyManager` | the terminal multiplexer of the agent with the browser's terminal client |
| `MCPtyManager` | model values and symmetry for its runs |
| `PtyManagerProofs` | TLAPS proofs about it |
| `TerminalHost` | what a host promises its browser about terminals, each create decided and each shell started in one step; `PtyManager` implements it |
| `TerminalHostProofs` | TLAPS proof of that refinement |
| `SignalRelay` | one session's signalling: the server's relay, the browser's socket transport with its polling fallback, the agent's socket |
| `SignalFeed` | what the relay promises the tab: an in-order feed without repetition; `SignalRelay` refines it |
| `SignalRelayProofs` | TLAPS proofs about `SignalRelay`: types, what is recorded once, what polls deliver |
| `SignalFeedProofs` | TLAPS proofs about the sockets: an idle subscription has missed nothing, the refinement of `SignalFeed` |

### PtyManager

| Variable | In the code |
|---|---|
| `client`, `keys` | `TerminalSession.state` as far as `write` and `close` read it; `keys` only bounds how much is typed |
| `chan`, `inbox` | the ordered data channel and everything between it and `dispatch_rx.recv()` (channel events, `poll_task`, the 64-slot queue) |
| `disp` | where the dispatcher task is: between frames, about to spawn, spawned and not yet inserted, sending input, waiting in `close_session` |
| `sessions` | `PtyManager.sessions` |
| `shell`, `termOf` | the child processes and the id each was started for; `detached` is a child that runs on after it gave its terminal up |
| `input`, `writer` | the 64-slot channel to a shell's writer thread and the thread |
| `pump` | the task that forwards output; `waiting` holds the `ActivePty` it took out of the map |
| `wire`, `frames` | `frame_rx` and its consumer; exit and error frames on their way |
| `phase` | the session loop: serving, after `close_all`, returned |
| `refused` | history: terminals the browser was sent a `terminal-error` for |

Every lock acquisition of `PtyManager` is a step: `Dispatch` holds the lookup or removal a frame begins with,
`SpawnAtCap`/`SpawnFails`/`SpawnPresent`/`SpawnForks` the checks and the fork of `spawn_session`, `SpawnInserts` its second
acquisition, `PumpRemoves`/`PumpReaps` the two halves of the pump's end.  `StdinOpen` says which owners keep `input_tx` alive, which
is what decides when a shell sees end-of-file.  `WorkerFree` models that `wait_child` blocks a worker thread: no task
runs when all are blocked.  A pump's reader ends at end-of-file or at any error (pty.rs:366-375), which needs the child to have let go of
its terminal, not to have exited: `ShellDetaches` is a child such as `exec sleep 1000 </dev/null >/dev/null 2>&1`, whose entry `PumpRemoves` takes
out of the map and whose exit `PumpReaps` then waits for on a worker.  A spawn that fails after the fork (`take_writer`, `try_clone_reader`) is folded into
`SpawnFails`: the master side is dropped, so the kernel hangs the shell up.  Resizing changes only a window size and is left
out; output bytes are left out, their end is not.  The 64-slot frame queue is unbounded in the model because its
consumer depends on nothing the model blocks.

The abstract `TerminalHost` knows of each terminal only its fate (unused, asked, refused, started) and its live shells, and of
the session whether it is open.  `Host` maps to it: the fate of a terminal from the queue, the dispatcher's hands, `refused` and
`termOf`; its live shells from the children that hold their terminal; open from `Served` (the session loop is running and the wire has its
consumer).  A create is asked for when the browser sends it and started at the fork; insertion, removal, waiting and reaping are
stutters.  The promise ends with the session, because neither the cap nor the single shell outlives it.

Runs (module `MCPtyManager`):

| Run | Bounds | What it shows |
|---|---|---|
| `pty_two` | 2 terminals, 2 shells, cap 1, 2 frames in flight, 1 keystroke each | the cap, single ownership, no silent refusal; two terminals compete for one slot, so removal-before-wait and the race for the slot occur; `PtyManager` implements `TerminalHost` |
| `pty_one` | 1 terminal, 2 shells, cap 2, 2 frames in flight, 2 keystrokes, creates repeated, fairness | types, a pump reaps its own shell although its id is used by another one in turn, no two shells are on the terminal, none is out of reach; creates are decided, dropped shells end |
| `pty_slot` | 1 terminal, 1 shell, 1 keystroke, fairness | refutes that an exit frees the slot: the shell exits before it is in the map |
| `pty_close`, `pty_teardown` | 1 terminal, 2 shells, fairness | each refutes one sentence of the code's comments, see the findings |

The bounds are enough because every property is about one shell and the entry of its id, or about two terminals that
compete for one place: two shells give a pump a younger one to confuse with its own, in `pty_two` cap 1 makes every create
of a second terminal meet a full map.  (The safety properties are proved for any number.)  `InputCap` 1 makes a full input channel reachable by the second keystroke.
Shells and terminals are interchangeable, in `TerminalHost` too, and no property of `pty_two` is a liveness property, so it uses their symmetry; the runs with liveness do not.
`CHECK_DEADLOCK FALSE` because a session ends, and because a close can block for ever.

Fairness (`Fairness`): tokio runs every task that can run and the operating system every thread, so the dispatcher,
pumps whose output has ended, writers that have nothing left to write and the frame consumer are weakly fair; the session loop notices a closed channel; the browser
reads what arrives; a shell exits once its stdin has ended.  No fairness is assumed for what a user does, nor for a
shell that exits, gives its terminal up or reads its stdin of its own accord: `write_all` (pty.rs:331) blocks while the
child does not read, the input channel fills, and the dispatcher waits in `send_input` (main.rs:1815).  Where a property holds only
for shells that read, it says so (`Reads`): `CreatesAreDecided` and `DroppedShellsEnd` have it as a premise.

### What is proved about PtyManager

`PtyManagerProofs` proves, from `PtyAssumption` alone (finite sets of terminals and shells, positive capacities),

- `TypeCorrect`: `Spec => []TypeOK`;
- `Inductive`: `Spec => []IInv`, the invariant the others rest on;
- `OneOwnerHolds`, `PumpReapsOwnHolds`, `ShellsAccounted`, `CapHoldsAlways`, `OneShellPerTerminalHolds`: the safety properties
  that `IInv` was built for;
- `NoSilentRefusalHolds`: `Spec => []NoSilentRefusal`.

Of these, `PumpReapsOwn`, `CapHolds` and `OneShellPerTerminal` are not inductive as they stand.  `PumpReapsOwn` fails if a reading pump may find somebody else's entry under its id,
so `PumpEntry` says what it finds: its own entry, or none because the dispatcher has yet to insert it, or none
because the terminal is `Finished`: closed by the browser, with no frame of it queued or in the dispatcher's hands.
`Finished` is stable because the browser's close is the last thing it says about a terminal (`CloseIsLast`), which
rests on `TerminalSession.write` and `closeSession` and on the channel's order.  `CapHolds` counts shells that hold their terminal although the
code counts map entries: `RunningAccounted` puts every such shell in the map or in the dispatcher's hands, `Known` makes the
map from shells to their entries injective, and `SlotBound` keeps one place free for the handle the dispatcher holds.  `OneShellPerTerminal` follows from `RunningAccounted`, `Known`
and `InsertsAbsent`: a shell on its terminal is under its own id, or in the dispatcher's hands while that id is absent.  The
layout is one lemma per action that touches these variables (`...Does`), `CoreSteps` and `QueueSteps` that reduce `Next` to
them, and one lemma per conjunct.  No step but the shell's own (`Leaves`) takes a shell off its terminal, and the guard of `PumpRemoves` is
that the shell has left it; what the child does afterwards is open, so neither property speaks of a detached child, and `AtMostMaxShells`, which
counts it, is false.

`NoSilentRefusal` rests on `Known` and on an invariant of its own, `RefusalInv`.  A keystroke's implicit spawn that is refused
tells nobody, so the terminal must have been decided (a shell or a terminal-error) before: whatever the browser says after the
create of a terminal follows it in the queue, hence every frame that is no create finds its terminal decided, in the dispatcher's
hands, or behind its create.  A decision is never taken back, because only a shell that has not started can be given a terminal (`Named`).

`TerminalHostProofs` proves `HostImplemented`: `Spec => ImplementsHost`, from `PtyAssumption` too.  `FateFollows` replaces the fate of a
terminal, which the mapping reads off the queue, by what the browser knows of it (`Standing`): by `RefusalInv` no asked terminal is lost,
by `Asked` none is asked for that the browser has not created.  `HostSteps` sorts the steps into those the host sees (a create,
a refusal, a fork, an exit or a terminal given up) and the rest, which change neither standing nor live shells.  At a fork (`ForkStarts`) the id is absent from the
map and every shell on a terminal is in it, so the terminal has none, and the terminals that have one are slots, fewer than the cap;
an exit (`ExitEnds`) leaves its terminal bare by `OneShellPerTerminal`.

Liveness (`CreatesAreDecided`, `DroppedShellsEnd`) is model-checked only.

### SignalRelay

| Variable | In the code |
|---|---|
| `rows`, `expired`, `reaped` | the session's rows of `signals` by rowid, how many of the oldest are past `expires_at`, how many `runCleanup` has deleted |
| `status` | `sessions.status` |
| `reg`, `sub`, `seen`, `buf` | `browserConnections`, and the current socket's `BrowserSubscription`: `state`, `replayedIds`, `buffer` |
| `up`, `down` | frames on the browser's sockets; an old socket's frames may still be read after the browser has left it |
| `link`, `sock`, `awaiting`, `pending`, `cursor`, `retries` | `WebSocketSignalTransport`: where it is between `connect`, `scheduleReconnect` and `handOffToFallback`, and the fields of the same names (`awaitingAck`, `lastCursor`) |
| `posts`, `polls`, `pollCursor` | requests of the `RESTPollingTransport` in flight, and its cursor |
| `agentLink`, `agentOut`, `agentIn` | the agent's socket (`dead`: broken and the server unaware), frames on it, what reached the agent |
| `sent`, `agentSent` | bounds only |
| `heard`, `polled`, `told`, `overtaken` | history: what the tab heard over sockets, what by polls, whether it was told that the session is over, whether one read of the agent's socket held its answer and frames after it |

A signal is its rowid; offer, answer and candidates are told apart only where the code does (an answer makes the session
active and costs one more await).  The server runs a handler to its end, because its database is synchronous and
no other frame is handled at an `await` of a resolved promise, so every handler is one action; what a replay spreads over
several steps is its pages, each asked for by the client.  `Replay` is `handleBrowserSubscribe` with `drainBuffered`, `Push` is
`pushToBrowser` with its three cases, `HandOff` is `handOffToFallback`.

The exception is several frames in one read of a socket: `ws` emits them in successive turns of the microtask queue, and
`recordSignal` awaits a second statement for an answer, so the pushes of the frames after it overtake the answer's.  `Burst` bounds how
many agent frames one read may find; both runs take 2.  `relay_order` refutes the order of delivery; `overtaken` records that it happened, and
what the sockets promise ends there: a cursor that a candidate has set skips the answer it overtook after a reconnect.  So `CaughtUp`,
`ImplementsFeed` and `SignalsArrive` speak of a session without such a read, or before it.

A socket may break at any time (`Disconnect`, `DropSocket`, `Restart`) except the last of `MaxSockets`, so losses are bounded and
the runs still reach quiet states.  One timing assumption is in `Expire`: a push waits in a replay's buffer for round
trips, a row lives for five minutes, so no row expires while its push is buffered.

The abstract `SignalFeed` has a log, a count of expired entries and what was heard; `Feed` maps `rows`, `expired` and `heard` to them, and the
absence of an overtaking read to `intact`; such a read is the feed's `Void`, after which it promises nothing.
Its `Hear` may skip an entry of the agent only if it expired.  The tab's own signals it may hear or miss: the replay's query
does not look at the sender, the live push does.

Runs (module `SignalRelay`; the bounds are signals of the browser / of the agent / sockets):

| Run | Bounds | What it shows |
|---|---|---|
| `relay_live` | 1 / 2 / 2, page size 1, one retry, two agent frames in one read, fairness | types and the retry budget, `CaughtUp` (an idle subscription misses nothing), `RecordedOnce`, `PolledInOrder`; `SignalRelay` implements `SignalFeed`; every signal of the agent reaches the tab or expires, unless a push overtook the answer's; the outbound queue empties |
| `relay_order` | 1 / 2 / 2, two agent frames in one read | refutes "Ordering is enforced by construction" |

Page size 1 makes every replay of two rows take two pages, so pushes meet a replay; two sockets make a reconnect from a cursor
that a replay or a push has set, with a socket left behind whose frames are still read; one retry makes both the reconnect and the hand-over reachable.
`CHECK_DEADLOCK FALSE` because the tab may close its transport.

Fairness (`Fairness`): the server reads what arrived, the agent reconnects (`run_with_reconnect` never gives up), the
browser's timers fire and its requests end one way or the other; a socket the server has dropped is noticed.  `PollServed`
and `PollReturns` are strongly fair: a poll that is tried for ever gets through some time.  Nobody owes a signal.

Proved in `SignalRelayProofs`, from `RelayAssumption` alone (so also for more agent frames in one read):

- `RelayTypes`: `Spec => []TypeOK`, which bounds every cursor, page and frame by the rows recorded so far.
- `PollsKeepOrder`: `Spec => []PolledInOrder`.  `PollInv` adds that there is one poll at most, that it was asked for after the cursor
  that is in force when it returns, and that its answer ascends and lies beyond that cursor, while what was delivered lies up to it.
- `SignalsRecordedOnce`: `Spec => []RecordedOnce`.  `OnceInv` says that a signal of the browser is in one place at most: recorded,
  queued, in a post, or on one socket, and there once.  A flush takes it from the queue to the current socket, the hand-over
  from the queue to a post, and what went on a socket is never queued again.

Proved in `SignalFeedProofs`, from `RelayAssumption` alone too, with `overtaken` as the end of both promises:

- `SubscriptionCatchesUp`: `Spec => []CaughtUp`;
- `FeedImplemented`: `Spec => ImplementsFeed`, by the mapping above: the initial state maps to an initial state, `FeedLog` splits the steps into
  those that record one signal, that expire one, that deliver one and that do none of these, and each maps to its action or a stutter
  (`FeedMoves`); the step that overtakes maps to `Void`, all later ones to stutters (`OvertakenStays`).

Both rest on two invariants, which hold until a push overtakes the answer's.  `ShapeInv` is the protocol of one subscription: it is asked for and nothing is on its way, or a page
whose end asks for the next, or it is live and a subscribe is nowhere on the socket; so a page is only ever asked for from the cursor the tab
has.  `DataInv` is what that buys: the signals on their way ascend and begin after the cursor (`Ordered`, `Ahead`), no signal of the agent is
missing before any of them (`Covers`), nor after the last one once the subscription is live (`Complete`), and a push that waits for the replay to end was
sent by a page or lies behind everything that was (`Held`).  `Held` needs the timing assumption of `Expire`.

Left out: tickets and tenancy checks, malformed frames, a database that fails, frames of an agent's socket that are
read after a newer one superseded it.

### AgentSupervisor

| Variable | In the code |
|---|---|
| `link`, `delay`, `conns`, `fails` | `run_with_reconnect`: connecting, in `client.run`, sleeping for its backoff, shut down, or the process is gone; the last two only bound it |
| `silent`, `quiet` | a half-open socket, and the ping ticks since its last frame |
| `inbound`, `outbound` | the two bounded channels, which outlive every socket |
| `phase`, `cur`, `curN`, `approve` | `supervise_sessions` and `run_one_session`: waiting for the first ICE servers, idle, building, choosing a source, answering, handshake, serving |
| `peer`, `ended`, `gathered` | the peer connection, `end_rx`, its callback's candidates |
| `tasks` | detached tasks that wait for a place in `outbound`: trickled candidates, refusals of a second offer |
| `pushes`, `due` | the number of a signal; history: what the current session's peer is owed |

The reconnect loop and the supervisor are two tasks.  `SocketEnds`, `ConnectFails`, `Retry`, `Elapse`, `Send` and `SendFails` are the
turns of `SignalClient::run` and of the loop around it; `BrowserOffers` and `BrowserTrickles` deliver a signal with
`try_send`, so a full channel drops it.  An action of the setup (`BuildPeer`, `SourceDecided`, `AnswerOffer`, `RefuseOffer`) ends where
the code awaits a place in `outbound`.  `Route...` are the branches of `route_inbound`, in its order; the handshake's
select is biased, so everything after `inbound` waits until `inbound` is empty.  A session whose offer is for neither a
terminal nor a desktop gets a refusal.  `PeerGoes` may leave no reason in `end_rx`: a channel's close is not seen while `poll_task`
waits for a place to dispatch (main.rs:1031), nor after the desktop's dispatcher has returned early (main.rs:1373-1380); then the end comes with the
connection's state, `ConnectionFails`.

Runs (module `AgentSupervisor`):

| Run | Bounds | What it shows |
|---|---|---|
| `agent_sessions` | one terminal, one desktop session; 2 inbound slots, 1 outbound; 2 sockets, 1 failed connect, 3 signals, 1 candidate of the agent; fairness | types and the backoff's range; `NoCandidateLost`, `RedeliveryHarmless`, `QuickReconnect`, `OffersAreDecided`, `SlotIsFreed` |
| `agent_idle` | a silent socket for 4 ticks of which 3 are the timeout | refutes that the idle timeout is a liveness check: the socket is kept as long as its writes succeed |
| `agent_dies` | also an unsupported session, 4 signals | refutes that a stream's end is an ordinary end of the session |

Three signals are an offer, its redelivery or another session's, and a candidate between them; one outbound slot makes
the supervisor, a refusal and a trickled candidate wait for each other, and with both channels full the socket loop and the
session would wait for each other if `try_send` were `send`.  `CHECK_DEADLOCK FALSE` because the agent shuts down and browsers fall silent.

Proved in `AgentSupervisorProofs`, from the module's assumption alone:

- `SupervisorTypes`, `CandidatesKept`, `RedeliveriesHarmless`: `TypeOK`, `NoCandidateLost` and `RedeliveryHarmless`.  The invariant
  adds that pushes enter `inbound` in their order (`InboundOrdered`), that whatever is queued during a session came after the offer it began with
  (`OfferFirst`), that a refusal under way came before everything queued (`RefusedFirst`), and that what the peer is owed is what is
  queued for it (`DueWaits`).
- `ReconnectsQuickly`: `Spec => QuickReconnect`, because the backoff is at its initial value while a socket is up.

Fairness: a connect is tried until it succeeds and the socket that is up takes what is queued; the tasks of the
runtime run and the handshake's timer fires; the WebRTC library reports a dead peer's connection as failed or closed.  The hourly cap, the opening of a peer and every signal are left to chance.

### DesktopStream

| Variable | In the code |
|---|---|
| `sess` | `run_desktop_session`: before `connected`, its loop, the teardown's wait for the stream, closed; `left` by the `?` after `route_inbound`, `exited` by a panic |
| `threads`, `source`, `next` | the capture threads with both ends of their channels; `current` of `run_stream` and the source `swap_source` is building |
| `stream` | where `run_stream` is: in its select, in `swap_source`'s build or its join, in `stop`, over |
| `profile`, `encoder`, `over`, `latched` | `StreamProfile`, the encoder's bitrate, `SustainMonitor` |
| `size`, `pending` | `encoded_size`, `pending_stats` |
| `control`, `events` | the two bounded channels between the stream and the dispatcher |
| `ctl`, `sending`, `manual` | the dispatcher, the command it awaits a place for, the manual latch |
| `abr`, `retarget`, `auto_target` | the sampler, the bitrate it awaits a place for, its last target |
| `injector`, `held`, `pointer` | the injector, whether it holds a key, where it put the pointer |
| `frames`, `ui`, `lost`, `overruled` | a bound, and history |

`run_stream` awaits only in its select, in a swap and in a sample's write, so a tick with scaling, encoding, the sustain
monitor and a deferred stats frame is one action, and so is a bitrate command.  A swap is four: refused or started, built or
failed, and the join of the old thread, in which an abort has no effect before the join returns.  A monitor's
thread forwards frames until it sees its stop flag, a window's serves one request at a time and ends with its sender; a
dropped source is only seen by the thread with its next frame.  The sampler reads the latch in one step and sends in
another.  A frame is its size; `downscale`, `crop_to_even`, `clamp_bitrate`, `abr_next_target` and `to_absolute` are in `DesktopFrames`,
where a product of floating-point numbers that may fall on either side of an integer is both.

Runs (module `MCDesktopStream`; two capture threads, one-slot queues and channels):

| Run | Bounds | What it shows |
|---|---|---|
| `desktop_live` | a 1921x1081 monitor left of the origin and a window of 801x601 or one pixel by 601, bitrate 4000, estimates below and above the session's, pointer positions left of, right of and nowhere on the source (-3 and 5 quarters, NaN), fall-back after 2 slow frames, 1 viewer frame, fairness | types; `EncoderFollowsProfile`, `ViewerKnowsBitrate`, `SwapKeepsOneSource`, `KeysReleased`, `PointerInSource`, `FramesFit`; `StoppedCapturesEnd`, `CommandsLeave` |
| `desktop_manual` | one monitor, one bitrate of the viewer, two estimates | refutes that a manual bitrate stops auto-ABR for the rest of the session |

One swap needs two threads, and a third source could only be another of the same two kinds; a thread that was stopped or
dropped keeps its place, so a second swap meets no free thread and is only refused: that `source` differs from the
start is enough for the properties about one source.  One slot in each channel makes both ends wait at the first
collision.  One viewer frame is a bitrate, a swap or a key, and each of them meets auto-ABR, the fall-back, a failing source and the teardown; how two of
them meet TLC does not see here, but every safety property of the run is proved for any number of frames.

Fairness: weak for each task and timer, and for a thread that looks for its stop flag or its sender.  The two senders
of the control channel are strongly fair: tokio's bounded channel hands out places in the order of asking, so one
who waits while the stream takes commands again and again is served.  No frame, viewer or peer owes a step.

Proved for any sources, sizes, capacities and bounds that `DesktopAssumption` allows (frames and channels that are not empty,
a source's rectangle and the positions within it in integers, the profile one of the two the agent starts with):

- `SessionTypes` (`TypeOK`): with it that a stream and its swap never use the same thread.
- `SwapKeepsOneSourceHolds`, in `DesktopSourceProofs`.  `SourceInv` says at which place of a swap which of the two threads is owned and told to stop
  (`StageShape`), and that a live thread is the stream's or the swap's (`LiveShape`); threads of their own accord only move towards their end (`Works`).
- `EncoderFollowsProfileHolds`.  Inductive once the profile is known to be a record of its three fields: four actions set
  the encoder's bitrate (retarget, swap, fall-back and the start), and each leaves it equal to the profile's.
- `ViewerKnows` (`ViewerKnowsBitrate`).  `ReportInv`: the last stats frame on its way, or else what the viewer shows, says the profile's bitrate,
  unless a frame is owed or was lost.
- `AutoGivesWayHolds` (`AutoGivesWay`, in no run: `desktop_manual` refutes the stronger claim of the comment, that no retarget overrules the
  viewer; this bounds it to one).  `AutoInv` counts the retargets of auto-ABR that lie behind the viewer's last bitrate in the control
  channel, with the one the sampler holds: there is one at most once the latch is closed.
- `EncodedSizesFit`: `Spec => FramesFit`, for frames of any size: a side is 0 only when a frame of the source has one pixel there, which
  `crop_to_even` makes 0 and the code does not filter.  The lemmas of `DesktopFramesProofs` bound `downscale` for every size and box.
- `PointerStaysInSource` (`PointerInSource`), by the bounds of `to_absolute`.
- `KeysReleasedHolds`.  The property is not inductive: a session that is connecting must have no dispatcher, a closed
  one none that runs, and only a dispatcher that serves may hold a command, since one that gives up over a command ends with
  its injector.  `KeysInv` says these, and that a held key needs a dispatcher or a process that is gone.

## Findings

| Run | The text | The code |
|---|---|---|
| `pty_slot` | main.rs:1769, an exit frees the slot immediately | the shell runs before it is in the map: if it exits at once, its pump finds no entry, and the dead entry inserted afterwards keeps its place |
| `pty_close` | main.rs:1836, dropping the `ActivePty` ends the shell's stdin | `close_session` waits for the child before it drops it: closing a live shell blocks the dispatcher and a worker thread for ever |
| `pty_teardown` | main.rs:1095, teardown ends every shell | creates dispatched after `close_all`, pumps that wait with the handle, and the `?` that skips `close_all` leave shells running |
| `relay_order` | ws.ts:141, "Ordering is enforced by construction" | an answer's row is inserted first and pushed last when a candidate arrives in the same read |
| `agent_idle` | signal.rs:294, "`IDLE_TIMEOUT` is a real liveness check" | every turn of the select makes a new timeout, and the 30 s ping ends a turn, so 90 s never pass; a failed TCP write is what ends the socket |
| `agent_dies` | main.rs:1477, the stream's end is one of the ways out | the teardown polls the join handle a second time and panics, and the release profile aborts the agent |
| `desktop_manual` | main.rs:1307, a manual bitrate stops auto for the rest of the session | the sampler reads the latch, then sends: its retarget may be taken after the viewer's and stays |
| none: `FallsBackOnce` (`DesktopStream`) | desktop.rs:942, at the floor the latch stays closed | `note_bitrate_change` sees a profile whose bitrate has changed: the latch opens and a second fall-back sets the viewer's bitrate back |
| none: `AtMostMaxShells` (`PtyManager`) | main.rs:1719, at most `max_sessions` concurrent shells | a child that gives its terminal up leaves the map while it runs, and another shell takes its place |
| none: `HandoverResumes` (`SignalRelay`) | transport.ts:348, a hand-over resumes where the socket left off | the fallback's first poll has a null cursor and delivers again what the sockets delivered |

The last three have no run of their own; TLC refutes each at once when it stands in place of the properties of `DesktopStream_live.cfg` (as a
`PROPERTY`), `PtyManager_two.cfg` or `SignalRelay_live.cfg` (as the `INVARIANT`).

Two more disagreements are steps of the models without a run of their own: a push that meets no agent socket is lost
(`SignalRelay`), although ws.ts:44 says that the agent can still recover it through polling; and a tab that is between two
sockets when its session ends is never told (ws.ts:749).

## Plan

Done: `PtyManager` with `TerminalHost`, `SignalRelay` with `SignalFeed`, `AgentSupervisor`, `DesktopStream` with `DesktopFrames`.

Every safety property and both refinements that the runs check are proved.  To prove next: an abstract session for
`DesktopStream`'s swaps.

Machines left to model, in this order:

- `TerminalStore`: tabs, connections and pending connections of one agent with handshakes that resolve late.
- `PeerConnection`: offer/answer/candidate handling across awaits.
- `SessionLifecycle`: sessions API, relay, cleanup and the agent's own cap; leaks of active sessions.
- `TokenRefresh`, `WsTicket`: single-flight refresh against logout; one-time tickets.
- `RingBuffer`: the terminal client's output buffer against "the last N bytes".

## What is proved and what is only checked

Proved for every value of the constants: the type invariants of the four machines, every safety property their passing runs check,
`QuickReconnect`, `FramesFit`, and the refinements of `SignalFeed` and `TerminalHost`.  No theorem has a hypothesis beyond the assumptions of its
module.  The invariants were first checked by TLC on the instances of the runs.

Model-checked only: every liveness property (liveness under fairness and `ENABLED` are out of the prover's reach) and the findings.

## Not modelled

Cryptography and token formats, row-level CRUD of agents and devices, the views, the vendored capture library, the
H.264 encoder and colour conversion, the key code table, the synthetic test pattern, the command line and logging, and
everything that only formats or lays out.  In the agent's desktop session the dispatch of a malformed or unknown
control frame is left out, since it is logged and dropped.  The browser's side of a desktop session is the viewer that may
send any frame at any time.  The state machines that the plan still lists are not modelled yet.  `PROJECT.json` gives the
status of each component and, for every hazard no property covers, why.
