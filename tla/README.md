# PlayGate in TLA+

PlayGate lets a streamer hand the controls of a game console to viewers. A
*host* program captures and streams the game and feeds viewers' inputs to the
console; a *REST server* sells access (one-time codes that become session
JWTs); a *signaling room* introduces viewers to the host; a *web page* is the
viewer; a *Twitch bot* hands codes out. This directory models the parts of it in
which concurrency, ordering and failure decide whether the right person, and
nobody else, is playing.

## 1. Inventory

| Component (source) | State | Operations | Talks to |
|---|---|---|---|
| Session manager (`playgate-host/internal/session`) | `active`, `queue`, `stopped`, per-entry context, gates, idle timer | `Claim`, `Gate`, `Release`, `KickCurrentController`, `Run`, `Subscribe`; watcher and timer goroutines | sink, heartbeat |
| Input sink (`internal/host/sink.go`) | none of its own | `Authorize`, `drainToTarget`, `forwardEvents` | session manager, input target |
| NXBT target (`internal/input/nxbt`) | coalescer (`pending`, `notify`, `lastSent`), connection, flush timer | `Send`, `Run`/`runSession` | daemon over a Unix socket |
| NXBT daemon (`nxbt-daemon/nxbtd.py`) | controller reference, last status, clients | accept, apply input, controller thread with back-off | console |
| REST server (`playgate-server`) | rooms, tokens and sessions in SQLite; queue counters in memory | issue, redeem, revoke, kick, heartbeat, registration, listings | host, page, bot |
| Heartbeat (`internal/heartbeat`) | ticker | `beat`: report, obey a kick | REST server, session manager |
| Signaling room (`playgate-signaling`) | two message queues, sockets, parked long-polls, alarm | append, poll, WebSocket replay, notify, wipe | host, page |
| Viewer connections (`internal/host/connect.go`) | `sessions`, per viewer: peer, `answered` | feed over WebSocket or long-poll, `runViewer`, `wireInput` | room, RTC peer, sink |
| RTC peer (`internal/rtc`) | `closed`, `lastInputSeq`, `commands`, `connState` | Pion's callbacks, `WriteSample`, `Close` | connection, routers, sink |
| Host supervision and routers (`internal/host`) | the errgroup's context, sinks, latency tap | `Run`, `AddSink`, `RemoveSink`, `forward` | all modules of the host |
| Encoder (`internal/encoder/ffmpeg`) | options, restart token, frame queue, packet channel, splitter buffer | `SetBitrate`, `ForceKeyframe`, `Run`, frame writer, packet reader | ffmpeg, capture, router |
| Bitrate controller (`internal/abr`, `host/abr.go`) | target, last change, clean stretch | `Observe`, `tick` | peer statistics, encoder |
| Capture (`internal/capture/v4l2`) | descriptor, mapped buffers, frames channel | `Start`, `Run`, dequeuing goroutine | the V4L2 driver, encoder |
| Audio (`internal/audio/opus`) | carried packet, packets channel | `Run`, `readPages`, `emit` | ffmpeg, audio router |
| Sunshine agent (`internal/sunshine`, `cmd/sunshine-agent`) | its place in a call and its retries | pair on grant, kick and retry on end | session manager, a Sunshine server |
| Viewer page (`playgate-web`) | signaling client, peer connection, input sender, control banner | hello, answer, send input, show events | room, host |
| Twitch bot (`playgate-twitch-bot`) | code pool, grants, cooldowns, a debounced file | grant pipeline, pool refill, delivery | REST server, Twitch |

What is hard, and what makes each part correct:

* **Session manager.** Several goroutines per connection, a watcher and a timer
  per session, an operator and shutdown share one mutex and drop it between a
  test and its consequence. Correct when one claimant at a time has control,
  the line is served in order, a late end of session hits nobody else, gates
  close before control changes hands, and nothing sends on a closed channel.
* **Input path.** A mutex-protected slot, a one-place signal channel, a timer
  re-armed by hand and a connection that fails. Correct when no wakeup is lost
  and a viewer that is gone leaves the console with everything released.
* **REST server.** Handlers are sequences of SQL statements without a
  transaction. Correct when a row is never both redeemed and revoked, a redeemed
  row stays as it is, and a kick reaches the host.
* **Signaling.** Backlogs are replayed, transports change, the host restarts and
  posts fail after they took effect. Correct when an answer meets the peer that
  offered, no hello or offer is lost, and a viewer gets connected.
* **Twitch bot.** Grants overlap across awaits, share one refill of the code
  pool, and deliveries fail halfway. Correct when a code is in one place and
  reaches one viewer, the file follows the grants, and every request ends.
* **Media path.** Around one ffmpeg there are five goroutines, each blocked on a
  neighbour, and restarts, exits and shutdown tear them down in any order.
  Correct when processes do not overlap, no request for another one is lost,
  queued keyframes survive full channels, and a shutdown ends everything.
* **Viewer connections and peer.** Pion's callbacks race with `Close`, state
  changes with a full channel, tokens with authorizations under way. Correct when
  nothing is sent on a closed channel, a lost connection is noticed, input is
  played in order, and a viewer that leaves takes its goroutines along.
* **Demultiplexers.** ffmpeg's output arrives in pieces. Correct when access
  units and Opus packets do not depend on how it is cut, nor on a process that
  dies halfway.
* **Capture device.** Buffers go round between driver, dequeuer and copier.
  Correct when none is lost or in two places, and a failed start leaves nothing.
* **Sunshine agent.** Correct when an end of session it has heard of ends the
  stream although requests fail.
* **Bitrate controller.** Correct when it does not climb into a lossy link.
* **Daemon.** Status ordering between threads: a hazard in `PROJECT.json`, planned
  below.

## 2. Modules

| Module | Models | Composition |
|---|---|---|
| `ControlAuthority` | the abstract promise: one holder, a first-come line, each claimant served at most once | – |
| `SessionManager` | `session.go` with `Authorize` of `sink.go` and the heartbeat's kick | refines `ControlAuthority` (`INSTANCE ... WITH`) |
| `InputPath` | gated channel → `drainToTarget` → coalescer → send loop → socket → daemon | uses the session manager by its guarantee `ForwardOnlyWhileController` / `NoOrphanGate` |
| `TokenServer` | redeem, revoke, issue, kick, heartbeat, statement by statement | – |
| `Signaling` | room, host feed and viewer sessions, browser: one composed system | – |
| `GrantPipeline` | the bot: policy, code pool, whisper and chat delivery, grant store, restart | – |
| `VideoPath` | capture, latency tap, encoder wrapper, ffmpeg and its goroutines, shutdown | the buffers of capture are in `CaptureDevice`, the splitter in `AnnexB`, the router in `ViewerConn` |
| `ViewerConn` | `runViewer`, the RTC peer, the routers' view of it, `wireInput` | the session manager is its environment |
| `SunshineAgent` | the agent process, its events channel and its HTTP client | the session manager is seen through its events |
| `AdaptiveBitrate` | the controller as a machine over samples and ticks | – |
| `AnnexB`, `OggDemux` | the two demultiplexers, over every stream of a bounded length | – |
| `CaptureDevice` | `Start`, `Run` and the ring of mapped buffers | – |
| `MCHostParts` | these seven and `TokenServer`, side by side | one runs per behaviour |
| `SessionManagerProofs`, `InputPathProofs`, `TokenServerProofs`, `SignalingProofs`, `GrantPipelineProofs`, `ViewerConnProofs` | theorems about one module each | extend their module |
| `DemuxProofs` | theorems about `AnnexB` and `OggDemux` | extends these two |
| `HostPartsProofs` | theorems about `VideoPath`, `CaptureDevice`, `AdaptiveBitrate` and `SunshineAgent`, with the lemmas about channels they share, and about the parts together | extends `MCHostParts`, `ViewerConnProofs` and `DemuxProofs` |
| `MC*` | instances for TLC | extend their module |

### How state and actions correspond to the code

**SessionManager.** Each critical section of `Manager.mu` is a step. A call `c`
is one `Authorize`; it owns at most two `sessionEntry` objects, `Claimed(c)`
(what `Claim` returns) and `Promoted(c)` (what `endSession` builds when a
waiting claim gets its turn). That the `Session` returned to the caller keeps
pointing at the first one is in the model and matters (finding 1). `Release`,
`KickCurrentController`, the tick and the gate goroutine have one action per
critical section; `endSession` is one critical section and therefore one action
(stale, last, promote), shared by its five callers. `told` is the last lifecycle
event emitted per viewer; delivery to subscribers is not modelled. `Disconnect`
ends the connection's context and closes the raw stream together.
At most one kick and one tick at a time are between their two critical sections;
they touch only the entry they read.

**InputPath.** A command is the call whose viewer presses something, or
`Neutral`. `push` is two steps (store under the mutex, signal after it), `flush`
is poll / write / untilReady. `hot` says that the rate interval since the last
poll has not passed, so time itself is not modelled. The timer's flag `armed`
always equals "not stopped" and needs no variable. `LinkLost` may lose what the
socket held or leave it to be read.

**TokenServer.** A request is a process; each SQL statement is a step, because
handlers use no transaction and `db.go` serialises single statements only. A
statement may fail where the handler has an error path. `Restart` loses the
requests in flight and the in-memory queue counters, and keeps the rows.
`RedeemToken`/`RevokeToken` are the two guarded `UPDATE`s; the handlers ignore
how many rows they changed, and so does the model.

**Signaling.** A queue is the set of its messages, ordered by `seq`; of messages
with one number (finding 4) a backlog has any order (`InOrder`). Offers and
answers carry `gen`, the number of the host-side peer they belong to: it stands
for the SDP and for the offer's `ts`, which grows with every offer of the host.
*External assumption*: a Durable Object serves one request at a time between
storage operations (its input gate), so append-and-notify is one step. Frames of
a lost socket are lost with it; HTTP requests may fail before or after they took
effect. `Alarm` has the guard of the code, no socket and no request for ten
minutes, and so may wipe a room whose host or viewers are still there, but asleep,
cut off or unable to construct a WebSocket; that counts as one of the bounded
failures unless everybody has left (`Deserted`). `wiped` remembers the viewers
that were there: the page says hello once and keeps the `seq` it has seen, so
`HelloNotLost` and `OfferNotHidden` promise them nothing, and would be violated
for them.

**GrantPipeline.** What JavaScript runs between two awaits is one step. A code
is its number in the order of issue. `setup` (delivery mode, bot account) is read
at start; the policy is swapped while running. Time is not modelled: whether a
user's cooldown is over, and how many logged events are younger than a minute,
is chosen when `evaluate` looks (`Verdict`), and which delivered codes have been
redeemed is chosen when `init` lists them (`Recover`), the only places that can
tell. The server lists the codes of a room newest first (`NewestFirst`), and the
pool takes them over in that order. `got` is what viewers have in hand, whatever the bot was told. `slipped`
records codes that came back to the pool although they reach somebody.

**VideoPath.** Every goroutine is a variable with its place: `capture`, `tap`,
`enc` (`Encoder.Run` with `runSubprocess`), `feed` and `writer` (the two halves
of `writeFrames`), `packetReader`, `wrap`. `ff` is the process. Frames are alike and a
channel of them is a number; a packet is a keyframe or not. `asked` says that an
option changed after the arguments of the running ffmpeg were built: it is set
where the options change and cleared where `currentArgs` reads them. `Cancelled`
is a done `runCtx`. `emitPacket` is one step, but its slow path (`MakeRoom`) may
meet a channel the wrapper has emptied meanwhile.

**ViewerConn.** `conn` is where `runViewer` is; its deferred calls are one action
each, in their order (`RemoveSink`, `ClosePC`, `MarkClosed`, `Forget`).
`callbacks` counts, for each connection state, the handlers Pion has started and
that have not run: one goroutine for each change, so they run in any order. At
most `LateStates` handlers of one state wait at a time. An authorization has a goroutine `reader[a]` and
a command in `hand[a]`; that there could be two of them (`MaxAuth = 2`) is what
the flag `authorizing` prevents.

**SunshineAgent.** `try` counts calls of `KickAll` and `request` the attempts of
one call. A refusal (below 500) ends a call, any other failure repeats the
request and may have taken effect.

**AdaptiveBitrate.** Points in time are ages, counted in ticks and stopped at the
limit they are compared with. `quiet` and `sample` are history.

**AnnexB, OggDemux.** The stream is chosen at the start (`nals`, `full`). A NAL
unit has three bytes, one per thing `splitNALUs` has to have read: start code,
header, first byte of the slice. A segment of an Ogg page is named by the run of
ffmpeg and its place, so that mixed-up packets show.

**CaptureDevice.** A buffer is with the driver (`atDriver`), offered by the
dequeuing goroutine (`offered`) or being copied (`copying`). Every ioctl may fail.

Definitions named `...Unguarded`, `...NoWait`, `...Silently` and the like,
each marked *Mutated form*, are deliberate mistakes next to the definition they
deform. They are used by no specification; they document which mistake each
property detects (`mutants` in `PROJECT.json`).

## 3. Runs

| Run | Checks | Shows |
|---|---|---|
| `session_control` | `TypeOK`, `NoSendOnClosedEvents`, `IdleTimerOfControllerOnly`, `EventsTellTheTruth`, `EndedOnItsOwnAccount` | idle timer, kick, tick, expiry, release and shutdown in every order around a hand-over |
| `session_line` | `FifoAuthority`, `ForwardOnlyWhileController`, `NoOrphanGate`, `ReleaseDropsItsEntry`, `ImplementsAuthority` | three claims, two by one viewer on two connections; refinement of `ControlAuthority` |
| `session_live` | `QueueIsServed`, `GateGoroutineExits` | the line moves, gate goroutines end |
| `session_release_frees_slot` | `ReleaseFreesSlot` (violated) | finding 1 |
| `input_path` | `NeutralAfterDrains`, `NoLostWakeup`, `ConsoleReleased` | two viewers, rate limit, one link failure or shutdown |
| `input_shutdown` | `ButtonsDoNotStick` (violated) | finding 2 |
| `token_redeemed_once` | `RedeemedOnce` (violated) | finding 3 |
| `signaling` | `AnswerMatchesPeer`, `HelloNotLost`, `OfferNotHidden`, `Connects` | two viewers, up to two failures of any kind |
| `signaling_long_poll` | `LongPollWakes` (violated) | finding 4 |
| `annexb_keyframe` | `KeyframeCarriesParameterSets` (violated) | finding 5 |
| `grant_pipeline` | `DeliveredToOne`, `SavedOrScheduled`, `RequestsEnd` | three overlapping grants, failing mints and deliveries, one rare event |
| `host_parts` | `HostTypeOK`; `OneSubprocess`, `RequestApplied`, `QueuedKeyframeKept`, `ShutdownCompletes` (`VideoPath`); `DisconnectNoticed`, `NoSendAfterClose`, `InputInOrder`, `ViewerLeavesNothing` (`ViewerConn`); `EndedIsKicked` (`SunshineAgent`); `IncreaseAfterCleanWindow` (`AdaptiveBitrate`); `ChunkingInvisible` (`AnnexB`); `PacketsWhole` (`OggDemux`); `BuffersAccounted` (`CaptureDevice`); `TypeOK`, `RowsConsistent`, `KickNotLost`, `RedeemedForGood` (`TokenServer`) | seven independent parts of the host and the REST server, one per behaviour, with every failure their code handles; for the server overlapping requests, failing statements and a restart |

The `TypeOK` of `InputPath` and `Signaling` are proved (section 4) and not
checked by a run of their own; the runs check what needs them.

### Bounds, and why they are enough

* *Calls and viewers.* Three claims give a controller, a head of the line and
  somebody behind it; promotion only ever touches the first two. Two of them
  sharing a `viewer_id` is the case in which `findEntryLocked` returns another
  claim's entry. In `session_control` the third claim is there to be refused by
  `MaxQueueDepth = 1`; `OneLateCall` does not explore what follows it and keeps
  one late timer, kick or tick at a time (each reads one entry and ends or
  announces that entry only, so that two late calls interfere no more than
  each does with a hand-over). `RunningBetweenTicks` leaves shutdown and the
  tick to `session_control`, and lets one gate goroutine at a time have a
  command in its hands. `session_release_frees_slot` ends at shutdown too
  (`Running`), which promotes late for a reason of its own. `session_live` has two
  claims, the first of them by
  name (`FirstComesFirst`), and silent viewers, because TLC's liveness check
  needs the whole graph.
* *Symmetry* is used in safety runs only, over calls that `ViewerOf` does not
  tell apart.
* *Input path.* `MaxCmds = 2`, channel and socket capacity 1: full, empty and
  blocked are all reached. `OneFailure` takes link failure and shutdown one at a
  time, and the failure while one viewer plays: with two of them the properties
  promise nothing after it that they do not promise with one.
* *Tokens.* Two redeems and a revoke compete for one code, a third redeem for
  another; two heartbeats and two kicks; one restart. `OneKind`: token requests
  and kick requests share no row or column.
* *Signaling.* `MaxQueue = 3` (the code's limit is larger) makes overflow
  happen; `MaxFaults = 2` allows a failure during the recovery of another.
  `QuietSecond` makes the second viewer the well-behaved one: it competes for
  queue places and numbers, the first has every transport and failure.
* *Grants.* One code per batch and three requests let two requests wait for a
  refill that serves one of them. `MaxEvents = 1` makes the log overflow.
  `MaxRare = 1`: one crash, shutdown, lost response, failed write or admin edit;
  refused mints, whispers and chat messages are unlimited. `MaxCodes = 3` bounds
  the server; a refill beyond it can only fail.
* *Host parts.* Channels of capacity 1 (frames, packets, commands) are full,
  empty and in between within a few steps; every operation on them looks at the
  oldest element and at whether there is room, nothing else. `StateBuffer = 4`
  with `LateStates = 1` is the least that `PeerAssumption` allows (the code has 8,
  that is, up to five late handlers of one state). `TwoLate` lets two handlers
  wait at a time, so that one overtakes the other, and `connState` fill up, while
  no input is on its way: handlers and input meet only in `closed`. Two frames
  are enough to be out of order. Two players, a buffer of two events and one
  failure of each kind fill the agent's channel and use both levels of retries.
  Three pictures of one or two slices, delimited or not, and every way to cut
  them; five segments, pages of up to three, two runs of ffmpeg. Bitrates 2..9
  with steps of 2 and a factor of 0.8 reach both ends. Two buffers let one be
  copied while the other is dequeued.
* Deadlock checking is off throughout: each of these models may come to rest
  when all calls are over or nobody does anything.

### Fairness

* `WatchFairness`: a session's deadline passes, its watcher runs. Go's `select`
  picks a ready case at random, so a done context that stays done is chosen
  eventually although the ticker competes: strong fairness of `WatchDone`.
* `GateFairness`: the gate goroutine runs and, by the same argument, takes a
  closed `done` channel eventually although commands keep coming.
* `SendFairness`: the send loop, time and the daemon make progress. Nothing is
  assumed of viewers, of the session manager or of the link staying up.
* `Fairness` of `Signaling`: the host's goroutines and each browser's callbacks
  run, as two schedulers would; failures, long-poll timeouts and viewers' actions
  are never forced.
* `Due` of `GrantPipeline`: the event loop does not idle for ever while a
  response, a timer or a continuation is due. Each call returns or fails; which
  of the two is open. Nothing is assumed of viewers or of the administrator.

* `VideoFairness`: every goroutine of the pipeline runs, ffmpeg dies when it is
  killed and exits at the end of its input, and a source whose context is done
  ends. Nothing is assumed of the device, of ffmpeg reading its input, or of
  anybody asking for a restart.
* `PeerFairness`: `runViewer` and the goroutines of the connection run, Pion
  runs its callbacks, gathering and posting return (the HTTP client has a
  timeout), and an authorization whose context or stream is over ends
  (`GateGoroutineExits`). Nothing is assumed of the viewer or of the network.

## 4. Theorems

Proved by TLAPS for every value of the constants.

`SessionManagerProofs`, from `ConstantsAssumption` only (any sets of calls and
viewers, any assignment of viewers to calls, any queue depth and policy):

* `TypeCorrect`: `Spec => []TypeOK`.
* `LineCorrect`: `Spec => []FifoAuthority`; `ReleaseCorrect`:
  `Spec => []ReleaseDropsItsEntry`. `FifoAuthority` alone is not inductive: a
  claim enters the line when its call is new, and that such a call is not
  there already follows from where each call is. `LineInv` is
  `TypeOK /\ FifoAuthority /\ CallInv`, where `CallInv` ties the program counter
  of a call to the entries it can own: a new call owns none, a finished one not
  its claimed entry.
* `GatesCorrect`: `Spec => []NoOrphanGate`; `ForwardCorrect`:
  `Spec => []ForwardOnlyWhileController`. `NoOrphanGate` says too
  little to be inductive when a viewer holds several entries: `GateInv` says that an open gate is registered on
  the very entry `findEntryLocked` returns for its viewer now, and that entries of one viewer
  leave in the order in which they arrived keeps it so. A goroutine that read `isActive` keeps
  being right because the viewer's open gate sits on the active entry, which
  `endSession` closes in the critical section in which it gives the slot away.

* `EndsCorrect`: `Spec => EndedOnItsOwnAccount`, an action property. The lemma
  `StepKinds` says what a step may do to the slot, the line, the timers and the
  events: an `endSession` of an entry that has a cause of its own (`Ends`), one
  of the few steps named there, or nothing. The next four theorems use it too.
* `IdleTimersCorrect`: `Spec => []IdleTimerOfControllerOnly`, inductive with
  `TypeOK`.
* `EventsOutCorrect`: `Spec => []NoSendOnClosedEvents`. `EventInv` adds that
  `eventsOut` is closed only when `stopped` is set, which `emitEvent` tests in
  the critical section in which it sends.
* `EventsTrue`: `Spec => []EventsTellTheTruth`. `Truth` says it of the calls
  (`granted` if and only if an entry of the call is active, in line only if
  `queued`), for viewers with one claim each; `endSession` tells both viewers in
  the step that moves control between them.
* `AuthorityImplemented`: `Spec => ImplementsAuthority`, the refinement of
  `ControlAuthority`. Holder and line are the manager's; a claim has been served
  when an entry of it has been started (`Served`). That nobody is served twice
  needs `WatchInv`: a call that is new or in line has had no session.

`InputPathProofs`, from `InputAssumption` (any number of viewers and commands,
any capacities, with and without a rate limit, failures and shutdown):

* `TypeCorrect`: `Spec => []TypeInv`, `TypeOK` with `WriteInv`: what `flush`
  writes is a command.
* `WakeupCorrect`: `Spec => []NoLostWakeup`, inductive with `TypeOK`: between
  the two halves of `push` the pusher itself is the one who will wake the loop.
* `NeutralCorrect`: `Spec => []NeutralAfterDrains`. The property speaks of the
  moment nobody drains; `NeutralDue` of all moments: the newest command on its
  way (`pending`, else what is being written, the socket, the console) is
  neutral, or somebody is still to push.

`TokenServerProofs`, from `TokenAssumption`: `TypeCorrect` (`Spec => []TypeOK`),
`RowsCorrect` (`Spec => []RowsConsistent`), `KickCorrect`
(`Spec => []KickNotLost`) and `RedeemIsFinal` (`Spec => RedeemedForGood`, an
action property). The inductive invariant is
`TokenInv == TypeOK /\ RowsConsistent /\ KickNotLost`.

`SignalingProofs`, from `SignalingAssumption` (any number of viewers and
failures, a queue of at least two messages; the code's is larger):

* `TypeCorrect`: `Spec => []TypeOK`.
* `HelloKept`: `Spec => []HelloNotLost`, with `PresenceInv`: a viewer that is not
  there yet, or has left, has no transport, no answer under way, and before its
  first hello no trace at the host. A wipe takes hellos only from viewers it records
  (`WipedStays`).
* `AnswersMatch`: `Spec => []AnswerMatchesPeer`. The property compares an answer
  on a peer with that peer's number; it holds because everything in the system
  that names a number for a viewer (`Mark`: offers and answers in the room or on
  their way, the session) names the same one, once the viewer can no longer be
  given another (`Early`), and because a hello the host will handle is never
  behind an answer (`Stale`). Offers purge hellos and answers of their
  viewer, which keeps this so through replays and restarts. It ends where a post
  that reported an error had stored its offer, as the property says.
* `OffersVisible`: `Spec => []OfferNotHidden`, for viewers no wipe has met. `SeqInv` says that the numbers of
  the host queue are distinct and that what a viewer has been sent reaches up to
  an unapplied offer only if that offer is part of it (`Sees`). It is needed that
  a queue that is full when an offer arrives keeps its last message, from which
  the offer is numbered (`CutKeepsLast`): that is what the bound of two is for.

`GrantPipelineProofs`, from `GrantAssumption` (any requests, users, policies,
batch size and watermark):

* `SavedCorrect`: `Spec => []SavedOrScheduled`, inductive as it stands.
* `DeliveredCorrect`: `Spec => []DeliveredToOne`. `CodeInv` follows a code through
  all places it can be in: it is in the pool once (`PoolOnce`) or with one
  request (`HeldOnce`), a user is concerned by it who has it, is about to get it,
  or awaits a queued whisper, and that is one user at most, and none while the
  code is in the pool (`OneUser`). A code that is not issued concerns nobody, and
  a bot that starts has nothing under way (`EmptyStart`).

`HostPartsProofs`, for `VideoPath`, from `VideoAssumption` (channels of any
capacity):

* `EncoderExclusive`: `VideoSpec => []OneSubprocess`. The invariant,
  `Between2Runs`, is the property with every helper named: nothing but
  `StartFFmpeg` brings the process or one of its goroutines up (`QuietStays`),
  and the encoder reaches a launch or its end only from there or through
  `TornDown`, which has waited for all of them (`EncoderMoves`).
* `RequestsAreApplied`: `VideoSpec => []RequestApplied`, inductive as it stands.
* `VideoTypes`: `VideoSpec => []VideoTypeOK`, that is, no channel holds more than
  it was made for, the put-back of `emitPacket` included.
* `KeyframesKept`: `VideoSpec => QueuedKeyframeKept`, an action property, from
  the lemmas about how many elements of a kind a channel holds (`CountAppend`,
  `CountTail`).

For `CaptureDevice`, from `DeviceAssumption`: `NoBufferLost`,
`DeviceSpec => []BuffersAccounted`. `DeviceInv` adds what `Start` has acquired at
each of its steps (`AcquiredInv`: the buffers queued so far are an initial
interval) and what each goroutine holds (`HoldersInv`).

For `AdaptiveBitrate`, from `AbrAssumption` (every configuration that
`normalise` can return): `IncreasesAreSafe`,
`AbrSpec => IncreaseAfterCleanWindow`, with
`AbrInv == AbrTypeOK /\ clean <= quiet`: the controller never takes a clean
stretch for longer than the link has been quiet.

For `SunshineAgent`, from `AgentAssumption`: `EndedKicked`,
`AgentSpec => EndedIsKicked`, an action property, under the hypothesis
`MaxErrors < HttpAttempts * (KickRetries - MaxRefused)`. Without such a bound
`handleEvent` gives up and the property is false: its retries are finite. The
hypothesis is what the two levels of retries bear: a refused call costs one
refusal, any other failed call `HttpAttempts` errors, and `KickPaid` says that
the failures so far paid for the calls so far, so that the last call cannot fail.
The run `host_parts` has the largest value of `MaxErrors` it allows.

For the seven parts and the server side by side (`MCHostParts`), from the assumptions of
each:
`HostImplementsParts`, every behaviour of `HostSpec` is one of each part's own
specification (a step of the composition is a step of one part and leaves the
variables of the others alone), so that what is proved of a part, or of the server
(`TokenServerProofs`), is proved of the system the run explores; and `HostTypes`,
`HostSpec => []HostTypeOK`, from it and the type theorems of the host's parts.

`ViewerConnProofs`, from `PeerAssumption` (any frames, authorizations and
buffers, that of the states holding three more than the handlers of one state that
may be late; the code's holds eight):

* `ClosesSafely`: `PeerSpec => NoSendAfterClose`, an action property, from
  `FlagFirst`: the peer is marked closed before its channels are closed.
* `PlaysInOrder`: `PeerSpec => InputInOrder`. `OrderInv` orders what was played,
  what a goroutine has in hand, the channel and the newest sequence number, and
  says that one authorization at a time reads (`OneReader`); the sequence gate
  alone would not do.
* `PeerTypes`: `PeerSpec => []PeerTypeOK`, every channel within its capacity.
* `LossesAreNoticed`: `PeerSpec => []DisconnectNoticed`. That a state was
  dropped by a full channel says nothing of the states it held. `StatesInv`
  counts: as long as no terminal state is in the channel, the ordinary states in it
  and on their way are two at most, and one more for every late handler of a loss
  (`Fits`), because each loss lets the connection come back once. So the first
  handler with a terminal state finds room, and whoever reads it stops waiting.

`DemuxProofs`, from `OggAssumption` and `SplitterAssumption` (streams of any
length, pages of any size, any number of runs of ffmpeg). Both loops are
recursive functions, and the theorems say what they compute for every input. The
induction is one over numbers, written as the search for a least counterexample
(`LeastElement`, `UpTo`, from `NatLessThanWellFounded` and `WFMin`). Before a
recursive definition can be used it is shown to have a solution (`WalkExists`,
`EmitExists`, `UpExists`, `StartExists`).

* `OggTypes`: `OggSpec => []OggTypeOK`, and `PacketsCorrect`:
  `OggSpec => []PacketsWhole`. `OggInv` says that what `partial` carries is the
  beginning of one packet of the run being read, up to the last segment read, and
  that all packets in the channel are whole, ordered and before it (`CarryInv`,
  `Ordered`). `WalkYields` follows the lacing values of one page with that
  invariant, `EmitYields` the drop of the headers and of the oldest packet when the
  channel is full. When ffmpeg dies in the middle of a packet, the next run
  starts with nothing carried.
* `SplitTypes`: `SplitSpec => []SplitTypeOK`, and `ChunkingCorrect`:
  `SplitSpec => []ChunkingInvisible`, where `Whole` is what is returned of a stream
  that comes in one chunk. `Boundary` is the closed form of the loop's rule. Every stream an encoder writes is
  well-formed (`StreamsWellFormed`: only slices begin a picture, and a delimiter
  has a slice before the next one). With k bytes read the splitter sees exactly the
  boundaries of the whole stream whose deciding byte is among them
  (`StartsAreReady`), and none of them is ever taken back. `SplitInv`: the
  buffer begins at a boundary of the whole stream, none whose slice was read lies beyond
  it, and what was returned is the whole stream's access units up to it; a chunk
  adds the units up to the next one (`BetweenSplit`), and `Flush` the last.

Only model-checked are the liveness properties (`QueueIsServed`,
`GateGoroutineExits`, `ConsoleReleased`, `Connects`, `RequestsEnd`,
`ShutdownCompletes`, `ViewerLeavesNothing`): fairness and `ENABLED` are beyond the
prover. Every other property that a passing run checks is stated by a theorem.

## 5. Findings

1. **A promoted viewer's `Release` does nothing** (`session.go:281`, run
   `session_release_frees_slot`). A viewer from the line that disconnects, after its
   promotion or just before it with `Release` still to come, keeps the slot until
   the JWT time or the idle timeout ends it.
2. **A held button may stay held at shutdown** (`target.go:261`, run
   `input_shutdown`). The send loop may return before it writes the neutral
   command; the daemon does not release buttons when its client goes.
3. **Two overlapping redeems of one code both get a JWT** (`server.go:495`, run
   `token_redeemed_once`).
4. **A viewer's message may not wake the host's long-poll** (`roomState.ts:113`,
   run `signaling_long_poll`), because numbering of the viewer queue restarts after
   a purge. In the trace it is the hello of a second viewer, numbered 0 again; an
   answer can meet the same.
5. **A later keyframe comes without its parameter sets** (`annexb.go:186`, run
   `annexb_keyframe`). Without access-unit delimiters (libx264) the SPS and PPS in
   front of a later IDR picture end the access unit of the picture before it; the
   comments at `annexb.go:9-11` and `164-166` say they "are folded into that
   picture's AU, so an IDR AU carries its own SPS+PPS".

Seen while modelling, without a run of their own:

* After shutdown the watcher's `endSession` still promotes the next in line, on
  a context nobody cancels (`session.go:503`, `563`; the comment at `379-381`
  says all sessions are cancelled).
* The `Context()` of a promoted viewer's `Session` is the cancelled placeholder
  (`session.go:561`; the comment at `597-599` says it is done when control is
  lost).
* A tick can be emitted after its session ended (`session.go:515-521`).
* A command taken by `poll` is gone when the write fails (`target.go:234-236`).
* Revoke answers 204 although a redeem came in between (`server.go:433`).
* A post that failed after its offer was stored can pair an old answer with a
  new peer; `AnswerMatchesPeer` excludes this case.
* The idle clean-up wipes a room although a viewer waits in it, if neither it nor
  the host was heard for ten minutes (`roomDO.ts:264-271`): its hello, which the
  page says once (`webrtc.ts:162`), is gone, and the next offer is numbered from 0,
  below what it may have seen. `HelloNotLost` and `OfferNotHidden` except it.
* Mode `dual` returns a code to the pool when the chat message fails although
  its whisper arrived or is still queued (`whisper.ts:85-95`); `pipeline.ts:72`
  says "Nobody received it". After a restart the pool also hands out codes that
  were delivered and not redeemed yet (`tokenPool.ts:36`). `DeliveredToOne`
  excepts both.
* Two overlapping requests of one user both pass the cooldown, which is recorded
  after delivery (`pipeline.ts:43`, `81`).
* `evaluate` never looks at a source's `enabled` flag (`policy.ts:55-85`; the
  comment at `index.ts:104-105` says the policy decides it).
* A per-stream cap above the log's 500 events is never reached
  (`grantStore.ts:70-72`, `102-104`).
* `emitPacket` puts a kept keyframe behind newer packets, and drops an incoming
  keyframe when the oldest packet is one (`encoder.go:446-470`, where the
  comment says "A keyframe must never be dropped").
* The error of `enc.Run` is discarded, and after ffmpeg has exited by itself
  `encoderWrapper.Run` waits for the tap until the host stops
  (`deps.go:299`, `316-319`): video does not come back.
* A driver that changes the frame size leaves `Source` with another size than
  ffmpeg was told, and every frame is skipped.
* Commands received before control is granted stay in `Peer.commands`, up to its
  buffer, and are played when it is.
* The bitrate controller and `OnKeyframeRequest` are not connected to any viewer
  by `runViewer`.
* The dequeuing goroutine may use a descriptor that `close` has set to -1.
* A retry of `ApprovePair` sends an empty form (`client.go:253`): the reader of
  the body is at its end.
* A save that fails is not tried again until the next grant
  (`grantStore.ts:126-132`).

## 6. Not modelled

* Cryptography and parsing (JWT verification is accept or refuse), routing,
  CORS, TURN credentials, user interface, metrics, configuration: stateless.
* What is inside the V4L2 driver, `ffmpeg` and Pion: environment.
* Frame geometry, encoder flags, codec detection, packet durations, axis values,
  the `WriteSample` flag that makes a track begin with a keyframe, frames with
  sequence number 0 from old pages: data no property tells apart.
* Registration, room creation and listings of the REST server: single
  statements.
* Subscribers' own event buffers, ICE candidates at the host (it ignores them),
  the untargeted offer of the room's old protocol (this host never sends it).
* The daemon's threads, the page's control events, the bot's EventSub connection:
  planned. (The daemon stores a status under its lock and sends it outside, so a
  client that connects meanwhile can be left with the older of two.) The bot's
  trigger parsing, OAuth and statistics: plain data and calls.

## 7. Plan

Done, in this order: session manager with its abstract specification; input
path; token server; signaling; first proofs; grant pipeline; media path, viewer
connection, agent, bitrate controller, demultiplexers, capture device; proofs of
all safety properties, the demultiplexers and the types of the host's parts last.
Next:

1. Proofs: for `EndedKicked`, a bound on refusals and errors per event
   instead of `MaxRefused` and `MaxErrors` in all.
2. `NxbtDaemon` threads and status replay, and the EventSub connection in front
   of `GrantPipeline` (migration to a new socket, duplicates).
3. The page's control events in the composition of `SessionManager` and
   `ViewerConn`.
