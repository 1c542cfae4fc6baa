# Live Stream Source: TLA+ models and proofs

Live Stream Source is an OBS plugin (C++) that shows a live stream as a source:
it connects to RTMP, SRT, HLS, Amazon IVS or WHEP, keeps a jitter buffer, plays
out against its own clock, reconnects, and can be steered from a dashboard.
This directory models the parts whose correctness hangs on threads, buffers and
order. `src/...` below stands for the plugin's source directory; PROJECT.json
gives the lines every definition stands for.

- [Inventory](#inventory): the parts, their state, how they interact
- [Modules](#modules): which module models what, and how
- [Runs](#runs): what TLC checks, with which bounds and fairness
- [Where the code and its documentation
  part](#where-the-code-and-its-documentation-part)
- [Proofs](#proofs): what holds for every value of the constants, and why
- [What is left out](#what-is-left-out) and [Plan](#plan)

## Inventory

A source owns up to six threads, besides the threads of OBS that call it:

    OBS / UI thread     start_stream, stop_stream, update, properties
    dashboard thread    handle_remote_command: refresh, skip to live
    worker_thread_      the read loop: read_packet -> ingest_packet
    connect_thread_     one per attempt, spawned and joined by the worker
    decode thread       packets_ -> decoders -> audio out, present_queue_
    present thread      present_queue_ -> obs_source_output_video
    (LL-HLS only)       playlist_thread_ and download_thread_ of the client

| Component | State | Operations | Hard behaviour | What makes it correct |
|---|---|---|---|---|
| Source lifecycle (`core/live-stream-source.cpp`) | `running_`, `connected_`, `connection_in_progress_`, `pending_refresh_`, `pending_skip_to_live_`, `first_frame_received_`, reconnect delay, two thread handles | start, stop, update, refresh, skip, attempt, read, drop | flags read one after the other; the abort flag raised by four and cleared by four callers; joins | one owner of the demuxer; stop reaches every blocked call and leaves nothing; refresh and retry happen |
| Stream demuxer (`media/stream-demuxer.cpp`) | FFmpeg context, `abort_`, LL-HLS client | open, read, close, request and reset abort | no lock; blocking calls with an interrupt callback | used by one thread at a time |
| Playout hand-off (`core/live-stream-playout.cpp`, `media/frame-queue.h`) | `packets_`, decoders, `present_queue_`, `playout_clock_`, `playout_generation_`, three mutexes | ingest, decode pass, present, `playout_reset()` | a reset against a pass and a submission that are under way | nothing of an old stream survives a reset; no deadlock |
| Packet buffer (`playout/packet-buffer.cpp`) | two queues, byte count, last times, pending jumps, gap | push, pop, drop, cut point, limits | gap detection from two streams that arrive skewed | accounting exact; a picture whose reference is missing is marked |
| Playout engine (`core/live-stream-playout.cpp`) | `run_`: phase, keyframe wait, priming, settling | fill, cut, feed, stall, refill, watchdog | decisions over the buffer, the clock and three timers | the decoder gets no picture without its reference; no stall for good |
| Clock, media timeline (`playout/playout-clock.h`) | anchor, rate segments; offset | anchor, rate, due time; unwrap | rate changes ahead of the reader; wraps and restarts | due times monotone and agreed on by audio and video |
| Recovery policy (`playout/recovery-policy.cpp`) | state, cooldown | step | hysteresis | no oscillation, latency comes back |
| LL-HLS client (`protocols/ll-hls/`) | `running_`, fetcher abort, request queue, ring buffer, two condition variables | start, stop, signal_stop, read, reload, download | five threads, three ways to block, two ways to stop | the byte stream is whole; every stop ends every thread |
| WHEP (`protocols/whep/`, worker in the source) | attempts, peer connection, decoders, timing anchors, time of the last media | start, stop, callbacks, watchdog, dummy picture | callbacks of a foreign library during stop and clean-up | decoders outlive callbacks; a stop leaves nothing; a frozen picture is noticed |
| Sync group (`playout/sync-registry.h`, `playout_update_metrics()` and what it calls) | configuration, what each source published, delay requests; per source its delay, shift and listening | listen, match, hold, shift, cut, edit | sources steer by each other's delay while both move | pictures line up; the group comes to rest |
| Overlays (`update_source_toggles()`, `drop_picture()`) | two debouncers, `first_frame_received_`, `ever_received_frame_`, which fallbacks draw | decide, drop, change of settings | two threads decide, a third changes the settings | no bare frozen picture; no gap between overlays |
| Fallback layer (`core/fallback-layer.cpp`) | per state its content, flags and animation; OBS's counts | configure, tick, render | content exchanged between ticks, drawn outside the lock | counts balance; what is wanted runs in the end |
| Stats server (`network/ws-stats-server.cpp`) | clients, send queue, handlers, references | accept, authenticate, command, send, configure, stop | a slow client; a handler's source destroyed; a restart with another key | no call into a gone source; a client catches up; every stop returns |
| Program preview (`network/program-preview.cpp`) | encoder, frame | encode, send | | |
| Sound match, decoders, stretcher, blur | sample and picture data | | numeric | |
| UI, settings, plugin entry | Qt widgets, files | | | |

Interaction. The UI thread and the dashboard thread reach the worker through
flags and through `demuxer_.request_abort()`; the worker joins the connect
thread, `stop_stream()` joins both. The reader (worker) hands packets to the
decode thread through `packets_`, the decode thread frames to the present
thread through `present_queue_` and the clock; `playout_reset()`, called by
worker, connect and UI thread in turn, cuts both. The decode thread's stall
watchdog calls back into the demuxer's abort. The demuxer owns the LL-HLS
client, whose ring FFmpeg reads through a callback on whichever thread is in
the demuxer.

Every hazard of this code is listed with its line in PROJECT.json, with the
properties that would catch it or the reason why none does yet.

## Modules

**StreamLifecycle** (with MCStreamLifecycle for its constants): the threads of
one source and their flags. A thread's control point is the value of one
variable (`ui`, `worker`, `conn`, `requester`); an action goes from one access
to shared state to the next, so every two reads of the worker loop that the code
does separately are separate. `WorkerTop` .. `WorkerBranch` are the head of
`worker_loop()`, `WorkerTakeRefresh` and the `rf` points its refresh branch, the
`sk` points skip to live, `Conn...` is `connect_thread_func()` with
`try_connect()`, `Start` is `start_stream()`, and `UiDeactivate`, `StopAbort` ..
`StopTeardown` are `stop_stream()`. `abortBy` is `abort_` with the memory of who
raised it (the properties ask that). The playout threads appear as far as they
touch the same flags: `play` says whether media is queued, whether the clock is
anchored and whether the run is stalled. "UI thread" is the OBS thread that
serialises activate, deactivate and update. `client` is the LL-HLS client of an
IVS open: not there, fresh, up, or told to stop. Its creation, the
`reset_abort()` in its `start()` and the rise of its `running_` are steps of
their own, since an abort that comes in between is lost; an IVS open may then
sleep until the server sends something, and nothing makes it end. Every other
open ends by its timeout or the interrupt callback. The protocol is fixed for a
behaviour; WHEP has a worker of its own and is not covered.

**PlayoutHandoff** and **FrameGate**: the road of a picture from reader to OBS.
A packet is its stream's era (resets before it) and a position, so "old" can be
said. `ResetWant` .. `Reopen` are `playout_reset()` mutex by mutex,
`DecodeThread` is one pass of the decode loop, `PresentThread` the present loop
with its look, wait, pop and submit. FrameGate is the promise: a frame is taken
only while its stream is current and then shown or dropped. PlayoutHandoff
implements it (`Gate == INSTANCE FrameGate WITH ...`, PROPERTY ImplementsGate).

**PacketBuffer** and **PlayoutFeed**: PacketBuffer gives every member function
of the jitter buffer as an operator from buffer to buffer (the code runs them
under one mutex). PlayoutFeed puts a reader in front, from whose stream content
goes missing, and the decode thread behind, which fills, cuts, skips and feeds.
A picture also carries the encoder's number and why content before it is
missing: truths the code does not see and the properties compare with. `smear`
collects why the pictures that were decoded without their reference had none:
a gap that both streams showed, the limits, or a jump of one stream only, which
the buffer cannot tell from a pause.

**LLHlsClient**: the LL-HLS client: owner (create, start, read, stop), a thread
in `signal_stop()` at any of these points, playlist thread, download thread,
server. A part is its number
in the stream and takes one unit of the ring. A thread in a condition variable
stays until it is notified, so a forgotten notification is a deadlock. The
module holds the three kinds of playlist the code handles.

**StatsServer**: the dashboard server. `Controlling` is whoever holds
`ref_mutex_` (`add_ref()`, `release()`, `configure()`, and `stop()` join by
join), `Serving` the server thread with one frame of a client at a time,
`Sending` the sender with its copy of the client list, `Owners` the sources and
the panel that register handlers, are renamed and destroyed. A socket may come
back once it was closed, as its number may.

**StatsFeed**: what goes through that server's send queue. Each publisher
writes its part, composes the whole state, looks at the number of clients and
pushes, as four critical sections, so that frames may be queued in another order
than they were composed in; the queue drops its oldest at its capacity. The
sockets of StatsServer are an audience here.

**WhepSession** (with MCWhepSession): `w` is the control point of
`whep_worker()`, `cb` that of a callback under `cb_mutex_`. The library calls
back with media and state changes whenever it likes. The watchdog's clean-up is
one action per store, since callbacks write the same variables, and without the
mutex; the anchors of the sound are checked, read from those of the video and
stored in three steps.

**SyncGroup** (with MCSyncGroup): the registry and, for each source, the round
its decode thread makes: request, steering, shift, listening. Delays are counted
in units larger than the code's tolerances. What two sounds matched is the true
difference on screen at that time, as `OnScreen` says; whether they match is
left open. `lined` remembers the followers whose match met nothing in motion,
`overtaken` those whose match stored a target that was still to be made.

**Overlays**: `Look`, `Judge`, `Ask` and `Decide` are `update_source_toggles()`,
run by two threads under one mutex: the connection, the flags of the stream, and
the two places where it reads which fallbacks draw. A debouncer is one of five
values, since only whether its delay has passed matters. `Update`,
`ApplyDisconnect`, `ApplyLoading`, `Uncover` and `Restart` are `update()` as far
as it touches the fallbacks and asks for a new connection; `Lose` ..
`WorkerDrops` what the worker does about a lost connection, `TakeRefresh` ..
`RefreshEnds` its refresh branch, which clears `first_frame_received_` and keeps
the picture, `Skip` and `SkipEnds` skip to live. `left` says that a refresh has
kept a picture and nobody has looked at it since, `raced` that a first frame
came during a change of the settings, `news` what was stored while the overlays
were being decided.

**FallbackLayer**: `Configure` .. `Install` are `configure()` in the pieces
between which it lets go of the mutex, `Tick`, `Draw` and `Drawn` the graphics
thread. A content is a number with OBS's three counts of it. `Show` is what
Overlays decides, and stands for any decision.

**StreamLifecycle_proofs**, **PlayoutHandoff_proofs**, **PlayoutFeed_proofs**
(with the lemmas on PacketBuffer), **LLHlsClient_proofs**,
**StatsServer_proofs**, **WhepSession_proofs**, **Overlays_proofs**,
**FallbackLayer_proofs**: the theorems.

## Runs

All state spaces are explored completely.

| Run | Module | What it asks | Result |
|---|---|---|---|
| lifecycle_refresh | StreamLifecycle | activate, deactivate, update and refresh against all threads: TypeOK, StoppedIsQuiescent, DemuxerExclusive, RefreshDone, AttemptsGoOn | holds, 386,675 states |
| lifecycle_skip | StreamLifecycle | activate, deactivate and skip: StopHeard, WatchdogSparesNewConnection, StopCompletes, SkipTaken | holds, 406,959 states |
| handoff_reset | PlayoutHandoff | a reset at any point: TypeOK, BuffersAreCurrent, SubmitEndsBeforeReset, AtMostOneStray, ResetReturns, ImplementsGate | holds, 159,070 states |
| feed_gaps | PlayoutFeed | one loss, pauses of the sound, stalls, cuts, overflow: WithinLimits, NoSmearAfterGap, CutsPastGaps | holds, 212,414 states |
| llhls_stream | LLHlsClient | failing requests, moving window, full ring, interrupts: TypeOK, WaitsForMissing, StreamIsWhole, SignalEndsThreads, StopCompletes | holds, 734,927 states |
| stats_server | StatsServer | clients, commands, renames, restarts with a key: TypeOK, SendsToOpenSockets, NoCallIntoTheGone, KeyIsCurrent, StopReturns | holds, 375,800 states |
| stats_feed | StatsFeed | dropped and reordered frames, clients that join and leave, a restart: PanelCatchesUp | holds, 746,464 states |
| whep_session | WhepSession | every mode, a stop at any point, media and state changes at any time: DecodersOutliveCallbacks, EndsClean, FrozenIsNoticed, StopEnds | holds, 248,356 states |
| sync_group | SyncGroup | two presses, a press and an edit or two edits, in any order and either mode, a follower ahead, level or behind: LinesUp, SettlesUnlessOvertaken | holds, 244,862 states |
| overlays | Overlays | a change of settings, a refresh, a skip, any flapping of the stream: NoBareFrozenPicture, HandsOver | holds, 7,149,924 states |
| fallback_layer | FallbackLayer | three changes of settings against ticks and draws: CountsBalance, EndsInPlace | holds, 261,708 states |
| llhls_stop | LLHlsClient | one sentence of the repository: StopAlwaysCompletes | violated, [see below](#where-the-code-and-its-documentation-part) |

Every property has a mutant in PROJECT.json: a definition changed the way a bug
would change the code, with which TLC finds the property violated. The
definitions named "What-if" in the modules are those changes. TypeOK of the
modules whose run does not list it is stated for the proofs.

Bounds, and why they are enough.

- StreamLifecycle needs none: every variable is a flag or a control point.
  Refresh and skip are in separate runs because together they multiply the
  states by ten; they share only the abort flag, which both runs and the proofs
  (which fix no set of commands) cover.
- PlayoutHandoff: `MaxEra` 2 lets a frame meet the stream after the next one,
  `MaxMedia` 3 lets frames queue, be decoded late and be superseded,
  `MaxFrames` 1 lets the queue be full while a frame is held. `Delay` 1 lets
  the decoder hold a picture back.
- PlayoutFeed: times are steps; a loss (2) and a pause are longer than the gap
  threshold (1), the pairing window (2) covers the muxer's skew (2), as
  GAP_MATCH_US does in practice. Media time up to 6 leaves room for a loss, its
  pairing and the cut after it, and reaches `MaxSpan` and `MaxBytes`.
- LLHlsClient: `Window` 1 lets reloads miss parts, `Capacity` 1 fills the ring
  with one part, `MaxErrors` 1 ends the playlist thread, three parts allow a
  delivered, a queued and a lost one. Prefetch URLs and preload hints are the
  two kinds of playlist that differ most; plain parts are hints without the
  hint. The inductive invariant was explored with window and capacity 2 and
  four parts as well.
- StatsServer: two sockets of which one is local, room for one client, one
  source with two names, one key besides none. One of each is enough to meet
  each of the others: a client refused because of another, a source that leaves
  with a command under way, a socket that comes back while a delivery to it is
  pending.
- StatsFeed: one client, one source, two broadcasts at once, and a queue of one
  frame: every push may drop the frame before it.
- WhepSession: two instants tell an anchor from the one before. All else is a
  flag or a control point.
- SyncGroup: one follower whose path is shorter by one, as long, or longer by
  two units, a target of 2 above a floor of 1, so that it can reach the main
  source or has to ask it to wait; two uses of the button, or one and an edit,
  or two edits, in any order and at any point of the rounds. Two uses and an
  edit together are beyond LinesUp (divergence 12).
- Overlays: one change of settings, which may ask for a new connection and so
  brings the refresh, meets each step of a loss, a refresh and a skip. The
  proofs are for any number.
- FallbackLayer: three changes for two layers exchange content twice, an
  animation takes two ticks, and three contents are as many as there can be at
  once for them.

Fairness, and why the code justifies it. Weak fairness of each thread: the
operating system schedules a thread that can go on, and blocking calls end, by
their own timeout or by the interrupt callback when the abort is up. The one
call that has neither is the LL-HLS client's `read()` in an IVS open: it ends
when the server sends something or `signal_stop()` reaches it, and no fairness
is assumed of the server. RefreshDone and StopCompletes therefore begin with
OpensReturn: no thread sleeps for ever in an open that no abort has reached.
StopStaysResponsive is StopCompletes without it, and is violated. A delay
elapses, a queued OBS task is run. In PlayoutHandoff taking `decoder_mutex_` in
a reset is strongly fair: `std::mutex` promises nothing, but a reset runs on
the thread that feeds the decode thread, so during it passes run out of packets
and leave the mutex free for the 2 ms they sleep. In StatsServer the waits of
the server thread end by their own timeouts; nobody makes the address free. In
WhepSession the worker's wait for `cb_mutex_` and for the last callback is
strongly fair, as a library thread cannot hold the mutex for ever by calling
again. In SyncGroup a source plays on between two of its rounds (strongly fair,
since each round interrupts it). In FallbackLayer OBS runs UI tasks and comes
back to tick after it has drawn. Nothing is assumed of users, clients and
servers, or, in StreamLifecycle, of the playout threads. So AttemptsGoOn does
not say that a server answers, only that it is asked.

Provisos. Each leaves out a history that the code has and for which the
property is false; the property without it is in the list below.
`~doubled`: no attempt was started on a live connection (divergence 1).
DemuxerExclusive has it only where worker and connect thread meet; the reset of
a refresh and the teardown of a stop have the demuxer to themselves without it.
`~renamed` (StatsServer): a source kept its name (10). `~raced`: in WhepSession
no media came while the watchdog cleared up (11), in Overlays no first frame
came during a change of the settings (13). `lined` (SyncGroup): the match met
nothing in motion. `overtaken`: a match stored a target not yet made (12).
`news` (Overlays): settings were stored while the overlays were being decided
(14). `left` is of another kind: a refresh keeps the picture on purpose ("so the
picture stays up", `live-stream-source.cpp:1089`), and the property asks for a
cover again once anything has looked at it.

Liveness worth a word: RefreshDone and SkipTaken name every way out the code
has (a stop, an update that takes the flag and raises it again, a lost
connection), because each is a real path and not a convenience of the model.
SignalEndsThreads says that one call which joins nothing unblocks a reader, a
download and a reload wherever they sleep.

## Where the code and its documentation part

Properties that state what a document or comment says and that TLC finds
violated. llhls_stop (9) has a run, and a finding in PROJECT.json. Each of the
others is stated in its module and was found violated with the constants of that
module's run, or with those named here; adding it to the cfg shows the sequence.

1. `RetryOnlyWhenDown` (StreamLifecycle, `live-stream-source.cpp:989`). README:
   retry on connection failure. The worker reads `connected_`, then
   `connection_in_progress_`. An attempt that succeeds in between is followed by
   another, which closes the connection just made.
2. `StopStaysResponsive` (StreamLifecycle, `ll-hls-client.cpp:163`).
   stream-demuxer.cpp: "Stop stays responsive through the interrupt callback".
   An IVS open sleeps in `read()`, which knows no interrupt callback and no
   timeout. A stop whose abort came before the client was there, or before
   `start()` raised `running_` again, joins a thread that sleeps until the
   server sends something.
3. `StopHeardBySkip` (StreamLifecycle, `live-stream-source.cpp:1068`). The same
   sentence. Skip to live clears the abort without looking at `running_`: a stop
   that came first waits for a whole open.
4. `SkipKeepsPicture` (StreamLifecycle, `:2137`). The worker loop: "this isn't a
   disconnect, so the picture stays up". The abort of a skip already served ends
   the connection the skip made, and is taken for a disconnect.
5. `ResetIsBarrier` (PlayoutHandoff, `live-stream-playout.cpp:1233`). "On return
   no frame from before the reset can reach OBS". The frame the present thread
   already held is submitted once the next stream's clock is valid.
   AtMostOneStray shows that it is never more than one.
6. `NoSmearAfterGap` with `Pauses = {"video", "audio"}` (PlayoutFeed,
   `packet-buffer.cpp:140`). "Content is only missing when both streams jumped
   at the same point". The jump of a static scene waits unpaired and then pairs
   with the audio side of a real loss, so the picture after the loss is not
   marked and is decoded without its reference.
7. `LimitsCutAtKeyframes` (PlayoutFeed, `packet-buffer.cpp:182`). "Keep going to
   the next keyframe, a partial GOP can't be decoded". Where no keyframe is
   queued the limits empty the queue and leave no mark, and the rest of that
   group of pictures, which arrives next, is decoded.
8. `EveryPartOnce` (LLHlsClient, `ll-hls-client.cpp:516`). "Dropping corrupts
   the TS byte stream", and so does repeating: the part of a preload hint is
   queued without moving the position, and again by the reload that lists it.
9. **llhls_stop**: `StopAlwaysCompletes` (LLHlsClient, `ll-hls-client.cpp:289`).
   "Call stop() to fully shut down". When the init segment cannot be fetched the
   playlist thread takes `running_` down and notifies nobody; `stop()` then
   finds nothing to stop, notifies nobody either, and joins a download thread
   that sleeps. StopCompletes shows that this is the only case: a stop that
   finds the client running comes back.
10. `NoCommandIntoTheGone` (StatsServer, `live-stream-source.cpp:125`).
    ws-stats-server.cpp:419: "a source waits here on its way out, so a command
    can't run into one that's already gone". A source registers under each name
    it has, and its destructor unregisters the last one only.
11. WhepSession, `live-stream-source.cpp`: `AudioOnVideoBase` (`:2632`), "Reset
    PTS anchors so re-connection starts fresh": the watchdog zeroes the anchors
    without `cb_mutex_`, between an audio callback's load of the video's base
    and its store, and the sound keeps the base of the time before.
    `NothingStaysFrozen` (`:2853`), "Check if video stream stalled": a picture
    that comes while the watchdog clears up loses the time the watchdog goes by,
    and stays. `VideoTimedFromFrame` (`:2629`), "Use RTP-anchored PTS directly":
    audio that comes first sets the base of the video but not the RTP time it
    stands for.
12. SyncGroup, `live-stream-playout.cpp`: `GroupSettles` (`:530`), "This change
    has been dealt with above, in its own way": in the mode Fixed a match that
    meets an edit not yet made stores it as made, and with the pictures side by
    side nothing moves. `LinesUp` with `SavedDelay <- Sooner` (`:672`), "The
    delay asked for is a total": with a negative main delay the total is at most
    what a fresh request starts from, or zero, and is dropped, while the
    follower counts on it. `LinesUp` with two presses and an edit (`MaxAsks =
    3`) in the mode Fixed, for the reason of GroupSettles: what the second match
    took for made is missing from the pictures in the end.
13. `UpdateUncovers` (Overlays, `live-stream-source.cpp:248`). "Clear what's on
    screen if nothing is left to draw while the stream is down". `update()` asks
    what covers the picture before the first frame, the stream comes and is lost
    during the update, and the picture stays with nothing over it.
14. `StaysCovered` (Overlays, `:1773`). "Loading comes in as disconnect goes
    out, with no gap between them". The overlays read `loading_fallback_` twice;
    turned off in between, it is neither handed over to nor waited for, and
    disconnect goes out though its fallback is there.

Read off the code while modelling, and not stated as a property: loading and
disconnect may be shown at once when the grace period is shorter than the least
time loading stays (the comment at `live-stream-source.cpp:1779` says
otherwise); `toggle_source_visibility()` counts the users of a scene item under
a lock and queues the UI task after it (`:1826`), so two tasks may be queued in
the wrong order; `stop_stream()` hides only the loading item.

## Proofs

All proofs use `Init` and `[Next]_vars` of `Spec`, and no fairness. The only
assumptions are the modules' own ASSUMEs on their constants, which TLC
evaluates in the passing runs. Each proof finds an inductive invariant,
shows `Init => Inv` and `Inv /\ [Next]_vars => Inv'` with one step per action,
and ends with one temporal step. Every invariant was first checked by TLC. Every
invariant and every action property of the passing runs is proved, for all
values of the constants.

**StreamLifecycle_proofs.** `LifecycleInv` = TypeOK with ClientInv (only an IVS
stream has a client), StopInv, OwnerInv, AbortInv. StoppedIsQuiescent is not
inductive: that nothing is left when `stop_stream()` returns needs to be known
at each of its joins (StopInv: after joining the worker no connect thread can be
spawned, and so on). DemuxerExclusive needs OwnerInv, which ties the control
points of worker and connect thread to `connected_`, `connection_in_progress_`
and whether the handle is joinable; its first two conjuncts, the reset of a
refresh and the teardown of a stop, are proved without `~doubled`. StopHeard
needs AbortInv: who may have cleared the flag since the stop.
WatchdogSparesNewConnection needs WatchdogInv on top: the watchdog cannot fire
while an attempt is under way, because the reset of the connection before left
the playout threads calm (nothing queued, nothing playing) and only a read of a
connected stream could wake them. Theorems: TypeCorrect, InvCorrect,
StopIsQuiescent, DemuxerHasOneOwner, StopReachesBlockedCalls, WatchdogSparesNew.

**PlayoutHandoff_proofs.** `HandoffInv` = OwnersInv (who holds which mutex at
which control point), ResetInv (what a reset has emptied so far), RunInv (a
pass that notices the generation has flushed), BuffersAreCurrent, StrayInv,
BoundInv. BuffersAreCurrent alone is not inductive, since a pass could put a
picture of the old stream into the queue: RunInv shows that it flushed its
decoder first. Theorems: HandoffCorrect, TypeCorrect, BuffersStayCurrent,
SubmitsEndBeforeReset, StraysAreBounded, HandoffImplementsGate (initial states
map to initial states, every step to a step or a stutter of the gate).

**PlayoutFeed_proofs.** First lemmas on the operators of PacketBuffer: Min and
Max choose what they say; whatever takes packets out of the buffer is
`Dropped(b, i, j)`, so that order, marks, accounting and limits are kept by one
argument; `confirm_gap()` marks the picture at the video's jump and no other;
`enforce_limits()` takes whole groups of pictures, or all of them, and the
limits hold after it. `FeedInv` = BufferInv (InOrder, GapsMarked, Counted,
Limited) and ReaderInv (what the buffer remembers of the encoder). CutsPastGaps
needs GapsMarked: a marked picture lies at the newest gap or before it, and
once the gap was passed only the first picture can be marked. That in turn
needs the order of times, which needs ReaderInv.

NoSmearAfterGap needs `SmearInv`. ChainInv: each picture in the queue follows
the one in front of it, the first follows what the decoder has, and the last is
what the encoder sent last; or something is known to be missing, or a keyframe
is awaited. LossInv: a picture behind a loss is marked or waits for the audio to
show the loss. Its step is the heart of the proof: whichever stream shows the
loss second, its jump lies within the muxer's skew of the first, so
`confirm_gap()` pairs them. The theorem assumes `SteadyStream`: the video does
not pause, and `MaxSkew <= GapMatch`. Both hold in the run; without the first
the property is false (divergence 6), and without the second the buffer does not
pair the jumps of one loss. Of pictures that the limits have orphaned the
theorem says nothing (divergence 7). Theorems: Invariance, TypeCorrect,
LimitsHold, CutsLeaveNoGap, SteadyStreamNotSmeared.

**LLHlsClient_proofs.** Two layers. `ClientInv` = TypeOK, ThreadsInv (which
control points go together: a thread exists only with its client, the
playlist's position is known once threads run) and WaitsForMissing. `StreamInv`
adds the data: RingInv (what is in the ring continues what FFmpeg has read, in
order, with only lost parts between), FlowInv (the requests in the queue and
the one in the download thread's hands continue the ring; QueueInv and LinkInv
say how), ControlInv (a client that is not there holds nothing). The property
StreamIsWhole speaks of one read; it takes the whole chain from playlist to
ring to know that the next part in the ring is the right one: a reload must
continue the last request, the last request the part under download, that part
the ring. The ordering is stated for every window, capacity, and length of
stream, and for all three kinds of playlist; with preload hints it allows a part
twice in a row, as the code does (divergence 8). Theorems: TypeCorrect,
NoWakeUpIsLost, StreamCorrect, StreamStaysWhole.

**StatsServer_proofs.** `ServerInv` = TypeOK, RefInv (the count is exact, and
whoever is on its way out holds no reference), StopInv (how far `stop()` has
come), BatchInv (which frames the server thread has in hand), SocketInv, CallInv
and KeyInv. SendsToOpenSockets needs that who closes a socket has taken it off
the list, and closes none while a delivery is under way. NoCallIntoTheGone needs
to know what every handler's owner is, not only the one being called. TypeOK is
a theorem of its own here, as it holds the limit on clients and the range of the
reference count: that the count never falls below zero needs RefInv, with
cardinalities. KeyIsCurrent needs StopInv, because a new key is only taken when
no thread is left. Theorems: Invariance, TypeCorrect, SenderKeepsToOpenSockets,
CallsFindTheirSource, OnlyTheCurrentKey.

**WhepSession_proofs.** `SessionInv` = TypeOK, StopInv, PeerInv (the connection
goes with the worker), MediaInv and CleanInv. DecodersOutliveCallbacks
needs MediaInv: media is on its way only through a session, and the decoders are
there from before it until after it; the last wait for the callback in `stop()`
carries it over the end of the session. EndsClean needs CleanInv for every point
outside a session, and PeerInv, since a late callback shows nothing without a
connection. Theorems: Invariance, TypeCorrect, CallbacksHaveDecoders,
WorkerEndsClean, for any modes, kinds of media and instants.

**Overlays_proofs.** `OverlaysInv` = TypeOK, StreamInv and LookInv. StreamInv:
OffInv (a source that is off has no picture and no thread at work for it),
FedInv (no submission is under way once the playout was reset), EverInv (a
picture is a frame that was noted), CoverInv (`was_covered` is still true while
the settings change) and PictureInv. NoBareFrozenPicture speaks of moments when
worker, present thread and `update()` rest; PictureInv says the same of every
other moment when none of them is on its way to look at the picture, and
CoverInv carries it over the change of the settings. LookInv says what
`update_source_toggles()` still knows after each of its reads: what was judged
fits the flags of the stream, and the settings as long as nothing was stored.
HandsOver follows from it by going through what can end a disconnect overlay.
Theorems: Invariance, TypeCorrect, NoFrozenPictureIsBare, OverlaysHandOver, for
any number of changes of the settings, with or without a grace period.

**FallbackLayer_proofs.** `LayersInv` = TypeOK, TaskInv (the layer that
`configure()` works on has no content in the meantime), ApartInv (each content
has one owner, a layer or `configure()`) and CountInv (each of OBS's counts is
what the owner's flag says, and a reference more for what is drawn).
CountsBalance only bounds the counts; to know that a release takes back what was
counted, the counts must be known exactly, and that needs the single owner.
Theorems: Invariance, TypeCorrect, CountsStayBalanced, for any layers, kinds,
contents and number of tasks.

Assumptions of note, all justified by the code: `GapThreshold` is positive
(GAP_THRESHOLD_US is 500000), so one step of a stream is no jump; `Loss >
GapThreshold`, as a shorter loss is no gap to the buffer; there are finitely
many sources.

Only model-checked: all liveness (the prover has no reasoning about fairness and
enabledness), that is RefreshDone, AttemptsGoOn, StopCompletes, SkipTaken,
ResetReturns, SignalEndsThreads, StopReturns, PanelCatchesUp, FrozenIsNoticed,
StopEnds, LinesUp, SettlesUnlessOvertaken and EndsInPlace; the type invariants
of StatsFeed and SyncGroup, which have no theorem.

## What is left out

- StreamLifecycle: WHEP's worker; the HLS branch of the read loop (retry at the
  end of a playlist); the data race on `url_` and `stream_type_` in `update()`;
  overlays and remote settings.
- PlayoutHandoff: clock values, lateness, priming and settling; sound, but for
  anchoring the clock; `playout_cut()` and its fade, and a pause's clock reset
  against a computed due time.
- PlayoutFeed: media times that wrap or step back (MediaTimeline); a loss
  before the first sound; a loss followed at once by a pause of the same
  stream; a skew between the streams beyond the pairing window. In all of these
  the buffer cannot tell a loss from a pause.
- LLHlsClient: lengths of parts and a part that spans several ring writes;
  truncated bodies (the fetcher takes them for success); a playlist that goes
  back; requests of one reload are queued in one step (the code takes the queue
  mutex for each); a `request_abort()` that overlaps the destruction of the
  client.
- StatsServer and StatsFeed: HTTP, handshake and frame parsing beyond what they
  decide; preview frames; `stop_remote()` in StatsFeed; timeouts of clients
  that never prove themselves are a choice of `Round`.
- WhepSession: HTTP signalling (a step that succeeds or fails), gathering and
  its callback; decoding; keyframe requests themselves.
- SyncGroup: the sound match itself; staleness of a source that went away;
  start handlers; stalls and cuts for a backlog of seconds; the panel's
  read-modify-write of the configuration.
- Overlays: low bitrate, which shows only where both other overlays are down;
  scene items of older settings and their UI tasks, the blur, and frames that
  outlive a reset (PlayoutHandoff).
- FallbackLayer: the background (counted like the content), the destructor,
  animation curves, and what is drawn.
- Components without a module are listed in PROJECT.json with the reason:
  numeric code, Qt dialogs, registration, file formats, or planned below.

## Plan

Done: (1) StreamLifecycle with proofs; (2) PlayoutHandoff over FrameGate with
proofs; (3) PacketBuffer and PlayoutFeed with proofs; (4) LLHlsClient with
proofs; (5) StatsServer with proofs and StatsFeed; (6) WhepSession with proofs;
(7) SyncGroup; (8) Overlays and FallbackLayer with proofs.

Next, in this order:

9. PlayoutClock and MediaTimeline as functions over small segments: due times
   monotone, the inverse of media position, wraps and restarts. Then the
   engine's phases (prime, settle, refill, watchdog) with RecoveryPolicy, over
   PacketBuffer: no stall for good, no oscillation.
10. Program preview on the pattern of StatsServer; the audio timeline; the HLS
    worker path.

Proofs to come: what the liveness of StatsFeed and SyncGroup rests on (what is
queued is never newer than what was composed; a pending request is never lost);
in StreamLifecycle, that a sleeping thread is always waited for by somebody who
can wake it, the safety half of StopCompletes.
