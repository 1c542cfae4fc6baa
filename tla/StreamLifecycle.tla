-------------------------- MODULE StreamLifecycle --------------------------
(***************************************************************************)
(* The threads of one source and the flags they share: the UI thread that  *)
(* starts, stops and updates it, the worker that reads the socket, the     *)
(* connect thread the worker spawns for every attempt, a requester (the    *)
(* dashboard's command thread or a property button) and the playout        *)
(* threads, as far as they touch the same flags.                           *)
(*                                                                         *)
(* A thread's control point is the value of its variable; one action goes  *)
(* from one access of shared state to the next.  Packets, decoders and     *)
(* timestamps are abstracted: "queued" says whether media waits to be      *)
(* played, "clock" whether the playout clock is anchored.  The stream's    *)
(* protocol is not WHEP, whose worker is a loop of its own.  An Amazon IVS *)
(* stream is opened through the LL-HLS client, of which this module knows  *)
(* whether it is there and whether signal_stop() has reached it.           *)
(***************************************************************************)
EXTENDS Naturals, FiniteSets

CONSTANTS
  Kinds,      \* stream types to start from, a subset of AllKinds
  Commands    \* what users may ask for, a subset of AllCommands

AllKinds == {"standard", "hls", "ivs"}
AllCommands == {"activate", "deactivate", "update", "refresh", "skip"}

ASSUME LifecycleAssumption ==
  /\ Kinds \subseteq AllKinds
  /\ Commands \subseteq AllCommands

VARIABLES
  kind,           \* stream_type_, one choice for the whole behaviour
  ui,             \* control of the UI thread
  worker,         \* control of worker_thread_
  conn,           \* control of connect_thread_: "none" when not joinable
  requester,      \* control of the thread that asks for skip-to-live
  active,         \* active_
  running,        \* running_
  connected,      \* connected_
  inProgress,     \* connection_in_progress_
  pendingRefresh, \* pending_refresh_
  pendingSkip,    \* pending_skip_to_live_
  updateQueued,   \* obs_source_update waits in the UI task queue
  firstFrame,     \* first_frame_received_
  open,           \* demuxer_.is_open()
  client,         \* llhls_client_: "fresh" until start() has raised running_,
                  \* "told" once signal_stop() has taken it down
  abortBy,        \* who has raised demuxer_.abort_ since it was last cleared
  readErr,        \* why the last read_packet returned an error
  backoff,        \* the reconnect delay has not elapsed
  doubled,        \* history: an attempt was started on a connected stream
  play            \* the playout threads and what they hold

vars == <<kind, ui, worker, conn, requester, active, running, connected,
          inProgress, pendingRefresh, pendingSkip, updateQueued, firstFrame,
          open, client, abortBy, readErr, backoff, doubled, play>>

life == <<active, running>>
asked == <<kind, requester, updateQueued>>
control == <<ui, life, asked>>
pending == <<pendingRefresh, pendingSkip>>
attempt == <<conn, inProgress, backoff, doubled>>
demuxer == <<open, client, abortBy, readErr>>
screen == <<connected, firstFrame, play>>

UiPoints == {"idle", "signal", "signalAbort", "signalClient", "abort",
             "stopClient", "joinWorker", "joinPlayout", "joinConnect",
             "teardown"}
WorkerPoints == {"off", "top", "take", "rfAbort", "rfSignal", "rfJoin",
                 "rfReset", "rfPicture", "rfClear", "down", "spawn", "skip",
                 "skReset", "skClear", "skCreate", "skStart", "skProbe",
                 "skOpen", "readCall", "reading", "failed", "dropReset",
                 "dropPicture", "exited"}
ConnPoints == {"none", "check", "close", "create", "start", "probe", "open",
               "opened", "finish", "fail", "end", "done"}
ClientStates == {"none", "fresh", "up", "told"}
Requesters == {"user", "skip", "watchdog"}
Playout == [alive : BOOLEAN,      \* the decode and present threads run
            stale : BOOLEAN,      \* the generation moved on without run_
            phase : {"starting", "playing", "stalled"},
            requested : BOOLEAN,  \* run_.reconnect_requested
            queued : BOOLEAN,     \* packets_ has data
            clock : BOOLEAN]      \* playout_clock_.valid()

\* uses_playout()
UsesPlayout == kind = "standard"

\* What-if: every HLS stream is opened through the client.
UsesClientForHls == kind # "standard"

\* is_ivs
UsesClient == kind = "ivs"

aborted == abortBy # {}

\* PlayoutRun{}, packets_ empty and the clock invalid
FreshPlayout(alive) ==
  [alive |-> alive, stale |-> FALSE, phase |-> "starting",
   requested |-> FALSE, queued |-> FALSE, clock |-> FALSE]

\* What-if: the anchor survives a reset.
PlayoutResetKeepsClock ==
  play' = [play EXCEPT !.queued = FALSE, !.stale = play.alive]

\* What-if: the generation counter is not bumped.
PlayoutResetKeepsGeneration ==
  play' = [play EXCEPT !.queued = FALSE, !.clock = FALSE]

\* playout_reset(): it holds every mutex of the playout threads throughout,
\* so to them it is one step.
PlayoutReset ==
  play' = [play EXCEPT !.queued = FALSE, !.clock = FALSE, !.stale = play.alive]

\* What-if: the flag only reaches a read that is already blocked.
AbortOnlyABlockedRead(who) ==
  abortBy' = IF worker = "reading" THEN abortBy \cup {who} ELSE abortBy

\* demuxer_.request_abort() raises abort_ ...
RequestAbort(who) == abortBy' = abortBy \cup {who}

\* ... and then calls signal_stop() on the client, if there is one by now.
TellClient == client' = IF client = "none" THEN "none" ELSE "told"

\* demuxer_.close(): joins the client's threads and destroys it
CloseDemuxer == open' = FALSE /\ client' = "none"

\* What-if: somebody else's thread is not waited for.
JoinForgotten == UNCHANGED conn

ConnectThreadEnded == conn \in {"none", "done"}

\* connect_thread_.join() returns, or there is nothing to join
JoinConnect == ConnectThreadEnded /\ conn' = "none"

Init ==
  /\ kind \in Kinds
  /\ ui = "idle" /\ worker = "off" /\ conn = "none" /\ requester = "idle"
  /\ active = FALSE /\ running = FALSE /\ connected = FALSE
  /\ inProgress = FALSE /\ pendingRefresh = FALSE /\ pendingSkip = FALSE
  /\ updateQueued = FALSE /\ firstFrame = FALSE /\ open = FALSE
  /\ client = "none" /\ abortBy = {} /\ readErr = "none" /\ backoff = FALSE
  /\ doubled = FALSE /\ play = FreshPlayout(FALSE)

-----------------------------------------------------------------------------
(***************************************************************************)
(* The UI thread.                                                          *)
(***************************************************************************)

\* start_stream().  Its "if (running_) stop_stream()" is for a caller that
\* does not exist: activate runs on an inactive source and update only when
\* nothing runs.
Start ==
  /\ running' = TRUE
  /\ backoff' = FALSE
  /\ abortBy' = {}
  /\ connected' = FALSE
  /\ worker' = "top"
  /\ play' = FreshPlayout(TRUE)
  /\ ui' = "idle"
  /\ UNCHANGED <<kind, conn, requester, inProgress, doubled, pendingSkip,
                 firstFrame, open, client, readErr>>

\* activate() with a URL
UiActivate ==
  /\ "activate" \in Commands
  /\ ui = "idle" /\ ~active /\ ~running
  /\ active' = TRUE
  /\ Start
  /\ UNCHANGED <<pendingRefresh, updateQueued>>

\* activate() while the URL is still empty
UiActivateNoUrl ==
  /\ "activate" \in Commands
  /\ ui = "idle" /\ ~active /\ ~running
  /\ active' = TRUE
  /\ UNCHANGED <<pending, attempt, demuxer, screen, asked, ui, worker,
                 running>>

\* update(): task says that obs_source_update came from the task queue, changed
\* that a setting which needs a new connection is different.  An active source
\* that does not run has no URL yet: only a change can give it one, and another
\* setting may have been the one that changed.
UiUpdate(task, changed) ==
  LET restart == (pendingRefresh \/ changed) /\ active IN
  /\ ui = "idle"
  /\ IF task THEN updateQueued ELSE "update" \in Commands
  /\ task => ~changed
  /\ updateQueued' = (updateQueued /\ ~task)
  /\ pendingRefresh' = FALSE
  /\ \/ /\ restart /\ changed /\ ~running
        /\ Start
     \/ /\ ui' = IF restart /\ running THEN "signal" ELSE "idle"
        /\ UNCHANGED <<attempt, demuxer, screen, kind, worker, requester,
                       running, pendingSkip>>
  /\ UNCHANGED active

UiSignal ==
  /\ ui = "signal"
  /\ pendingRefresh' = TRUE
  /\ ui' = "signalAbort"
  /\ UNCHANGED <<attempt, demuxer, screen, life, asked, worker, pendingSkip>>

UiSignalAbort ==
  /\ ui = "signalAbort"
  /\ RequestAbort("user")
  /\ ui' = "signalClient"
  /\ UNCHANGED <<pending, attempt, screen, life, asked, worker, open, client,
                 readErr>>

UiSignalClient ==
  /\ ui = "signalClient"
  /\ TellClient
  /\ ui' = "idle"
  /\ UNCHANGED <<pending, attempt, screen, life, asked, worker, open, abortBy,
                 readErr>>

\* deactivate(), and stop_stream() up to its first line
UiDeactivate ==
  /\ "deactivate" \in Commands
  /\ ui = "idle" /\ active
  /\ active' = FALSE
  /\ running' = FALSE
  /\ ui' = "abort"
  /\ UNCHANGED <<pending, attempt, demuxer, screen, asked, worker>>

StopAbort ==
  /\ ui = "abort"
  /\ RequestAbort("user")
  /\ ui' = "stopClient"
  /\ UNCHANGED <<pending, attempt, screen, life, asked, worker, open, client,
                 readErr>>

StopClient ==
  /\ ui = "stopClient"
  /\ TellClient
  /\ ui' = "joinWorker"
  /\ UNCHANGED <<pending, attempt, screen, life, asked, worker, open, abortBy,
                 readErr>>

StopJoinWorker ==
  /\ ui = "joinWorker"
  /\ worker \in {"off", "exited"}
  /\ worker' = "off"
  /\ ui' = "joinPlayout"
  /\ UNCHANGED <<pending, attempt, demuxer, screen, life, asked>>

\* running_ is false, so both playout threads leave their loops; their state
\* dies with them.
StopJoinPlayout ==
  /\ ui = "joinPlayout"
  /\ play' = [FreshPlayout(FALSE) EXCEPT !.queued = play.queued,
                                         !.clock = play.clock]
  /\ ui' = "joinConnect"
  /\ UNCHANGED <<pending, attempt, demuxer, life, asked, worker, connected,
                 firstFrame>>

StopJoinConnect ==
  /\ ui = "joinConnect"
  /\ JoinConnect
  /\ ui' = "teardown"
  /\ UNCHANGED <<pending, demuxer, screen, life, asked, worker, inProgress,
                 backoff, doubled>>

StopTeardown ==
  /\ ui = "teardown"
  /\ PlayoutReset
  /\ CloseDemuxer
  /\ connected' = FALSE
  /\ firstFrame' = FALSE
  /\ ui' = "idle"
  /\ doubled' = FALSE
  /\ UNCHANGED <<pending, life, asked, worker, conn, inProgress, backoff,
                 abortBy, readErr>>

UiThread ==
  \/ UiSignal \/ UiSignalAbort \/ UiSignalClient \/ UiUpdate(TRUE, FALSE)
  \/ StopAbort \/ StopClient \/ StopJoinWorker \/ StopJoinPlayout
  \/ StopJoinConnect \/ StopTeardown

User ==
  \/ UiActivate \/ UiActivateNoUrl \/ UiDeactivate
  \/ \E changed \in BOOLEAN : UiUpdate(FALSE, changed)

-----------------------------------------------------------------------------
(***************************************************************************)
(* The requester: handle_remote_command and the Skip to Live button.       *)
(***************************************************************************)

RemoteRefresh ==
  /\ "refresh" \in Commands
  /\ requester = "idle"
  /\ pendingRefresh' = TRUE
  /\ updateQueued' = TRUE
  /\ UNCHANGED <<attempt, demuxer, screen, life, kind, ui, worker, requester,
                 pendingSkip>>

RemoteSkip ==
  /\ "skip" \in Commands
  /\ requester = "idle"
  /\ pendingSkip' = TRUE
  /\ requester' = "check"
  /\ UNCHANGED <<attempt, demuxer, screen, life, kind, ui, worker,
                 pendingRefresh, updateQueued>>

\* What-if: only a stream that shows a picture is interrupted.
InterruptsAPicture == firstFrame /\ UsesPlayout

\* Only a connected stream has a read to interrupt.
HasReadToInterrupt == connected /\ UsesPlayout

SkipCheck ==
  /\ requester = "check"
  /\ requester' = IF HasReadToInterrupt THEN "abort" ELSE "idle"
  /\ UNCHANGED <<pending, attempt, demuxer, screen, life, kind, ui, worker,
                 updateQueued>>

\* Only FFmpeg's own transports come here: there is no client to tell.
SkipAbort ==
  /\ requester = "abort"
  /\ RequestAbort("skip")
  /\ requester' = "idle"
  /\ UNCHANGED <<pending, attempt, screen, life, kind, ui, worker, updateQueued,
                 open, client, readErr>>

Request == RemoteRefresh \/ RemoteSkip
RequesterThread == SkipCheck \/ SkipAbort

-----------------------------------------------------------------------------
(***************************************************************************)
(* The worker thread.                                                      *)
(***************************************************************************)

\* What the worker leaves alone whatever it does
WorkerFrame == UNCHANGED <<control, doubled>>

WorkerTop ==
  /\ worker = "top"
  /\ worker' = IF running THEN "take" ELSE "exited"
  /\ UNCHANGED <<pending, attempt, demuxer, screen>>
  /\ WorkerFrame

\* What-if: the refresh is looked at in the connected half of the loop.
RefreshAskedOfConnected == pendingRefresh /\ connected

\* Asked at the top of the loop, connected or not
RefreshAsked == pendingRefresh

WorkerTakeRefresh ==
  /\ worker = "take" /\ RefreshAsked
  /\ pendingRefresh' = FALSE
  /\ worker' = "rfAbort"
  /\ UNCHANGED <<attempt, demuxer, screen, pendingSkip>>
  /\ WorkerFrame

\* Aborts whatever call a connection attempt is in.
RefreshAbort ==
  /\ worker = "rfAbort"
  /\ RequestAbort("user")
  /\ worker' = "rfSignal"
  /\ UNCHANGED <<pending, attempt, screen, open, client, readErr>>
  /\ WorkerFrame

RefreshSignal ==
  /\ worker = "rfSignal"
  /\ TellClient
  /\ worker' = "rfJoin"
  /\ UNCHANGED <<pending, attempt, screen, open, abortBy, readErr>>
  /\ WorkerFrame

\* No refresh: which half of the loop runs hangs on connected_.
WorkerBranch ==
  /\ worker = "take" /\ ~RefreshAsked
  /\ worker' = IF connected THEN "skip" ELSE "down"
  /\ UNCHANGED <<pending, attempt, demuxer, screen>>
  /\ WorkerFrame

RefreshJoin ==
  /\ worker = "rfJoin"
  /\ JoinConnect
  /\ connected' = FALSE
  /\ worker' = "rfReset"
  /\ doubled' = FALSE
  /\ UNCHANGED <<control, pending, demuxer, inProgress, firstFrame, backoff,
                 play>>

RefreshReset ==
  /\ worker = "rfReset"
  /\ PlayoutReset
  /\ worker' = "rfPicture"
  /\ UNCHANGED <<pending, attempt, demuxer, connected, firstFrame>>
  /\ WorkerFrame

RefreshPicture ==
  /\ worker = "rfPicture"
  /\ firstFrame' = FALSE
  /\ CloseDemuxer
  /\ worker' = "rfClear"
  /\ UNCHANGED <<pending, attempt, connected, abortBy, readErr, play>>
  /\ WorkerFrame

RefreshClear ==
  /\ worker = "rfClear"
  /\ abortBy' = {}
  /\ backoff' = FALSE
  /\ worker' = "top"
  /\ UNCHANGED <<pending, screen, conn, inProgress, open, client, readErr>>
  /\ WorkerFrame

\* Not connected: sleep while an attempt runs or the delay lasts, leave the
\* loop once stopped, otherwise go on to spawn an attempt.
WorkerDown ==
  /\ worker = "down"
  /\ worker' = IF inProgress \/ backoff THEN "top"
               ELSE IF running THEN "spawn" ELSE "exited"
  /\ UNCHANGED <<pending, attempt, demuxer, screen>>
  /\ WorkerFrame

WorkerSpawn ==
  /\ worker = "spawn"
  /\ ConnectThreadEnded
  /\ abortBy' = {}
  /\ inProgress' = TRUE
  /\ conn' = "check"
  /\ worker' = "top"
  /\ doubled' = (doubled \/ connected)
  /\ UNCHANGED <<control, pending, screen, open, client, readErr, backoff>>

\* Connected, and no skip was asked for: on to the next read
WorkerNoSkip ==
  /\ worker = "skip" /\ ~pendingSkip
  /\ worker' = "readCall"
  /\ UNCHANGED <<pending, attempt, demuxer, screen>>
  /\ WorkerFrame

\* Skip to live: connected_ and first_frame_received_ stay as they are.
WorkerTakeSkip ==
  /\ worker = "skip" /\ pendingSkip
  /\ pendingSkip' = FALSE
  /\ CloseDemuxer
  /\ worker' = "skReset"
  /\ UNCHANGED <<attempt, screen, pendingRefresh, abortBy, readErr>>
  /\ WorkerFrame

SkipReset ==
  /\ worker = "skReset"
  /\ PlayoutReset
  /\ worker' = "skClear"
  /\ UNCHANGED <<pending, attempt, demuxer, connected, firstFrame>>
  /\ WorkerFrame

SkipClear ==
  /\ worker = "skClear"
  /\ abortBy' = {}
  /\ worker' = IF UsesClient THEN "skCreate" ELSE "skOpen"
  /\ UNCHANGED <<pending, attempt, screen, open, client, readErr>>
  /\ WorkerFrame

(***************************************************************************)
(* demuxer_.open(), on whichever thread reconnects.  FFmpeg's transports   *)
(* give up on an abort; those of a Standard stream have a deadline too.    *)
(* For IVS the LL-HLS client comes first: it is created, start() raises    *)
(* its running_ again whoever told it to stop, and FFmpeg probes what it   *)
(* reads.  LLHlsClient::read() waits without a timeout and looks at no     *)
(* abort but the client's own; when it fails FFmpeg's HLS takes over.      *)
(***************************************************************************)
ClientCreated == open' = open /\ client' = "fresh"
ClientStarted == open' = open /\ client' = "up"
ClientOpens == open' = TRUE /\ client' = client
FallBack == CloseDemuxer

OpenSucceeds == ~aborted /\ open' = TRUE /\ client' = client
OpenFails == CloseDemuxer

\* An open that nothing in this process brings to an end
SleepsWithoutAbort(probing, opening) ==
  \/ probing /\ client = "up"
  \/ opening /\ ~UsesPlayout /\ ~aborted

SkipFrame ==
  /\ UNCHANGED <<pending, attempt, firstFrame, abortBy, readErr, play>>
  /\ WorkerFrame

SkipCreate ==
  /\ worker = "skCreate" /\ ClientCreated /\ worker' = "skStart"
  /\ UNCHANGED connected /\ SkipFrame

SkipStart ==
  /\ worker = "skStart" /\ ClientStarted /\ worker' = "skProbe"
  /\ UNCHANGED connected /\ SkipFrame

SkipProbe ==
  /\ worker = "skProbe"
  /\ \/ ClientOpens /\ worker' = "top"
     \/ FallBack /\ worker' = "skOpen"
  /\ UNCHANGED connected /\ SkipFrame

SkipOpen ==
  /\ worker = "skOpen"
  /\ \/ OpenSucceeds /\ UNCHANGED connected
     \/ OpenFails /\ connected' = FALSE
  /\ worker' = "top"
  /\ SkipFrame

WorkerSleeps == SleepsWithoutAbort(worker = "skProbe", worker = "skOpen")

\* read_packet() refuses a closed or aborted demuxer before it blocks.
ReadCall ==
  /\ worker = "readCall"
  /\ IF open /\ ~aborted
       THEN worker' = "reading" /\ UNCHANGED readErr
       ELSE /\ worker' = "failed"
            /\ readErr' = IF aborted THEN "abort" ELSE "io"
  /\ UNCHANGED <<pending, attempt, screen, open, client, abortBy>>
  /\ WorkerFrame

\* ingest_packet() queues it for the playout threads; the HLS path decodes
\* and shows it here.
ReadPacket ==
  /\ worker = "reading" /\ open
  /\ IF UsesPlayout
       THEN play' = [play EXCEPT !.queued = TRUE] /\ UNCHANGED firstFrame
       ELSE firstFrame' \in {firstFrame, TRUE} /\ UNCHANGED play
  /\ worker' = "top"
  /\ UNCHANGED <<pending, attempt, demuxer, connected>>
  /\ WorkerFrame

\* The interrupt callback sees the abort inside a blocked read; a client that
\* was told to stop ends its stream.
ReadAborted ==
  /\ worker = "reading"
  /\ IF client = "none" THEN aborted /\ readErr' = "abort"
                        ELSE client = "told" /\ readErr' = "eof"
  /\ worker' = "failed"
  /\ UNCHANGED <<pending, attempt, screen, open, client, abortBy>>
  /\ WorkerFrame

\* The server hung up, or the transport's own timeout ran out.
ReadError ==
  /\ worker = "reading"
  /\ worker' = "failed"
  /\ readErr' \in {"io"} \cup (IF UsesPlayout THEN {} ELSE {"eof"})
  /\ UNCHANGED <<pending, attempt, screen, open, client, abortBy>>
  /\ WorkerFrame

\* "Aborted on purpose" goes back to the top, and so does the end of an HLS
\* playlist; anything else is a disconnect.
ReadFailed ==
  /\ worker = "failed"
  /\ IF pendingRefresh \/ pendingSkip \/ (~UsesPlayout /\ readErr = "eof")
       THEN worker' = "top" /\ readErr' = "none" /\ UNCHANGED connected
       ELSE worker' = "dropReset" /\ connected' = FALSE /\ UNCHANGED readErr
  /\ UNCHANGED <<pending, attempt, firstFrame, open, client, abortBy, play>>
  /\ WorkerFrame

DropReset ==
  /\ worker = "dropReset"
  /\ PlayoutReset
  /\ worker' = "dropPicture"
  /\ UNCHANGED <<pending, attempt, demuxer, connected, firstFrame>>
  /\ WorkerFrame

DropPicture ==
  /\ worker = "dropPicture"
  /\ firstFrame' = FALSE
  /\ readErr' = "none"
  /\ worker' = "top"
  /\ UNCHANGED <<pending, attempt, connected, open, client, abortBy, play>>
  /\ WorkerFrame

\* The steps the scheduler owes the worker; a packet, a transport error and the
\* end of an open that sleeps are the network's to give.
WorkerThread ==
  \/ WorkerTop \/ WorkerTakeRefresh \/ WorkerBranch
  \/ RefreshAbort \/ RefreshSignal \/ RefreshJoin \/ RefreshReset
  \/ RefreshPicture \/ RefreshClear
  \/ WorkerDown \/ WorkerSpawn
  \/ WorkerNoSkip \/ WorkerTakeSkip \/ SkipReset \/ SkipClear
  \/ SkipCreate \/ SkipStart
  \/ ~WorkerSleeps /\ (SkipProbe \/ SkipOpen)
  \/ ReadCall \/ ReadAborted \/ ReadFailed \/ DropReset \/ DropPicture

Network == ReadPacket \/ ReadError \/ (WorkerSleeps /\ (SkipProbe \/ SkipOpen))

-----------------------------------------------------------------------------
(***************************************************************************)
(* The connect thread: the lambda of the worker loop and try_connect().    *)
(***************************************************************************)

ConnFrame == UNCHANGED <<control, pending, worker, doubled, firstFrame,
                         abortBy, readErr>>

\* What-if: the new thread does not look at running_.
AttemptUnconditional == TRUE

\* The first thing the connect thread looks at
AttemptWanted == running

ConnCheck ==
  /\ conn = "check"
  /\ conn' = IF AttemptWanted THEN "close" ELSE "end"
  /\ UNCHANGED <<connected, inProgress, open, client, backoff, play>>
  /\ ConnFrame

\* A pause of 50 ms follows.
ConnClose ==
  /\ conn = "close"
  /\ connected' = FALSE
  /\ CloseDemuxer
  /\ PlayoutReset
  /\ conn' = IF UsesClient THEN "create" ELSE "open"
  /\ UNCHANGED <<inProgress, backoff>>
  /\ ConnFrame

OpenFrame == UNCHANGED <<connected, inProgress, backoff, play>> /\ ConnFrame

ConnCreate == conn = "create" /\ ClientCreated /\ conn' = "start" /\ OpenFrame

ConnStart == conn = "start" /\ ClientStarted /\ conn' = "probe" /\ OpenFrame

ConnProbe ==
  /\ conn = "probe"
  /\ \/ ClientOpens /\ conn' = "opened"
     \/ FallBack /\ conn' = "open"
  /\ OpenFrame

ConnOpen ==
  /\ conn = "open"
  /\ \/ OpenSucceeds /\ conn' = "opened"
     \/ OpenFails /\ conn' = "fail"
  /\ OpenFrame

ConnSleeps == SleepsWithoutAbort(conn = "probe", conn = "open")

\* open_decoders(), then connected_ is published
ConnPublish ==
  /\ conn = "opened"
  /\ connected' = TRUE
  /\ conn' = "finish"
  /\ UNCHANGED <<inProgress, open, client, backoff, play>>
  /\ ConnFrame

ConnFinish ==
  /\ conn \in {"finish", "fail"}
  /\ backoff' = (conn = "fail")
  /\ conn' = "end"
  /\ UNCHANGED <<connected, inProgress, open, client, play>>
  /\ ConnFrame

\* What-if: a failed attempt leaves the flag up.
LeaveInProgress == inProgress' = backoff

ClearInProgress == inProgress' = FALSE

ConnEnd ==
  /\ conn = "end"
  /\ ClearInProgress
  /\ conn' = "done"
  /\ UNCHANGED <<connected, open, client, backoff, play>>
  /\ ConnFrame

ConnThread ==
  \/ ConnCheck \/ ConnClose \/ ConnCreate \/ ConnStart
  \/ ~ConnSleeps /\ (ConnProbe \/ ConnOpen)
  \/ ConnPublish \/ ConnFinish \/ ConnEnd

Server == ConnSleeps /\ (ConnProbe \/ ConnOpen)

\* ReconnectManager: at most two seconds pass before the next attempt.
DelayElapses ==
  /\ backoff
  /\ backoff' = FALSE
  /\ UNCHANGED <<control, pending, demuxer, screen, worker, conn, inProgress,
                 doubled>>

-----------------------------------------------------------------------------
(***************************************************************************)
(* The playout threads.  A decode step runs under decoder_mutex_, which    *)
(* playout_reset() takes too, so each is one action.  A step already past  *)
(* its running_ check finishes after a stop: the guard is "alive".         *)
(***************************************************************************)

PlayoutFrame == UNCHANGED <<control, pending, attempt, worker, connected, open,
                            client, readErr>>

DecodeReady == UsesPlayout /\ play.alive /\ ~play.stale

\* The generation moved on: playout_restart_state().
DecodeRestart ==
  /\ UsesPlayout /\ play.alive /\ play.stale
  /\ play' = [play EXCEPT !.stale = FALSE, !.phase = "starting",
                          !.requested = FALSE]
  /\ UNCHANGED <<firstFrame, abortBy>>
  /\ PlayoutFrame

\* The buffer is full enough: playback starts or resumes.
DecodeStart ==
  /\ DecodeReady /\ play.phase # "playing" /\ play.queued
  /\ play' = [play EXCEPT !.phase = "playing"]
  /\ UNCHANGED <<firstFrame, abortBy>>
  /\ PlayoutFrame

\* Feeds a packet, which may have been the last one, and pins the clock.
DecodeFeed ==
  /\ DecodeReady /\ play.phase = "playing" /\ play.queued
  /\ \E rest \in BOOLEAN :
       play' = [play EXCEPT !.queued = rest, !.clock = TRUE]
  /\ UNCHANGED <<firstFrame, abortBy>>
  /\ PlayoutFrame

\* playout_pause(): the buffer ran dry, or a hold was asked for.
DecodePause ==
  /\ DecodeReady /\ play.phase = "playing"
  /\ play' = [play EXCEPT !.phase = "stalled", !.clock = FALSE]
  /\ UNCHANGED <<firstFrame, abortBy>>
  /\ PlayoutFrame

\* Twelve seconds into a stall with nothing queued, once per connection.
Watchdog ==
  /\ DecodeReady /\ play.phase = "stalled" /\ ~play.queued /\ ~play.requested
  /\ play' = [play EXCEPT !.requested = TRUE]
  /\ RequestAbort("watchdog")
  /\ UNCHANGED firstFrame
  /\ PlayoutFrame

\* The present thread hands a frame to OBS.
Present ==
  /\ UsesPlayout /\ play.alive /\ play.clock
  /\ firstFrame' = TRUE
  /\ UNCHANGED <<abortBy, play>>
  /\ PlayoutFrame

PlayoutThreads ==
  DecodeRestart \/ DecodeStart \/ DecodeFeed \/ DecodePause \/ Watchdog
    \/ Present

-----------------------------------------------------------------------------
Next ==
  \/ UiThread \/ User
  \/ RequesterThread \/ Request
  \/ WorkerThread \/ Network
  \/ ConnThread \/ Server \/ DelayElapses
  \/ PlayoutThreads

\* The operating system runs every thread that can go on, a queued UI task is
\* run, and delays end.  Nothing is assumed of users, of the playout threads or
\* of the server: a read and an open without a deadline may sleep for ever.
Fairness ==
  /\ WF_vars(UiThread) /\ WF_vars(RequesterThread)
  /\ WF_vars(WorkerThread) /\ WF_vars(ConnThread) /\ WF_vars(DelayElapses)

Spec == Init /\ [][Next]_vars

FairSpec == Spec /\ Fairness

-----------------------------------------------------------------------------
TypeOK ==
  /\ kind \in Kinds
  /\ ui \in UiPoints /\ worker \in WorkerPoints /\ conn \in ConnPoints
  /\ requester \in {"idle", "check", "abort"}
  /\ active \in BOOLEAN /\ running \in BOOLEAN /\ connected \in BOOLEAN
  /\ inProgress \in BOOLEAN /\ pendingRefresh \in BOOLEAN
  /\ pendingSkip \in BOOLEAN /\ updateQueued \in BOOLEAN
  /\ firstFrame \in BOOLEAN /\ open \in BOOLEAN
  /\ client \in IF kind = "ivs" THEN ClientStates ELSE {"none"}
  /\ abortBy \subseteq Requesters
  /\ readErr \in {"none", "io", "eof", "abort"}
  /\ backoff \in BOOLEAN /\ doubled \in BOOLEAN
  /\ play \in Playout

\* stop_stream() has asked every thread to leave and waits for them.
Stopping == ui \in {"joinWorker", "joinPlayout", "joinConnect", "teardown"}

WorkerOpens == {"skCreate", "skStart", "skProbe", "skOpen"}
ConnOpens == {"create", "start", "probe", "open"}

WorkerUsesDemuxer ==
  worker \in WorkerOpens
    \cup {"skReset", "skClear", "readCall", "reading", "rfReset", "rfPicture"}
ConnUsesDemuxer == conn \in ConnOpens \cup {"close", "opened"}

(***************************************************************************)
(* Safety.  Several of these hold only as long as no attempt was started   *)
(* on top of a live connection (doubled): RetryOnlyWhenDown below shows    *)
(* that the code lets that happen.                                         *)
(***************************************************************************)

\* deactivate() and update() return with nothing left behind: no thread, no
\* open connection, no client, no queued media, no clock, no picture.  The next
\* start_stream() relies on all of it and clears almost none of it.
StoppedIsQuiescent ==
  ui = "idle" /\ ~running =>
    /\ worker = "off" /\ conn = "none" /\ ~play.alive
    /\ ~open /\ client = "none" /\ ~connected /\ ~inProgress /\ ~firstFrame
    /\ ~play.queued /\ ~play.clock

\* stop_stream() raises the abort once, and reset_abort() has four callers.
\* A stop in progress still reaches a blocked read, and the client it reads
\* from, and an attempt under way sees the flag: the comment in the worker
\* loop, "Stop sets running_ before it aborts, so it can't be lost here".
StopHeard ==
  Stopping /\ ~doubled =>
    /\ worker = "reading" => aborted /\ client \in {"none", "told"}
    /\ conn \in ConnOpens => aborted

\* The demuxer has no lock.  Whoever resets the source has it to itself, come
\* what may; the worker's reads and skips and the connect thread own it in
\* turns until an attempt is started on a live stream.
DemuxerExclusive ==
  /\ worker \in {"rfReset", "rfPicture"} => ~ConnUsesDemuxer
  /\ ui = "teardown" => ~WorkerUsesDemuxer /\ ~ConnUsesDemuxer
  /\ ~doubled => ~(WorkerUsesDemuxer /\ ConnUsesDemuxer)

\* The watchdog gives up on the connection it watched, and its abort never
\* lands in the attempt that replaces it.
WatchdogSparesNewConnection ==
  ~doubled /\ (conn = "open" \/ worker = "skOpen") => "watchdog" \notin abortBy

(***************************************************************************)
(* Liveness, under Fairness.  Nothing in the process ends an open that     *)
(* sleeps and that no abort has reached; what waits for it waits as long   *)
(* as it sleeps.  StopStaysResponsive below is without that proviso.  An   *)
(* attempt on a live stream (doubled) takes the demuxer from under the     *)
(* worker's read: nothing is promised after it.                            *)
(***************************************************************************)

\* No thread sleeps for ever in an open that no abort has reached.
OpensReturn == []<>~ConnSleeps /\ []<>~WorkerSleeps

\* A refresh is carried out, connected or not and however long the server is
\* silent, unless update() takes the flag to raise it again.
RefreshDone ==
  OpensReturn =>
    ((running /\ pendingRefresh)
       ~> (worker = "rfReset" \/ ui = "signal" \/ doubled \/ ~running))

\* stop_stream() returns: every join in it comes to an end.
StopCompletes == OpensReturn => (ui = "abort" ~> (ui = "idle" \/ doubled))

\* A stream that is down keeps being tried for as long as it is wanted.
AttemptsGoOn ==
  (running /\ ~connected)
    ~> (conn \in ConnOpens \/ connected \/ worker = "rfReset" \/ doubled
          \/ ~running)

\* Skip to live interrupts a read that would wait forever and reopens.
SkipTaken ==
  (UsesPlayout /\ running /\ connected /\ pendingSkip)
    ~> (worker = "skOpen" \/ doubled \/ ~connected \/ ~running)

(***************************************************************************)
(* What the repository says and the code does not do.                      *)
(***************************************************************************)

\* README: "Auto-Reconnect: Configurable retry on connection failure".  An
\* attempt begins only when the stream is down.  The worker looks at
\* connected_ and then at connection_in_progress_; an attempt that succeeds
\* in between is followed by another, which closes it.
RetryOnlyWhenDown == [][conn' = "check" /\ conn # "check" => ~connected]_vars

\* stream-demuxer.cpp on its timeouts: "Stop stays responsive through the
\* interrupt callback".  An IVS open sleeps in LLHlsClient::read(), which looks
\* at no interrupt callback.  A stop whose abort came before the client was
\* there, or before start() raised its running_ again, has not told it, and
\* joins a thread that sleeps until the server sends something.
StopStaysResponsive == ui = "abort" ~> ui = "idle"

\* The same sentence.  The skip path clears the abort without looking at
\* running_, so a stop that came first waits for the whole open.
StopHeardBySkip == Stopping /\ worker = "skOpen" => aborted

\* The worker loop on a read that a request aborted: "this isn't a disconnect,
\* so the picture stays up".  request_skip_to_live() raises its flag first and
\* aborts later; when the worker has served the flag in between, the abort
\* alone remains and ends the new connection.
SkipKeepsPicture ==
  worker = "dropReset" /\ readErr = "abort" => abortBy # {"skip"}
=============================================================================
