---------------------------- MODULE WhepSession ----------------------------
(***************************************************************************)
(* A WHEP stream: the worker that runs the session, its WhepClient, the    *)
(* thread of the WebRTC library that calls back with media and state       *)
(* changes, the client's keyframe thread, and the user who starts and      *)
(* stops the source.  Callbacks hold cb_mutex_; the worker's watchdog and  *)
(* its dummy pictures do not.                                              *)
(*                                                                         *)
(* The library is external: it calls back when it likes, also after its    *)
(* connection was closed, for as long as the client is there, with media   *)
(* only after an answer was accepted.  Overlays are a module of their own. *)
(***************************************************************************)
EXTENDS Integers, Sequences

CONSTANTS
  Kinds,     \* media of a session: "video", "audio"
  Modes,     \* attempts a WhepMode makes, each the kinds it offers
  Instants   \* readings of the clock an anchor may be set to

Zero == 0    \* of a timestamp: not set

ASSUME WhepAssumption ==
  /\ Kinds \subseteq {"video", "audio"} /\ Kinds # {}
  /\ Modes \subseteq Seq(SUBSET Kinds)
  /\ Zero \notin Instants /\ \A a \in Instants : Instants \ {a} # {}

VARIABLES
  running,     \* running_ of the source
  covers,      \* fallback_covers_picture(): setting, it stays here
  w,           \* control of the worker
  tries,       \* attempts WhepClient::start() has left
  offered,     \* kinds of the session that was accepted
  cRunning,    \* running_ of the client
  pc,          \* pc_: "none", "failed", "answered", "closed"
  pli,         \* the keyframe thread runs
  decoders,    \* "none", "open", "freed"
  cb,          \* where the callback under cb_mutex_ is, "free" for none
  loaded,      \* the base of the video as the audio callback has loaded it
  connected,   \* connected_
  first,       \* first_frame_received_
  picture,     \* what OBS holds: "none", "video", "black"
  lastMedia,   \* whep_last_media_ms_: "zero", "recent", or over 3 s old
  vbase,       \* video_base_pts_ns_
  vstart,      \* video_start_pts_rtp_: "zero", or that of the "frame"
  abase,       \* audio_base_pts_ns_
  raced        \* history: media came while the watchdog cleared up

sessionVars == <<tries, offered, cRunning, pc, pli, decoders>>
anchors == <<vbase, vstart, abase>>
shown == <<connected, first, picture, lastMedia>>
callback == <<cb, loaded>>
vars == <<running, covers, w, sessionVars, callback, shown, anchors, raced>>

Clearing ==
  {"clearFlags", "clearPicture", "clearBase", "clearStart", "clearAudio",
   "clearLast"}

Init ==
  /\ running = FALSE /\ covers \in BOOLEAN /\ w = "none"
  /\ tries = <<>> /\ offered = {}
  /\ cRunning = FALSE /\ pc = "none" /\ pli = FALSE /\ decoders = "none"
  /\ cb = "free" /\ loaded = Zero
  /\ connected = FALSE /\ first = FALSE
  /\ picture = "none" /\ lastMedia = "zero"
  /\ vbase = Zero /\ vstart = "zero" /\ abase = Zero
  /\ raced = FALSE

\* drop_picture(): OBS keeps what a fallback layer covers
DropPicture == picture' = IF covers THEN picture ELSE "none"

-----------------------------------------------------------------------------
(* The user                                                                *)

\* start_stream() starts the worker, whep_worker() opens the decoders
StartStream ==
  /\ w = "none" /\ cb = "free"
  /\ running' = TRUE
  /\ \/ w' = "start" /\ decoders' = "open" /\ \E m \in Modes : tries' = m
     \/ w' = "done" /\ UNCHANGED <<decoders, tries>>
  /\ UNCHANGED <<covers, offered, cRunning, pc, pli, callback, shown, anchors,
                 raced>>

StopStream ==
  /\ running
  /\ running' = FALSE
  /\ UNCHANGED <<covers, w, sessionVars, callback, shown, anchors, raced>>

\* stop_stream() joins the worker; the client goes with its stack frame
JoinWorker ==
  /\ ~running /\ w = "done" /\ cb = "free"
  /\ w' = "none"
  /\ tries' = <<>> /\ offered' = {} /\ pc' = "none" /\ decoders' = "none"
  /\ UNCHANGED <<running, covers, cRunning, pli, callback, shown, anchors,
                 raced>>

-----------------------------------------------------------------------------
(* WhepClient::start() and stop()                                          *)

\* start() begins; nothing stops it until its attempts are made
BeginStart ==
  /\ w = "start"
  /\ cRunning' = TRUE /\ w' = "try"
  /\ UNCHANGED <<running, covers, tries, offered, pc, pli, decoders, callback,
                 shown, anchors, raced>>

\* start_internal() succeeds: offer, answer, and the keyframe thread
AttemptSucceeds ==
  /\ w = "try" /\ tries # <<>>
  /\ offered' = Head(tries) /\ pc' = "answered" /\ pli' = TRUE
  /\ w' = "loop"
  /\ UNCHANGED <<running, covers, tries, cRunning, decoders, callback, shown,
                 anchors, raced>>

\* It fails on the way: the connection stays until the next attempt
AttemptFails ==
  /\ w = "try" /\ tries # <<>>
  /\ tries' = Tail(tries) /\ pc' = "failed"
  /\ UNCHANGED <<running, covers, w, offered, cRunning, pli, decoders, callback,
                 shown, anchors, raced>>

\* No attempt is left: the worker frees its decoders and ends
StartFails ==
  /\ w = "try" /\ tries = <<>>
  /\ cRunning' = FALSE
  /\ decoders' = "freed" /\ w' = "done"
  /\ UNCHANGED <<running, covers, tries, offered, pc, pli, callback, shown,
                 anchors, raced>>

\* stop(), at the end of the worker
StopClient ==
  /\ w = "stop"
  /\ cRunning' = FALSE /\ w' = "joinPli"
  /\ UNCHANGED <<running, covers, tries, offered, pc, pli, decoders, callback,
                 shown, anchors, raced>>

\* What-if: the keyframe thread runs as long as there is a connection
PliOutlivesRunning == pc = "closed"

PliStops == ~cRunning

PliEnds ==
  /\ pli /\ PliStops
  /\ pli' = FALSE
  /\ UNCHANGED <<running, covers, w, tries, offered, cRunning, pc, decoders,
                 callback, shown, anchors, raced>>

PliIsJoined == ~pli

\* Tracks and connection go, and the session of the server
ClosePeer ==
  /\ w = "joinPli" /\ PliIsJoined
  /\ pc' = "closed" /\ w' = "lastWord"
  /\ UNCHANGED <<running, covers, tries, offered, cRunning, pli, decoders,
                 callback, shown, anchors, raced>>

\* What-if: stop() says "disconnected" without taking cb_mutex_
CallsUnlocked == TRUE

CallbackIsOver == cb = "free"

ResetAnchors == vbase' = Zero /\ vstart' = "zero" /\ abase' = Zero

\* stop() calls back with "disconnected" itself, under cb_mutex_
LastWord ==
  /\ w = "lastWord" /\ CallbackIsOver
  /\ connected' = FALSE /\ first' = FALSE
  /\ DropPicture /\ ResetAnchors
  /\ w' = "free"
  /\ UNCHANGED <<running, covers, sessionVars, callback, lastMedia, raced>>

FreeDecoders ==
  /\ w = "free"
  /\ decoders' = "freed" /\ w' = "cleanup"
  /\ UNCHANGED <<running, covers, tries, offered, cRunning, pc, pli, callback,
                 shown, anchors, raced>>

Cleanup ==
  /\ w = "cleanup"
  /\ connected' = FALSE /\ first' = FALSE /\ DropPicture
  /\ w' = "done"
  /\ UNCHANGED <<running, covers, sessionVars, callback, lastMedia, anchors,
                 raced>>

-----------------------------------------------------------------------------
(* The worker's loop                                                       *)

\* A round.  Its check for a lost connection never holds: the client runs
\* until the worker stops it.
Round ==
  /\ w = "loop"
  /\ w' = IF running THEN "round" ELSE "stop"
  /\ UNCHANGED <<running, covers, sessionVars, callback, shown, anchors, raced>>

\* Audio without video: OBS gets black pictures, so that its audio plays
IsAudioOnly == connected /\ lastMedia = "recent"

NeedsDummy ==
  /\ w = "round" /\ IsAudioOnly
  /\ w' = "black"
  /\ UNCHANGED <<running, covers, sessionVars, callback, shown, anchors, raced>>

DummyPicture ==
  /\ w = "black"
  /\ picture' = "black"
  /\ w' = "dummy"
  /\ UNCHANGED <<running, covers, sessionVars, callback, connected, first,
                 lastMedia, anchors, raced>>

DummyFirst ==
  /\ w = "dummy"
  /\ first' = TRUE
  /\ w' = "watch"
  /\ UNCHANGED <<running, covers, sessionVars, callback, connected, picture,
                 lastMedia, anchors, raced>>

\* Or video is there, or nothing is
NoDummy ==
  /\ w = "round"
  /\ w' = "watch"
  /\ UNCHANGED <<running, covers, sessionVars, callback, shown, anchors, raced>>

\* What-if: a source that is not connected has nothing to watch over
WatchesConnected == connected

Watches == first

\* Three seconds without media
Watchdog ==
  /\ w = "watch"
  /\ w' = IF lastMedia = "old" /\ Watches THEN "clearFlags" ELSE "loop"
  /\ UNCHANGED <<running, covers, sessionVars, callback, shown, anchors, raced>>

ClearFlags ==
  /\ w = "clearFlags"
  /\ connected' = FALSE /\ first' = FALSE
  /\ w' = "clearPicture"
  /\ UNCHANGED <<running, covers, sessionVars, callback, picture, lastMedia,
                 anchors, raced>>

ClearPicture ==
  /\ w = "clearPicture"
  /\ DropPicture
  /\ w' = "clearBase"
  /\ UNCHANGED <<running, covers, sessionVars, callback, connected, first,
                 lastMedia, anchors, raced>>

ClearBase ==
  /\ w = "clearBase"
  /\ vbase' = Zero
  /\ w' = "clearStart"
  /\ UNCHANGED <<running, covers, sessionVars, callback, shown, vstart, abase,
                 raced>>

ClearStart ==
  /\ w = "clearStart"
  /\ vstart' = "zero"
  /\ w' = "clearAudio"
  /\ UNCHANGED <<running, covers, sessionVars, callback, shown, vbase, abase,
                 raced>>

ClearAudio ==
  /\ w = "clearAudio"
  /\ abase' = Zero
  /\ w' = "clearLast"
  /\ UNCHANGED <<running, covers, sessionVars, callback, shown, vbase, vstart,
                 raced>>

\* The watchdog is off until there is media again
ClearLast ==
  /\ w = "clearLast"
  /\ lastMedia' = "zero"
  /\ w' = "loop"
  /\ UNCHANGED <<running, covers, sessionVars, callback, connected, first,
                 picture, anchors, raced>>

-----------------------------------------------------------------------------
(* Callbacks                                                               *)

\* What-if: media is decoded whether the source runs or not
AlwaysTaken == TRUE

IsTaken == running

MediaCall(kind) ==
  /\ cb = "free" /\ pc \in {"answered", "closed"} /\ kind \in offered

\* The first frame after a reset sets the anchors, decoded or not
VideoCall ==
  /\ MediaCall("video") /\ IsTaken
  /\ cb' = IF vbase = Zero THEN "setBase" ELSE "decodeVideo"
  /\ UNCHANGED <<running, covers, w, sessionVars, loaded, shown, anchors,
                 raced>>

SetVideoBase ==
  /\ cb = "setBase"
  /\ vbase' \in Instants \ {abase} /\ cb' = "setStart"
  /\ UNCHANGED <<running, covers, w, sessionVars, loaded, shown, vstart, abase,
                 raced>>

SetVideoStart ==
  /\ cb = "setStart"
  /\ vstart' = "frame" /\ cb' = "decodeVideo"
  /\ UNCHANGED <<running, covers, w, sessionVars, loaded, shown, vbase, abase,
                 raced>>

\* Only one that is decoded does
AudioCall ==
  /\ MediaCall("audio") /\ IsTaken
  /\ cb' = "decodeAudio"
  /\ UNCHANGED <<running, covers, w, sessionVars, shown, anchors, loaded,
                 raced>>

DecodeFails ==
  /\ cb \in {"decodeVideo", "decodeAudio"}
  /\ cb' = "free"
  /\ UNCHANGED <<running, covers, w, sessionVars, shown, anchors, loaded,
                 raced>>

OutputVideo ==
  /\ cb = "decodeVideo"
  /\ picture' = "video" /\ cb' = "noteVideo"
  /\ UNCHANGED <<running, covers, w, sessionVars, connected, first, lastMedia,
                 anchors, loaded, raced>>

\* Audio has no base of its own ...
OutputAudio ==
  /\ cb = "decodeAudio"
  /\ cb' = IF abase = Zero THEN "needBase" ELSE "noteAudio"
  /\ UNCHANGED <<running, covers, w, sessionVars, loaded, shown, anchors,
                 raced>>

\* ... and sets that of the video alone, where there is none
NeedBase ==
  /\ cb = "needBase"
  /\ IF vbase = Zero THEN vbase' \in Instants ELSE UNCHANGED vbase
  /\ cb' = "loadBase"
  /\ UNCHANGED <<running, covers, w, sessionVars, loaded, shown, vstart, abase,
                 raced>>

LoadBase ==
  /\ cb = "loadBase"
  /\ loaded' = vbase /\ cb' = "storeBase"
  /\ UNCHANGED <<running, covers, w, sessionVars, shown, anchors, raced>>

StoreBase ==
  /\ cb = "storeBase"
  /\ abase' = loaded /\ loaded' = Zero /\ cb' = "noteAudio"
  /\ UNCHANGED <<running, covers, w, sessionVars, shown, vbase, vstart, raced>>

NoteMedia ==
  /\ cb \in {"noteVideo", "noteAudio"}
  /\ lastMedia' = "recent" /\ connected' = TRUE
  /\ cb' = IF cb = "noteVideo" THEN "noteFirst" ELSE "free"
  /\ raced' = (w \in Clearing)
  /\ UNCHANGED <<running, covers, w, sessionVars, first, picture, anchors,
                 loaded>>

NoteFirst ==
  /\ cb = "noteFirst"
  /\ first' = TRUE /\ cb' = "free"
  /\ UNCHANGED <<running, covers, w, sessionVars, connected, picture, lastMedia,
                 anchors, loaded, raced>>

\* onStateChange(): "connected"
StateUp ==
  /\ cb = "free" /\ pc \in {"answered", "closed"}
  /\ connected' = TRUE
  /\ UNCHANGED <<running, covers, w, sessionVars, callback, first, picture,
                 lastMedia, anchors, raced>>

\* "disconnected", "failed" or "closed", of any attempt
StateDown ==
  /\ cb = "free" /\ pc # "none"
  /\ connected' = FALSE /\ first' = FALSE /\ cb' = "downPicture"
  /\ UNCHANGED <<running, covers, w, sessionVars, picture, lastMedia, anchors,
                 loaded, raced>>

DownPicture ==
  /\ cb = "downPicture"
  /\ DropPicture /\ cb' = "downAnchors"
  /\ UNCHANGED <<running, covers, w, sessionVars, connected, first, lastMedia,
                 anchors, loaded, raced>>

DownAnchors ==
  /\ cb = "downAnchors"
  /\ ResetAnchors /\ cb' = "free"
  /\ UNCHANGED <<running, covers, w, sessionVars, shown, loaded, raced>>

\* Time without media
Silence ==
  /\ lastMedia = "recent"
  /\ lastMedia' = "old"
  /\ UNCHANGED <<running, covers, w, sessionVars, callback, connected, first,
                 picture, anchors, raced>>

-----------------------------------------------------------------------------
Worker ==
  \/ BeginStart \/ AttemptSucceeds \/ AttemptFails \/ StartFails
  \/ StopClient \/ ClosePeer \/ LastWord \/ FreeDecoders \/ Cleanup
  \/ Round \/ NeedsDummy \/ DummyPicture \/ DummyFirst \/ NoDummy
  \/ Watchdog \/ ClearFlags \/ ClearPicture
  \/ ClearBase \/ ClearStart \/ ClearAudio \/ ClearLast

CallbackGoesOn ==
  \/ SetVideoBase \/ SetVideoStart \/ DecodeFails \/ OutputVideo
  \/ OutputAudio \/ NeedBase \/ LoadBase \/ StoreBase \/ NoteMedia \/ NoteFirst
  \/ DownPicture \/ DownAnchors

Next ==
  \/ StartStream \/ StopStream \/ JoinWorker
  \/ Worker \/ PliEnds
  \/ VideoCall \/ AudioCall \/ StateUp \/ StateDown \/ CallbackGoesOn
  \/ Silence

\* Threads run on, a callback that began ends, time passes; a callback that
\* follows another never keeps the worker from cb_mutex_ for ever, nor from its
\* end.  The library calls or is silent, the user acts or does not.
Spec ==
  /\ Init /\ [][Next]_vars
  /\ WF_vars(Worker) /\ WF_vars(PliEnds) /\ WF_vars(CallbackGoesOn)
  /\ WF_vars(Silence)
  /\ SF_vars(LastWord) /\ SF_vars(JoinWorker)

-----------------------------------------------------------------------------
(* Properties                                                              *)

\* Every variable keeps its shape, and the keyframe thread is joined before
\* its client is gone
TypeOK ==
  /\ running \in BOOLEAN /\ covers \in BOOLEAN
  /\ w \in {"none", "start", "try", "loop", "round", "black", "dummy",
            "watch", "stop", "joinPli", "lastWord", "free", "cleanup", "done"}
         \cup Clearing
  /\ tries \in Seq(SUBSET Kinds) /\ offered \subseteq Kinds
  /\ cRunning \in BOOLEAN /\ pc \in {"none", "failed", "answered", "closed"}
  /\ pli \in BOOLEAN /\ (w \in {"none", "free", "cleanup", "done"} => ~pli)
  /\ decoders \in {"none", "open", "freed"}
  /\ cb \in {"free", "setBase", "setStart", "decodeVideo", "decodeAudio",
             "needBase", "loadBase", "storeBase", "noteVideo", "noteAudio",
             "noteFirst", "downPicture", "downAnchors"}
  /\ connected \in BOOLEAN /\ first \in BOOLEAN /\ raced \in BOOLEAN
  /\ picture \in {"none", "video", "black"}
  /\ lastMedia \in {"zero", "recent", "old"}
  /\ {vbase, abase, loaded} \subseteq Instants \cup {Zero}
  /\ vstart \in {"zero", "frame"}

\* No callback decodes with a decoder that is freed, however late it comes:
\* it looks at running_ under cb_mutex_, and stop() takes that mutex once more
\* before the worker frees anything.
DecodersOutliveCallbacks ==
  cb \in {"setBase", "setStart", "decodeVideo", "decodeAudio"}
    => decoders = "open"

\* A worker that has ended leaves neither a picture in sight nor a first frame
\* behind, whatever the library still calls.
EndsClean == w \in {"done", "none"} => ~first /\ (picture = "none" \/ covers)

\* The watchdog: "Reset PTS anchors so re-connection starts fresh".  Between
\* its resets audio counts from the base of the video or has none yet.  It is
\* not so: the watchdog does not take cb_mutex_, and may reset all anchors after
\* an audio callback has loaded the base of the video and before it stores it.
\* The audio then keeps the old base, and the video gets a new one.
AudioOnVideoBase ==
  w \notin Clearing => abase \in {Zero, vbase}

\* A video picture is timed from the RTP time of a frame, as the comments say
\* ("Use RTP-anchored PTS directly").  It is not when audio came first: the
\* base is set then, and the RTP time it stands for remains zero.
VideoTimedFromFrame == cb = "noteVideo" => vstart = "frame"

\* A picture in sight that nothing has followed for three seconds, or that the
\* watchdog forgot, is taken down in the end, unless it came while the watchdog
\* cleared up.
Frozen == picture # "none" /\ ~covers /\ lastMedia \in {"old", "zero"}

FrozenIsNoticed == Frozen /\ ~raced ~> ~(Frozen /\ ~raced)

\* "Check if video stream stalled (no frames for 3 seconds)": every picture in
\* sight that nothing has followed is taken down in the end.  One that came
\* while the watchdog cleared up is not: ClearLast, the last of its stores,
\* turns it off for that one.
NothingStaysFrozen == Frozen ~> ~Frozen

\* A stop ends the session, from anywhere in start(), stop() or a callback
StopEnds == ~running ~> w = "none" \/ running
=============================================================================
