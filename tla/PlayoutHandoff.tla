--------------------------- MODULE PlayoutHandoff ---------------------------
(***************************************************************************)
(* How a picture travels from the reader to OBS on a Standard stream, and  *)
(* how playout_reset() cuts that road.  Three threads: the one that reads  *)
(* the stream and tears it down (worker, connect and UI thread in turns),  *)
(* the decode thread and the present thread; three mutexes: decoder_mutex_ *)
(* present_queue_mutex_ (never held across two accesses, so every action   *)
(* that touches frames is atomic) and present_output_mutex_.               *)
(*                                                                         *)
(* A packet and the frame decoded from it are the era of their stream (how *)
(* many resets came before it) and a position in it.  Sound only matters   *)
(* as the thing that anchors the clock.                                    *)
(***************************************************************************)
EXTENDS Naturals, Sequences

CONSTANTS
  MaxEra,      \* bound: resets in a behaviour
  MaxMedia,    \* bound: packets of one stream
  MaxFrames,   \* MAX_PRESENT_FRAMES
  Delay,       \* packets a decoder may hold back for reordering
  None         \* not a frame, not an era

ASSUME HandoffAssumption ==
  /\ MaxEra \in Nat /\ MaxMedia \in Nat \ {0} /\ MaxFrames \in Nat
  /\ Delay \in Nat
  /\ None \notin Nat /\ None \notin [era : Nat, media : Nat]

VARIABLES
  era,        \* era of the stream that is read, or is about to be
  source,     \* control of the thread that reads and resets
  received,   \* packets of this era so far
  packets,    \* packets_
  decoder,    \* who holds decoder_mutex_: "free", "reset", "decode"
  generation, \* playout_generation_
  decode,     \* control of the decode thread
  seen,       \* the generation its run_ belongs to
  phase,      \* run_.phase, "starting" being Buffering with run_.starting
  run,        \* the era that run_ and what it learned belong to
  inside,     \* the pictures in video_dec_
  clock,      \* None: invalid; otherwise the era that anchored playout_clock_
  frames,     \* present_queue_
  output,     \* who holds present_output_mutex_: "free" or "present"
  present,    \* control of the present thread
  media,      \* media_us of the frame it looked at, or None
  hasNext,    \* has_next: another frame was behind it
  held,       \* the frame it took, or None
  shown,      \* the last frame OBS got, or None
  strays      \* history: frames of older eras shown since the last reset

vars == <<era, source, received, packets, decoder, generation, decode, seen,
          phase, run, inside, clock, frames, output, present, media, hasNext,
          held, shown, strays>>

readerVars == <<era, source, received, generation>>
decodeVars == <<decode, seen, phase, run, inside>>
presentVars == <<output, present, media, hasNext, held, shown, strays>>

Frame == [era : 0..MaxEra, media : 1..MaxMedia]

Init ==
  /\ era = 0 /\ source = "reading" /\ received = 0 /\ packets = <<>>
  /\ decoder = "free" /\ generation = 0
  /\ decode = "idle" /\ seen = 0 /\ phase = "starting" /\ run = 0
  /\ inside = <<>>
  /\ clock = None /\ frames = <<>>
  /\ output = "free" /\ present = "idle" /\ media = None /\ hasNext = FALSE
  /\ held = None /\ shown = None /\ strays = 0

-----------------------------------------------------------------------------
(***************************************************************************)
(* The reader.  A stream's timestamps may start anywhere, so every era     *)
(* counts from 1 again.                                                    *)
(***************************************************************************)

\* ingest_packet()
Ingest ==
  /\ source = "reading" /\ received < MaxMedia
  /\ received' = received + 1
  /\ packets' = Append(packets, [era |-> era, media |-> received'])
  /\ UNCHANGED <<era, source, generation, decoder, clock, frames, decodeVars,
                 presentVars>>

\* The stream ends or somebody asked for another one: playout_reset() wants
\* decoder_mutex_.
ResetWant ==
  /\ source \in {"reading", "closed"} /\ era < MaxEra
  /\ source' = "want"
  /\ UNCHANGED <<era, received, generation, packets, decoder, clock, frames,
                 decodeVars, presentVars>>

\* What-if: the reset does not wait for the decode thread.
DecoderIgnored == TRUE

DecoderFree == decoder = "free"

\* What-if: the buffer keeps what was received.
KeepPackets == UNCHANGED packets

ClearPackets == packets' = <<>>

ResetLock ==
  /\ source = "want" /\ DecoderFree
  /\ decoder' = "reset"
  /\ ClearPackets
  /\ source' = "clock"
  /\ UNCHANGED <<era, received, generation, clock, frames, decodeVars,
                 presentVars>>

ResetClock ==
  /\ source = "clock"
  /\ clock' = None
  /\ source' = "frames"
  /\ UNCHANGED <<era, received, generation, packets, decoder, frames,
                 decodeVars, presentVars>>

\* What-if: the reset flushes while the present thread is inside OBS.
OutputIgnored == TRUE

OutputFree == output = "free"

\* What-if: decoded frames stay in the queue.
KeepFrames == UNCHANGED frames

FlushFrames == frames' = <<>>

ResetFrames ==
  /\ source = "frames" /\ OutputFree
  /\ FlushFrames
  /\ era' = era + 1
  /\ source' = "bump"
  /\ UNCHANGED <<received, generation, packets, decoder, clock, decodeVars,
                 presentVars>>

\* What-if: the decode thread is not told.
KeepGeneration == UNCHANGED generation

BumpGeneration == generation' = generation + 1

\* playout_reset() returns.
ResetReturn ==
  /\ source = "bump"
  /\ BumpGeneration
  /\ decoder' = "free"
  /\ source' = "closed"
  /\ strays' = 0
  /\ UNCHANGED <<era, received, packets, clock, frames, decodeVars, output,
                 present, media, hasNext, held, shown>>

\* The next stream is open: open_decoders() starts with empty decoders.
Reopen ==
  /\ source = "closed" /\ decoder = "free"
  /\ inside' = <<>>
  /\ source' = "reading"
  /\ received' = 0
  /\ UNCHANGED <<era, packets, decoder, generation, decode, seen, phase, run,
                 clock, frames, presentVars>>

Reader ==
  ResetLock \/ ResetClock \/ ResetFrames \/ ResetReturn \/ Reopen

-----------------------------------------------------------------------------
(***************************************************************************)
(* The decode thread: one pass of its loop holds decoder_mutex_.  A pass   *)
(* either buffers or plays; a playing pass feeds at most one packet.       *)
(***************************************************************************)

DecodeLock ==
  /\ decode = "idle" /\ decoder = "free"
  /\ decoder' = "decode"
  /\ decode' = "step"
  /\ IF seen = generation
       THEN UNCHANGED <<seen, phase, run>>
       ELSE seen' = generation /\ phase' = "starting" /\ run' = era
  /\ UNCHANGED <<readerVars, packets, inside, clock, frames, presentVars>>

DecodeUnlock == decode' = "idle" /\ decoder' = "free"

\* Nothing is ready: the pass ends.
DecodeNothing ==
  /\ decode \in {"step", "feed"}
  /\ DecodeUnlock
  /\ UNCHANGED <<readerVars, packets, seen, phase, run, inside, clock, frames,
                 presentVars>>

\* playout_step_buffering(): enough is queued, and no cut is needed.
DecodeResume ==
  /\ decode = "step" /\ phase = "buffering" /\ packets # <<>>
  /\ phase' = "playing"
  /\ DecodeUnlock
  /\ UNCHANGED <<readerVars, packets, seen, run, inside, clock, frames,
                 presentVars>>

\* playout_cut(), at the start of a stream, after a stall or by the policy: the
\* decoder and its queue first, the clock and the old packets next.
DecodeCutFrames ==
  /\ decode = "step" /\ packets # <<>>
  /\ inside' = <<>>
  /\ frames' = <<>>
  /\ decode' = "cut"
  /\ UNCHANGED <<readerVars, packets, decoder, seen, phase, run, clock,
                 presentVars>>

\* A cut by the policy happens ahead of a pass that then goes on to feed.
DecodeCutClock ==
  /\ decode = "cut"
  /\ clock' = None
  /\ \E n \in 0..Len(packets) : packets' = SubSeq(packets, n + 1, Len(packets))
  /\ phase' = "playing"
  /\ IF phase = "playing" THEN decode' = "feed" /\ UNCHANGED decoder
                          ELSE DecodeUnlock
  /\ UNCHANGED <<readerVars, seen, run, inside, frames, presentVars>>

\* Video was primed and no sound turned up to pin the clock.
DecodeAnchorFront ==
  /\ decode \in {"step", "feed"} /\ phase = "playing"
  /\ clock = None /\ frames # <<>>
  /\ clock' = Head(frames).era
  /\ decode' = "feed"
  /\ UNCHANGED <<readerVars, packets, decoder, seen, phase, run, inside,
                 frames, presentVars>>

\* What-if: the limit is one frame too far.
RoomForOneMore == Len(frames) <= MaxFrames

RoomForFrame == Len(frames) < MaxFrames

\* playout_feed_video()
DecodePop ==
  /\ decode \in {"step", "feed"} /\ phase = "playing"
  /\ packets # <<>> /\ RoomForFrame
  /\ inside' = Append(inside, Head(packets))
  /\ packets' = Tail(packets)
  /\ decode' = "fed"
  /\ UNCHANGED <<readerVars, decoder, seen, phase, run, clock, frames,
                 presentVars>>

\* playout_feed_audio(), which pins an invalid clock if a chunk comes out, or a
\* picture that is skipped while a keyframe is needed.
DecodeSwallow ==
  /\ decode \in {"step", "feed"} /\ phase = "playing" /\ packets # <<>>
  /\ packets' = Tail(packets)
  /\ \/ UNCHANGED clock
     \/ clock = None /\ clock' = Head(packets).era
  /\ DecodeUnlock
  /\ UNCHANGED <<readerVars, seen, phase, run, inside, frames, presentVars>>

\* playout_on_video_frame(): without sound the frame pins an invalid clock ...
DecodeAnchor ==
  /\ decode = "fed" /\ inside # <<>> /\ clock = None
  /\ clock' = Head(inside).era
  /\ UNCHANGED <<readerVars, packets, decoder, decodeVars, frames,
                 presentVars>>

\* ... and is queued, unless it lies before the cut target.
DecodeEmit ==
  /\ decode = "fed" /\ inside # <<>>
  /\ inside' = Tail(inside)
  /\ frames' \in {frames, Append(frames, Head(inside))}
  /\ UNCHANGED <<readerVars, packets, decoder, decode, seen, phase, run, clock,
                 presentVars>>

\* The decoder keeps what it needs for reordering.
DecodeFed ==
  /\ decode = "fed" /\ Len(inside) <= Delay
  /\ DecodeUnlock
  /\ UNCHANGED <<readerVars, packets, seen, phase, run, inside, clock, frames,
                 presentVars>>

\* playout_pause(), when both queues ran dry or a hold was asked for: frames
\* stay in the queue for when playback resumes.
DecodePause ==
  /\ decode \in {"step", "feed"} /\ phase = "playing"
  /\ clock' = None
  /\ phase' = "buffering"
  /\ DecodeUnlock
  /\ UNCHANGED <<readerVars, packets, seen, run, inside, frames, presentVars>>

DecodeThread ==
  \/ DecodeLock \/ DecodeNothing \/ DecodeResume \/ DecodeCutFrames
  \/ DecodeCutClock \/ DecodeAnchorFront \/ DecodePop \/ DecodeSwallow
  \/ DecodeAnchor \/ DecodeEmit \/ DecodeFed \/ DecodePause

-----------------------------------------------------------------------------
(***************************************************************************)
(* The present thread.                                                     *)
(***************************************************************************)

PresentFrame == UNCHANGED <<readerVars, packets, decoder, decodeVars, clock>>

PresentAgain == present' = "idle" /\ media' = None /\ hasNext' = FALSE

\* The clock is valid, and there is a frame in front.
PresentLook ==
  /\ present = "idle" /\ clock # None /\ frames # <<>>
  /\ media' = Head(frames).media
  /\ hasNext' = (Len(frames) > 1)
  /\ present' = "looked"
  /\ UNCHANGED <<frames, output, held, shown, strays>>
  /\ PresentFrame

\* Not due yet.  An invalid clock answers 0, which was long ago.
PresentWait ==
  /\ present = "looked" /\ clock # None
  /\ PresentAgain
  /\ UNCHANGED <<frames, output, held, shown, strays>>
  /\ PresentFrame

PresentDue ==
  /\ present = "looked"
  /\ present' = "due"
  /\ UNCHANGED <<frames, output, media, hasNext, held, shown, strays>>
  /\ PresentFrame

\* Takes it, unless the queue was flushed in the meantime.
PresentTake ==
  /\ present = "due"
  /\ IF frames # <<>> /\ Head(frames).media = media
       THEN /\ held' = Head(frames)
            /\ frames' = Tail(frames)
            /\ present' = "held"
            /\ UNCHANGED <<media, hasNext>>
       ELSE PresentAgain /\ UNCHANGED <<frames, held>>
  /\ UNCHANGED <<output, shown, strays>>
  /\ PresentFrame

\* The next frame falls in the same tick, or this one comes too late.
PresentSupersede ==
  /\ present = "held" /\ hasNext
  /\ held' = None
  /\ PresentAgain
  /\ UNCHANGED <<frames, output, shown, strays>>
  /\ PresentFrame

PresentLock ==
  /\ present = "held" /\ output = "free"
  /\ output' = "present"
  /\ present' = "locked"
  /\ UNCHANGED <<frames, media, hasNext, held, shown, strays>>
  /\ PresentFrame

\* What-if: the early way out keeps the mutex.
KeepOutput == UNCHANGED output

ReleaseOutput == output' = "free"

\* The clock went invalid since: the frame is dropped.
PresentSkip ==
  /\ present = "locked" /\ clock = None
  /\ held' = None
  /\ ReleaseOutput
  /\ PresentAgain
  /\ UNCHANGED <<frames, shown, strays>>
  /\ PresentFrame

PresentCheck ==
  /\ present = "locked" /\ clock # None
  /\ present' = "submit"
  /\ UNCHANGED <<frames, output, media, hasNext, held, shown, strays>>
  /\ PresentFrame

\* submit_video_frame()
PresentSubmit ==
  /\ present = "submit"
  /\ shown' = held
  /\ held' = None
  /\ output' = "free"
  /\ PresentAgain
  /\ strays' = IF held.era < era THEN strays + 1 ELSE strays
  /\ UNCHANGED frames
  /\ PresentFrame

PresentThread ==
  \/ PresentLook \/ PresentWait \/ PresentDue \/ PresentTake
  \/ PresentSupersede \/ PresentLock \/ PresentSkip \/ PresentCheck
  \/ PresentSubmit

-----------------------------------------------------------------------------
Next == Ingest \/ ResetWant \/ Reader \/ DecodeThread \/ PresentThread

\* The threads are scheduled.  Two threads compete for decoder_mutex_, so the
\* reader needs it granted in spite of passes that take it in between.
Fairness ==
  /\ WF_vars(Reader) /\ SF_vars(ResetLock) /\ SF_vars(Reopen)
  /\ WF_vars(DecodeThread) /\ WF_vars(PresentThread)

Spec == Init /\ [][Next]_vars

FairSpec == Spec /\ Fairness

-----------------------------------------------------------------------------
TypeOK ==
  /\ era \in 0..MaxEra /\ generation \in 0..MaxEra /\ seen \in 0..MaxEra
  /\ source \in {"reading", "want", "clock", "frames", "bump", "closed"}
  /\ received \in 0..MaxMedia
  /\ packets \in Seq(Frame) /\ Len(packets) <= MaxMedia
  /\ decoder \in {"free", "reset", "decode"}
  /\ decode \in {"idle", "step", "cut", "feed", "fed"}
  /\ phase \in {"starting", "playing", "buffering"} /\ run \in 0..MaxEra
  /\ inside \in Seq(Frame) /\ Len(inside) <= Delay + 1
  /\ clock \in 0..MaxEra \cup {None}
  /\ frames \in Seq(Frame) /\ Len(frames) <= MaxFrames + Delay
  /\ output \in {"free", "present"}
  /\ present \in {"idle", "looked", "due", "held", "locked", "submit"}
  /\ media \in 1..MaxMedia \cup {None} /\ hasNext \in BOOLEAN
  /\ held \in Frame \cup {None} /\ shown \in Frame \cup {None}
  /\ strays \in Nat

AllOf(q, e) == \A i \in 1..Len(q) : q[i].era = e

\* Nothing in the two queues is ever older than the stream the reader is on, no
\* clock of an earlier stream runs, and a decode pass never works with what it
\* learned from an earlier stream or feeds a decoder that holds pictures of one.
BuffersAreCurrent ==
  /\ AllOf(packets, era) /\ AllOf(frames, era)
  /\ clock \in {None, era}
  /\ decode # "idle" => run = era
  /\ decode = "fed" => AllOf(inside, era)

\* live-stream-source.h on present_output_mutex_: "Held while a frame goes to
\* OBS, so a reset can guarantee none lands after it".  When a reset gets past
\* that mutex, no frame that had passed the clock check is still on its way.
SubmitEndsBeforeReset == source = "bump" => present # "submit"

\* Of all frames of the old stream at most one gets to OBS after the reset
\* returned: the one the present thread had taken.
AtMostOneStray == strays <= 1

\* playout_reset() returns: its mutexes come free, in the order it takes them.
ResetReturns == source = "want" ~> source = "reading"

\* The refinement: a stream becomes the current one when the queue of the old
\* one is flushed, and a frame is taken from then until it is shown or freed.
Gate == INSTANCE FrameGate WITH
  current <- era,
  taken <- IF held = None THEN None ELSE held.era,
  shown <- IF shown = None THEN None ELSE shown.era

ImplementsGate == Gate!Spec

\* The comment above playout_reset(): "On return no frame from before the reset
\* can reach OBS".  A frame taken before the reset is submitted as soon as the
\* clock is valid again, and nothing says that it is still the same clock.
ResetIsBarrier == source = "reading" => strays = 0
=============================================================================
