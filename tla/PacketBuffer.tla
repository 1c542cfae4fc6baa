---------------------------- MODULE PacketBuffer ----------------------------
(***************************************************************************)
(* PacketBuffer: the jitter buffer between the reader and the decode       *)
(* thread.  Every member function runs under the buffer's mutex, so each   *)
(* is one operator from buffer to buffer.                                  *)
(*                                                                         *)
(* A packet is [at, key, afterGap, id, missing]: its time on the media     *)
(* timeline (dts and pts are the same), whether it is a keyframe and       *)
(* whether the buffer marked it.  id and missing are the truth the buffer  *)
(* does not see: the number the encoder gave the picture, and why content  *)
(* in front of it is missing, if it is.  Every packet has size 1.          *)
(***************************************************************************)
EXTENDS Naturals, Sequences, FiniteSetsExt

CONSTANTS
  GapThreshold,   \* GAP_THRESHOLD_US
  GapMatch,       \* GAP_MATCH_US
  AudioSlack,     \* the second of audio kept in front of the video
  MaxSpan,        \* max_span_us_
  MaxBytes,       \* max_bytes_
  None            \* INT64_MIN

ASSUME BufferAssumption ==
  /\ GapThreshold \in Nat \ {0} /\ GapMatch \in Nat /\ AudioSlack \in Nat
  /\ MaxSpan \in Nat /\ MaxBytes \in Nat
  /\ None \notin Nat

EmptyBuffer ==
  [video |-> <<>>, audio |-> <<>>, bytes |-> 0,
   lastVideo |-> None, lastAudio |-> None, newest |-> None,
   videoJump |-> None, audioJump |-> None, gap |-> 0, hasGap |-> FALSE]

\* |a - b|
Distance(a, b) == IF a > b THEN a - b ELSE b - a

From(q, i) == SubSeq(q, i, Len(q))

\* The position of the first packet at or after t, one past the end if none is
FirstAt(q, t) == Min({i \in DOMAIN q : q[i].at >= t} \cup {Len(q) + 1})

-----------------------------------------------------------------------------
(***************************************************************************)
(* Limits                                                                  *)
(***************************************************************************)

Span(b) ==
  IF b.newest = None THEN 0
  ELSE IF b.video # <<>> THEN b.newest - Head(b.video).at
  ELSE IF b.audio # <<>> THEN b.newest - Head(b.audio).at
  ELSE 0

Over(b) == Span(b) > MaxSpan \/ b.bytes > MaxBytes

DropVideo(b, i) ==
  [b EXCEPT !.video = From(b.video, i), !.bytes = b.bytes - (i - 1)]

\* What-if: pop() does not account for what it takes.
DropAudioUncounted(b, i) == [b EXCEPT !.audio = From(b.audio, i)]

DropAudio(b, i) ==
  [b EXCEPT !.audio = From(b.audio, i), !.bytes = b.bytes - (i - 1)]

\* What-if: a partial GOP stays in the buffer.
AnyPicture(q) == DOMAIN q \cup {Len(q) + 1}

\* Where the video may begin after a drop: at a keyframe, or past its end
GopStarts(q) == {1, Len(q) + 1} \cup {i \in DOMAIN q : i > 1 /\ q[i].key}

VideoWithinLimits(b) ==
  DropVideo(b, Min({i \in GopStarts(b.video) :
                      i > Len(b.video) \/ ~Over(DropVideo(b, i))}))

AudioWithinLimits(b) ==
  DropAudio(b, Min({i \in 1..Len(b.audio) + 1 :
                      i > Len(b.audio) \/ ~Over(DropAudio(b, i))}))

EnforceLimits(b) ==
  LET c == VideoWithinLimits(b)
  IN  IF c.video = <<>> THEN AudioWithinLimits(c)
      ELSE IF c.video = b.video THEN c
      ELSE LET kept(i) == c.audio[i].at + AudioSlack >= Head(c.video).at
           IN  DropAudio(c, Min({i \in 1..Len(c.audio) + 1 :
                                   i > Len(c.audio) \/ kept(i)}))

-----------------------------------------------------------------------------
(***************************************************************************)
(* push() and pop()                                                        *)
(***************************************************************************)

\* A jump in one stream proves nothing: both must have jumped at the same
\* point.  The newest picture with that time is marked, if it is still queued.
ConfirmGap(b) ==
  IF b.videoJump = None \/ b.audioJump = None
     \/ Distance(b.videoJump, b.audioJump) > GapMatch
    THEN b
    ELSE LET at == {i \in DOMAIN b.video : b.video[i].at = b.videoJump}
         IN  [b EXCEPT !.gap = b.videoJump, !.hasGap = TRUE,
                !.video = [i \in DOMAIN b.video |->
                             IF at # {} /\ i = Max(at)
                               THEN [b.video[i] EXCEPT !.afterGap = TRUE]
                               ELSE b.video[i]],
                !.videoJump = None, !.audioJump = None]

Jumped(last, t) == last # None /\ t > last + GapThreshold

Newest(b, t) == IF b.newest = None \/ t > b.newest THEN t ELSE b.newest

PushVideo(b, p) ==
  EnforceLimits(ConfirmGap(
    [b EXCEPT !.video = Append(b.video, p), !.bytes = b.bytes + 1,
              !.lastVideo = p.at, !.newest = Newest(b, p.at),
              !.videoJump = IF Jumped(b.lastVideo, p.at) THEN p.at
                                                         ELSE b.videoJump]))

PushAudio(b, p) ==
  EnforceLimits(ConfirmGap(
    [b EXCEPT !.audio = Append(b.audio, p), !.bytes = b.bytes + 1,
              !.lastAudio = p.at, !.newest = Newest(b, p.at),
              !.audioJump = IF Jumped(b.lastAudio, p.at) THEN p.at
                                                         ELSE b.audioJump]))

PopVideo(b) ==
  [DropVideo(b, 2) EXCEPT !.hasGap = b.hasGap /\ Head(b.video).at < b.gap]

PopAudio(b) == DropAudio(b, 2)

-----------------------------------------------------------------------------
(***************************************************************************)
(* Cutting                                                                 *)
(***************************************************************************)

\* What-if: keyframes in front of the gap count too.
AllKeyframes(b) == {i \in DOMAIN b.video : b.video[i].key}

UsableKeyframes(b) ==
  {i \in DOMAIN b.video :
     b.video[i].key /\ (b.hasGap => b.video[i].at >= b.gap)}

\* find_cut_point(): the last usable keyframe up to the target, or else the
\* first one past it; 0 if there is none.
CutPoint(b, target) ==
  LET before == {i \in UsableKeyframes(b) : b.video[i].at <= target}
  IN  IF before # {} THEN Max(before)
      ELSE IF UsableKeyframes(b) # {} THEN Min(UsableKeyframes(b))
      ELSE 0

DropVideoBefore(b, t) ==
  [DropVideo(b, FirstAt(b.video, t)) EXCEPT !.hasGap = b.hasGap /\ t < b.gap]

DropAudioBefore(b, t) == DropAudio(b, FirstAt(b.audio, t))
=============================================================================
