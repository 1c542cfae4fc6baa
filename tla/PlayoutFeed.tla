---------------------------- MODULE PlayoutFeed ----------------------------
(***************************************************************************)
(* The two ends of the jitter buffer: the reader that fills it from a      *)
(* stream in which content may go missing, and the decode thread that      *)
(* fills up, cuts to a keyframe, feeds the decoders and stalls.  When      *)
(* packets are due and how far a cut reaches back is left open.  The       *)
(* question is which pictures reach the decoder without the picture they   *)
(* refer to.                                                               *)
(***************************************************************************)
EXTENDS PacketBuffer

CONSTANTS
  MaxTime,     \* bound: media time
  MaxSkew,     \* bound: how far apart a muxer holds audio and video
  Loss,        \* media time that goes missing at once
  MaxLosses,   \* bound: losses in a behaviour
  Pauses       \* streams that may pause: the video of a static scene, silence

ASSUME FeedAssumption ==
  /\ MaxTime \in Nat /\ MaxSkew \in Nat /\ MaxLosses \in Nat
  /\ Loss \in Nat /\ Loss > GapThreshold
  /\ Pauses \subseteq {"video", "audio"}

VARIABLES
  buf,       \* packets_
  phase,     \* run_.phase: "buffering" or "playing"
  starting,  \* run_.starting
  needKey,   \* run_.need_keyframe
  decoded,   \* number of the last picture in the decoder, 0 after a flush
  sent,      \* the encoder: number of its last picture,
  videoAt,   \*   time of its last picture
  audioAt,   \*   and of its last sound
  losses,    \* losses so far
  gone,      \* streams with a loss in front of their next packet
  cleared,   \* the limits have just cleared the video queue
  smear      \* history: why pictures were decoded without their reference

vars == <<buf, phase, starting, needKey, decoded, sent, videoAt, audioAt,
          losses, gone, cleared, smear>>

encoder == <<sent, videoAt, audioAt, losses, gone>>
run == <<phase, starting, needKey>>

Init ==
  /\ buf = EmptyBuffer
  /\ phase = "buffering" /\ starting = TRUE /\ needKey = FALSE
  /\ decoded = 0
  /\ sent = 0 /\ videoAt = 0 /\ audioAt = 0 /\ losses = 0 /\ gone = {}
  /\ cleared = FALSE /\ smear = {}

-----------------------------------------------------------------------------
(***************************************************************************)
(* The reader: ingest_packet().  Times grow within a stream, by one step   *)
(* or, where the stream may pause, by more than the threshold.             *)
(***************************************************************************)

Steps(stream) ==
  IF stream \in gone THEN {1 + Loss}
  ELSE IF stream \in Pauses THEN {1, 1 + GapThreshold} ELSE {1}

PushPicture ==
  \E step \in Steps("video"), key \in BOOLEAN :
    LET at == videoAt + step
        id == IF "video" \in gone THEN sent + 2 ELSE sent + 1
        missing == {c \in {"network", "limit"} :
                      \/ c = "network" /\ "video" \in gone
                      \/ c = "limit" /\ cleared}
    IN  /\ at <= MaxTime /\ Distance(at, audioAt) <= MaxSkew
        /\ buf' = PushVideo(buf, [at |-> at, key |-> key, id |-> id,
                                  missing |-> missing, afterGap |-> FALSE])
        /\ videoAt' = at /\ sent' = id
        /\ gone' = gone \ {"video"}
        /\ cleared' = (buf'.video = <<>>)
        /\ UNCHANGED <<run, decoded, audioAt, losses, smear>>

PushSound ==
  \E step \in Steps("audio") :
    LET at == audioAt + step
    IN  /\ at <= MaxTime /\ Distance(at, videoAt) <= MaxSkew
        /\ buf' = PushAudio(buf, [at |-> at])
        /\ audioAt' = at
        /\ gone' = gone \ {"audio"}
        /\ cleared' = (cleared \/ (buf.video # <<>> /\ buf'.video = <<>>))
        /\ UNCHANGED <<run, decoded, sent, videoAt, losses, smear>>

\* The network swallows the same stretch of both streams.  A loss in front of
\* the first sound cannot show as a jump and is left out.
LoseContent ==
  /\ losses < MaxLosses /\ gone = {} /\ sent > 0 /\ audioAt > 0
  /\ losses' = losses + 1
  /\ gone' = {"video", "audio"}
  /\ UNCHANGED <<buf, run, decoded, sent, videoAt, audioAt, cleared, smear>>

-----------------------------------------------------------------------------
(***************************************************************************)
(* The decode thread                                                       *)
(***************************************************************************)

HasData == buf.video # <<>> \/ buf.audio # <<>>

\* playout_step_buffering() without a cut
Resume ==
  /\ phase = "buffering" /\ HasData
  /\ ~starting /\ ~buf.hasGap
  /\ phase' = "playing"
  /\ UNCHANGED <<buf, starting, needKey, decoded, encoder, cleared, smear>>

NeedsKeyframe(found) == ~found

\* playout_cut(): from position i of the video, or from the target
Cut(i, target) ==
  /\ decoded' = 0
  /\ buf' = IF i = 0 THEN DropAudioBefore(buf, target)
            ELSE LET at == buf.video[i].at
                 IN  DropAudioBefore(DropVideoBefore(buf, at),
                                     IF at > target THEN at ELSE target)
  /\ needKey' = NeedsKeyframe(i # 0)
  /\ starting' = FALSE
  /\ phase' = "playing"
  /\ UNCHANGED <<encoder, cleared, smear>>

\* At the start, after a stall or by the policy.
CutToKeyframe ==
  /\ HasData
  /\ \E target \in 0..buf.newest :
       CutPoint(buf, target) # 0 /\ Cut(CutPoint(buf, target), target)

\* The wait for a keyframe is over; the policy never does this.
CutWithoutKeyframe ==
  /\ phase = "buffering" /\ HasData
  /\ \E target \in 0..buf.newest : CutPoint(buf, target) = 0 /\ Cut(0, target)

AsksForKeyframe(p) == needKey \/ (p.afterGap /\ ~p.key)

\* playout_feed_video(): a picture is skipped while a keyframe is needed ...
SkipPicture ==
  /\ phase = "playing" /\ buf.video # <<>>
  /\ AsksForKeyframe(Head(buf.video)) /\ ~Head(buf.video).key
  /\ buf' = PopVideo(buf)
  /\ needKey' = TRUE
  /\ UNCHANGED <<phase, starting, decoded, encoder, cleared, smear>>

\* The picture in front of p never reached the decoder.
LacksReference(p) == ~p.key /\ decoded + 1 # p.id

\* Why p is decoded over a hole: the limits took what came before, or a gap did.
\* Of a gap that only the video has shown the buffer cannot know.
Smears(p) ==
  {why \in {"limit", "gap"} :
     /\ LacksReference(p)
     /\ \/ why = "limit" /\ "limit" \in p.missing
        \/ why = "gap" /\ p.missing = {}
        \/ why = "gap" /\ "network" \in p.missing /\ "audio" \notin gone}

\* ... and decoded otherwise.
FeedPicture ==
  /\ phase = "playing" /\ buf.video # <<>>
  /\ LET p == Head(buf.video)
     IN  /\ p.key \/ ~AsksForKeyframe(p)
         /\ decoded' = p.id
         /\ smear' = smear \cup Smears(p)
  /\ buf' = PopVideo(buf)
  /\ needKey' = FALSE
  /\ UNCHANGED <<phase, starting, encoder, cleared>>

\* KEYFRAME_WAIT_US is over: the picture is fed as it is, on purpose.
FeedInDespair ==
  /\ phase = "playing" /\ buf.video # <<>>
  /\ needKey /\ ~Head(buf.video).key
  /\ decoded' = Head(buf.video).id
  /\ buf' = PopVideo(buf)
  /\ needKey' = FALSE
  /\ UNCHANGED <<phase, starting, encoder, cleared, smear>>

FeedSound ==
  /\ phase = "playing" /\ buf.audio # <<>>
  /\ buf' = PopAudio(buf)
  /\ UNCHANGED <<run, decoded, encoder, cleared, smear>>

\* playout_pause(): the buffer ran dry, or a hold was asked for.
Pause ==
  /\ phase = "playing"
  /\ phase' = "buffering"
  /\ UNCHANGED <<buf, starting, needKey, decoded, encoder, cleared, smear>>

\* playout_reset(), and a decode thread that starts over: a new stream.
Reset ==
  /\ buf' = EmptyBuffer
  /\ phase' = "buffering" /\ starting' = TRUE /\ needKey' = FALSE
  /\ decoded' = 0 /\ cleared' = FALSE
  /\ sent' = 0 /\ videoAt' = 0 /\ audioAt' = 0 /\ gone' = {}
  /\ UNCHANGED <<losses, smear>>

Decode ==
  \/ Resume \/ CutToKeyframe \/ CutWithoutKeyframe \/ SkipPicture
  \/ FeedPicture \/ FeedInDespair \/ FeedSound \/ Pause

Next == PushPicture \/ PushSound \/ LoseContent \/ Decode \/ Reset

Spec == Init /\ [][Next]_vars

-----------------------------------------------------------------------------
Time == 0..MaxTime

TypeOK ==
  /\ \A i \in DOMAIN buf.video :
       buf.video[i] \in [at : Time, key : BOOLEAN, id : Nat, afterGap : BOOLEAN,
                         missing : SUBSET {"network", "limit"}]
  /\ buf.audio \in Seq([at : Time])
  /\ buf.bytes \in Nat /\ buf.gap \in Time /\ buf.hasGap \in BOOLEAN
  /\ \A t \in {buf.lastVideo, buf.lastAudio, buf.newest, buf.videoJump,
               buf.audioJump} : t \in Time \cup {None}
  /\ phase \in {"buffering", "playing"}
  /\ starting \in BOOLEAN /\ needKey \in BOOLEAN /\ cleared \in BOOLEAN
  /\ decoded \in Nat /\ sent \in Nat
  /\ videoAt \in Time /\ audioAt \in Time
  /\ losses \in 0..MaxLosses /\ gone \subseteq {"video", "audio"}
  /\ smear \subseteq {"limit", "gap"}

\* bytes_ is what the two queues hold, whatever took packets out of them, and
\* the "memory safety net" of enforce_limits() holds between pushes too.
WithinLimits ==
  /\ buf.bytes = Len(buf.video) + Len(buf.audio)
  /\ buf.bytes <= MaxBytes
  /\ buf.video # <<>> => buf.newest - Head(buf.video).at <= MaxSpan

\* find_cut_point(): "no gap lies between it and the target".  Nothing that a
\* gap made undecodable is left behind the keyframe that playback jumps to.
CutsPastGaps ==
  [][decoded' = 0 /\ UNCHANGED encoder /\ CutToKeyframe =>
       \A i \in DOMAIN buf'.video : i > 1 => ~buf'.video[i].afterGap]_vars

\* packet-buffer.h on its jumps: "Content is only missing when both streams
\* jumped at the same point".  A gap that both streams have shown is not decoded
\* over: the decoder waits for a keyframe, whatever cuts, stalls, drops and
\* limits did to the queue in between.  So it is in a stream whose pictures come
\* steadily.  A pause of the video ("video" \in Pauses), which packet-buffer.h
\* expects of a static scene, leaves a jump behind that pairs with the sound of
\* a later gap: the picture behind that gap goes unmarked.
NoSmearAfterGap == "gap" \notin smear

\* enforce_limits(): "Keep going to the next keyframe, a partial GOP can't be
\* decoded".  After the limits have dropped pictures the next one decoded is a
\* keyframe.  When they empty the queue, no mark is left: the pictures that
\* arrive next are the rest of the group, and are decoded.
LimitsCutAtKeyframes == "limit" \notin smear
=============================================================================
