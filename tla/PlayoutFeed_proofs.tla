------------------------ MODULE PlayoutFeed_proofs ------------------------
(***************************************************************************)
(* What PlayoutFeed and the jitter buffer under it promise for any limits, *)
(* losses and pauses: the accounting and the limits of the buffer, that a  *)
(* cut leaves no gap behind the picture it jumps to, and, for a muxer that *)
(* holds audio and video together and a video that does not pause, that no *)
(* picture is decoded whose reference the buffer could know to be missing. *)
(***************************************************************************)
EXTENDS PlayoutFeed, SequenceTheorems, WellFoundedInduction, TLAPS

-----------------------------------------------------------------------------
(* The inductive invariant                                                 *)

Picture == [at : Time, key : BOOLEAN, id : Nat, afterGap : BOOLEAN,
            missing : SUBSET {"network", "limit"}]
Sound == [at : Time]

Buffer == [video : Seq(Picture), audio : Seq(Sound), bytes : Nat,
           lastVideo : Time \cup {None}, lastAudio : Time \cup {None},
           newest : Time \cup {None}, videoJump : Time \cup {None},
           audioJump : Time \cup {None}, gap : Time, hasGap : BOOLEAN]

\* Pictures are queued in the order of their times, and none is newer than what
\* the buffer remembers of the last.
InOrder(b) ==
  /\ \A i, j \in DOMAIN b.video : i < j => b.video[i].at < b.video[j].at
  /\ \A i \in DOMAIN b.video :
       /\ b.lastVideo # None /\ b.video[i].at <= b.lastVideo
       /\ b.newest # None /\ b.video[i].at <= b.newest

\* A marked picture lies at the newest gap or before it, and behind a gap that
\* has been passed only the first picture can be marked.
GapsMarked(b) ==
  /\ \A i \in DOMAIN b.video : b.video[i].afterGap =>
       /\ b.hasGap => b.video[i].at <= b.gap
       /\ ~b.hasGap => i = 1
       /\ b.videoJump # None => b.video[i].at <= b.videoJump
  /\ b.videoJump # None => b.lastVideo # None /\ b.videoJump <= b.lastVideo

Counted(b) == b.bytes = Len(b.video) + Len(b.audio)

\* The memory safety net
Limited(b) ==
  /\ b.bytes <= MaxBytes
  /\ b.video # <<>> => b.newest - Head(b.video).at <= MaxSpan

\* What holds of a buffer within a push too, before the limits are enforced
Good(b) == b \in Buffer /\ InOrder(b) /\ GapsMarked(b) /\ Counted(b)

BufferInv == Good(buf) /\ Limited(buf)

\* What the buffer remembers of the encoder
ReaderInv ==
  /\ sent \in Nat /\ decoded \in Nat /\ videoAt \in Time /\ audioAt \in Time
  /\ gone \subseteq {"video", "audio"} /\ losses \in 0..MaxLosses
  /\ phase \in {"buffering", "playing"}
  /\ starting \in BOOLEAN /\ needKey \in BOOLEAN
  /\ cleared \in BOOLEAN /\ smear \subseteq {"limit", "gap"}
  /\ buf.lastVideo = IF sent > 0 THEN videoAt ELSE None
  /\ buf.lastAudio = IF audioAt > 0 THEN audioAt ELSE None
  /\ gone # {} => sent > 0 /\ audioAt > 0

\* p can be decoded after picture number n, or what it lacks is known.
Follows(n, p) == p.key \/ p.missing # {} \/ p.id = n + 1

\* Each picture in the queue can follow the one in front of it.
Linked(b) ==
  \A i, j \in DOMAIN b.video :
    j = i + 1 => Follows(b.video[i].id, b.video[j])

\* The queue continues what the decoder has, and the encoder the queue.
ChainInv ==
  /\ Linked(buf)
  /\ buf.video # <<>> =>
       /\ needKey \/ Follows(decoded, Head(buf.video))
       /\ buf.video[Len(buf.video)].id = sent
  /\ buf.video = <<>> => needKey \/ cleared \/ decoded = sent

\* A picture behind a loss is marked, or waits for the audio to show the loss.
LossesShow(b) ==
  \A i \in DOMAIN b.video : "network" \in b.video[i].missing =>
    b.video[i].afterGap \/ b.videoJump = b.video[i].at

\* A loss that both streams have shown is marked: its two jumps lie no further
\* apart than the muxer's skew, whichever stream shows it first.
LossInv ==
  /\ Distance(videoAt, audioAt) <= MaxSkew
  /\ LossesShow(buf)
  /\ buf.videoJump # None =>
       /\ "audio" \in gone /\ "video" \notin gone
       /\ Distance(buf.videoJump, audioAt + 1 + Loss) <= MaxSkew
  /\ "video" \in gone /\ "audio" \notin gone =>
       /\ buf.audioJump # None /\ buf.audioJump <= audioAt
       /\ Distance(videoAt + 1 + Loss, buf.audioJump) <= MaxSkew

\* Under what a picture that lacks its reference can be told
SteadyStream == Pauses \subseteq {"audio"} /\ MaxSkew <= GapMatch

FeedInv == BufferInv /\ ReaderInv
SmearInv == ChainInv /\ LossInv /\ NoSmearAfterGap

-----------------------------------------------------------------------------
(* Least and greatest positions                                            *)

\* The order of the natural numbers as a relation
LEMMA LessThan == \A x, y \in Nat : y < x => <<y, x>> \in OpToRel(<, Nat)
  BY DEF OpToRel

\* The order of the natural numbers is well founded.
LEMMA LeastExists ==
  ASSUME NEW S \in SUBSET Nat, S # {}
  PROVE  \E x \in S : \A y \in S : x <= y
<1>1. PICK x \in S : \A y \in S : ~ (<<y, x>> \in OpToRel(<, Nat))
  BY NatLessThanWellFounded, WFMin, Zenon
<1>2. \A y \in S : ~(y < x)
  BY <1>1, LessThan
<1> QED
  BY <1>2

\* Min chooses a least element.
LEMMA MinNat ==
  ASSUME NEW S \in SUBSET Nat, S # {}
  PROVE  Min(S) \in S /\ \A y \in S : Min(S) <= y
  BY LeastExists DEF Min

\* Max chooses a greatest position.
LEMMA MaxNat ==
  ASSUME NEW n \in Nat, NEW S \in SUBSET (1..n), S # {}
  PROVE  Max(S) \in S /\ \A y \in S : Max(S) >= y
<1> DEFINE T == {n - x : x \in S}
<1>0. \A x \in S : x \in Nat /\ n - x \in Nat
  OBVIOUS
<1>1. T \in SUBSET Nat /\ T # {}
  BY <1>0
<1>2. PICK m \in T : \A y \in T : m <= y
  BY <1>1, LeastExists
<1>3. PICK x \in S : m = n - x
  BY <1>2
<1>4. \A y \in S : n - x <= n - y
  BY <1>2, <1>3
<1>5. \A y \in S : x >= y
  BY <1>0, <1>4
<1> QED
  BY <1>5 DEF Max

-----------------------------------------------------------------------------
(* Dropping from the front                                                 *)

\* What From keeps of a queue
LEMMA FromProperties ==
  ASSUME NEW S, NEW q \in Seq(S), NEW i \in 1 .. Len(q) + 1
  PROVE  /\ From(q, i) \in Seq(S)
         /\ Len(From(q, i)) = Len(q) - (i - 1)
         /\ \A j \in 1 .. Len(q) - (i - 1) : From(q, i)[j] = q[j + i - 1]
         /\ i = 1 => From(q, i) = q
<1>1. \A j \in i .. Len(q) : q[j] \in S
  OBVIOUS
<1>2. /\ SubSeq(q, i, Len(q)) \in Seq(S)
      /\ Len(SubSeq(q, i, Len(q))) = IF i <= Len(q) THEN Len(q) - i + 1 ELSE 0
      /\ \A j \in 1 .. Len(q) - i + 1 : SubSeq(q, i, Len(q))[j] = q[i + j - 1]
  BY <1>1, SubSeqProperties
<1>3. Len(From(q, i)) = Len(q) - (i - 1)
  BY <1>2 DEF From
<1>4. i = 1 => From(q, i) = q
  BY <1>2, <1>3 DEF From
<1> QED
  BY <1>2, <1>3, <1>4 DEF From

\* b without its first i - 1 pictures and its first j - 1 sounds: every way to
\* take packets out of the buffer is of this form, but for hasGap.
Dropped(b, i, j) ==
  [b EXCEPT !.video = From(b.video, i), !.audio = From(b.audio, j),
            !.bytes = b.bytes - (i - 1) - (j - 1)]

\* The positions to drop to
Places(q) == 1 .. Len(q) + 1

\* Dropping counts what it takes and leaves the rest of the buffer alone.
LEMMA DroppedFields ==
  ASSUME NEW b \in Buffer, Counted(b),
         NEW i \in Places(b.video), NEW j \in Places(b.audio)
  PROVE  LET d == Dropped(b, i, j)
         IN  /\ d \in Buffer /\ Counted(d)
             /\ d.bytes = b.bytes - (i - 1) - (j - 1)
             /\ d.video = From(b.video, i) /\ d.audio = From(b.audio, j)
             /\ d.lastVideo = b.lastVideo /\ d.lastAudio = b.lastAudio
             /\ d.newest = b.newest /\ d.gap = b.gap /\ d.hasGap = b.hasGap
             /\ d.videoJump = b.videoJump /\ d.audioJump = b.audioJump
<1>1. /\ b.video \in Seq(Picture) /\ b.audio \in Seq(Sound) /\ b.bytes \in Nat
  BY DEF Buffer
<1>2. /\ From(b.video, i) \in Seq(Picture)
      /\ Len(From(b.video, i)) = Len(b.video) - (i - 1)
  BY <1>1, FromProperties DEF Places
<1>3. /\ From(b.audio, j) \in Seq(Sound)
      /\ Len(From(b.audio, j)) = Len(b.audio) - (j - 1)
  BY <1>1, FromProperties DEF Places
<1>4. /\ b.bytes - (i - 1) - (j - 1) \in Nat
      /\ b.bytes - (i - 1) - (j - 1) =
           Len(From(b.video, i)) + Len(From(b.audio, j))
  <2>1. /\ Len(b.video) \in Nat /\ Len(b.audio) \in Nat
        /\ i \in 1 .. Len(b.video) + 1 /\ j \in 1 .. Len(b.audio) + 1
        /\ b.bytes = Len(b.video) + Len(b.audio)
    BY <1>1 DEF Counted, Places
  <2>2. /\ i \in Nat /\ 1 <= i /\ i - 1 <= Len(b.video)
        /\ j \in Nat /\ 1 <= j /\ j - 1 <= Len(b.audio)
    BY <2>1
  <2> DEFINE v == Len(b.video)
             a == Len(b.audio)
  <2>3. v \in Nat /\ a \in Nat /\ i - 1 <= v /\ j - 1 <= a
    BY <2>1, <2>2
  <2> HIDE DEF v, a
  <2>4. /\ v + a - (i - 1) - (j - 1) \in Nat
        /\ v + a - (i - 1) - (j - 1) = (v - (i - 1)) + (a - (j - 1))
    BY <2>2, <2>3
  <2>5. b.bytes = v + a
    BY <2>1 DEF v, a
  <2>6. Len(From(b.video, i)) = v - (i - 1)
    BY <1>2 DEF v
  <2>7. Len(From(b.audio, j)) = a - (j - 1)
    BY <1>3 DEF a
  <2> QED
    BY <1>1, <2>2, <2>3, <2>4, <2>5, <2>6, <2>7
<1> QED
  BY <1>2, <1>3, <1>4 DEF Dropped, Buffer, Counted

\* Dropping pictures or sounds alone
LEMMA DropIsDropped ==
  ASSUME NEW b \in Buffer, Counted(b)
  PROVE  /\ \A i \in Places(b.video) : DropVideo(b, i) = Dropped(b, i, 1)
         /\ \A j \in Places(b.audio) : DropAudio(b, j) = Dropped(b, 1, j)
<1>1. b.video \in Seq(Picture) /\ b.audio \in Seq(Sound) /\ b.bytes \in Nat
  BY DEF Buffer
<1>2. From(b.video, 1) = b.video /\ From(b.audio, 1) = b.audio
  BY <1>1, FromProperties
<1>3. /\ \A i \in Places(b.video) :
           b.bytes - (i - 1) - (1 - 1) = b.bytes - (i - 1)
      /\ \A j \in Places(b.audio) :
           b.bytes - (1 - 1) - (j - 1) = b.bytes - (j - 1)
  BY <1>1 DEF Places
<1>4. ASSUME NEW i \in Places(b.video)
      PROVE  DropVideo(b, i) = Dropped(b, i, 1)
  BY <1>2, <1>3 DEF DropVideo, Dropped, Buffer
<1>5. ASSUME NEW j \in Places(b.audio)
      PROVE  DropAudio(b, j) = Dropped(b, 1, j)
  BY <1>2, <1>3 DEF DropAudio, Dropped, Buffer
<1> QED
  BY <1>4, <1>5

\* What is in a queue
LEMMA Queued ==
  /\ \A q \in Seq(Picture) : \A i \in DOMAIN q :
       /\ q[i] \in Picture /\ q[i].at \in Time /\ q[i].at \in Nat
       /\ q[i].id \in Nat /\ q[i].key \in BOOLEAN
       /\ q[i].afterGap \in BOOLEAN
       /\ q[i].missing \subseteq {"network", "limit"}
  /\ \A q \in Seq(Sound) : \A i \in DOMAIN q :
       q[i] \in Sound /\ q[i].at \in Time /\ q[i].at \in Nat
<1>1. ASSUME NEW q \in Seq(Picture), NEW i \in DOMAIN q
      PROVE  /\ q[i] \in Picture /\ q[i].at \in Time /\ q[i].at \in Nat
             /\ q[i].id \in Nat /\ q[i].key \in BOOLEAN
             /\ q[i].afterGap \in BOOLEAN
             /\ q[i].missing \subseteq {"network", "limit"}
  <2>1. q[i] \in Picture
    BY <1>1
  <2>2. \A t \in Time : t \in Nat
    BY FeedAssumption DEF Time
  <2> QED
    BY <2>1, <2>2 DEF Picture
<1>2. ASSUME NEW q \in Seq(Sound), NEW i \in DOMAIN q
      PROVE  q[i] \in Sound /\ q[i].at \in Time /\ q[i].at \in Nat
  <2>1. q[i] \in Sound
    BY <1>2
  <2>2. \A t \in Time : t \in Nat
    BY FeedAssumption DEF Time
  <2> QED
    BY <2>1, <2>2 DEF Sound
<1> QED
  BY <1>1, <1>2

\* The pictures that are left
LEMMA DroppedPictures ==
  ASSUME NEW b \in Buffer, Counted(b),
         NEW i \in Places(b.video), NEW j \in Places(b.audio)
  PROVE  LET d == Dropped(b, i, j)
         IN  /\ DOMAIN d.video = 1 .. Len(b.video) - (i - 1)
             /\ DOMAIN b.video = 1 .. Len(b.video)
             /\ Len(d.video) = Len(b.video) - (i - 1)
             /\ \A k \in DOMAIN d.video :
                  /\ k \in Nat \ {0} /\ k + i - 1 \in DOMAIN b.video
                  /\ d.video[k] = b.video[k + i - 1]
             /\ d.video # <<>> =>
                  /\ i \in DOMAIN b.video /\ b.video # <<>>
                  /\ Head(d.video) = b.video[i] /\ 1 \in DOMAIN d.video
                  /\ Len(d.video) \in DOMAIN d.video
                  /\ d.video[Len(d.video)] = b.video[Len(b.video)]
             /\ d.video = <<>> <=> i = Len(b.video) + 1
<1> DEFINE d == Dropped(b, i, j)
<1>1. b.video \in Seq(Picture)
  BY DEF Buffer
<1>2. d.video = From(b.video, i)
  BY DroppedFields
<1>3. /\ d.video \in Seq(Picture)
      /\ Len(d.video) = Len(b.video) - (i - 1)
      /\ \A k \in 1 .. Len(b.video) - (i - 1) :
           d.video[k] = b.video[k + i - 1]
  BY <1>1, <1>2, FromProperties DEF Places
<1> HIDE DEF d
<1>4. DOMAIN b.video = 1 .. Len(b.video) /\ Len(b.video) \in Nat
  BY <1>1
<1>5. DOMAIN d.video = 1 .. Len(b.video) - (i - 1)
  BY <1>3
<1>6. i \in 1 .. Len(b.video) + 1
  BY DEF Places
<1>7. \A n \in Nat : \A x \in 1 .. n + 1 : \A k \in 1 .. n - (x - 1) :
        k \in Nat \ {0} /\ k + x - 1 \in 1 .. n
  OBVIOUS
<1>8. \A k \in DOMAIN d.video :
        /\ k \in Nat \ {0} /\ k + i - 1 \in DOMAIN b.video
        /\ d.video[k] = b.video[k + i - 1]
  BY <1>3, <1>4, <1>5, <1>6, <1>7
<1>9. d.video = <<>> <=> i = Len(b.video) + 1
  BY <1>3, <1>4, <1>6
<1>10. ASSUME d.video # <<>>
       PROVE  /\ i \in DOMAIN b.video /\ b.video # <<>>
              /\ Head(d.video) = b.video[i] /\ 1 \in DOMAIN d.video
              /\ Len(d.video) \in DOMAIN d.video
              /\ d.video[Len(d.video)] = b.video[Len(b.video)]
  <2>1. i \in 1 .. Len(b.video)
    BY <1>4, <1>6, <1>9, <1>10
  <2>2. 1 \in 1 .. Len(b.video) - (i - 1)
    BY <1>4, <2>1
  <2>3. Len(d.video) \in 1 .. Len(b.video) - (i - 1)
    BY <1>3, <1>4, <2>1
  <2>4. Head(d.video) = d.video[1]
    BY <1>3, <1>10
  <2>5. d.video[1] = b.video[1 + i - 1] /\ 1 + i - 1 = i
    BY <1>3, <2>1, <2>2
  <2>6. /\ d.video[Len(d.video)] = b.video[Len(d.video) + i - 1]
        /\ Len(d.video) + i - 1 = Len(b.video)
    BY <1>3, <1>4, <2>1, <2>3
  <2> QED
    BY <1>4, <1>5, <2>1, <2>2, <2>3, <2>4, <2>5, <2>6
<1> QED
  BY <1>3, <1>4, <1>5, <1>8, <1>9, <1>10 DEF d

\* Dropping from the front keeps order, marks and count.
LEMMA DroppedGood ==
  ASSUME NEW b, Good(b), NEW i \in Places(b.video), NEW j \in Places(b.audio)
  PROVE  Good(Dropped(b, i, j))
<1> DEFINE d == Dropped(b, i, j)
<1>0. b \in Buffer /\ InOrder(b) /\ GapsMarked(b) /\ Counted(b)
  BY DEF Good
<1>1. /\ d \in Buffer /\ Counted(d)
      /\ d.lastVideo = b.lastVideo /\ d.newest = b.newest
      /\ d.gap = b.gap /\ d.hasGap = b.hasGap /\ d.videoJump = b.videoJump
  BY <1>0, DroppedFields
<1>2. \A k \in DOMAIN d.video :
        /\ k \in Nat \ {0} /\ k + i - 1 \in DOMAIN b.video
        /\ d.video[k] = b.video[k + i - 1]
  BY <1>0, DroppedPictures
<1> HIDE DEF d
<1>3. i \in Nat \ {0}
  BY <1>0 DEF Places, Buffer
<1>4. InOrder(d)
  <2>1. ASSUME NEW k \in DOMAIN d.video, NEW l \in DOMAIN d.video, k < l
        PROVE  d.video[k].at < d.video[l].at
    <3>1. /\ k + i - 1 \in DOMAIN b.video /\ l + i - 1 \in DOMAIN b.video
          /\ k + i - 1 < l + i - 1
      BY <1>2, <1>3, <2>1
    <3>2. b.video[k + i - 1].at < b.video[l + i - 1].at
      BY <1>0, <3>1 DEF InOrder
    <3> QED
      BY <1>2, <3>2
  <2>2. \A k \in DOMAIN d.video :
          /\ d.lastVideo # None /\ d.video[k].at <= d.lastVideo
          /\ d.newest # None /\ d.video[k].at <= d.newest
    BY <1>0, <1>1, <1>2 DEF InOrder
  <2> QED
    BY <2>1, <2>2 DEF InOrder
<1>5. GapsMarked(d)
  <2>1. ASSUME NEW k \in DOMAIN d.video, d.video[k].afterGap
        PROVE  /\ d.hasGap => d.video[k].at <= d.gap
               /\ ~d.hasGap => k = 1
               /\ d.videoJump # None => d.video[k].at <= d.videoJump
    <3>1. k + i - 1 \in DOMAIN b.video /\ b.video[k + i - 1].afterGap
      BY <1>2, <2>1
    <3>2. /\ b.hasGap => b.video[k + i - 1].at <= b.gap
          /\ ~b.hasGap => k + i - 1 = 1
          /\ b.videoJump # None => b.video[k + i - 1].at <= b.videoJump
      BY <1>0, <3>1 DEF GapsMarked
    <3>3. k + i - 1 = 1 => k = 1
      BY <1>2, <1>3
    <3> QED
      BY <1>1, <1>2, <3>2, <3>3
  <2>2. d.videoJump # None =>
          d.lastVideo # None /\ d.videoJump <= d.lastVideo
    BY <1>0, <1>1 DEF GapsMarked
  <2> QED
    BY <2>1, <2>2 DEF GapsMarked
<1> QED
  BY <1>1, <1>4, <1>5 DEF Good, d

\* Dropping from the front keeps the limits.
LEMMA DroppedLimited ==
  ASSUME NEW b, Good(b), Limited(b),
         NEW i \in Places(b.video), NEW j \in Places(b.audio)
  PROVE  Limited(Dropped(b, i, j))
<1> DEFINE d == Dropped(b, i, j)
<1>0. b \in Buffer /\ InOrder(b) /\ Counted(b)
  BY DEF Good
<1>1. /\ d \in Buffer /\ d.newest = b.newest
      /\ d.bytes = b.bytes - (i - 1) - (j - 1)
  BY <1>0, DroppedFields
<1>2. d.video # <<>> =>
        /\ i \in DOMAIN b.video /\ b.video # <<>>
        /\ Head(d.video) = b.video[i]
  BY <1>0, DroppedPictures
<1> HIDE DEF d
<1>3. b.video \in Seq(Picture) /\ b.bytes \in Nat
  BY <1>0 DEF Buffer
<1>4. i \in Nat \ {0} /\ j \in Nat \ {0}
  BY <1>0 DEF Places, Buffer
<1>5. d.bytes <= MaxBytes
  BY <1>1, <1>3, <1>4, BufferAssumption DEF Limited
<1>6. ASSUME d.video # <<>>
      PROVE  d.newest - Head(d.video).at <= MaxSpan
  <2>1. Head(b.video) = b.video[1] /\ 1 \in DOMAIN b.video
    BY <1>2, <1>3, <1>6
  <2>2. i = 1 \/ b.video[1].at < b.video[i].at
    <3>1. i = 1 \/ 1 < i
      BY <1>4
    <3> QED
      BY <3>1, <2>1, <1>0, <1>2, <1>6 DEF InOrder
  <2>3. b.newest # None /\ b.newest \in Time
    BY <1>0, <1>2, <1>6 DEF InOrder, Buffer
  <2>4. b.video[1].at \in Time /\ b.video[i].at \in Time
    BY <2>1, <1>2, <1>3, <1>6, Queued
  <2>5. b.newest - b.video[1].at <= MaxSpan
    BY <1>2, <1>6, <2>1 DEF Limited
  <2>6. d.newest - Head(d.video).at = b.newest - b.video[i].at
    BY <1>1, <1>2, <1>6
  <2>7. /\ b.newest \in Nat /\ b.video[1].at \in Nat
        /\ b.video[i].at \in Nat /\ b.video[1].at <= b.video[i].at
    BY <2>2, <2>3, <2>4, FeedAssumption DEF Time
  <2> QED
    BY <2>5, <2>6, <2>7, BufferAssumption
<1> QED
  BY <1>5, <1>6 DEF Limited, d

\* A buffer that forgets the gap, because what is left lies behind it
LEMMA PassGap ==
  ASSUME NEW d, Good(d), NEW h \in BOOLEAN, h => d.hasGap,
         d.hasGap /\ ~h =>
           \A k \in DOMAIN d.video : d.video[k].afterGap => k = 1
  PROVE  LET e == [d EXCEPT !.hasGap = h]
         IN  /\ Good(e) /\ (Limited(d) => Limited(e))
             /\ e.video = d.video /\ e.audio = d.audio /\ e.bytes = d.bytes
             /\ e.lastVideo = d.lastVideo /\ e.lastAudio = d.lastAudio
             /\ e.newest = d.newest /\ e.gap = d.gap /\ e.hasGap = h
             /\ e.videoJump = d.videoJump /\ e.audioJump = d.audioJump
<1> DEFINE e == [d EXCEPT !.hasGap = h]
<1>0. d \in Buffer /\ InOrder(d) /\ GapsMarked(d) /\ Counted(d)
  BY DEF Good
<1>1. /\ e \in Buffer
      /\ e.video = d.video /\ e.audio = d.audio /\ e.bytes = d.bytes
      /\ e.lastVideo = d.lastVideo /\ e.lastAudio = d.lastAudio
      /\ e.newest = d.newest /\ e.gap = d.gap /\ e.hasGap = h
      /\ e.videoJump = d.videoJump /\ e.audioJump = d.audioJump
  BY <1>0 DEF Buffer
<1> HIDE DEF e
<1>2. InOrder(e) /\ Counted(e) /\ (Limited(d) => Limited(e))
  BY <1>0, <1>1 DEF InOrder, Counted, Limited
<1>3. GapsMarked(e)
  <2>1. ASSUME NEW k \in DOMAIN e.video, e.video[k].afterGap
        PROVE  /\ e.hasGap => e.video[k].at <= e.gap
               /\ ~e.hasGap => k = 1
               /\ e.videoJump # None => e.video[k].at <= e.videoJump
    <3>1. /\ d.hasGap => d.video[k].at <= d.gap
          /\ ~d.hasGap => k = 1
          /\ d.videoJump # None => d.video[k].at <= d.videoJump
      BY <1>0, <1>1, <2>1 DEF GapsMarked
    <3>2. ~h => k = 1
      BY <1>1, <2>1, <3>1
    <3> QED
      BY <1>1, <3>1, <3>2
  <2>2. e.videoJump # None =>
          e.lastVideo # None /\ e.videoJump <= e.lastVideo
    BY <1>0, <1>1 DEF GapsMarked
  <2> QED
    BY <2>1, <2>2 DEF GapsMarked
<1> QED
  BY <1>1, <1>2, <1>3 DEF Good, e

-----------------------------------------------------------------------------
(* Popping and cutting                                                     *)

\* c is b without some packets at the front, and perhaps without its gap.
Without(b, c, i, j) ==
  /\ Good(c) /\ (Limited(b) => Limited(c))
  /\ c.video = Dropped(b, i, j).video /\ c.audio = Dropped(b, i, j).audio
  /\ c.lastVideo = b.lastVideo /\ c.lastAudio = b.lastAudio
  /\ c.videoJump = b.videoJump /\ c.audioJump = b.audioJump
  /\ c.newest = b.newest

\* pop() of a picture: what it leaves behind a gap it passes is not marked.
LEMMA PopVideoDrops ==
  ASSUME NEW b, Good(b), b.video # <<>>
  PROVE  2 \in Places(b.video) /\ Without(b, PopVideo(b), 2, 1)
<1> DEFINE d == Dropped(b, 2, 1)
           h == b.hasGap /\ Head(b.video).at < b.gap
<1>0. b \in Buffer /\ InOrder(b) /\ GapsMarked(b) /\ Counted(b)
  BY DEF Good
<1>1. /\ b.video \in Seq(Picture) /\ b.audio \in Seq(Sound)
      /\ b.gap \in Time /\ b.hasGap \in BOOLEAN
  BY <1>0 DEF Buffer
<1>2. 2 \in Places(b.video) /\ 1 \in Places(b.audio)
  BY <1>1 DEF Places
<1>3. /\ Good(d) /\ (Limited(b) => Limited(d)) /\ d.hasGap = b.hasGap
      /\ d.lastVideo = b.lastVideo /\ d.lastAudio = b.lastAudio
      /\ d.newest = b.newest
      /\ d.videoJump = b.videoJump /\ d.audioJump = b.audioJump
  BY <1>0, <1>2, DroppedFields, DroppedGood, DroppedLimited
<1>4. \A k \in DOMAIN d.video :
        /\ k \in Nat \ {0} /\ k + 2 - 1 \in DOMAIN b.video
        /\ d.video[k] = b.video[k + 2 - 1]
  BY <1>0, <1>2, DroppedPictures
<1>5. PopVideo(b) = [d EXCEPT !.hasGap = h]
  BY <1>0, <1>2, DropIsDropped DEF PopVideo
<1>6. h \in BOOLEAN /\ (h => d.hasGap)
  BY <1>3
<1>7. ASSUME d.hasGap, ~h, NEW k \in DOMAIN d.video, d.video[k].afterGap
      PROVE  FALSE
  <2>1. k + 2 - 1 \in DOMAIN b.video /\ b.video[k + 2 - 1].at <= b.gap
    BY <1>0, <1>3, <1>4, <1>7 DEF GapsMarked
  <2>2. 1 \in DOMAIN b.video /\ Head(b.video) = b.video[1]
    BY <1>1
  <2>3. b.video[1].at < b.video[k + 2 - 1].at
    <3>1. 1 < k + 2 - 1
      BY <1>4, <1>7
    <3> QED
      BY <1>0, <2>1, <2>2, <3>1 DEF InOrder
  <2>4. b.video[1].at \in Time /\ b.video[k + 2 - 1].at \in Time
    BY <1>1, <2>1, <2>2, Queued
  <2>5. ~ (b.video[1].at < b.gap)
    BY <1>3, <1>7, <2>2
  <2> QED
    BY <1>1, <2>1, <2>3, <2>4, <2>5, FeedAssumption DEF Time
<1> HIDE DEF d, h
<1>8. LET e == [d EXCEPT !.hasGap = h]
      IN  /\ Good(e) /\ (Limited(d) => Limited(e))
          /\ e.video = d.video /\ e.audio = d.audio
          /\ e.lastVideo = d.lastVideo /\ e.lastAudio = d.lastAudio
          /\ e.newest = d.newest
          /\ e.videoJump = d.videoJump /\ e.audioJump = d.audioJump
  BY <1>3, <1>6, <1>7, PassGap
<1> QED
  BY <1>2, <1>3, <1>5, <1>8 DEF Without, d

\* pop() of a sound
LEMMA PopAudioDrops ==
  ASSUME NEW b, Good(b), b.audio # <<>>
  PROVE  2 \in Places(b.audio) /\ Without(b, PopAudio(b), 1, 2)
<1>0. b \in Buffer /\ Counted(b)
  BY DEF Good
<1>1. 1 \in Places(b.video) /\ 2 \in Places(b.audio)
  BY <1>0 DEF Places, Buffer
<1>2. PopAudio(b) = Dropped(b, 1, 2)
  BY <1>0, <1>1, DropIsDropped DEF PopAudio
<1>3. Good(Dropped(b, 1, 2)) /\ (Limited(b) => Limited(Dropped(b, 1, 2)))
  BY <1>1, DroppedGood, DroppedLimited
<1> DEFINE d == Dropped(b, 1, 2)
<1>4. /\ d.lastVideo = b.lastVideo /\ d.lastAudio = b.lastAudio
      /\ d.newest = b.newest
      /\ d.videoJump = b.videoJump /\ d.audioJump = b.audioJump
  BY <1>0, <1>1, DroppedFields
<1> QED
  BY <1>1, <1>2, <1>3, <1>4 DEF Without

\* The position of the first packet at or after t
LEMMA FirstAtPlace ==
  ASSUME NEW S, NEW q \in Seq(S), NEW t
  PROVE  /\ FirstAt(q, t) \in Places(q)
         /\ FirstAt(q, t) # Len(q) + 1 => q[FirstAt(q, t)].at >= t
         /\ \A i \in DOMAIN q : q[i].at >= t => FirstAt(q, t) <= i
<1> DEFINE T == {i \in DOMAIN q : q[i].at >= t} \cup {Len(q) + 1}
<1>1. T \in SUBSET Nat /\ T # {} /\ T \subseteq Places(q)
  BY DEF Places
<1>2. Min(T) \in T /\ \A y \in T : Min(T) <= y
  BY <1>1, MinNat
<1>3. FirstAt(q, t) = Min(T)
  BY DEF FirstAt
<1> HIDE DEF T
<1>4. FirstAt(q, t) \in T /\ \A y \in T : FirstAt(q, t) <= y
  BY <1>2, <1>3
<1> QED
  BY <1>1, <1>4 DEF T

\* drop_video_before() forgets the gap only when it drops up to it.
LEMMA DropVideoBeforeDrops ==
  ASSUME NEW b, Good(b), NEW t \in Nat
  PROVE  LET i == FirstAt(b.video, t)
         IN  /\ i \in Places(b.video)
             /\ Without(b, DropVideoBefore(b, t), i, 1)
             /\ DropVideoBefore(b, t).hasGap = (b.hasGap /\ t < b.gap)
<1> DEFINE i == FirstAt(b.video, t)
           d == Dropped(b, i, 1)
           h == b.hasGap /\ t < b.gap
<1>0. b \in Buffer /\ InOrder(b) /\ GapsMarked(b) /\ Counted(b)
  BY DEF Good
<1>1. /\ b.video \in Seq(Picture) /\ b.audio \in Seq(Sound)
      /\ b.gap \in Time /\ b.hasGap \in BOOLEAN
  BY <1>0 DEF Buffer
<1>2. /\ i \in Places(b.video) /\ 1 \in Places(b.audio)
      /\ i # Len(b.video) + 1 => b.video[i].at >= t
  BY <1>1, FirstAtPlace DEF Places
<1> HIDE DEF i
<1>3. /\ Good(d) /\ (Limited(b) => Limited(d)) /\ d.hasGap = b.hasGap
      /\ d.lastVideo = b.lastVideo /\ d.lastAudio = b.lastAudio
      /\ d.newest = b.newest
      /\ d.videoJump = b.videoJump /\ d.audioJump = b.audioJump
  BY <1>0, <1>2, DroppedFields, DroppedGood, DroppedLimited
<1>4. /\ \A k \in DOMAIN d.video :
           /\ k \in Nat \ {0} /\ k + i - 1 \in DOMAIN b.video
           /\ d.video[k] = b.video[k + i - 1]
      /\ d.video # <<>> => i \in DOMAIN b.video
      /\ DOMAIN d.video = 1 .. Len(d.video)
  BY <1>0, <1>2, DroppedPictures
<1>5. DropVideoBefore(b, t) = [d EXCEPT !.hasGap = h]
  BY <1>0, <1>2, DropIsDropped DEF DropVideoBefore, i
<1>6. h \in BOOLEAN /\ (h => d.hasGap)
  BY <1>3
<1>7. ASSUME d.hasGap, ~h, NEW k \in DOMAIN d.video, d.video[k].afterGap
      PROVE  k = 1
  <2>1. k + i - 1 \in DOMAIN b.video /\ b.video[k + i - 1].at <= b.gap
    BY <1>0, <1>3, <1>4, <1>7 DEF GapsMarked
  <2>2. i \in DOMAIN b.video
    <3>1. DOMAIN <<>> = {}
      OBVIOUS
    <3> QED
      BY <1>4, <1>7, <3>1
  <2>3. i \in Nat \ {0} /\ i # Len(b.video) + 1 /\ k \in Nat \ {0}
    BY <1>1, <1>4, <1>7, <2>2
  <2>4. SUFFICES ASSUME k # 1 PROVE FALSE
    OBVIOUS
  <2>5. b.video[i].at < b.video[k + i - 1].at
    <3>1. i < k + i - 1
      BY <2>3, <2>4
    <3> QED
      BY <1>0, <2>1, <2>2, <3>1 DEF InOrder
  <2>6. b.video[i].at \in Nat /\ b.video[k + i - 1].at \in Nat
    BY <1>1, <2>1, <2>2, Queued
  <2>7. ~ (t < b.gap) /\ b.gap \in Nat
    BY <1>1, <1>3, <1>7, FeedAssumption DEF Time
  <2>8. b.video[i].at >= t
    BY <1>2, <2>2, <2>3
  <2> QED
    BY <2>1, <2>5, <2>6, <2>7, <2>8, FeedAssumption DEF Time
<1> HIDE DEF d, h
<1>8. LET e == [d EXCEPT !.hasGap = h]
      IN  /\ Good(e) /\ (Limited(d) => Limited(e)) /\ e.hasGap = h
          /\ e.video = d.video /\ e.audio = d.audio
          /\ e.lastVideo = d.lastVideo /\ e.lastAudio = d.lastAudio
          /\ e.newest = d.newest
          /\ e.videoJump = d.videoJump /\ e.audioJump = d.audioJump
  BY <1>3, <1>6, <1>7, PassGap
<1>9. Without(b, DropVideoBefore(b, t), i, 1)
  BY <1>3, <1>5, <1>8 DEF Without, d
<1>10. DropVideoBefore(b, t).hasGap = (b.hasGap /\ t < b.gap)
  BY <1>5, <1>8 DEF h
<1> QED
  BY <1>2, <1>9, <1>10 DEF i

\* drop_audio_before() leaves the pictures alone.
LEMMA DropAudioBeforeDrops ==
  ASSUME NEW b, Good(b), NEW t \in Nat
  PROVE  LET j == FirstAt(b.audio, t)
         IN  /\ j \in Places(b.audio)
             /\ Without(b, DropAudioBefore(b, t), 1, j)
             /\ DropAudioBefore(b, t).video = b.video
             /\ DropAudioBefore(b, t).hasGap = b.hasGap
<1> DEFINE j == FirstAt(b.audio, t)
           d == Dropped(b, 1, j)
<1>0. b \in Buffer /\ Counted(b)
  BY DEF Good
<1>1. b.video \in Seq(Picture) /\ b.audio \in Seq(Sound)
  BY <1>0 DEF Buffer
<1>2. 1 \in Places(b.video) /\ j \in Places(b.audio)
  BY <1>1, FirstAtPlace DEF Places
<1>3. DropAudioBefore(b, t) = d
  BY <1>0, <1>2, DropIsDropped DEF DropAudioBefore
<1> HIDE DEF j
<1>4. Good(d) /\ (Limited(b) => Limited(d))
  BY <1>2, DroppedGood, DroppedLimited
<1>5. /\ d.lastVideo = b.lastVideo /\ d.lastAudio = b.lastAudio
      /\ d.newest = b.newest /\ d.hasGap = b.hasGap
      /\ d.videoJump = b.videoJump /\ d.audioJump = b.audioJump
      /\ d.video = From(b.video, 1)
  BY <1>0, <1>2, DroppedFields
<1>6. d.video = b.video
  BY <1>1, <1>2, <1>5, FromProperties DEF Places
<1> QED
  BY <1>2, <1>3, <1>4, <1>5, <1>6 DEF Without, j

-----------------------------------------------------------------------------
(* Confirming a gap                                                        *)

Confirmed(b) ==
  /\ b.videoJump # None /\ b.audioJump # None
  /\ Distance(b.videoJump, b.audioJump) <= GapMatch

\* c is b after confirm_gap(): nothing but marks has changed, and if the jumps
\* match, the picture at the video's jump is marked.
AfterConfirm(b, c) ==
  /\ Good(c)
  /\ c.audio = b.audio /\ c.bytes = b.bytes /\ c.newest = b.newest
  /\ c.lastVideo = b.lastVideo /\ c.lastAudio = b.lastAudio
  /\ Len(c.video) = Len(b.video) /\ DOMAIN c.video = DOMAIN b.video
  /\ \A i \in DOMAIN b.video :
       /\ c.video[i].at = b.video[i].at /\ c.video[i].key = b.video[i].key
       /\ c.video[i].id = b.video[i].id
       /\ c.video[i].missing = b.video[i].missing
       /\ b.video[i].afterGap => c.video[i].afterGap
       /\ Confirmed(b) /\ b.video[i].at = b.videoJump => c.video[i].afterGap
  /\ Confirmed(b) => c.videoJump = None /\ c.audioJump = None
  /\ ~Confirmed(b) => c.videoJump = b.videoJump /\ c.audioJump = b.audioJump

\* confirm_gap() marks the picture at the video's jump, and only that one.
LEMMA ConfirmGapMarks ==
  ASSUME NEW b, Good(b)
  PROVE  AfterConfirm(b, ConfirmGap(b))
<1>0. b \in Buffer /\ InOrder(b) /\ GapsMarked(b) /\ Counted(b)
  BY DEF Good
<1>1. /\ b.video \in Seq(Picture) /\ Len(b.video) \in Nat
      /\ DOMAIN b.video = 1 .. Len(b.video)
      /\ b.videoJump \in Time \cup {None}
      /\ b.audioJump \in Time \cup {None}
  BY <1>0 DEF Buffer
<1>2. CASE ~Confirmed(b)
  <2>1. \/ Distance(b.videoJump, b.audioJump) \in Int
        \/ ~(b.videoJump # None /\ b.audioJump # None)
    BY <1>1, FeedAssumption DEF Distance, Time
  <2>2. ConfirmGap(b) = b
    BY <1>2, <2>1, BufferAssumption DEF ConfirmGap, Confirmed
  <2> QED
    BY <1>2, <2>2 DEF AfterConfirm
<1>3. CASE Confirmed(b)
  <2> DEFINE at == {i \in DOMAIN b.video : b.video[i].at = b.videoJump}
             Marks(i) == at # {} /\ i = Max(at)
             v == [i \in DOMAIN b.video |->
                     IF at # {} /\ i = Max(at)
                       THEN [b.video[i] EXCEPT !.afterGap = TRUE]
                       ELSE b.video[i]]
             c == [b EXCEPT !.gap = b.videoJump, !.hasGap = TRUE,
                            !.video = v, !.videoJump = None, !.audioJump = None]
  <2>1. ConfirmGap(b) = c
    <3>1. Distance(b.videoJump, b.audioJump) \in Int
      BY <1>1, <1>3, FeedAssumption DEF Distance, Time, Confirmed
    <3>2. ~ (b.videoJump = None \/ b.audioJump = None
              \/ Distance(b.videoJump, b.audioJump) > GapMatch)
      BY <1>3, <3>1, BufferAssumption DEF Confirmed
    <3> QED
      BY <3>2 DEF ConfirmGap
  <2>2. \A i \in DOMAIN b.video : Marks(i) <=> b.video[i].at = b.videoJump
    <3>1. ASSUME NEW i \in DOMAIN b.video, b.video[i].at = b.videoJump
          PROVE  at # {} /\ i = Max(at)
      <4>1. i \in at /\ at \in SUBSET (1 .. Len(b.video))
        BY <1>1, <3>1
      <4>2. Max(at) \in at
        BY <1>1, <4>1, MaxNat
      <4>3. \A x, y \in at : ~(x < y)
        BY <1>0, <1>1, Queued DEF InOrder
      <4> HIDE DEF at
      <4> QED
        BY <1>1, <4>1, <4>2, <4>3
    <3>2. ASSUME NEW i \in DOMAIN b.video, Marks(i)
          PROVE  b.video[i].at = b.videoJump
      <4>1. at # {} /\ at \in SUBSET (1 .. Len(b.video))
        BY <1>1, <3>2
      <4>2. Max(at) \in at
        BY <1>1, <4>1, MaxNat
      <4> QED
        BY <3>2, <4>2
    <3> QED
      BY <3>1, <3>2
  <2> HIDE DEF at
  <2>3. \A i \in DOMAIN b.video :
          /\ v[i] \in Picture
          /\ v[i].at = b.video[i].at /\ v[i].key = b.video[i].key
          /\ v[i].id = b.video[i].id /\ v[i].missing = b.video[i].missing
          /\ v[i].afterGap <=>
               b.video[i].afterGap \/ b.video[i].at = b.videoJump
    <3> SUFFICES ASSUME NEW i \in DOMAIN b.video
                 PROVE  /\ v[i] \in Picture
                        /\ v[i].at = b.video[i].at /\ v[i].key = b.video[i].key
                        /\ v[i].id = b.video[i].id
                        /\ v[i].missing = b.video[i].missing
                        /\ v[i].afterGap <=>
                             b.video[i].afterGap \/ b.video[i].at = b.videoJump
      OBVIOUS
    <3>1. b.video[i] \in Picture
      BY <1>1, Queued
    <3>2. CASE Marks(i)
      <4>1. v[i] = [b.video[i] EXCEPT !.afterGap = TRUE]
        BY <3>2
      <4> QED
        BY <2>2, <3>1, <3>2, <4>1 DEF Picture
    <3>3. CASE ~Marks(i)
      <4>1. v[i] = b.video[i]
        BY <3>3
      <4> QED
        BY <2>2, <3>1, <3>3, <4>1
    <3> QED
      BY <3>2, <3>3
  <2>4. DOMAIN v = DOMAIN b.video
    OBVIOUS
  <2> HIDE DEF v
  <2>5. v \in Seq(Picture) /\ Len(v) = Len(b.video)
    <3>1. v = [i \in 1 .. Len(b.video) |-> v[i]]
      BY <1>1 DEF v
    <3>2. \A i \in 1 .. Len(b.video) : v[i] \in Picture
      BY <1>1, <2>3
    <3>3. v \in [1 .. Len(b.video) -> Picture]
      BY <3>1, <3>2
    <3>4. v \in Seq(Picture)
      BY <1>1, <3>3
    <3> QED
      BY <1>1, <2>4, <3>4
  <2>6. /\ c \in Buffer
        /\ c.video = v /\ c.audio = b.audio /\ c.bytes = b.bytes
        /\ c.newest = b.newest /\ c.gap = b.videoJump /\ c.hasGap = TRUE
        /\ c.lastVideo = b.lastVideo /\ c.lastAudio = b.lastAudio
        /\ c.videoJump = None /\ c.audioJump = None
    BY <1>0, <1>1, <1>3, <2>5 DEF Buffer, Confirmed
  <2> HIDE DEF c
  <2>7. InOrder(c) /\ Counted(c)
    BY <1>0, <2>3, <2>4, <2>5, <2>6 DEF InOrder, Counted
  <2>8. GapsMarked(c)
    <3>1. ASSUME NEW i \in DOMAIN c.video, c.video[i].afterGap
          PROVE  c.video[i].at <= c.gap
      <4>1. /\ i \in DOMAIN b.video /\ c.video[i].at = b.video[i].at
            /\ b.video[i].afterGap \/ b.video[i].at = b.videoJump
        BY <2>3, <2>4, <2>6, <3>1
      <4>2. b.video[i].afterGap => b.video[i].at <= b.videoJump
        BY <1>0, <1>3, <4>1 DEF GapsMarked, Confirmed
      <4>3. b.video[i].at \in Nat
        BY <1>1, <4>1, Queued
      <4> QED
        BY <2>6, <4>1, <4>2, <4>3
    <3> QED
      BY <2>6, <3>1 DEF GapsMarked
  <2>9. Good(c)
    BY <2>6, <2>7, <2>8 DEF Good
  <2> QED
    BY <1>3, <2>1, <2>3, <2>4, <2>5, <2>6, <2>9 DEF AfterConfirm
<1> QED
  BY <1>2, <1>3

-----------------------------------------------------------------------------
(* Enforcing the limits                                                    *)

\* Pictures first and sounds then is both at once.
LEMMA DropTwice ==
  ASSUME NEW b, Good(b),
         NEW i \in Places(b.video), NEW j \in Places(b.audio)
  PROVE  LET c == Dropped(b, i, 1)
         IN  /\ Good(c) /\ c.audio = b.audio
             /\ DropAudio(c, j) = Dropped(b, i, j)
             /\ DropAudio(c, j) = Dropped(c, 1, j)
<1> DEFINE c == Dropped(b, i, 1)
<1>0. b \in Buffer /\ Counted(b) /\ 1 \in Places(b.audio)
  BY DEF Good, Places, Buffer
<1>1. b.audio \in Seq(Sound) /\ b.bytes \in Nat
  BY <1>0 DEF Buffer
<1>2. Good(c)
  BY <1>0, DroppedGood
<1>3. c \in Buffer /\ Counted(c)
  BY <1>2 DEF Good
<1>4. c.audio = From(b.audio, 1) /\ c.bytes = b.bytes - (i - 1) - (1 - 1)
  BY <1>0, DroppedFields
<1>5. c.audio = b.audio
  BY <1>1, <1>4, FromProperties DEF Places
<1>6. DropAudio(c, j) = Dropped(c, 1, j)
  BY <1>3, <1>5, DropIsDropped
<1>7. c.bytes - (j - 1) = b.bytes - (i - 1) - (j - 1)
  <2>1. i \in Nat /\ j \in Nat
    BY <1>0 DEF Places, Buffer
  <2>2. c.bytes = b.bytes - (i - 1)
    BY <1>1, <1>4, <2>1
  <2> QED
    BY <2>2
<1>8. DropAudio(c, j) =
        [b EXCEPT !.video = From(b.video, i), !.audio = From(b.audio, j),
                  !.bytes = c.bytes - (j - 1)]
  <2>1. c = [b EXCEPT !.video = From(b.video, i), !.audio = From(b.audio, 1),
                      !.bytes = b.bytes - (i - 1) - (1 - 1)]
    BY DEF Dropped
  <2> DEFINE k == c.bytes - (j - 1)
             q == From(b.video, i)
             r == From(b.audio, j)
             s == From(b.audio, 1)
             l == b.bytes - (i - 1) - (1 - 1)
  <2>2. DropAudio(c, j) = [c EXCEPT !.audio = r, !.bytes = k]
    BY <1>5 DEF DropAudio
  <2> HIDE DEF c, k, q, r, s, l
  <2>3. c = [b EXCEPT !.video = q, !.audio = s, !.bytes = l]
    BY <2>1 DEF q, s, l
  <2>4. [c EXCEPT !.audio = r, !.bytes = k] =
          [b EXCEPT !.video = q, !.audio = r, !.bytes = k]
    BY <1>0, <2>3 DEF Buffer
  <2> QED
    BY <2>2, <2>4 DEF q, r, k
<1> QED
  BY <1>2, <1>5, <1>6, <1>7, <1>8 DEF Dropped

\* A buffer that enforce_limits() leaves alone is within the limits.
LEMMA NotOver ==
  ASSUME NEW b, Good(b), ~Over(b)
  PROVE  Limited(b)
<1>0. b \in Buffer /\ InOrder(b)
  BY DEF Good
<1>1. b.bytes \in Nat /\ b.video \in Seq(Picture)
  BY <1>0 DEF Buffer
<1>2. b.bytes <= MaxBytes
  BY <1>1, BufferAssumption DEF Over
<1>3. ASSUME b.video # <<>>
      PROVE  b.newest - Head(b.video).at <= MaxSpan
  <2>1. 1 \in DOMAIN b.video /\ Head(b.video) = b.video[1]
    BY <1>1, <1>3
  <2>2. b.newest # None /\ b.newest \in Time
    BY <1>0, <2>1 DEF InOrder, Buffer
  <2>3. Span(b) = b.newest - Head(b.video).at
    BY <1>3, <2>2 DEF Span
  <2>4. Head(b.video).at \in Nat
    BY <1>1, <2>1, Queued
  <2> QED
    BY <2>2, <2>3, <2>4, BufferAssumption, FeedAssumption DEF Over, Time
<1> QED
  BY <1>2, <1>3 DEF Limited

\* Video goes to a keyframe or to its end, until the limits hold.
LEMMA VideoEnforced ==
  ASSUME NEW b, Good(b)
  PROVE  \E i \in Places(b.video) :
           /\ VideoWithinLimits(b) = Dropped(b, i, 1)
           /\ i # 1 /\ i # Len(b.video) + 1 => b.video[i].key
           /\ i = Len(b.video) + 1 \/ ~Over(Dropped(b, i, 1))
<1> DEFINE S == {i \in GopStarts(b.video) :
                   i > Len(b.video) \/ ~Over(DropVideo(b, i))}
           i == Min(S)
<1>0. b \in Buffer /\ Counted(b)
  BY DEF Good
<1>1. b.video \in Seq(Picture) /\ Len(b.video) \in Nat
      /\ DOMAIN b.video = 1 .. Len(b.video)
  BY <1>0 DEF Buffer
<1>2. S \in SUBSET Nat /\ S # {}
  <2>1. Len(b.video) + 1 \in S
    BY <1>1 DEF GopStarts
  <2> QED
    BY <1>1, <2>1 DEF GopStarts
<1>3. i \in S
  BY <1>2, MinNat, Zenon
<1>4. VideoWithinLimits(b) = DropVideo(b, i)
  BY DEF VideoWithinLimits
<1> HIDE DEF i
<1>5. /\ i \in Places(b.video)
      /\ i # 1 /\ i # Len(b.video) + 1 => b.video[i].key
      /\ i = Len(b.video) + 1 \/ ~Over(DropVideo(b, i))
  BY <1>1, <1>3 DEF GopStarts, Places
<1>6. DropVideo(b, i) = Dropped(b, i, 1)
  BY <1>0, <1>5, DropIsDropped
<1> QED
  BY <1>4, <1>5, <1>6

\* b after enforce_limits()
Enforced(b, i, j) ==
  /\ i \in Places(b.video) /\ j \in Places(b.audio)
  /\ EnforceLimits(b) = Dropped(b, i, j)
  /\ i # 1 /\ i # Len(b.video) + 1 => b.video[i].key
  /\ Limited(Dropped(b, i, j))

\* enforce_limits() takes whole GOPs, or all pictures, and the limits hold.
LEMMA LimitsEnforced ==
  ASSUME NEW b, Good(b)
  PROVE  \E i \in Places(b.video), j \in Places(b.audio) : Enforced(b, i, j)
<1>0. b \in Buffer /\ Counted(b) /\ 1 \in Places(b.audio)
  BY DEF Good, Places, Buffer
<1>1. /\ b.video \in Seq(Picture) /\ Len(b.video) \in Nat
      /\ b.audio \in Seq(Sound) /\ Len(b.audio) \in Nat
      /\ b.video = <<>> <=> Len(b.video) = 0
  BY <1>0 DEF Buffer
<1>2. PICK i \in Places(b.video) :
        /\ VideoWithinLimits(b) = Dropped(b, i, 1)
        /\ i # 1 /\ i # Len(b.video) + 1 => b.video[i].key
        /\ i = Len(b.video) + 1 \/ ~Over(Dropped(b, i, 1))
  BY VideoEnforced
<1> DEFINE c == Dropped(b, i, 1)
<1>3. Good(c)
  BY <1>0, DroppedGood
<1>4. /\ c.audio = b.audio
      /\ \A j \in Places(b.audio) :
           /\ DropAudio(c, j) = Dropped(b, i, j)
           /\ DropAudio(c, j) = Dropped(c, 1, j)
  BY <1>0, DropTwice
<1>5. /\ c.video = <<>> <=> i = Len(b.video) + 1
      /\ Len(c.video) = Len(b.video) - (i - 1)
  BY <1>0, DroppedPictures
<1>6. c.video # <<>> => Limited(c)
  BY <1>2, <1>3, <1>5, NotOver
<1>7. VideoWithinLimits(b) = c
  BY <1>2
<1>8. 1 \in Places(c.video)
  BY <1>3 DEF Good, Buffer, Places
<1> HIDE DEF c
<1>9. CASE c.video = <<>>
  <2> DEFINE T == {j \in 1 .. Len(c.audio) + 1 :
                     j > Len(c.audio) \/ ~Over(DropAudio(c, j))}
             j == Min(T)
  <2>1. EnforceLimits(b) = DropAudio(c, j)
    BY <1>7, <1>9 DEF EnforceLimits, AudioWithinLimits
  <2>2. T \in SUBSET Nat /\ T # {}
    <3>1. Len(c.audio) + 1 \in T
      BY <1>1, <1>4
    <3> QED
      BY <1>1, <1>4, <3>1
  <2>3. j \in T
    BY <2>2, MinNat, Zenon
  <2> HIDE DEF j
  <2>4. /\ j \in Places(b.audio)
        /\ j = Len(c.audio) + 1 \/ ~Over(DropAudio(c, j))
    BY <1>1, <1>4, <2>3 DEF Places
  <2> DEFINE e == DropAudio(c, j)
  <2>5. e = Dropped(b, i, j) /\ e = Dropped(c, 1, j)
    BY <1>4, <2>4
  <2>6. Good(e) /\ e.bytes = c.bytes - (1 - 1) - (j - 1)
    BY <1>3, <1>4, <1>8, <2>4, <2>5, DroppedGood, DroppedFields DEF Good
  <2>7. Limited(e)
    <3>1. CASE j = Len(c.audio) + 1
      <4>1. c.bytes = Len(c.video) + Len(c.audio) /\ Len(c.video) = 0
        BY <1>3, <1>9 DEF Good, Counted
      <4>2. e.bytes = 0
        BY <1>1, <1>4, <2>6, <3>1, <4>1
      <4>3. e.video = <<>>
        <5>1. c \in Buffer /\ Counted(c) /\ c.video \in Seq(Picture)
          BY <1>3 DEF Good, Buffer
        <5>2. Dropped(c, 1, j).video = From(c.video, 1)
          <6>1. j \in Places(c.audio)
            BY <1>4, <2>4
          <6> QED
            BY <1>8, <5>1, <6>1, DroppedFields
        <5>3. e.video = From(c.video, 1)
          BY <2>5, <5>2
        <5> QED
          BY <1>8, <1>9, <5>1, <5>3, FromProperties DEF Places
      <4> QED
        BY <4>2, <4>3, BufferAssumption DEF Limited
    <3>2. CASE ~Over(e)
      BY <2>6, <3>2, NotOver
    <3> QED
      BY <2>4, <3>1, <3>2
  <2> QED
    BY <1>2, <2>1, <2>4, <2>5, <2>7 DEF Enforced
<1>10. CASE c.video # <<>> /\ c.video = b.video
  <2>1. EnforceLimits(b) = c
    BY <1>7, <1>10 DEF EnforceLimits
  <2> QED
    BY <1>0, <1>2, <1>6, <1>10, <2>1 DEF Enforced, c
<1>11. CASE c.video # <<>> /\ c.video # b.video
  <2> DEFINE T == {j \in 1 .. Len(c.audio) + 1 :
                     \/ j > Len(c.audio)
                     \/ c.audio[j].at + AudioSlack >= Head(c.video).at}
             j == Min(T)
  <2>1. EnforceLimits(b) = DropAudio(c, j)
    BY <1>7, <1>11 DEF EnforceLimits
  <2>2. T \in SUBSET Nat /\ T # {}
    <3>1. Len(c.audio) + 1 \in T
      BY <1>1, <1>4
    <3> QED
      BY <1>1, <1>4, <3>1
  <2>3. j \in T
    BY <2>2, MinNat, Zenon
  <2> HIDE DEF j
  <2>4. j \in Places(b.audio)
    BY <1>1, <1>4, <2>3 DEF Places
  <2>5. DropAudio(c, j) = Dropped(b, i, j) /\ DropAudio(c, j) = Dropped(c, 1, j)
    BY <1>4, <2>4
  <2>6. Limited(Dropped(c, 1, j))
    BY <1>3, <1>4, <1>6, <1>8, <1>11, <2>4, DroppedLimited
  <2> QED
    BY <1>2, <2>1, <2>4, <2>5, <2>6 DEF Enforced
<1> QED
  BY <1>9, <1>10, <1>11

-----------------------------------------------------------------------------
(* What a step leaves of the pictures                                      *)

\* d holds the pictures of b from position s + 1 on, with all their marks.
Shows(b, d, s) ==
  /\ s \in Nat
  /\ d.video \in Seq(Picture) /\ Len(d.video) = Len(b.video) - s
  /\ \A k \in DOMAIN d.video :
       /\ k \in Nat \ {0} /\ k + s \in DOMAIN b.video
       /\ d.video[k].at = b.video[k + s].at
       /\ d.video[k].key = b.video[k + s].key
       /\ d.video[k].id = b.video[k + s].id
       /\ d.video[k].missing = b.video[k + s].missing
       /\ b.video[k + s].afterGap => d.video[k].afterGap

\* What is left after a drop is the end of the queue.
LEMMA WithoutShows ==
  ASSUME NEW b, Good(b), NEW c,
         NEW i \in Places(b.video), NEW j \in Places(b.audio),
         Without(b, c, i, j)
  PROVE  Shows(b, c, i - 1)
<1>0. b \in Buffer /\ Counted(b)
  BY DEF Good
<1>1. c.video = Dropped(b, i, j).video
  BY DEF Without
<1>2. c.video \in Seq(Picture)
  BY DEF Without, Good, Buffer
<1>3. /\ Len(c.video) = Len(b.video) - (i - 1)
      /\ \A k \in DOMAIN c.video :
           /\ k \in Nat \ {0} /\ k + i - 1 \in DOMAIN b.video
           /\ c.video[k] = b.video[k + i - 1]
  BY <1>0, <1>1, DroppedPictures
<1>4. i - 1 \in Nat /\ \A k \in Nat : k + (i - 1) = k + i - 1
  BY <1>0 DEF Places, Buffer
<1>5. \A k \in DOMAIN c.video :
        /\ k \in Nat \ {0} /\ k + (i - 1) \in DOMAIN b.video
        /\ c.video[k] = b.video[k + (i - 1)]
  BY <1>3, <1>4
<1> QED
  BY <1>2, <1>3, <1>4, <1>5 DEF Shows

\* d is b, a buffer with a new packet, after confirm_gap() and
\* enforce_limits().
Pushed(b, d, s) ==
  /\ Good(d) /\ Limited(d) /\ Shows(b, d, s)
  /\ d.lastVideo = b.lastVideo /\ d.lastAudio = b.lastAudio
  /\ s # 0 /\ d.video # <<>> => Head(d.video).key
  /\ Confirmed(b) =>
       /\ d.videoJump = None /\ d.audioJump = None
       /\ \A k \in DOMAIN d.video :
            d.video[k].at = b.videoJump => d.video[k].afterGap
  /\ ~Confirmed(b) => d.videoJump = b.videoJump /\ d.audioJump = b.audioJump

\* How a push ends: confirm_gap() and enforce_limits()
LEMMA PushEnds ==
  ASSUME NEW b, Good(b)
  PROVE  \E s \in Nat : Pushed(b, EnforceLimits(ConfirmGap(b)), s)
<1> DEFINE c == ConfirmGap(b)
<1>1. AfterConfirm(b, c)
  BY ConfirmGapMarks
<1> HIDE DEF c
<1>2. Good(c) /\ c \in Buffer /\ Counted(c)
  BY <1>1 DEF AfterConfirm, Good
<1>3. PICK i \in Places(c.video), j \in Places(c.audio) : Enforced(c, i, j)
  BY <1>2, LimitsEnforced
<1> DEFINE d == Dropped(c, i, j)
<1>4. /\ Good(d) /\ Limited(d) /\ EnforceLimits(c) = d
      /\ i # 1 /\ i # Len(c.video) + 1 => c.video[i].key
  BY <1>2, <1>3, DroppedGood DEF Enforced
<1>5. /\ d.lastVideo = c.lastVideo /\ d.lastAudio = c.lastAudio
      /\ d.videoJump = c.videoJump /\ d.audioJump = c.audioJump
  BY <1>2, DroppedFields
<1>6. /\ Len(d.video) = Len(c.video) - (i - 1)
      /\ \A k \in DOMAIN d.video :
           /\ k \in Nat \ {0} /\ k + i - 1 \in DOMAIN c.video
           /\ d.video[k] = c.video[k + i - 1]
      /\ d.video # <<>> => i \in DOMAIN c.video /\ Head(d.video) = c.video[i]
  BY <1>2, DroppedPictures
<1> HIDE DEF d
<1>7. i - 1 \in Nat /\ i \in Nat /\ \A k \in Nat : k + (i - 1) = k + i - 1
  BY <1>2 DEF Places, Buffer
<1>8. Shows(b, d, i - 1)
  <2>1. d.video \in Seq(Picture)
    BY <1>4 DEF Good, Buffer
  <2>2. Len(d.video) = Len(b.video) - (i - 1)
    BY <1>1, <1>6 DEF AfterConfirm
  <2>3. ASSUME NEW k \in DOMAIN d.video
        PROVE  /\ k \in Nat \ {0} /\ k + (i - 1) \in DOMAIN b.video
               /\ d.video[k].at = b.video[k + (i - 1)].at
               /\ d.video[k].key = b.video[k + (i - 1)].key
               /\ d.video[k].id = b.video[k + (i - 1)].id
               /\ d.video[k].missing = b.video[k + (i - 1)].missing
               /\ b.video[k + (i - 1)].afterGap => d.video[k].afterGap
    <3>1. /\ k \in Nat \ {0} /\ k + (i - 1) \in DOMAIN b.video
          /\ d.video[k] = c.video[k + (i - 1)]
      BY <1>1, <1>6, <1>7 DEF AfterConfirm
    <3> QED
      BY <1>1, <3>1 DEF AfterConfirm
  <2> QED
    BY <1>7, <2>1, <2>2, <2>3 DEF Shows
<1>9. i - 1 # 0 /\ d.video # <<>> => Head(d.video).key
  <2>1. c.video \in Seq(Picture)
    BY <1>2 DEF Buffer
  <2>2. i \in DOMAIN c.video => i # Len(c.video) + 1
    BY <2>1
  <2> QED
    BY <1>4, <1>6, <1>7, <2>2
<1>10. ASSUME Confirmed(b)
       PROVE  /\ d.videoJump = None /\ d.audioJump = None
              /\ \A k \in DOMAIN d.video :
                   d.video[k].at = b.videoJump => d.video[k].afterGap
  <2>1. d.videoJump = None /\ d.audioJump = None
    BY <1>1, <1>5, <1>10 DEF AfterConfirm
  <2>2. \A k \in DOMAIN c.video :
          c.video[k].at = b.videoJump => c.video[k].afterGap
    BY <1>1, <1>10 DEF AfterConfirm
  <2> QED
    BY <1>6, <2>1, <2>2
<1>11. ~Confirmed(b) => d.videoJump = b.videoJump /\ d.audioJump = b.audioJump
  BY <1>1, <1>5 DEF AfterConfirm
<1>12. d.lastVideo = b.lastVideo /\ d.lastAudio = b.lastAudio
  BY <1>1, <1>5 DEF AfterConfirm
<1>13. Pushed(b, d, i - 1)
  BY <1>4, <1>8, <1>9, <1>10, <1>11, <1>12 DEF Pushed
<1>14. EnforceLimits(ConfirmGap(b)) = d
  BY <1>4 DEF c
<1> QED
  BY <1>7, <1>13, <1>14

-----------------------------------------------------------------------------
(* Pushing                                                                 *)

WithPicture(b, p) ==
  [b EXCEPT !.video = Append(b.video, p), !.bytes = b.bytes + 1,
            !.lastVideo = p.at, !.newest = Newest(b, p.at),
            !.videoJump = IF Jumped(b.lastVideo, p.at) THEN p.at
                                                       ELSE b.videoJump]

WithSound(b, p) ==
  [b EXCEPT !.audio = Append(b.audio, p), !.bytes = b.bytes + 1,
            !.lastAudio = p.at, !.newest = Newest(b, p.at),
            !.audioJump = IF Jumped(b.lastAudio, p.at) THEN p.at
                                                       ELSE b.audioJump]

\* The newest time never falls.
LEMMA NewestGrows ==
  ASSUME NEW b \in Buffer, NEW t \in Time
  PROVE  /\ Newest(b, t) \in Time /\ t <= Newest(b, t)
         /\ Newest(b, t) # None
         /\ b.newest # None => b.newest <= Newest(b, t)
<1>1. b.newest \in Time \cup {None}
  BY DEF Buffer
<1> QED
  BY <1>1, BufferAssumption, FeedAssumption DEF Newest, Time

\* The buffer with a new sound
LEMMA SoundGood ==
  ASSUME NEW b, Good(b), NEW p \in Sound
  PROVE  LET c == WithSound(b, p)
         IN  /\ Good(c)
             /\ c.video = b.video /\ c.audio = Append(b.audio, p)
             /\ c.lastVideo = b.lastVideo /\ c.lastAudio = p.at
             /\ c.videoJump = b.videoJump
             /\ c.audioJump = IF Jumped(b.lastAudio, p.at) THEN p.at
                                                           ELSE b.audioJump
<1> DEFINE c == WithSound(b, p)
           jump == IF Jumped(b.lastAudio, p.at) THEN p.at ELSE b.audioJump
           n == Newest(b, p.at)
           q == Append(b.audio, p)
           m == b.bytes + 1
<1>0. b \in Buffer /\ InOrder(b) /\ GapsMarked(b) /\ Counted(b)
  BY DEF Good
<1>1. p.at \in Time
  BY DEF Sound
<1>2. /\ b.video \in Seq(Picture) /\ b.audio \in Seq(Sound)
      /\ b.bytes \in Nat /\ b.audioJump \in Time \cup {None}
      /\ b.newest \in Time \cup {None}
  BY <1>0 DEF Buffer
<1>3. /\ n \in Time /\ n # None /\ p.at <= n
      /\ b.newest # None => b.newest <= n
  BY <1>0, <1>1, NewestGrows
<1>4. q \in Seq(Sound) /\ Len(q) = Len(b.audio) + 1 /\ m \in Nat
  BY <1>2
<1>5. jump \in Time \cup {None}
  BY <1>1, <1>2
<1>6. c = [b EXCEPT !.audio = q, !.bytes = m, !.lastAudio = p.at,
                    !.newest = n, !.audioJump = jump]
  BY DEF WithSound
<1> HIDE DEF n, jump, c, q, m
<1>7. /\ c \in Buffer
      /\ c.video = b.video /\ c.audio = q
      /\ c.bytes = m /\ c.newest = n
      /\ c.lastVideo = b.lastVideo /\ c.lastAudio = p.at
      /\ c.videoJump = b.videoJump /\ c.audioJump = jump
      /\ c.gap = b.gap /\ c.hasGap = b.hasGap
  BY <1>0, <1>1, <1>3, <1>4, <1>5, <1>6 DEF Buffer
<1>8. InOrder(c)
  <2>1. ASSUME NEW i \in DOMAIN c.video
        PROVE  c.newest # None /\ c.video[i].at <= c.newest
    <3>1. /\ b.newest # None /\ b.video[i].at <= b.newest
          /\ b.video[i].at \in Nat
      BY <1>0, <1>2, <1>7, <2>1, Queued DEF InOrder
    <3> QED
      BY <1>2, <1>3, <1>7, <3>1, FeedAssumption DEF Time
  <2> QED
    BY <1>0, <1>7, <2>1 DEF InOrder
<1>9. GapsMarked(c)
  BY <1>0, <1>7 DEF GapsMarked
<1>10. Counted(c)
  <2> DEFINE v == Len(b.video)
             a == Len(b.audio)
  <2>1. v \in Nat /\ a \in Nat /\ b.bytes = v + a
    BY <1>0, <1>2 DEF Counted
  <2>2. Len(c.video) = v /\ Len(c.audio) = a + 1
    BY <1>4, <1>7
  <2>3. c.bytes = b.bytes + 1
    BY <1>7 DEF m
  <2> HIDE DEF v, a
  <2>4. c.bytes = Len(c.video) + Len(c.audio)
    BY <1>2, <2>1, <2>2, <2>3
  <2> QED
    BY <2>4 DEF Counted
<1> QED
  BY <1>7, <1>8, <1>9, <1>10 DEF Good, c, jump, q

\* The buffer with a new picture that is later than the last
LEMMA PictureGood ==
  ASSUME NEW b, Good(b), NEW p \in Picture, ~p.afterGap,
         b.lastVideo # None => b.lastVideo < p.at
  PROVE  LET c == WithPicture(b, p)
         IN  /\ Good(c)
             /\ c.video = Append(b.video, p) /\ c.audio = b.audio
             /\ c.lastVideo = p.at /\ c.lastAudio = b.lastAudio
             /\ c.audioJump = b.audioJump
             /\ c.videoJump = IF Jumped(b.lastVideo, p.at) THEN p.at
                                                           ELSE b.videoJump
<1> DEFINE c == WithPicture(b, p)
           jump == IF Jumped(b.lastVideo, p.at) THEN p.at ELSE b.videoJump
           n == Newest(b, p.at)
           q == Append(b.video, p)
           m == b.bytes + 1
<1>0. b \in Buffer /\ InOrder(b) /\ GapsMarked(b) /\ Counted(b)
  BY DEF Good
<1>1. p.at \in Time /\ p.at \in Nat /\ p.at # None
  BY BufferAssumption, FeedAssumption DEF Picture, Time
<1>2. /\ b.video \in Seq(Picture) /\ b.audio \in Seq(Sound)
      /\ b.bytes \in Nat /\ b.videoJump \in Time \cup {None}
      /\ b.newest \in Time \cup {None} /\ b.lastVideo \in Time \cup {None}
  BY <1>0 DEF Buffer
<1>3. /\ n \in Time /\ n # None /\ p.at <= n
      /\ b.newest # None => b.newest <= n
  BY <1>0, <1>1, NewestGrows
<1>4. /\ q \in Seq(Picture) /\ Len(q) = Len(b.video) + 1 /\ m \in Nat
      /\ DOMAIN q = DOMAIN b.video \cup {Len(b.video) + 1}
      /\ q[Len(b.video) + 1] = p
      /\ \A i \in DOMAIN b.video : q[i] = b.video[i]
  BY <1>2
<1>5. jump \in Time \cup {None}
  BY <1>1, <1>2
<1>6. c = [b EXCEPT !.video = q, !.bytes = m, !.lastVideo = p.at,
                    !.newest = n, !.videoJump = jump]
  BY DEF WithPicture
<1> HIDE DEF n, jump, c, q, m
<1>7. /\ c \in Buffer
      /\ c.video = q /\ c.audio = b.audio
      /\ c.bytes = m /\ c.newest = n
      /\ c.lastVideo = p.at /\ c.lastAudio = b.lastAudio
      /\ c.videoJump = jump /\ c.audioJump = b.audioJump
      /\ c.gap = b.gap /\ c.hasGap = b.hasGap
  BY <1>0, <1>1, <1>3, <1>4, <1>5, <1>6 DEF Buffer
<1>8. \A i \in DOMAIN b.video :
        /\ b.video[i].at \in Nat /\ i \in Nat /\ i < Len(b.video) + 1
        /\ b.video[i].at < p.at /\ b.video[i].at <= n
  <2> SUFFICES ASSUME NEW i \in DOMAIN b.video
               PROVE  /\ b.video[i].at \in Nat /\ i \in Nat
                      /\ i < Len(b.video) + 1
                      /\ b.video[i].at < p.at /\ b.video[i].at <= n
    OBVIOUS
  <2>1. /\ b.video[i].at \in Nat /\ i \in Nat /\ i < Len(b.video) + 1
    BY <1>2, Queued
  <2>2. /\ b.lastVideo # None /\ b.video[i].at <= b.lastVideo
        /\ b.newest # None /\ b.video[i].at <= b.newest
    BY <1>0 DEF InOrder
  <2>3. b.lastVideo \in Nat /\ b.newest \in Nat /\ p.at \in Nat /\ n \in Nat
    BY <1>1, <1>2, <1>3, <2>2, FeedAssumption DEF Time
  <2>4. b.lastVideo < p.at /\ b.newest <= n
    BY <1>1, <1>2, <1>3, <2>2
  <2> QED
    BY <2>1, <2>2, <2>3, <2>4
<1>9. InOrder(c)
  <2>1. ASSUME NEW i \in DOMAIN q, NEW j \in DOMAIN q, i < j
        PROVE  q[i].at < q[j].at
    <3>1. CASE i \in DOMAIN b.video /\ j \in DOMAIN b.video
      BY <1>0, <1>4, <2>1, <3>1 DEF InOrder
    <3>2. CASE i \in DOMAIN b.video /\ j = Len(b.video) + 1
      BY <1>4, <1>8, <3>2
    <3>3. CASE i = Len(b.video) + 1
      <4>1. j \in Nat /\ j <= Len(b.video) + 1 /\ Len(b.video) \in Nat
        BY <1>2, <1>4
      <4> QED
        BY <2>1, <3>3, <4>1
    <3> QED
      BY <1>4, <3>1, <3>2, <3>3
  <2>2. ASSUME NEW i \in DOMAIN q
        PROVE  q[i].at <= p.at /\ q[i].at <= n
    <3>1. CASE i \in DOMAIN b.video
      BY <1>1, <1>4, <1>8, <3>1
    <3>2. CASE i = Len(b.video) + 1
      BY <1>1, <1>3, <1>4, <3>2
    <3> QED
      BY <1>4, <3>1, <3>2
  <2> QED
    BY <1>1, <1>3, <1>7, <2>1, <2>2 DEF InOrder
<1>10. GapsMarked(c)
  <2>1. ASSUME NEW i \in DOMAIN q, q[i].afterGap
        PROVE  /\ b.hasGap => q[i].at <= b.gap
               /\ ~b.hasGap => i = 1
               /\ jump # None => q[i].at <= jump
    <3>1. i \in DOMAIN b.video /\ b.video[i].afterGap /\ q[i] = b.video[i]
      BY <1>4, <2>1
    <3>2. /\ b.hasGap => b.video[i].at <= b.gap
          /\ ~b.hasGap => i = 1
          /\ b.videoJump # None => b.video[i].at <= b.videoJump
      BY <1>0, <3>1 DEF GapsMarked
    <3>3. b.video[i].at <= p.at
      BY <1>1, <1>8, <3>1
    <3> QED
      BY <3>1, <3>2, <3>3 DEF jump
  <2>2. jump # None => jump <= p.at
    <3>1. b.videoJump # None => b.lastVideo # None /\ b.videoJump <= b.lastVideo
      BY <1>0 DEF GapsMarked
    <3>2. b.videoJump # None => b.videoJump <= p.at
      BY <1>1, <1>2, <3>1, FeedAssumption DEF Time
    <3>3. p.at <= p.at
      BY <1>1
    <3> QED
      BY <3>2, <3>3 DEF jump
  <2> QED
    BY <1>1, <1>7, <2>1, <2>2 DEF GapsMarked
<1>11. Counted(c)
  <2> DEFINE v == Len(b.video)
             a == Len(b.audio)
  <2>1. v \in Nat /\ a \in Nat /\ b.bytes = v + a
    BY <1>0, <1>2 DEF Counted
  <2>2. Len(c.video) = v + 1 /\ Len(c.audio) = a
    BY <1>4, <1>7
  <2>3. c.bytes = b.bytes + 1
    BY <1>7 DEF m
  <2> HIDE DEF v, a
  <2>4. c.bytes = Len(c.video) + Len(c.audio)
    BY <1>2, <2>1, <2>2, <2>3
  <2> QED
    BY <2>4 DEF Counted
<1> QED
  BY <1>7, <1>9, <1>10, <1>11 DEF Good, c, jump, q

\* The two pushes
LEMMA PushVideoPushes ==
  ASSUME NEW b, Good(b), NEW p \in Picture, ~p.afterGap,
         b.lastVideo # None => b.lastVideo < p.at
  PROVE  \E s \in Nat : Pushed(WithPicture(b, p), PushVideo(b, p), s)
<1>1. Good(WithPicture(b, p))
  BY PictureGood
<1>2. PushVideo(b, p) = EnforceLimits(ConfirmGap(WithPicture(b, p)))
  BY DEF PushVideo, WithPicture
<1> QED
  BY <1>1, <1>2, PushEnds

\* The same for a sound
LEMMA PushAudioPushes ==
  ASSUME NEW b, Good(b), NEW p \in Sound
  PROVE  \E s \in Nat : Pushed(WithSound(b, p), PushAudio(b, p), s)
<1>1. Good(WithSound(b, p))
  BY SoundGood
<1>2. PushAudio(b, p) = EnforceLimits(ConfirmGap(WithSound(b, p)))
  BY DEF PushAudio, WithSound
<1> QED
  BY <1>1, <1>2, PushEnds

-----------------------------------------------------------------------------
(* The steps of the reader                                                 *)

\* The packets that a step of the reader pushes
PicturePushed(p, s) ==
  /\ p \in Picture /\ ~p.afterGap
  /\ \E step \in Steps("video") : p.at = videoAt + step
  /\ p.id = IF "video" \in gone THEN sent + 2 ELSE sent + 1
  /\ "network" \in p.missing <=> "video" \in gone
  /\ "limit" \in p.missing <=> cleared
  /\ p.at \in Nat /\ p.at > videoAt /\ p.at <= MaxTime
  /\ Distance(p.at, audioAt) <= MaxSkew
  /\ buf.lastVideo # None => buf.lastVideo < p.at
  /\ Good(WithPicture(buf, p)) /\ Pushed(WithPicture(buf, p), buf', s)

SoundPushed(p, s) ==
  /\ p \in Sound
  /\ \E step \in Steps("audio") : p.at = audioAt + step
  /\ p.at \in Nat /\ p.at > audioAt /\ p.at <= MaxTime
  /\ Distance(p.at, videoAt) <= MaxSkew
  /\ Good(WithSound(buf, p)) /\ Pushed(WithSound(buf, p), buf', s)

\* Times grow within a stream.
LEMMA StepsForward ==
  \A stream : \A step \in Steps(stream) : step \in Nat \ {0}
  BY BufferAssumption, FeedAssumption DEF Steps

\* Every step that pushes a picture is one of PicturePushed.
LEMMA PushPictureStep ==
  ASSUME FeedInv, PushPicture
  PROVE  \E p, s :
           /\ PicturePushed(p, s)
           /\ videoAt' = p.at /\ sent' = p.id
<1>1. PICK step \in Steps("video"), key \in BOOLEAN :
        LET at == videoAt + step
            id == IF "video" \in gone THEN sent + 2 ELSE sent + 1
            missing == {c \in {"network", "limit"} :
                          \/ c = "network" /\ "video" \in gone
                          \/ c = "limit" /\ cleared}
        IN  /\ at <= MaxTime /\ Distance(at, audioAt) <= MaxSkew
            /\ buf' = PushVideo(buf, [at |-> at, key |-> key, id |-> id,
                                      missing |-> missing, afterGap |-> FALSE])
            /\ videoAt' = at /\ sent' = id
  BY DEF PushPicture
<1> DEFINE at == videoAt + step
           id == IF "video" \in gone THEN sent + 2 ELSE sent + 1
           missing == {c \in {"network", "limit"} :
                         \/ c = "network" /\ "video" \in gone
                         \/ c = "limit" /\ cleared}
           p == [at |-> at, key |-> key, id |-> id,
                 missing |-> missing, afterGap |-> FALSE]
<1>2. /\ at <= MaxTime /\ Distance(at, audioAt) <= MaxSkew
      /\ buf' = PushVideo(buf, p) /\ videoAt' = at /\ sent' = id
  BY <1>1
<1>3. /\ videoAt \in Time /\ sent \in Nat /\ videoAt \in Nat
      /\ buf.lastVideo = None \/ buf.lastVideo = videoAt
  BY FeedAssumption DEF FeedInv, ReaderInv, Time
<1>4. step \in Nat \ {0}
  BY StepsForward
<1>5. at \in Nat /\ at > videoAt /\ at \in Time /\ id \in Nat
  BY <1>2, <1>3, <1>4, FeedAssumption DEF Time
<1>6. missing \in SUBSET {"network", "limit"}
  OBVIOUS
<1>7. /\ "network" \in missing <=> "video" \in gone
      /\ "limit" \in missing <=> cleared
  OBVIOUS
<1> HIDE DEF at, id, missing
<1>8. /\ p \in Picture /\ ~p.afterGap /\ p.at = at /\ p.id = id
      /\ p.missing = missing
  BY <1>5, <1>6 DEF Picture
<1> HIDE DEF p
<1>9. buf.lastVideo # None => buf.lastVideo < p.at
  BY <1>3, <1>5, <1>8
<1>10. Good(buf)
  BY DEF FeedInv, BufferInv
<1>11. Good(WithPicture(buf, p))
  BY <1>8, <1>9, <1>10, PictureGood
<1>12. PICK s \in Nat : Pushed(WithPicture(buf, p), PushVideo(buf, p), s)
  BY <1>8, <1>9, <1>10, PushVideoPushes
<1>13. /\ p.id = IF "video" \in gone THEN sent + 2 ELSE sent + 1
       /\ p.at = videoAt + step
  BY <1>8 DEF at, id
<1>14. PicturePushed(p, s)
  BY <1>2, <1>5, <1>7, <1>8, <1>9, <1>11, <1>12, <1>13 DEF PicturePushed
<1> QED
  BY <1>2, <1>8, <1>14

\* Every step that pushes a sound is one of SoundPushed.
LEMMA PushSoundStep ==
  ASSUME FeedInv, PushSound
  PROVE  \E p, s : SoundPushed(p, s) /\ audioAt' = p.at
<1>1. PICK step \in Steps("audio") :
        LET at == audioAt + step
        IN  /\ at <= MaxTime /\ Distance(at, videoAt) <= MaxSkew
            /\ buf' = PushAudio(buf, [at |-> at])
            /\ audioAt' = at
  BY DEF PushSound
<1> DEFINE at == audioAt + step
           p == [at |-> at]
<1>2. /\ at <= MaxTime /\ Distance(at, videoAt) <= MaxSkew
      /\ buf' = PushAudio(buf, p) /\ audioAt' = at
  BY <1>1
<1>3. audioAt \in Time /\ audioAt \in Nat
  BY FeedAssumption DEF FeedInv, ReaderInv, Time
<1>4. step \in Nat \ {0}
  BY StepsForward
<1>5. at \in Nat /\ at > audioAt /\ at \in Time
  BY <1>2, <1>3, <1>4, FeedAssumption DEF Time
<1> HIDE DEF at
<1>6. p \in Sound /\ p.at = at
  BY <1>5 DEF Sound
<1> HIDE DEF p
<1>7. Good(buf)
  BY DEF FeedInv, BufferInv
<1>8. Good(WithSound(buf, p))
  BY <1>6, <1>7, SoundGood
<1>9. PICK s \in Nat : Pushed(WithSound(buf, p), PushAudio(buf, p), s)
  BY <1>6, <1>7, PushAudioPushes
<1>10. p.at = audioAt + step
  BY <1>6 DEF at
<1>11. SoundPushed(p, s)
  BY <1>2, <1>5, <1>6, <1>8, <1>9, <1>10 DEF SoundPushed
<1> QED
  BY <1>2, <1>6, <1>11

-----------------------------------------------------------------------------
(* The steps of the decode thread                                          *)

\* find_cut_point() returns nothing, or a keyframe that no gap follows.
LEMMA CutPointUsable ==
  ASSUME NEW b, Good(b), NEW target
  PROVE  CutPoint(b, target) = 0 \/ CutPoint(b, target) \in UsableKeyframes(b)
<1> DEFINE before == {i \in UsableKeyframes(b) : b.video[i].at <= target}
<1>1. b.video \in Seq(Picture)
  BY DEF Good, Buffer
<1>2. UsableKeyframes(b) \in SUBSET (1 .. Len(b.video))
      /\ UsableKeyframes(b) \in SUBSET Nat
  BY <1>1 DEF UsableKeyframes
<1>3. before # {} => Max(before) \in before
  <2>1. before \in SUBSET (1 .. Len(b.video)) /\ Len(b.video) \in Nat
    BY <1>1, <1>2
  <2> HIDE DEF before
  <2> QED
    BY <2>1, MaxNat
<1>4. UsableKeyframes(b) # {} => Min(UsableKeyframes(b)) \in UsableKeyframes(b)
  BY <1>2, MinNat
<1>5. before \subseteq UsableKeyframes(b)
  OBVIOUS
<1>6. CutPoint(b, target) = IF before # {} THEN Max(before)
                            ELSE IF UsableKeyframes(b) # {}
                              THEN Min(UsableKeyframes(b)) ELSE 0
  BY DEF CutPoint
<1> HIDE DEF before
<1> QED
  BY <1>3, <1>4, <1>5, <1>6

\* Strictly growing times: a picture is the first at or after its own time.
LEMMA FirstAtItself ==
  ASSUME NEW b, Good(b), NEW i \in DOMAIN b.video
  PROVE  FirstAt(b.video, b.video[i].at) = i
<1> DEFINE f == FirstAt(b.video, b.video[i].at)
<1>1. b.video \in Seq(Picture) /\ InOrder(b)
  BY DEF Good, Buffer
<1>2. b.video[i].at \in Nat /\ b.video[i].at >= b.video[i].at
  BY <1>1, Queued
<1>3. /\ f \in Places(b.video) /\ f <= i
      /\ f # Len(b.video) + 1 => b.video[f].at >= b.video[i].at
  BY <1>1, <1>2, FirstAtPlace
<1> HIDE DEF f
<1>4. i \in Nat /\ f \in Nat /\ i <= Len(b.video) /\ Len(b.video) \in Nat
  BY <1>1, <1>3 DEF Places
<1>5. f \in DOMAIN b.video /\ b.video[f].at >= b.video[i].at
  BY <1>1, <1>3, <1>4 DEF Places
<1>6. ~(f < i)
  <2>1. b.video[f].at \in Nat
    BY <1>1, <1>5, Queued
  <2> QED
    BY <1>1, <1>2, <1>5, <2>1 DEF InOrder
<1>7. f = i
  BY <1>3, <1>4, <1>6
<1> QED
  BY <1>7 DEF f

\* What the decode thread never touches in the buffer
Feeds ==
  /\ Good(buf') /\ Limited(buf')
  /\ buf'.lastVideo = buf.lastVideo /\ buf'.lastAudio = buf.lastAudio
  /\ buf'.videoJump = buf.videoJump /\ buf'.audioJump = buf.audioJump

\* A cut leaves the picture it found in front, and no gap behind it.
LEMMA CutFeeds ==
  ASSUME BufferInv, NEW i, NEW target \in Nat,
         i = 0 \/ i \in DOMAIN buf.video, Cut(i, target)
  PROVE  /\ Feeds
         /\ i = 0 => Shows(buf, buf', 0)
         /\ i # 0 =>
              /\ Shows(buf, buf', i - 1)
              /\ buf'.hasGap = (buf.hasGap /\ buf.video[i].at < buf.gap)
<1>0. Good(buf) /\ Limited(buf) /\ buf.video \in Seq(Picture)
  BY DEF BufferInv, Good, Buffer
<1>1. CASE i = 0
  <2>1. buf' = DropAudioBefore(buf, target)
    BY <1>1 DEF Cut
  <2> DEFINE j == FirstAt(buf.audio, target)
  <2>2. /\ j \in Places(buf.audio) /\ Without(buf, buf', 1, j)
        /\ 1 \in Places(buf.video)
    BY <1>0, <2>1, DropAudioBeforeDrops DEF Places
  <2> HIDE DEF j
  <2>3. Shows(buf, buf', 1 - 1)
    BY <1>0, <2>2, WithoutShows
  <2> QED
    BY <1>0, <1>1, <2>2, <2>3 DEF Feeds, Without
<1>2. CASE i # 0
  <2> DEFINE at == buf.video[i].at
             c == DropVideoBefore(buf, at)
             t == IF at > target THEN at ELSE target
             j == FirstAt(c.audio, t)
  <2>1. i \in DOMAIN buf.video /\ at \in Nat /\ t \in Nat
    BY <1>0, <1>2, Queued
  <2>2. buf' = DropAudioBefore(c, t)
    BY <1>2 DEF Cut
  <2>3. FirstAt(buf.video, at) = i
    BY <1>0, <2>1, FirstAtItself
  <2> HIDE DEF at, t
  <2>4. /\ i \in Places(buf.video) /\ Without(buf, c, i, 1)
        /\ c.hasGap = (buf.hasGap /\ at < buf.gap)
    BY <1>0, <2>1, <2>3, DropVideoBeforeDrops
  <2>5. 1 \in Places(buf.audio)
    BY <1>0 DEF Places, Good, Buffer
  <2> HIDE DEF c
  <2>6. Good(c) /\ Limited(c) /\ Shows(buf, c, i - 1)
    BY <1>0, <2>4, <2>5, WithoutShows DEF Without
  <2>7. /\ Without(c, buf', 1, j)
        /\ buf'.video = c.video /\ buf'.hasGap = c.hasGap
    BY <2>1, <2>2, <2>6, DropAudioBeforeDrops
  <2>8. Shows(buf, buf', i - 1)
    BY <2>6, <2>7 DEF Shows
  <2>9. Feeds
    BY <2>4, <2>6, <2>7 DEF Feeds, Without
  <2> QED
    BY <1>2, <2>4, <2>7, <2>8, <2>9 DEF at
<1> QED
  BY <1>1, <1>2

\* The decode thread takes a picture.
LEMMA PopVideoFeeds ==
  ASSUME BufferInv, buf.video # <<>>, buf' = PopVideo(buf)
  PROVE  Feeds /\ Shows(buf, buf', 1)
<1>1. Good(buf) /\ Limited(buf)
  BY DEF BufferInv
<1>2. 2 \in Places(buf.video) /\ Without(buf, buf', 2, 1)
  BY <1>1, PopVideoDrops
<1>3. 1 \in Places(buf.audio)
  BY <1>1 DEF Places, Good, Buffer
<1>4. Shows(buf, buf', 2 - 1)
  BY <1>1, <1>2, <1>3, WithoutShows
<1> QED
  BY <1>1, <1>2, <1>4 DEF Feeds, Without

\* The decode thread takes a sound.
LEMMA PopAudioFeeds ==
  ASSUME BufferInv, buf.audio # <<>>, buf' = PopAudio(buf)
  PROVE  Feeds /\ Shows(buf, buf', 0)
<1>1. Good(buf) /\ Limited(buf)
  BY DEF BufferInv
<1>2. 2 \in Places(buf.audio) /\ Without(buf, buf', 1, 2)
  BY <1>1, PopAudioDrops
<1>3. 1 \in Places(buf.video)
  BY <1>1 DEF Places, Good, Buffer
<1>4. Shows(buf, buf', 1 - 1)
  BY <1>1, <1>2, <1>3, WithoutShows
<1> QED
  BY <1>1, <1>2, <1>4 DEF Feeds, Without

\* No step of the decode thread disturbs the buffer.
LEMMA DecodeFeeds ==
  ASSUME BufferInv, Decode
  PROVE  Feeds
<1>1. CASE Resume \/ Pause
  BY <1>1 DEF Resume, Pause, Feeds, BufferInv
<1>2. CASE CutToKeyframe
  <2>1. PICK target \in 0 .. buf.newest :
          /\ CutPoint(buf, target) # 0
          /\ Cut(CutPoint(buf, target), target)
    BY <1>2 DEF CutToKeyframe
  <2>2. target \in Nat /\ Good(buf)
    BY DEF BufferInv
  <2>3. CutPoint(buf, target) \in DOMAIN buf.video
    BY <2>1, <2>2, CutPointUsable DEF UsableKeyframes
  <2> QED
    BY <2>1, <2>2, <2>3, CutFeeds
<1>3. CASE CutWithoutKeyframe
  <2>1. PICK target \in 0 .. buf.newest : Cut(0, target)
    BY <1>3 DEF CutWithoutKeyframe
  <2>2. target \in Nat
    OBVIOUS
  <2> QED
    BY <2>1, <2>2, CutFeeds
<1>4. CASE SkipPicture \/ FeedPicture \/ FeedInDespair
  BY <1>4, PopVideoFeeds DEF SkipPicture, FeedPicture, FeedInDespair
<1>5. CASE FeedSound
  BY <1>5, PopAudioFeeds DEF FeedSound
<1> QED
  BY <1>1, <1>2, <1>3, <1>4, <1>5 DEF Decode

\* The decode thread takes pictures from the front and does nothing else.
LEMMA DecodeShows ==
  ASSUME BufferInv, Decode
  PROVE  \E s : Shows(buf, buf', s)
<1>1. CASE Resume \/ Pause
  <2>1. buf' = buf /\ buf.video \in Seq(Picture)
    BY <1>1 DEF Resume, Pause, BufferInv, Good, Buffer
  <2>2. \A k \in DOMAIN buf.video : k \in Nat \ {0} /\ k + 0 = k
    BY <2>1
  <2>3. Len(buf.video) = Len(buf.video) - 0
    BY <2>1
  <2>4. Shows(buf, buf', 0)
    BY <2>1, <2>2, <2>3 DEF Shows
  <2> QED
    BY <2>4
<1>2. CASE CutToKeyframe
  <2>1. PICK target \in 0 .. buf.newest :
          /\ CutPoint(buf, target) # 0
          /\ Cut(CutPoint(buf, target), target)
    BY <1>2 DEF CutToKeyframe
  <2>2. target \in Nat /\ Good(buf)
    BY DEF BufferInv
  <2>3. CutPoint(buf, target) \in DOMAIN buf.video
    BY <2>1, <2>2, CutPointUsable DEF UsableKeyframes
  <2> QED
    BY <2>1, <2>2, <2>3, CutFeeds
<1>3. CASE CutWithoutKeyframe
  <2>1. PICK target \in 0 .. buf.newest : Cut(0, target)
    BY <1>3 DEF CutWithoutKeyframe
  <2>2. target \in Nat
    OBVIOUS
  <2> QED
    BY <2>1, <2>2, CutFeeds
<1>4. CASE SkipPicture \/ FeedPicture \/ FeedInDespair
  BY <1>4, PopVideoFeeds DEF SkipPicture, FeedPicture, FeedInDespair
<1>5. CASE FeedSound
  BY <1>5, PopAudioFeeds DEF FeedSound
<1> QED
  BY <1>1, <1>2, <1>3, <1>4, <1>5 DEF Decode

-----------------------------------------------------------------------------
(* The invariant of the buffer and of its reader                           *)

\* reset() leaves a good buffer.
LEMMA EmptyBufferGood ==
  Good(EmptyBuffer) /\ Limited(EmptyBuffer)
<1>1. <<>> \in Seq(Picture) /\ <<>> \in Seq(Sound)
  OBVIOUS
<1>2. DOMAIN <<>> = {} /\ Len(<<>>) = 0 /\ 0 \in Time /\ 0 \in Nat
  BY FeedAssumption DEF Time
<1>3. EmptyBuffer \in Buffer
  BY <1>1, <1>2 DEF EmptyBuffer, Buffer
<1>4. /\ EmptyBuffer.video = <<>> /\ EmptyBuffer.audio = <<>>
      /\ EmptyBuffer.bytes = 0 /\ EmptyBuffer.videoJump = None
  BY DEF EmptyBuffer
<1>5. InOrder(EmptyBuffer) /\ GapsMarked(EmptyBuffer) /\ Counted(EmptyBuffer)
  BY <1>2, <1>4 DEF InOrder, GapsMarked, Counted
<1> QED
  BY <1>3, <1>4, <1>5, BufferAssumption DEF Good, Limited

\* The invariant holds at the start.
LEMMA FeedInit ==
  ASSUME Init
  PROVE  FeedInv
<1>1. BufferInv
  BY EmptyBufferGood DEF Init, BufferInv
<1>2. 0 \in Time /\ 0 \in 0..MaxLosses /\ 0 \in Nat /\ ~(0 > 0)
  BY FeedAssumption DEF Time
<1>3. buf.lastVideo = None /\ buf.lastAudio = None
  BY DEF Init, EmptyBuffer
<1>4. starting \in BOOLEAN /\ needKey \in BOOLEAN /\ cleared \in BOOLEAN
      /\ smear \subseteq {"limit", "gap"}
  BY Zenon DEF Init
<1>5. ReaderInv
  BY <1>2, <1>3, <1>4 DEF Init, ReaderInv
<1> QED
  BY <1>1, <1>5 DEF FeedInv

\* Every step keeps the invariant: a push through its three stages, the decode
\* thread because it only drops, a reset because it starts over.
LEMMA FeedInvStep ==
  ASSUME FeedInv, [Next]_vars
  PROVE  FeedInv'
<1>0. BufferInv /\ ReaderInv
  BY DEF FeedInv
<1>1. CASE PushPicture
  <2>1. PICK p, s : PicturePushed(p, s) /\ videoAt' = p.at /\ sent' = p.id
    BY <1>1, PushPictureStep
  <2> DEFINE c == WithPicture(buf, p)
  <2>2. Good(buf') /\ Limited(buf')
        /\ buf'.lastVideo = c.lastVideo /\ buf'.lastAudio = c.lastAudio
    BY <2>1 DEF PicturePushed, Pushed
  <2>3. c.lastVideo = p.at /\ c.lastAudio = buf.lastAudio
    BY <1>0, <2>1, PictureGood DEF PicturePushed, BufferInv
  <2>4. p.at \in Time /\ p.id \in Nat /\ p.id > 0 /\ sent' > 0
    BY <1>0, <2>1 DEF PicturePushed, Picture, ReaderInv
  <2>5. cleared' \in BOOLEAN
    BY <1>1, Zenon DEF PushPicture
  <2>6. /\ gone' = gone \ {"video"}
        /\ UNCHANGED <<phase, starting, needKey, decoded, audioAt, losses,
                       smear>>
    BY <1>1 DEF PushPicture, run
  <2>7. ReaderInv'
    <3>1. /\ sent' \in Nat /\ decoded' \in Nat
          /\ videoAt' \in Time /\ audioAt' \in Time
          /\ gone' \subseteq {"video", "audio"} /\ losses' \in 0..MaxLosses
          /\ phase' \in {"buffering", "playing"}
          /\ starting' \in BOOLEAN /\ needKey' \in BOOLEAN
          /\ smear' \subseteq {"limit", "gap"}
      BY <1>0, <2>1, <2>4, <2>6 DEF ReaderInv
    <3>2. /\ buf'.lastVideo = IF sent' > 0 THEN videoAt' ELSE None
          /\ buf'.lastAudio = IF audioAt' > 0 THEN audioAt' ELSE None
          /\ gone' # {} => sent' > 0 /\ audioAt' > 0
      BY <1>0, <2>1, <2>2, <2>3, <2>4, <2>6 DEF ReaderInv
    <3> QED
      BY <2>5, <3>1, <3>2 DEF ReaderInv
  <2> QED
    BY <2>2, <2>7 DEF FeedInv, BufferInv
<1>2. CASE PushSound
  <2>1. PICK p, s : SoundPushed(p, s) /\ audioAt' = p.at
    BY <1>2, PushSoundStep
  <2> DEFINE c == WithSound(buf, p)
  <2>2. Good(buf') /\ Limited(buf')
        /\ buf'.lastVideo = c.lastVideo /\ buf'.lastAudio = c.lastAudio
    BY <2>1 DEF SoundPushed, Pushed
  <2>3. c.lastVideo = buf.lastVideo /\ c.lastAudio = p.at
    BY <1>0, <2>1, SoundGood DEF SoundPushed, BufferInv
  <2>4. p.at \in Time /\ p.at > 0
    BY <1>0, <2>1, FeedAssumption DEF SoundPushed, Sound, ReaderInv, Time
  <2>5. cleared' \in BOOLEAN
    BY <1>2, Zenon DEF PushSound
  <2>6. /\ gone' = gone \ {"audio"}
        /\ UNCHANGED <<phase, starting, needKey, decoded, sent, videoAt, losses,
                       smear>>
    BY <1>2 DEF PushSound, run
  <2>7. ReaderInv'
    <3>1. /\ sent' \in Nat /\ decoded' \in Nat
          /\ videoAt' \in Time /\ audioAt' \in Time
          /\ gone' \subseteq {"video", "audio"} /\ losses' \in 0..MaxLosses
          /\ phase' \in {"buffering", "playing"}
          /\ starting' \in BOOLEAN /\ needKey' \in BOOLEAN
          /\ smear' \subseteq {"limit", "gap"}
      BY <1>0, <2>1, <2>4, <2>6 DEF ReaderInv
    <3>2. /\ buf'.lastVideo = IF sent' > 0 THEN videoAt' ELSE None
          /\ buf'.lastAudio = IF audioAt' > 0 THEN audioAt' ELSE None
          /\ gone' # {} => sent' > 0 /\ audioAt' > 0
      BY <1>0, <2>1, <2>2, <2>3, <2>4, <2>6 DEF ReaderInv
    <3> QED
      BY <2>5, <3>1, <3>2 DEF ReaderInv
  <2> QED
    BY <2>2, <2>7 DEF FeedInv, BufferInv
<1>3. CASE LoseContent
  <2>1. BufferInv'
    BY <1>0, <1>3 DEF LoseContent, BufferInv
  <2>2. losses' \in 0..MaxLosses
    BY <1>0, <1>3, FeedAssumption DEF LoseContent, ReaderInv
  <2>3. ReaderInv'
    BY <1>0, <1>3, <2>2 DEF LoseContent, ReaderInv, run
  <2> QED
    BY <2>1, <2>3 DEF FeedInv
<1>4. CASE Decode
  <2>1. Feeds
    BY <1>0, <1>4, DecodeFeeds
  <2>2. /\ decoded' \in Nat /\ phase' \in {"buffering", "playing"}
        /\ starting' \in BOOLEAN /\ needKey' \in BOOLEAN
        /\ smear' \subseteq {"limit", "gap"} /\ cleared' = cleared
        /\ UNCHANGED encoder
    <3>1. CASE Resume \/ Pause
      BY <1>0, <3>1 DEF Resume, Pause, ReaderInv
    <3>2. CASE CutToKeyframe \/ CutWithoutKeyframe
      <4>1. PICK i, target : Cut(i, target)
        BY <3>2 DEF CutToKeyframe, CutWithoutKeyframe
      <4>2. needKey' \in BOOLEAN
        BY <4>1, Zenon DEF Cut, NeedsKeyframe
      <4> QED
        BY <1>0, <4>1, <4>2 DEF Cut, ReaderInv
    <3>3. CASE SkipPicture \/ FeedInDespair \/ FeedPicture
      <4>1. Head(buf.video).id \in Nat
        <5>1. buf.video # <<>> /\ buf.video \in Seq(Picture)
          BY <1>0, <3>3 DEF SkipPicture, FeedInDespair, FeedPicture, BufferInv,
             Good, Buffer
        <5>2. 1 \in DOMAIN buf.video /\ Head(buf.video) = buf.video[1]
          BY <5>1
        <5> QED
          BY <5>1, <5>2, Queued
      <4>2. CASE SkipPicture
        BY <1>0, <4>1, <4>2 DEF SkipPicture, ReaderInv
      <4>3. CASE FeedInDespair
        BY <1>0, <4>1, <4>3 DEF FeedInDespair, ReaderInv
      <4>4. CASE FeedPicture
        <5>1. smear' \subseteq {"limit", "gap"}
          BY <1>0, <4>4 DEF FeedPicture, Smears, ReaderInv
        <5> QED
          BY <1>0, <4>1, <4>4, <5>1 DEF FeedPicture, ReaderInv
      <4> QED
        BY <3>3, <4>2, <4>3, <4>4
    <3>4. CASE FeedSound
      BY <1>0, <3>4 DEF FeedSound, ReaderInv, run
    <3> QED
      BY <1>4, <3>1, <3>2, <3>3, <3>4 DEF Decode
  <2>3. ReaderInv'
    BY <1>0, <2>1, <2>2 DEF Feeds, ReaderInv, encoder
  <2> QED
    BY <2>1, <2>3 DEF FeedInv, BufferInv, Feeds
<1>5. CASE Reset
  <2>1. BufferInv'
    BY <1>5, EmptyBufferGood DEF Reset, BufferInv
  <2>2. ReaderInv'
    <3>1. 0 \in Time /\ 0 \in Nat /\ ~(0 > 0)
      BY FeedAssumption DEF Time
    <3>2. buf'.lastVideo = None /\ buf'.lastAudio = None
      BY <1>5 DEF Reset, EmptyBuffer
    <3>3. starting' \in BOOLEAN /\ needKey' \in BOOLEAN /\ cleared' \in BOOLEAN
      BY <1>5, Zenon DEF Reset
    <3> QED
      BY <1>0, <1>5, <3>1, <3>2, <3>3 DEF Reset, ReaderInv
  <2> QED
    BY <2>1, <2>2 DEF FeedInv
<1>6. CASE UNCHANGED vars
  <2>1. BufferInv'
    BY <1>0, <1>6 DEF vars, BufferInv
  <2>2. ReaderInv'
    BY <1>0, <1>6 DEF vars, ReaderInv
  <2> QED
    BY <2>1, <2>2 DEF FeedInv
<1> QED
  BY <1>1, <1>2, <1>3, <1>4, <1>5, <1>6 DEF Next

\* The invariant of the buffer, whatever the limits, the losses, the pauses and
\* the muxer's skew are.
THEOREM Invariance == Spec => []FeedInv
<1>1. Init => FeedInv
  BY FeedInit
<1>2. FeedInv /\ [Next]_vars => FeedInv'
  BY FeedInvStep
<1> QED
  BY <1>1, <1>2, PTL DEF Spec

\* Every variable keeps its type, and so does every packet in the buffer.
THEOREM TypeCorrect == Spec => []TypeOK
<1>1. ASSUME FeedInv PROVE TypeOK
  <2>1. buf \in Buffer /\ ReaderInv
    BY <1>1 DEF FeedInv, BufferInv, Good
  <2>2. buf.video \in Seq(Picture)
    BY <2>1 DEF Buffer
  <2>3. \A i \in DOMAIN buf.video : buf.video[i] \in Picture
    BY <2>2, Queued
  <2>4. \A t \in {buf.lastVideo, buf.lastAudio, buf.newest, buf.videoJump,
                   buf.audioJump} : t \in Time \cup {None}
    BY <2>1 DEF Buffer
  <2>5. /\ buf.audio \in Seq([at : Time])
        /\ buf.bytes \in Nat /\ buf.gap \in Time /\ buf.hasGap \in BOOLEAN
    BY <2>1 DEF Buffer, Sound
  <2> QED
    BY <2>1, <2>3, <2>4, <2>5 DEF TypeOK, ReaderInv, Picture
<1> QED
  BY <1>1, Invariance, PTL

\* WithinLimits: bytes_ is what the two queues hold, and enforce_limits() keeps
\* the memory and the span within their limits between pushes too.
THEOREM LimitsHold == Spec => []WithinLimits
<1>1. FeedInv => WithinLimits
  BY DEF FeedInv, BufferInv, Good, Counted, Limited, WithinLimits
<1> QED
  BY <1>1, Invariance, PTL

\* CutsPastGaps: nothing that a gap made undecodable is left behind the keyframe
\* that playout_cut() jumps to.
THEOREM CutsLeaveNoGap == Spec => CutsPastGaps
<1> DEFINE Step ==
      decoded' = 0 /\ UNCHANGED encoder /\ CutToKeyframe =>
        \A i \in DOMAIN buf'.video : i > 1 => ~buf'.video[i].afterGap
<1>1. FeedInv /\ [Next]_vars => [Step]_vars
  <2> SUFFICES ASSUME FeedInv, CutToKeyframe
               PROVE  \A i \in DOMAIN buf'.video :
                        i > 1 => ~buf'.video[i].afterGap
    OBVIOUS
  <2>1. PICK target \in 0 .. buf.newest :
          /\ CutPoint(buf, target) # 0
          /\ Cut(CutPoint(buf, target), target)
    BY DEF CutToKeyframe
  <2> DEFINE k == CutPoint(buf, target)
  <2>2. target \in Nat /\ BufferInv /\ Good(buf)
    BY DEF FeedInv, BufferInv
  <2>3. k \in UsableKeyframes(buf) /\ k # 0 /\ Cut(k, target)
    BY <2>1, <2>2, CutPointUsable
  <2> HIDE DEF k
  <2>4. /\ k \in DOMAIN buf.video
        /\ buf.hasGap => buf.video[k].at >= buf.gap
    BY <2>3 DEF UsableKeyframes
  <2>5. Feeds /\ buf'.hasGap = (buf.hasGap /\ buf.video[k].at < buf.gap)
    BY <2>2, <2>3, <2>4, CutFeeds
  <2>6. ~buf'.hasGap
    <3>1. buf.video[k].at \in Nat /\ buf.gap \in Nat
      <4>1. buf.video \in Seq(Picture) /\ buf.gap \in Time
        BY <2>2 DEF Good, Buffer
      <4> QED
        BY <2>4, <4>1, Queued, FeedAssumption DEF Time
    <3>2. ~(buf.hasGap /\ buf.video[k].at < buf.gap)
      BY <2>4, <3>1
    <3> QED
      BY <2>5, <3>2, Zenon
  <2>7. \A i \in DOMAIN buf'.video : buf'.video[i].afterGap => i = 1
    BY <2>5, <2>6 DEF Feeds, Good, GapsMarked
  <2> QED
    BY <2>7
<1> QED
  BY <1>1, Invariance, PTL DEF Spec, CutsPastGaps

-----------------------------------------------------------------------------
(* No smear after a gap: the queue continues what the decoder has          *)

\* The first and the last picture that are left
LEMMA ShowsEnds ==
  ASSUME NEW b, b.video \in Seq(Picture), NEW d, NEW s, Shows(b, d, s)
  PROVE  /\ d.video = <<>> <=> Len(b.video) = s
         /\ d.video # <<>> =>
              /\ b.video # <<>> /\ s + 1 \in DOMAIN b.video
              /\ 1 \in DOMAIN d.video /\ Head(d.video) = d.video[1]
              /\ Head(d.video).id = b.video[s + 1].id
              /\ Head(d.video).key = b.video[s + 1].key
              /\ Head(d.video).missing = b.video[s + 1].missing
              /\ Head(b.video) = b.video[1] /\ 1 \in DOMAIN b.video
              /\ d.video[Len(d.video)].id = b.video[Len(b.video)].id
<1>1. /\ s \in Nat /\ d.video \in Seq(Picture)
      /\ Len(d.video) = Len(b.video) - s
      /\ \A k \in DOMAIN d.video :
           /\ k \in Nat \ {0} /\ k + s \in DOMAIN b.video
           /\ d.video[k].key = b.video[k + s].key
           /\ d.video[k].id = b.video[k + s].id
           /\ d.video[k].missing = b.video[k + s].missing
  BY DEF Shows
<1>2. Len(b.video) \in Nat /\ Len(d.video) \in Nat
  BY <1>1
<1>3. d.video = <<>> <=> Len(d.video) = 0
  BY <1>1
<1>4. d.video = <<>> <=> Len(b.video) = s
  BY <1>1, <1>2, <1>3
<1>5. ASSUME d.video # <<>>
      PROVE  /\ b.video # <<>> /\ s + 1 \in DOMAIN b.video
             /\ 1 \in DOMAIN d.video /\ Head(d.video) = d.video[1]
             /\ Head(d.video).id = b.video[s + 1].id
             /\ Head(d.video).key = b.video[s + 1].key
             /\ Head(d.video).missing = b.video[s + 1].missing
             /\ Head(b.video) = b.video[1] /\ 1 \in DOMAIN b.video
             /\ d.video[Len(d.video)].id = b.video[Len(b.video)].id
  <2>1. /\ 1 \in DOMAIN d.video /\ Len(d.video) \in DOMAIN d.video
        /\ Head(d.video) = d.video[1]
    BY <1>1, <1>5
  <2>2. 1 + s \in DOMAIN b.video /\ 1 + s = s + 1
    BY <1>1, <2>1
  <2>3. b.video # <<>> /\ Head(b.video) = b.video[1] /\ 1 \in DOMAIN b.video
    BY <2>2
  <2>4. Len(d.video) + s = Len(b.video)
    BY <1>1, <1>2
  <2> QED
    BY <1>1, <2>1, <2>2, <2>3, <2>4
<1> QED
  BY <1>4, <1>5

\* Dropping from the front breaks no link.
LEMMA ShowsLinked ==
  ASSUME NEW b, NEW d, NEW s, Shows(b, d, s), Linked(b)
  PROVE  Linked(d)
<1> SUFFICES ASSUME NEW i \in DOMAIN d.video, NEW j \in DOMAIN d.video,
                    j = i + 1
             PROVE  Follows(d.video[i].id, d.video[j])
  BY DEF Linked
<1>1. /\ i \in Nat /\ s \in Nat
      /\ i + s \in DOMAIN b.video /\ j + s \in DOMAIN b.video
      /\ d.video[i].id = b.video[i + s].id
      /\ d.video[j].id = b.video[j + s].id
      /\ d.video[j].key = b.video[j + s].key
      /\ d.video[j].missing = b.video[j + s].missing
  BY DEF Shows
<1>2. j + s = (i + s) + 1
  BY <1>1
<1>3. Follows(b.video[i + s].id, b.video[j + s])
  BY <1>1, <1>2 DEF Linked
<1> QED
  BY <1>1, <1>3 DEF Follows

\* A step that shows less of the queue c keeps the chain, unless it cuts it in
\* the middle: then the decoder goes on with a keyframe or waits for one.
LEMMA ShowsChain ==
  ASSUME NEW c, c.video \in Seq(Picture), Linked(c),
         NEW s, Shows(c, buf', s),
         c.video # <<>> => c.video[Len(c.video)].id = sent',
         buf'.video # <<>> => needKey' \/ Follows(decoded', Head(buf'.video)),
         buf'.video = <<>> => needKey' \/ cleared' \/ decoded' = sent'
  PROVE  ChainInv'
<1>1. Linked(buf')
  BY ShowsLinked
<1>2. buf'.video # <<>> => buf'.video[Len(buf'.video)].id = sent'
  BY ShowsEnds
<1>3. Linked(buf)'
  BY <1>1 DEF Linked, Follows
<1> QED
  BY <1>2, <1>3 DEF ChainInv, Follows

\* A push keeps the chain: what the limits take, they take up to a keyframe.
LEMMA PushChain ==
  ASSUME NEW c, Good(c), Linked(c), NEW s, Pushed(c, buf', s),
         needKey' = needKey, decoded' = decoded,
         c.video # <<>> =>
           /\ needKey \/ Follows(decoded, Head(c.video))
           /\ c.video[Len(c.video)].id = sent',
         c.video # <<>> /\ buf'.video = <<>> => cleared',
         c.video = <<>> => needKey \/ cleared' \/ decoded = sent'
  PROVE  ChainInv'
<1>1. /\ Shows(c, buf', s)
      /\ s # 0 /\ buf'.video # <<>> => Head(buf'.video).key
      /\ c.video \in Seq(Picture) /\ s \in Nat
  BY DEF Pushed, Shows, Good, Buffer
<1>2. ASSUME buf'.video # <<>>
      PROVE  needKey' \/ Follows(decoded', Head(buf'.video))
  <2>1. CASE s = 0
    <3>1. /\ c.video # <<>> /\ Head(c.video) = c.video[0 + 1]
          /\ Head(buf'.video).id = c.video[0 + 1].id
          /\ Head(buf'.video).key = c.video[0 + 1].key
          /\ Head(buf'.video).missing = c.video[0 + 1].missing
      BY <1>1, <1>2, <2>1, ShowsEnds
    <3> QED
      BY <3>1 DEF Follows
  <2>2. CASE s # 0
    BY <1>1, <1>2, <2>2 DEF Follows
  <2> QED
    BY <2>1, <2>2
<1>3. buf'.video = <<>> => needKey' \/ cleared' \/ decoded' = sent'
  OBVIOUS
<1> QED
  BY <1>1, <1>2, <1>3, ShowsChain

\* A queue with a picture more
LEMMA AppendedPicture ==
  ASSUME NEW q \in Seq(Picture), NEW p \in Picture
  PROVE  /\ Append(q, p) \in Seq(Picture) /\ Append(q, p) # <<>>
         /\ Len(Append(q, p)) = Len(q) + 1 /\ Len(q) \in Nat
         /\ DOMAIN Append(q, p) = DOMAIN q \cup {Len(q) + 1}
         /\ Append(q, p)[Len(q) + 1] = p
         /\ \A i \in DOMAIN q :
              Append(q, p)[i] = q[i] /\ i \in Nat /\ i <= Len(q)
<1> DEFINE a == Append(q, p)
<1>1. /\ a \in Seq(Picture) /\ Len(a) = Len(q) + 1 /\ Len(q) \in Nat
      /\ a[Len(q) + 1] = p /\ \A i \in 1..Len(q) : a[i] = q[i]
  OBVIOUS
<1>2. DOMAIN q = 1..Len(q) /\ DOMAIN a = 1..Len(a)
  BY <1>1
<1>3. a # <<>>
  <2> HIDE DEF a
  <2>1. Len(a) # 0
    BY <1>1
  <2> QED
    BY <2>1
<1> HIDE DEF a
<1> QED
  BY <1>1, <1>2, <1>3 DEF a

\* Every step keeps the chain from the decoder through the queue to the encoder.
LEMMA ChainStep ==
  ASSUME FeedInv, ChainInv, [Next]_vars
  PROVE  ChainInv'
<1>0. /\ Good(buf) /\ BufferInv /\ buf.video \in Seq(Picture)
      /\ sent \in Nat /\ decoded \in Nat /\ ReaderInv
  BY DEF FeedInv, BufferInv, ReaderInv, Good, Buffer
<1>1. CASE PushPicture
  <2>1. PICK p, s : PicturePushed(p, s) /\ sent' = p.id
    BY <1>1, PushPictureStep
  <2> DEFINE c == WithPicture(buf, p)
  <2>2. Good(c) /\ c.video = Append(buf.video, p)
    BY <1>0, <2>1, PictureGood DEF PicturePushed
  <2> HIDE DEF c
  <2>3. Pushed(c, buf', s)
    BY <2>1 DEF PicturePushed, c
  <2>4. /\ Len(c.video) = Len(buf.video) + 1 /\ Len(buf.video) \in Nat
        /\ DOMAIN c.video = DOMAIN buf.video \cup {Len(buf.video) + 1}
        /\ c.video[Len(buf.video) + 1] = p /\ c.video # <<>>
        /\ \A i \in DOMAIN buf.video :
             c.video[i] = buf.video[i] /\ i \in Nat /\ i <= Len(buf.video)
        /\ c.video \in Seq(Picture)
    <3>1. p \in Picture
      BY <2>1 DEF PicturePushed
    <3> QED
      BY <1>0, <2>2, <3>1, AppendedPicture
  <2>5. \/ p.missing # {}
        \/ p.id = sent + 1
    BY <2>1 DEF PicturePushed
  <2>6. Linked(c)
    <3> SUFFICES ASSUME NEW i \in DOMAIN c.video, NEW j \in DOMAIN c.video,
                        j = i + 1
                 PROVE  Follows(c.video[i].id, c.video[j])
      BY DEF Linked
    <3>1. CASE j \in DOMAIN buf.video
      <4>1. i \in DOMAIN buf.video
        BY <1>0, <2>4, <3>1
      <4> QED
        BY <2>4, <3>1, <4>1 DEF Linked, ChainInv
    <3>2. CASE j = Len(buf.video) + 1
      <4>1. i \in Nat
        BY <1>0, <2>4
      <4>2. i = Len(buf.video)
        BY <2>4, <3>2, <4>1
      <4>3. i \in DOMAIN buf.video /\ buf.video # <<>>
        BY <1>0, <2>4, <4>2
      <4>4. c.video[i].id = sent
        BY <2>4, <4>2, <4>3 DEF ChainInv
      <4> QED
        BY <2>4, <2>5, <3>2, <4>4 DEF Follows
    <3> QED
      BY <2>4, <3>1, <3>2
  <2>7. needKey \/ Follows(decoded, Head(c.video))
    <3>1. CASE buf.video = <<>>
      <4>1. Head(c.video) = p
        BY <2>2, <2>4, <3>1
      <4>2. needKey \/ cleared \/ decoded = sent
        BY <3>1 DEF ChainInv
      <4>3. cleared => p.missing # {}
        BY <2>1 DEF PicturePushed
      <4> QED
        BY <2>5, <4>1, <4>2, <4>3 DEF Follows
    <3>2. CASE buf.video # <<>>
      <4>1. Head(c.video) = Head(buf.video)
        BY <1>0, <2>4, <3>2
      <4> QED
        BY <3>2, <4>1 DEF ChainInv
    <3> QED
      BY <3>1, <3>2
  <2>8. c.video[Len(c.video)].id = sent'
    BY <2>1, <2>4
  <2>9. /\ needKey' = needKey /\ decoded' = decoded
        /\ buf'.video = <<>> => cleared'
    BY <1>1 DEF PushPicture, run
  <2> QED
    BY <2>2, <2>3, <2>4, <2>6, <2>7, <2>8, <2>9, PushChain
<1>2. CASE PushSound
  <2>1. PICK p, s : SoundPushed(p, s)
    BY <1>2, PushSoundStep
  <2> DEFINE c == WithSound(buf, p)
  <2>2. Good(c) /\ c.video = buf.video
    BY <1>0, <2>1, SoundGood DEF SoundPushed
  <2> HIDE DEF c
  <2>3. Pushed(c, buf', s)
    BY <2>1 DEF SoundPushed, c
  <2>4. /\ needKey' = needKey /\ decoded' = decoded /\ sent' = sent
        /\ cleared => cleared'
        /\ buf.video # <<>> /\ buf'.video = <<>> => cleared'
    BY <1>2 DEF PushSound, run
  <2>5. Linked(c)
    BY <2>2 DEF Linked, ChainInv
  <2> QED
    BY <2>2, <2>3, <2>4, <2>5, PushChain DEF ChainInv
<1>3. CASE LoseContent
  BY <1>3 DEF LoseContent, run, ChainInv, Linked, Follows
<1>4. CASE Resume \/ Pause
  BY <1>4 DEF Resume, Pause, encoder, ChainInv, Linked, Follows
<1>5. CASE CutToKeyframe
  <2>1. PICK target \in 0 .. buf.newest :
          /\ CutPoint(buf, target) # 0
          /\ Cut(CutPoint(buf, target), target)
    BY <1>5 DEF CutToKeyframe
  <2> DEFINE k == CutPoint(buf, target)
  <2>2. k \in UsableKeyframes(buf) /\ k # 0 /\ Cut(k, target) /\ target \in Nat
    BY <1>0, <2>1, CutPointUsable
  <2> HIDE DEF k
  <2>3. k \in DOMAIN buf.video /\ buf.video[k].key /\ k \in Nat
    BY <1>0, <2>2 DEF UsableKeyframes
  <2>4. Shows(buf, buf', k - 1)
    BY <1>0, <2>2, <2>3, CutFeeds
  <2>5. buf'.video # <<>>
    BY <1>0, <2>3, <2>4, ShowsEnds
  <2>6. Head(buf'.video).key
    <3>1. (k - 1) + 1 = k
      BY <2>3
    <3>2. Head(buf'.video).key = buf.video[(k - 1) + 1].key
      BY <1>0, <2>4, <2>5, ShowsEnds
    <3> QED
      BY <2>3, <3>1, <3>2
  <2>7. sent' = sent
    BY <2>2 DEF Cut, encoder
  <2> QED
    BY <1>0, <2>4, <2>5, <2>6, <2>7, ShowsChain DEF ChainInv, Follows
<1>6. CASE CutWithoutKeyframe
  <2>1. PICK target \in 0 .. buf.newest : Cut(0, target)
    BY <1>6 DEF CutWithoutKeyframe
  <2>2. Shows(buf, buf', 0)
    BY <1>0, <2>1, CutFeeds
  <2>3. needKey' = NeedsKeyframe(FALSE) /\ sent' = sent
    BY <2>1 DEF Cut, encoder
  <2>4. needKey'
    BY <2>3 DEF NeedsKeyframe
  <2> QED
    BY <1>0, <2>2, <2>3, <2>4, ShowsChain DEF ChainInv
<1>7. CASE SkipPicture \/ FeedPicture \/ FeedInDespair
  <2>1. buf.video # <<>> /\ buf' = PopVideo(buf) /\ sent' = sent
    BY <1>7 DEF SkipPicture, FeedPicture, FeedInDespair, encoder
  <2>2. Shows(buf, buf', 1)
    BY <1>0, <2>1, PopVideoFeeds
  <2>3. needKey' \/ decoded' = Head(buf.video).id
    BY <1>7 DEF SkipPicture, FeedPicture, FeedInDespair
  <2>4. 1 \in DOMAIN buf.video /\ Head(buf.video) = buf.video[1]
    BY <1>0, <2>1
  <2>5. ASSUME buf'.video # <<>>
        PROVE  needKey' \/ Follows(decoded', Head(buf'.video))
    <3>1. /\ 1 + 1 \in DOMAIN buf.video
          /\ Head(buf'.video).id = buf.video[1 + 1].id
          /\ Head(buf'.video).key = buf.video[1 + 1].key
          /\ Head(buf'.video).missing = buf.video[1 + 1].missing
      BY <1>0, <2>2, <2>5, ShowsEnds
    <3>2. Follows(buf.video[1].id, buf.video[1 + 1])
      BY <2>4, <3>1 DEF ChainInv, Linked
    <3> QED
      BY <2>3, <2>4, <3>1, <3>2 DEF Follows
  <2>6. ASSUME buf'.video = <<>>
        PROVE  needKey' \/ cleared' \/ decoded' = sent'
    <3> DEFINE v == Len(buf.video)
               w == Len(buf'.video)
    <3>1. w = v - 1
      BY <2>2 DEF Shows
    <3>2. w = 0
      BY <2>6
    <3>3. v \in Nat
      BY <1>0
    <3> HIDE DEF v, w
    <3>4. v = 1
      BY <3>1, <3>2, <3>3
    <3> USE DEF v
    <3> QED
      BY <2>1, <2>3, <2>4, <3>4 DEF ChainInv
  <2> QED
    BY <1>0, <2>1, <2>2, <2>5, <2>6, ShowsChain DEF ChainInv
<1>8. CASE FeedSound
  <2>1. /\ buf.audio # <<>> /\ buf' = PopAudio(buf)
        /\ UNCHANGED <<needKey, decoded, sent, cleared>>
    BY <1>8 DEF FeedSound, run, encoder
  <2>2. Shows(buf, buf', 0)
    BY <1>0, <2>1, PopAudioFeeds
  <2>3. ASSUME buf'.video # <<>>
        PROVE  needKey' \/ Follows(decoded', Head(buf'.video))
    <3>1. /\ buf.video # <<>> /\ Head(buf.video) = buf.video[0 + 1]
          /\ Head(buf'.video).id = buf.video[0 + 1].id
          /\ Head(buf'.video).key = buf.video[0 + 1].key
          /\ Head(buf'.video).missing = buf.video[0 + 1].missing
      BY <1>0, <2>2, <2>3, ShowsEnds
    <3> QED
      BY <2>1, <3>1 DEF ChainInv, Follows
  <2>4. buf'.video = <<>> => buf.video = <<>>
    BY <1>0, <2>2, ShowsEnds
  <2> QED
    BY <1>0, <2>1, <2>2, <2>3, <2>4, ShowsChain DEF ChainInv
<1>9. CASE Reset
  <2>1. buf'.video = <<>> /\ decoded' = sent'
    BY <1>9 DEF Reset, EmptyBuffer
  <2>2. DOMAIN <<>> = {}
    OBVIOUS
  <2> QED
    BY <2>1, <2>2 DEF ChainInv, Linked
<1>10. CASE UNCHANGED vars
  BY <1>10 DEF vars, ChainInv, Linked, Follows
<1> QED
  BY <1>1, <1>2, <1>3, <1>4, <1>5, <1>6, <1>7, <1>8, <1>9, <1>10
     DEF Next, Decode

-----------------------------------------------------------------------------
(* No smear after a gap: a loss that both streams have shown is marked     *)

\* Dropping from the front hides no loss.
LEMMA ShowsLosses ==
  ASSUME NEW b, NEW d, NEW s, Shows(b, d, s), LossesShow(b),
         d.videoJump = b.videoJump
  PROVE  LossesShow(d)
<1> SUFFICES ASSUME NEW k \in DOMAIN d.video,
                    "network" \in d.video[k].missing
             PROVE  d.video[k].afterGap \/ d.videoJump = d.video[k].at
  BY DEF LossesShow
<1>1. /\ k + s \in DOMAIN b.video
      /\ d.video[k].at = b.video[k + s].at
      /\ d.video[k].missing = b.video[k + s].missing
      /\ b.video[k + s].afterGap => d.video[k].afterGap
  BY DEF Shows
<1>2. b.video[k + s].afterGap \/ b.videoJump = b.video[k + s].at
  BY <1>1 DEF LossesShow
<1> QED
  BY <1>1, <1>2

\* A push marks what waited for the jump that it confirms.
LEMMA PushLosses ==
  ASSUME NEW c, NEW d, NEW s, Pushed(c, d, s), LossesShow(c)
  PROVE  LossesShow(d)
<1>1. Shows(c, d, s)
  BY DEF Pushed
<1>2. CASE ~Confirmed(c)
  BY <1>1, <1>2, ShowsLosses DEF Pushed
<1>3. CASE Confirmed(c)
  <2> SUFFICES ASSUME NEW k \in DOMAIN d.video,
                      "network" \in d.video[k].missing
               PROVE  d.video[k].afterGap
    BY DEF LossesShow
  <2>1. /\ k + s \in DOMAIN c.video
        /\ d.video[k].at = c.video[k + s].at
        /\ d.video[k].missing = c.video[k + s].missing
        /\ c.video[k + s].afterGap => d.video[k].afterGap
    BY <1>1 DEF Shows
  <2>2. c.video[k + s].afterGap \/ c.videoJump = c.video[k + s].at
    BY <2>1 DEF LossesShow
  <2> QED
    BY <1>3, <2>1, <2>2 DEF Pushed
<1> QED
  BY <1>2, <1>3

\* Every step keeps the marks of losses: the second stream to show a loss
\* confirms it, because its jump lies close to that of the first.
LEMMA LossStep ==
  ASSUME SteadyStream, FeedInv, LossInv, [Next]_vars
  PROVE  LossInv'
<1>0. /\ Good(buf) /\ BufferInv /\ buf.video \in Seq(Picture) /\ ReaderInv
      /\ buf.videoJump \in Time \cup {None}
      /\ buf.audioJump \in Time \cup {None}
  BY DEF FeedInv, BufferInv, Good, Buffer
<1>a. /\ videoAt \in Nat /\ audioAt \in Nat /\ Loss \in Nat
      /\ GapThreshold \in Nat \ {0} /\ Loss > GapThreshold
      /\ GapMatch \in Nat /\ MaxSkew \in Nat /\ MaxSkew <= GapMatch
      /\ \A t \in Time : t \in Nat /\ t # None
  BY <1>0, BufferAssumption, FeedAssumption DEF ReaderInv, Time, SteadyStream
<1>b. /\ Distance(videoAt, audioAt) <= MaxSkew
      /\ LossesShow(buf)
      /\ buf.videoJump # None =>
           /\ "audio" \in gone /\ "video" \notin gone
           /\ Distance(buf.videoJump, audioAt + 1 + Loss) <= MaxSkew
      /\ "video" \in gone /\ "audio" \notin gone =>
           /\ buf.audioJump # None /\ buf.audioJump <= audioAt
           /\ Distance(videoAt + 1 + Loss, buf.audioJump) <= MaxSkew
  BY DEF LossInv
<1>c. \A x, y \in Nat : Distance(x, y) \in Nat
  BY DEF Distance
<1>d. Distance(videoAt + 1 + Loss, audioAt + 1 + Loss) <= MaxSkew
  BY <1>a, <1>b DEF Distance
<1>1. CASE PushPicture
  <2>1. PICK p, s : PicturePushed(p, s) /\ videoAt' = p.at
    BY <1>1, PushPictureStep
  <2> DEFINE c == WithPicture(buf, p)
             jump == IF Jumped(buf.lastVideo, p.at) THEN p.at
                                                    ELSE buf.videoJump
  <2>2. /\ Good(c) /\ c.video = Append(buf.video, p)
        /\ c.audioJump = buf.audioJump /\ c.videoJump = jump
    BY <1>0, <2>1, PictureGood DEF PicturePushed
  <2> HIDE DEF c, jump
  <2>3. Pushed(c, buf', s)
    BY <2>1 DEF PicturePushed, c
  <2>4. /\ gone' = gone \ {"video"} /\ audioAt' = audioAt
        /\ p.at \in Nat /\ p.at # None
        /\ Distance(p.at, audioAt) <= MaxSkew
    BY <1>1, <1>a, <2>1 DEF PushPicture, PicturePushed, Picture
  <2>5. ASSUME "video" \in gone
        PROVE  p.at = videoAt + 1 + Loss /\ jump = p.at
    <3>1. p.at = videoAt + (1 + Loss)
      BY <2>1, <2>5 DEF PicturePushed, Steps
    <3>2. buf.lastVideo = videoAt /\ videoAt # None
      BY <1>0, <1>a, <2>5 DEF ReaderInv
    <3>3. p.at > videoAt + GapThreshold
      BY <1>a, <3>1
    <3> QED
      BY <1>a, <3>1, <3>2, <3>3 DEF jump, Jumped
  <2>6. ASSUME "video" \notin gone
        PROVE  jump = buf.videoJump /\ "network" \notin p.missing
    <3>1. p.at = videoAt + 1 /\ "network" \notin p.missing
      BY <2>1, <2>6 DEF PicturePushed, Steps, SteadyStream
    <3>2. buf.lastVideo = None \/ buf.lastVideo = videoAt
      BY <1>0 DEF ReaderInv
    <3>3. ~(p.at > videoAt + GapThreshold)
      BY <1>a, <3>1
    <3> QED
      BY <3>1, <3>2, <3>3 DEF jump, Jumped
  <2>7. LossesShow(c)
    <3> SUFFICES ASSUME NEW k \in DOMAIN c.video,
                        "network" \in c.video[k].missing
                 PROVE  c.video[k].afterGap \/ c.videoJump = c.video[k].at
      BY DEF LossesShow
    <3>1. /\ DOMAIN c.video = DOMAIN buf.video \cup {Len(buf.video) + 1}
          /\ c.video[Len(buf.video) + 1] = p
          /\ \A i \in DOMAIN buf.video : c.video[i] = buf.video[i]
      BY <1>0, <2>1, <2>2 DEF PicturePushed
    <3>2. CASE k = Len(buf.video) + 1
      BY <2>2, <2>5, <2>6, <3>1, <3>2
    <3>3. CASE k \in DOMAIN buf.video
      <4>1. buf.video[k].afterGap \/ buf.videoJump = buf.video[k].at
        BY <1>b, <3>1, <3>3 DEF LossesShow
      <4>2. "video" \in gone => buf.video[k].afterGap
        <5>1. buf.video[k].at \in Time
          BY <1>0, <3>3, Queued
        <5> QED
          BY <1>a, <1>b, <4>1, <5>1
      <4> QED
        BY <2>2, <2>6, <3>1, <3>3, <4>1, <4>2
    <3> QED
      BY <3>1, <3>2, <3>3
  <2>8. LossesShow(buf')
    BY <2>3, <2>7, PushLosses
  <2>9. ASSUME buf'.videoJump # None
        PROVE  /\ "audio" \in gone
               /\ Distance(buf'.videoJump, audioAt + 1 + Loss) <= MaxSkew
    <3>1. ~Confirmed(c) /\ buf'.videoJump = jump
      BY <2>2, <2>3, <2>9 DEF Pushed
    <3>2. CASE "video" \in gone
      <4>1. "audio" \in gone
        <5> SUFFICES ASSUME "audio" \notin gone
                     PROVE  Confirmed(c)
          BY <3>1
        <5>1. buf.audioJump # None /\ Distance(p.at, buf.audioJump) <= MaxSkew
          BY <1>b, <2>5, <3>2
        <5>2. buf.audioJump \in Nat
          BY <1>0, <1>a, <5>1
        <5>3. Distance(p.at, buf.audioJump) \in Nat
          BY <1>c, <2>4, <5>2
        <5>4. Distance(p.at, buf.audioJump) <= GapMatch
          BY <1>a, <5>1, <5>3
        <5> QED
          BY <2>2, <2>4, <2>5, <3>2, <5>1, <5>4 DEF Confirmed
      <4> QED
        BY <1>d, <2>5, <3>1, <3>2, <4>1
    <3>3. CASE "video" \notin gone
      BY <1>b, <2>6, <2>9, <3>1, <3>3
    <3> QED
      BY <3>2, <3>3
  <2>10. LossesShow(buf)'
    BY <2>8 DEF LossesShow
  <2> QED
    BY <2>1, <2>4, <2>9, <2>10 DEF LossInv
<1>2. CASE PushSound
  <2>1. PICK p, s : SoundPushed(p, s) /\ audioAt' = p.at
    BY <1>2, PushSoundStep
  <2> DEFINE c == WithSound(buf, p)
             jump == IF Jumped(buf.lastAudio, p.at) THEN p.at
                                                    ELSE buf.audioJump
  <2>2. /\ Good(c) /\ c.video = buf.video
        /\ c.videoJump = buf.videoJump /\ c.audioJump = jump
    BY <1>0, <2>1, SoundGood DEF SoundPushed
  <2> HIDE DEF c, jump
  <2>3. Pushed(c, buf', s)
    BY <2>1 DEF SoundPushed, c
  <2>4. /\ gone' = gone \ {"audio"} /\ videoAt' = videoAt
        /\ p.at \in Nat /\ p.at # None /\ p.at > audioAt
        /\ Distance(p.at, videoAt) <= MaxSkew
    BY <1>2, <1>a, <2>1 DEF PushSound, SoundPushed, Sound
  <2>5. ASSUME "audio" \in gone
        PROVE  p.at = audioAt + 1 + Loss /\ jump = p.at
    <3>1. p.at = audioAt + (1 + Loss)
      BY <2>1, <2>5 DEF SoundPushed, Steps
    <3>2. buf.lastAudio = audioAt /\ audioAt # None
      BY <1>0, <1>a, <2>5 DEF ReaderInv
    <3>3. p.at > audioAt + GapThreshold
      BY <1>a, <3>1
    <3> QED
      BY <1>a, <3>1, <3>2, <3>3 DEF jump, Jumped
  <2>6. LossesShow(c)
    BY <1>b, <2>2 DEF LossesShow
  <2>7. LossesShow(buf')
    BY <2>3, <2>6, PushLosses
  <2>8. buf'.videoJump = None
    <3> SUFFICES ASSUME buf'.videoJump # None
                 PROVE  Confirmed(c)
      BY <2>3 DEF Pushed
    <3>1. buf.videoJump # None
      BY <2>2, <2>3 DEF Pushed
    <3>2. p.at = audioAt + 1 + Loss /\ jump = p.at
      BY <1>b, <2>5, <3>1
    <3>3. Distance(buf.videoJump, p.at) <= GapMatch
      <4>1. buf.videoJump \in Nat
        BY <1>0, <1>a, <3>1
      <4>2. Distance(buf.videoJump, p.at) <= MaxSkew
        BY <1>b, <3>1, <3>2
      <4>3. Distance(buf.videoJump, p.at) \in Nat
        BY <1>c, <2>4, <4>1
      <4> QED
        BY <1>a, <4>2, <4>3
    <3> QED
      BY <2>2, <2>4, <3>1, <3>2, <3>3 DEF Confirmed
  <2>9. ASSUME "video" \in gone
        PROVE  /\ buf'.audioJump # None /\ buf'.audioJump <= p.at
               /\ Distance(videoAt + 1 + Loss, buf'.audioJump) <= MaxSkew
    <3>1. buf.videoJump = None
      BY <1>b, <2>9
    <3>2. buf'.audioJump = jump
      BY <2>2, <2>3, <3>1 DEF Pushed, Confirmed
    <3>3. CASE "audio" \in gone
      BY <1>d, <2>4, <2>5, <3>2, <3>3
    <3>4. CASE "audio" \notin gone
      <4>1. /\ buf.audioJump # None /\ buf.audioJump <= audioAt
            /\ Distance(videoAt + 1 + Loss, buf.audioJump) <= MaxSkew
            /\ buf.audioJump \in Nat
        BY <1>0, <1>a, <1>b, <2>9, <3>4
      <4>2. CASE jump = buf.audioJump
        BY <1>a, <2>4, <3>2, <4>1, <4>2
      <4>3. CASE jump = p.at
        <5>1. Distance(videoAt + 1 + Loss, p.at) <= MaxSkew
          BY <1>a, <2>4, <4>1 DEF Distance
        <5> QED
          BY <2>4, <3>2, <4>3, <5>1
      <4> QED
        BY <4>2, <4>3 DEF jump
    <3> QED
      BY <3>3, <3>4
  <2>10. LossesShow(buf)'
    BY <2>7 DEF LossesShow
  <2>11. Distance(videoAt, p.at) <= MaxSkew
    BY <1>a, <2>4 DEF Distance
  <2> QED
    BY <2>1, <2>4, <2>8, <2>9, <2>10, <2>11 DEF LossInv
<1>3. CASE LoseContent
  <2>1. /\ gone = {} /\ gone' = {"video", "audio"}
        /\ UNCHANGED <<buf, videoAt, audioAt>>
    BY <1>3 DEF LoseContent
  <2>2. buf.videoJump = None
    BY <1>b, <2>1
  <2>3. LossesShow(buf)'
    BY <1>b, <2>1 DEF LossesShow
  <2>4. Distance(videoAt', audioAt') <= MaxSkew
    BY <1>b, <2>1
  <2> QED
    BY <2>1, <2>2, <2>3, <2>4 DEF LossInv
<1>4. CASE Decode
  <2>1. /\ buf'.videoJump = buf.videoJump /\ buf'.audioJump = buf.audioJump
    BY <1>0, <1>4, DecodeFeeds DEF Feeds
  <2>2. UNCHANGED <<videoAt, audioAt, gone>>
    BY <1>4 DEF Decode, Resume, CutToKeyframe, CutWithoutKeyframe, Cut,
       SkipPicture, FeedPicture, FeedInDespair, FeedSound, Pause, encoder
  <2>3. \E s : Shows(buf, buf', s)
    BY <1>0, <1>4, DecodeShows
  <2>4. LossesShow(buf')
    BY <1>b, <2>1, <2>3, ShowsLosses
  <2>5. LossesShow(buf)'
    BY <2>4 DEF LossesShow
  <2>6. Distance(videoAt', audioAt') <= MaxSkew
    BY <1>b, <2>2
  <2> QED
    BY <1>b, <2>1, <2>2, <2>5, <2>6 DEF LossInv
<1>5. CASE Reset
  <2>1. /\ buf'.video = <<>> /\ buf'.videoJump = None
        /\ videoAt' = 0 /\ audioAt' = 0 /\ gone' = {}
    BY <1>5 DEF Reset, EmptyBuffer
  <2>2. DOMAIN <<>> = {} /\ Distance(0, 0) <= MaxSkew
    BY <1>a DEF Distance
  <2> QED
    BY <2>1, <2>2 DEF LossInv, LossesShow
<1>6. CASE UNCHANGED vars
  <2>1. UNCHANGED <<buf, videoAt, audioAt, gone>>
    BY <1>6 DEF vars
  <2>2. LossesShow(buf)'
    BY <1>b, <2>1 DEF LossesShow
  <2>3. Distance(videoAt', audioAt') <= MaxSkew
    BY <1>b, <2>1
  <2> QED
    BY <1>b, <2>1, <2>2, <2>3 DEF LossInv
<1> QED
  BY <1>1, <1>2, <1>3, <1>4, <1>5, <1>6 DEF Next

\* A picture whose reference a gap took is not decoded: the chain says that
\* something in front of it is missing, and if it is a loss that is not marked,
\* the audio has not shown it yet.
LEMMA SmearStep ==
  ASSUME FeedInv, SmearInv, [Next]_vars
  PROVE  NoSmearAfterGap'
<1>1. CASE FeedPicture
  <2> DEFINE p == Head(buf.video)
  <2>1. /\ buf.video # <<>> /\ (p.key \/ ~AsksForKeyframe(p))
        /\ smear' = smear \cup Smears(p)
    BY <1>1 DEF FeedPicture
  <2>2. buf.video \in Seq(Picture)
    BY DEF FeedInv, BufferInv, Good, Buffer
  <2>3. 1 \in DOMAIN buf.video /\ p = buf.video[1]
    BY <2>1, <2>2
  <2>4. /\ p.missing \subseteq {"network", "limit"} /\ p.at \in Time
        /\ p.key \in BOOLEAN
    BY <2>2, <2>3, Queued
  <2>5. /\ needKey \/ Follows(decoded, p)
        /\ "network" \in p.missing => p.afterGap \/ buf.videoJump = p.at
        /\ buf.videoJump # None => "audio" \in gone
    BY <2>1, <2>3 DEF SmearInv, ChainInv, LossInv, LossesShow
  <2>6. p.at # None
    BY <2>4, BufferAssumption, FeedAssumption DEF Time
  <2> HIDE DEF p
  <2>7. "gap" \notin Smears(p)
    <3>1. CASE ~LacksReference(p)
      BY <3>1 DEF Smears
    <3>2. CASE LacksReference(p)
      <4>1. ~p.key /\ ~needKey /\ ~p.afterGap /\ p.missing # {}
        BY <2>1, <2>5, <3>2 DEF LacksReference, AsksForKeyframe, Follows
      <4>2. "network" \in p.missing => "audio" \in gone
        BY <2>5, <2>6, <4>1
      <4> QED
        BY <4>1, <4>2 DEF Smears
    <3> QED
      BY <3>1, <3>2
  <2> QED
    BY <2>1, <2>7 DEF SmearInv, NoSmearAfterGap
<1>2. CASE ~FeedPicture
  <2>1. smear' = smear
    BY <1>2 DEF Next, vars, PushPicture, PushSound, LoseContent, Decode, Resume,
       CutToKeyframe, CutWithoutKeyframe, Cut, SkipPicture, FeedInDespair,
       FeedSound, Pause, Reset
  <2> QED
    BY <2>1 DEF SmearInv, NoSmearAfterGap
<1> QED
  BY <1>1, <1>2

\* NoSmearAfterGap: no picture is decoded over a gap that both streams have
\* shown, for a stream whose pictures come steadily and whose two halves the
\* muxer holds as close together as confirm_gap() compares their jumps.  Without
\* the first it does not hold, as NoSmearAfterGap tells, and of what the limits
\* drop it says nothing, see LimitsCutAtKeyframes.
THEOREM SteadyStreamNotSmeared ==
  ASSUME SteadyStream
  PROVE  Spec => []NoSmearAfterGap
<1>1. Init => SmearInv
  <2> SUFFICES ASSUME Init
               PROVE  SmearInv
    OBVIOUS
  <2>1. /\ buf.video = <<>> /\ buf.videoJump = None
        /\ videoAt = 0 /\ audioAt = 0 /\ gone = {} /\ decoded = sent
    BY DEF Init, EmptyBuffer
  <2>2. DOMAIN <<>> = {} /\ Distance(0, 0) <= MaxSkew
    BY FeedAssumption DEF Distance
  <2>3. smear = {}
    BY DEF Init
  <2> QED
    BY <2>1, <2>2, <2>3
       DEF SmearInv, ChainInv, LossInv, NoSmearAfterGap, Linked, LossesShow
<1>2. FeedInv /\ SmearInv /\ [Next]_vars => SmearInv'
  <2> SUFFICES ASSUME FeedInv, SmearInv, [Next]_vars
               PROVE  SmearInv'
    OBVIOUS
  <2>1. ChainInv' /\ LossInv' /\ NoSmearAfterGap'
    BY ChainStep, LossStep, SmearStep DEF SmearInv
  <2> QED
    BY <2>1 DEF SmearInv
<1>3. SmearInv => NoSmearAfterGap
  BY DEF SmearInv
<1> QED
  BY <1>1, <1>2, <1>3, Invariance, PTL DEF Spec
=============================================================================
