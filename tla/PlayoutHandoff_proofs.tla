------------------------ MODULE PlayoutHandoff_proofs ------------------------
(***************************************************************************)
(* What PlayoutHandoff promises, for any number of resets, any length of a *)
(* stream and any size of the queue.                                       *)
(***************************************************************************)
EXTENDS PlayoutHandoff, TLAPS

\* The mutexes protect what they are meant to: their owner is inside the code
\* between lock and unlock, and nobody else is.
OwnersInv ==
  /\ decoder = "reset" <=> source \in {"clock", "frames", "bump"}
  /\ decoder = "decode" <=> decode # "idle"
  /\ output = "present" <=> present \in {"locked", "submit"}
  /\ held # None <=> present \in {"held", "locked", "submit"}
  /\ media = None <=> present = "idle"

\* What the reset has emptied stays empty until it returns.
ResetInv ==
  /\ decoder = "reset" \/ source = "closed" => packets = <<>>
  /\ source \in {"frames", "bump"} => clock = None
  /\ source = "bump" => frames = <<>> /\ present # "submit"

\* The decode thread that has seen the generation works for the current stream,
\* and so do its decoders from the first cut on.
RunInv ==
  /\ generation = IF source = "bump" THEN era - 1 ELSE era
  /\ seen <= generation
  /\ decode # "idle" => seen = generation
  /\ seen = generation /\ source # "bump" =>
       run = era /\ (phase # "starting" => AllOf(inside, era))
  /\ decode = "cut" => inside = <<>>
  /\ decode \in {"feed", "fed"} => phase = "playing"

\* A frame that outlived its stream is the only one that can be a stray.
StrayInv ==
  /\ strays <= 1
  /\ source # "bump" => strays = 0 \/ held = None \/ held.era = era

\* What bounds the queues besides their own guards.
BoundInv ==
  /\ Len(packets) <= received
  /\ decode # "fed" => Len(inside) <= Delay
  /\ decode = "fed" => Len(frames) + Len(inside) <= MaxFrames + Delay
  /\ source \in {"want", "clock", "frames"} => era < MaxEra

HandoffInv ==
  /\ TypeOK /\ OwnersInv /\ ResetInv /\ RunInv /\ BuffersAreCurrent
  /\ StrayInv /\ BoundInv

-----------------------------------------------------------------------------
\* What the queue operations do to the eras of a queue: a packet or frame of
\* the era keeps it pure, and so does taking any number from the front.
LEMMA QueueKeepsEra ==
  ASSUME NEW q \in Seq(Frame), NEW e \in Nat, AllOf(q, e)
  PROVE  /\ q # <<>> => Head(q) \in Frame /\ Head(q).era = e
         /\ q # <<>> => Tail(q) \in Seq(Frame) /\ AllOf(Tail(q), e)
                        /\ Len(Tail(q)) = Len(q) - 1
         /\ \A n \in 0..Len(q) :
              LET rest == SubSeq(q, n + 1, Len(q))
              IN  rest \in Seq(Frame) /\ AllOf(rest, e) /\ Len(rest) <= Len(q)
  BY DEF AllOf

\* A queue to which a frame of its era is added is still pure.
LEMMA QueueAppend ==
  ASSUME NEW q \in Seq(Frame), NEW e \in Nat, AllOf(q, e),
         NEW f \in Frame, f.era = e
  PROVE  /\ Append(q, f) \in Seq(Frame) /\ AllOf(Append(q, f), e)
         /\ Len(Append(q, f)) = Len(q) + 1
  BY DEF AllOf

\* "No frame" is not a frame, and "no position" is not a position.
LEMMA FramesAreReal ==
  \A f \in Frame : f # None /\ f.media \in 1..MaxMedia /\ f.media # None
  BY HandoffAssumption DEF Frame

\* The present thread forgets what it looked at.
LEMMA AgainType == PresentAgain => hasNext' \in BOOLEAN
  BY Zenon DEF PresentAgain

\* A queue that was flushed is pure, whatever the era.
LEMMA EmptyQueue ==
  /\ <<>> \in Seq(Frame) /\ Len(<<>>) = 0
  /\ \A e : AllOf(<<>>, e)
  BY DEF AllOf

\* A stream that was just started satisfies the invariant.
LEMMA HandoffInit == Init => HandoffInv
<1> SUFFICES ASSUME Init PROVE HandoffInv
  OBVIOUS
<1>1. TypeOK
  <2>1. hasNext \in BOOLEAN
    BY Zenon DEF Init
  <2> QED
    BY <2>1, HandoffAssumption, EmptyQueue DEF Init, TypeOK
<1>2. OwnersInv /\ ResetInv /\ StrayInv /\ RunInv
  BY HandoffAssumption, EmptyQueue
  DEF Init, OwnersInv, ResetInv, StrayInv, RunInv
<1>3. BuffersAreCurrent
  BY EmptyQueue DEF Init, BuffersAreCurrent
<1>4. BoundInv
  BY HandoffAssumption, EmptyQueue DEF Init, BoundInv
<1> QED
  BY <1>1, <1>2, <1>3, <1>4 DEF HandoffInv

\* Every step of the three threads keeps it.
LEMMA HandoffStep == HandoffInv /\ [Next]_vars => HandoffInv'
<1> SUFFICES ASSUME HandoffInv, [Next]_vars PROVE HandoffInv'
  OBVIOUS
<1> USE HandoffAssumption
    DEF HandoffInv, TypeOK, OwnersInv, ResetInv, RunInv, BuffersAreCurrent,
        StrayInv, BoundInv, readerVars, decodeVars, presentVars, PresentFrame
<1>1. CASE Ingest
  <2> DEFINE coming == [era |-> era, media |-> received + 1]
  <2>1. coming \in Frame /\ coming.era = era
    BY <1>1 DEF Ingest, Frame
  <2>2. packets' = Append(packets, coming)
    BY <1>1 DEF Ingest
  <2>3. packets' \in Seq(Frame) /\ AllOf(packets', era)
        /\ Len(packets') = Len(packets) + 1
    BY <2>1, <2>2, QueueAppend
  <2> HIDE DEF coming
  <2> QED
    BY <1>1, <2>3 DEF Ingest
<1>2. CASE ResetWant
  BY <1>2 DEF ResetWant
<1>3. CASE ResetLock
  BY <1>3, EmptyQueue DEF ResetLock, DecoderFree, ClearPackets
<1>4. CASE ResetClock
  BY <1>4 DEF ResetClock
<1>5. CASE ResetFrames
  <2>1. packets = <<>> /\ frames' = <<>> /\ packets' = <<>> /\ era' = era + 1
    BY <1>5 DEF ResetFrames, FlushFrames
  <2>2. decode' = "idle" /\ clock' = None
    BY <1>5 DEF ResetFrames
  <2> QED
    BY <1>5, <2>1, <2>2, EmptyQueue DEF ResetFrames, OutputFree
<1>6. CASE ResetReturn
  BY <1>6 DEF ResetReturn, BumpGeneration
<1>7. CASE Reopen
  BY <1>7, EmptyQueue DEF Reopen
<1>8. CASE DecodeLock
  BY <1>8 DEF DecodeLock
<1>9. CASE DecodeNothing
  BY <1>9 DEF DecodeNothing, DecodeUnlock
<1>10. CASE DecodeResume
  BY <1>10 DEF DecodeResume, DecodeUnlock
<1>11. CASE DecodeCutFrames
  BY <1>11, EmptyQueue DEF DecodeCutFrames
<1>12. CASE DecodeCutClock
  <2>1. packets' \in Seq(Frame) /\ AllOf(packets', era)
        /\ Len(packets') <= Len(packets)
    BY <1>12, QueueKeepsEra DEF DecodeCutClock
  <2> QED
    BY <1>12, <2>1, EmptyQueue DEF DecodeCutClock, DecodeUnlock
<1>13. CASE DecodeAnchorFront
  <2>1. clock' = era
    BY <1>13, QueueKeepsEra DEF DecodeAnchorFront
  <2> QED
    BY <1>13, <2>1 DEF DecodeAnchorFront
<1>14. CASE DecodePop
  <2>1. Head(packets) \in Frame /\ Head(packets).era = era
    <3>1. packets # <<>> /\ AllOf(packets, era)
      BY <1>14 DEF DecodePop
    <3> QED
      BY <3>1, QueueKeepsEra
  <2>2. packets' \in Seq(Frame) /\ AllOf(packets', era)
        /\ Len(packets') = Len(packets) - 1
    BY <1>14, QueueKeepsEra DEF DecodePop
  <2>3. AllOf(inside, era)
    BY <1>14 DEF DecodePop
  <2>4. inside' \in Seq(Frame) /\ AllOf(inside', era)
        /\ Len(inside') = Len(inside) + 1
    BY <1>14, <2>1, <2>3, QueueAppend DEF DecodePop
  <2> QED
    BY <1>14, <2>2, <2>4 DEF DecodePop, RoomForFrame
<1>15. CASE DecodeSwallow
  <2>1. Head(packets).era = era
    BY <1>15, QueueKeepsEra DEF DecodeSwallow
  <2>2. packets' \in Seq(Frame) /\ AllOf(packets', era)
        /\ Len(packets') = Len(packets) - 1
    BY <1>15, QueueKeepsEra DEF DecodeSwallow
  <2> QED
    BY <1>15, <2>1, <2>2 DEF DecodeSwallow, DecodeUnlock
<1>16. CASE DecodeAnchor
  <2>1. clock' = era
    BY <1>16, QueueKeepsEra DEF DecodeAnchor
  <2> QED
    BY <1>16, <2>1 DEF DecodeAnchor
<1>17. CASE DecodeEmit
  <2>1. Head(inside) \in Frame /\ Head(inside).era = era
    <3>1. inside # <<>> /\ AllOf(inside, era)
      BY <1>17 DEF DecodeEmit
    <3> QED
      BY <3>1, QueueKeepsEra
  <2>2. inside' \in Seq(Frame) /\ AllOf(inside', era)
        /\ Len(inside') = Len(inside) - 1
    BY <1>17, QueueKeepsEra DEF DecodeEmit
  <2>3. frames' \in Seq(Frame) /\ AllOf(frames', era)
        /\ Len(frames') <= Len(frames) + 1
    <3>1. frames' = frames \/ frames' = Append(frames, Head(inside))
      BY <1>17 DEF DecodeEmit
    <3>2. frames \in Seq(Frame) /\ AllOf(frames, era) /\ era \in Nat
      OBVIOUS
    <3>3. CASE frames' = frames
      BY <3>2, <3>3
    <3>4. CASE frames' = Append(frames, Head(inside))
      BY <2>1, <3>2, <3>4, QueueAppend
    <3> QED
      BY <3>1, <3>3, <3>4
  <2> QED
    BY <1>17, <2>2, <2>3 DEF DecodeEmit
<1>18. CASE DecodeFed
  BY <1>18 DEF DecodeFed, DecodeUnlock
<1>19. CASE DecodePause
  BY <1>19 DEF DecodePause, DecodeUnlock
<1>20. CASE PresentLook
  <2>1. Head(frames) \in Frame
    BY <1>20, QueueKeepsEra DEF PresentLook
  <2>2. media' \in 1..MaxMedia /\ media' # None
    BY <1>20, <2>1, FramesAreReal DEF PresentLook
  <2> QED
    BY <1>20, <2>2 DEF PresentLook
<1>21. CASE PresentWait
  BY <1>21, AgainType DEF PresentWait, PresentAgain
<1>22. CASE PresentDue
  BY <1>22 DEF PresentDue
<1>23. CASE PresentTake
  <2>1. CASE frames # <<>> /\ Head(frames).media = media
    <3>1. held' = Head(frames) /\ frames' = Tail(frames)
      BY <1>23, <2>1 DEF PresentTake
    <3>2. held' \in Frame /\ held'.era = era /\ held' # None
      <4>1. Head(frames) \in Frame /\ Head(frames).era = era
        BY <2>1, QueueKeepsEra
      <4> QED
        BY <3>1, <4>1, FramesAreReal
    <3>3. frames' \in Seq(Frame) /\ AllOf(frames', era)
          /\ Len(frames') = Len(frames) - 1
      BY <2>1, <3>1, QueueKeepsEra
    <3> QED
      BY <1>23, <2>1, <3>2, <3>3 DEF PresentTake
  <2>2. CASE ~(frames # <<>> /\ Head(frames).media = media)
    BY <1>23, <2>2, AgainType DEF PresentTake, PresentAgain
  <2> QED
    BY <2>1, <2>2
<1>24. CASE PresentSupersede
  BY <1>24, AgainType DEF PresentSupersede, PresentAgain
<1>25. CASE PresentLock
  BY <1>25 DEF PresentLock
<1>26. CASE PresentSkip
  BY <1>26, AgainType DEF PresentSkip, ReleaseOutput, PresentAgain
<1>27. CASE PresentCheck
  BY <1>27 DEF PresentCheck
<1>28. CASE PresentSubmit
  BY <1>28, AgainType DEF PresentSubmit, PresentAgain
<1>29. CASE UNCHANGED vars
  BY <1>29 DEF vars
<1> QED
  BY <1>1, <1>2, <1>3, <1>4, <1>5, <1>6, <1>7, <1>8, <1>9, <1>10, <1>11,
     <1>12, <1>13, <1>14, <1>15, <1>16, <1>17, <1>18, <1>19, <1>20, <1>21,
     <1>22, <1>23, <1>24, <1>25, <1>26, <1>27, <1>28, <1>29
  DEF Next, Reader, DecodeThread, PresentThread

-----------------------------------------------------------------------------
\* The invariant of the hand-off.
THEOREM HandoffCorrect == Spec => []HandoffInv
  BY HandoffInit, HandoffStep, PTL DEF Spec

\* Every variable has its type; above all present_queue_ never exceeds
\* MAX_PRESENT_FRAMES, although the room is checked before the packet is popped
\* and the frame is pushed after it was decoded.
THEOREM TypeCorrect == Spec => []TypeOK
  BY HandoffCorrect, PTL DEF HandoffInv

\* Nothing of an earlier stream is left in a queue, with the decoder or in the
\* clock.
THEOREM BuffersStayCurrent == Spec => []BuffersAreCurrent
  BY HandoffCorrect, PTL DEF HandoffInv

\* No frame that passed the clock check is on its way to OBS when a reset has
\* got past present_output_mutex_.
THEOREM SubmitsEndBeforeReset == Spec => []SubmitEndsBeforeReset
<1>1. HandoffInv => SubmitEndsBeforeReset
  BY DEF HandoffInv, ResetInv, SubmitEndsBeforeReset
<1> QED
  BY <1>1, HandoffCorrect, PTL

\* At most one frame of an older stream reaches OBS per reset.
THEOREM StraysAreBounded == Spec => []AtMostOneStray
<1>1. HandoffInv => AtMostOneStray
  BY DEF HandoffInv, StrayInv, AtMostOneStray
<1> QED
  BY <1>1, HandoffCorrect, PTL

-----------------------------------------------------------------------------
(***************************************************************************)
(* The refinement.  A frame is taken by PresentTake, which finds it in a   *)
(* queue that holds nothing but the current era; every other step of the   *)
(* three threads leaves the gate alone or is the one it names.             *)
(***************************************************************************)

\* Initial states map to initial states.
LEMMA GateInit == Init => Gate!Init
  BY DEF Init, Gate!Init

\* Every step maps to a step of the gate or to none.
LEMMA GateStep == HandoffInv /\ [Next]_vars => [Gate!Next]_(Gate!gateVars)
<1> SUFFICES ASSUME HandoffInv, [Next]_vars
             PROVE  Gate!Next \/ UNCHANGED Gate!gateVars
  OBVIOUS
<1>1. CASE ResetFrames
  BY <1>1 DEF ResetFrames, presentVars, Gate!Next, Gate!Reset
<1>2. CASE PresentTake
  <2>1. CASE frames # <<>> /\ Head(frames).media = media
    <3>1. held = None /\ held' = Head(frames) /\ UNCHANGED <<era, shown>>
      BY <1>2, <2>1
      DEF PresentTake, PresentFrame, readerVars, HandoffInv, OwnersInv
    <3>2. held' \in Frame /\ held'.era = era
      BY <2>1, <3>1, QueueKeepsEra DEF HandoffInv, TypeOK, BuffersAreCurrent
    <3>3. held' # None
      BY <3>2, FramesAreReal
    <3> QED
      BY <3>1, <3>2, <3>3 DEF Gate!Next, Gate!Take
  <2>2. CASE ~(frames # <<>> /\ Head(frames).media = media)
    BY <1>2, <2>2 DEF PresentTake, PresentFrame, readerVars, Gate!gateVars
  <2> QED
    BY <2>1, <2>2
<1>3. CASE PresentSupersede \/ PresentSkip
  <2>1. held # None /\ held' = None /\ UNCHANGED <<era, shown>>
    BY <1>3 DEF PresentSupersede, PresentSkip, PresentFrame, readerVars,
      HandoffInv, OwnersInv
  <2>2. held.era # None
    BY <2>1, HandoffAssumption DEF HandoffInv, TypeOK, Frame
  <2> QED
    BY <2>1, <2>2 DEF Gate!Next, Gate!Drop
<1>4. CASE PresentSubmit
  BY <1>4, HandoffAssumption
  DEF PresentSubmit, PresentFrame, readerVars, HandoffInv, OwnersInv, TypeOK,
      Frame, Gate!Next, Gate!Show
<1>5. CASE Ingest \/ ResetWant \/ ResetLock \/ ResetClock \/ ResetReturn
           \/ Reopen
  BY <1>5 DEF Ingest, ResetWant, ResetLock, ResetClock, ResetReturn, Reopen,
    presentVars, Gate!gateVars
<1>6. CASE DecodeThread
  BY <1>6 DEF DecodeThread, DecodeLock, DecodeNothing, DecodeResume,
    DecodeCutFrames, DecodeCutClock, DecodeAnchorFront, DecodePop,
    DecodeSwallow, DecodeAnchor, DecodeEmit, DecodeFed, DecodePause,
    readerVars, presentVars, Gate!gateVars
<1>7. CASE PresentLook \/ PresentWait \/ PresentDue \/ PresentLock
           \/ PresentCheck
  BY <1>7 DEF PresentLook, PresentDue, PresentWait, PresentLock, PresentCheck,
    PresentFrame, readerVars, Gate!gateVars
<1>8. CASE UNCHANGED vars
  BY <1>8 DEF vars, Gate!gateVars
<1> QED
  BY <1>1, <1>2, <1>3, <1>4, <1>5, <1>6, <1>7, <1>8
  DEF Next, Reader, PresentThread

\* The three threads implement the gate: whatever they do to a frame is taking
\* it from the current stream, showing it or dropping it.
THEOREM HandoffImplementsGate == Spec => ImplementsGate
<1>1. Spec => Gate!Spec
  BY GateInit, GateStep, HandoffCorrect, PTL DEF Spec, Gate!Spec
<1> QED
  BY <1>1 DEF ImplementsGate

=============================================================================
