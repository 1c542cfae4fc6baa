------------------------- MODULE WhepSession_proofs -------------------------
(***************************************************************************)
(* What WhepSession promises, for any modes, kinds of media and readings   *)
(* of the clock.                                                           *)
(***************************************************************************)
EXTENDS WhepSession, TLAPS

\* Where the worker has a session: from the answer to the end of stop()
InSession ==
  {"loop", "round", "black", "dummy", "watch", "stop", "joinPli", "lastWord"}
    \cup Clearing

Media ==
  {"setBase", "setStart", "decodeVideo", "decodeAudio", "needBase", "loadBase",
   "storeBase", "noteVideo", "noteAudio", "noteFirst"}

\* The worker stops its client only after the user stopped the source, and a
\* worker that ends while the source runs never had an answer.
StopInv ==
  /\ w \in {"none", "stop", "joinPli", "lastWord", "free", "cleanup"}
       => ~running
  /\ w = "done" /\ running => pc \notin {"answered", "closed"}

\* The connection goes with the worker: there is none before an attempt, and
\* no answer before one succeeds.
PeerInv ==
  /\ w \in {"none", "start"} => pc = "none"
  /\ w = "try" => pc \in {"none", "failed"}
  /\ w \in InSession \ {"lastWord"} => pc = "answered"
  /\ w \in {"none", "start", "try", "lastWord", "free", "cleanup", "done"}
       => ~pli

\* Media is on its way only through a session, and the decoders are there from
\* before it until after it.
MediaInv ==
  /\ cb \in Media => w \in InSession
  /\ w \in InSession \cup {"start", "try", "free"} => decoders = "open"

\* Outside a session OBS has no picture but a covered one.
CleanInv ==
  w \in {"none", "start", "try", "done"}
    => ~first /\ (picture = "none" \/ covers)

SessionInv == TypeOK /\ StopInv /\ PeerInv /\ MediaInv /\ CleanInv

-----------------------------------------------------------------------------
\* The start: no worker, no client, nothing in sight.
LEMMA InitInv == Init => SessionInv
<1> SUFFICES ASSUME Init PROVE SessionInv
  OBVIOUS
<1>1. /\ {running, cRunning, pli, connected, first, raced} \subseteq BOOLEAN
      /\ covers \in BOOLEAN
  BY Zenon DEF Init
<1>2. TypeOK
  BY <1>1 DEF Init, TypeOK
<1>3. StopInv /\ PeerInv /\ MediaInv /\ CleanInv
  BY DEF Init, StopInv, PeerInv, MediaInv, CleanInv, InSession, Media,
         Clearing
<1> QED
  BY <1>2, <1>3 DEF SessionInv

\* Every step keeps every variable in its shape.
LEMMA StepType == TypeOK /\ PeerInv /\ [Next]_vars => TypeOK'
<1> SUFFICES ASSUME TypeOK, PeerInv, [Next]_vars PROVE TypeOK'
  OBVIOUS
<1> USE WhepAssumption DEF TypeOK, PeerInv, InSession, Clearing
<1>1. CASE StartStream
  BY <1>1 DEF StartStream, callback, anchors, shown
<1>2. CASE StopStream
  <2>1. running' \in BOOLEAN
    BY Zenon, <1>2 DEF StopStream, callback
  <2> QED
    BY <1>2, <2>1 DEF StopStream, callback, sessionVars, anchors, shown
<1>3. CASE JoinWorker
  BY <1>3 DEF JoinWorker, callback, anchors, shown
<1>4. CASE BeginStart
  BY <1>4 DEF BeginStart, callback, anchors, shown
<1>5. CASE AttemptSucceeds
  BY <1>5 DEF AttemptSucceeds, callback, anchors, shown
<1>6. CASE AttemptFails
  BY <1>6 DEF AttemptFails, callback, anchors, shown
<1>7. CASE StartFails
  <2>1. cRunning' \in BOOLEAN
    BY Zenon, <1>7 DEF StartFails, callback
  <2> QED
    BY <1>7, <2>1 DEF StartFails, callback, anchors, shown
<1>8. CASE StopClient
  <2>1. cRunning' \in BOOLEAN
    BY Zenon, <1>8 DEF StopClient, callback
  <2> QED
    BY <1>8, <2>1 DEF StopClient, callback, anchors, shown
<1>9. CASE ClosePeer
  BY <1>9 DEF ClosePeer, callback, PliIsJoined, anchors, shown
<1>10. CASE LastWord
  <2>1. connected' \in BOOLEAN /\ first' \in BOOLEAN
    BY Zenon, <1>10 DEF LastWord, callback
  <2> QED
    BY <1>10, <2>1
       DEF LastWord, callback, DropPicture, ResetAnchors, CallbackIsOver,
           sessionVars
<1>11. CASE FreeDecoders
  BY <1>11 DEF FreeDecoders, callback, anchors, shown
<1>12. CASE Cleanup
  <2>1. connected' \in BOOLEAN /\ first' \in BOOLEAN
    BY Zenon, <1>12 DEF Cleanup, callback
  <2> QED
    BY <1>12, <2>1 DEF Cleanup, callback, DropPicture, sessionVars, anchors
<1>13. CASE Round
  BY <1>13 DEF Round, callback, sessionVars, anchors, shown
<1>14. CASE NeedsDummy
  BY <1>14 DEF NeedsDummy, callback, IsAudioOnly, sessionVars, anchors, shown
<1>15. CASE DummyPicture
  BY <1>15 DEF DummyPicture, callback, sessionVars, anchors
<1>16. CASE DummyFirst
  BY <1>16 DEF DummyFirst, callback, sessionVars, anchors
<1>17. CASE NoDummy
  BY <1>17 DEF NoDummy, callback, sessionVars, anchors, shown
<1>18. CASE Watchdog
  BY <1>18 DEF Watchdog, callback, Watches, sessionVars, anchors, shown
<1>19. CASE ClearFlags
  <2>1. connected' \in BOOLEAN /\ first' \in BOOLEAN
    BY Zenon, <1>19 DEF ClearFlags, callback
  <2> QED
    BY <1>19, <2>1 DEF ClearFlags, callback, sessionVars, anchors
<1>20. CASE ClearPicture
  BY <1>20 DEF ClearPicture, callback, DropPicture, sessionVars, anchors
<1>21. CASE ClearBase
  BY <1>21 DEF ClearBase, callback, sessionVars, shown
<1>22. CASE ClearStart
  BY <1>22 DEF ClearStart, callback, sessionVars, shown
<1>23. CASE ClearAudio
  BY <1>23 DEF ClearAudio, callback, sessionVars, shown
<1>24. CASE ClearLast
  BY <1>24 DEF ClearLast, callback, sessionVars, anchors
<1>25. CASE PliEnds
  <2>1. pli' \in BOOLEAN
    BY Zenon, <1>25 DEF PliEnds, callback
  <2> QED
    BY <1>25, <2>1 DEF PliEnds, callback, PliStops, anchors, shown
<1>26. CASE VideoCall
  BY <1>26 DEF VideoCall, MediaCall, IsTaken, sessionVars, anchors, shown
<1>27. CASE AudioCall
  BY <1>27 DEF AudioCall, MediaCall, IsTaken, sessionVars, anchors, shown
<1>28. CASE StateUp
  BY <1>28 DEF StateUp, callback, sessionVars, anchors
<1>29. CASE StateDown
  <2>1. connected' \in BOOLEAN /\ first' \in BOOLEAN
    BY Zenon, <1>29 DEF StateDown
  <2> QED
    BY <1>29, <2>1 DEF StateDown, sessionVars, anchors
<1>30. CASE DecodeFails
  BY <1>30 DEF DecodeFails, sessionVars, anchors, shown
<1>31. CASE OutputVideo
  BY <1>31 DEF OutputVideo, sessionVars, anchors
<1>32. CASE OutputAudio
  BY <1>32 DEF OutputAudio, sessionVars, anchors, shown
<1>33. CASE NoteMedia
  BY <1>33 DEF NoteMedia, Clearing, sessionVars, anchors
<1>34. CASE NoteFirst
  BY <1>34 DEF NoteFirst, sessionVars, anchors
<1>35. CASE DownPicture
  BY <1>35 DEF DownPicture, DropPicture, sessionVars, anchors
<1>36. CASE DownAnchors
  BY <1>36 DEF DownAnchors, ResetAnchors, sessionVars, shown
<1>37. CASE Silence
  BY <1>37 DEF Silence, callback, sessionVars, anchors
<1>38. CASE SetVideoBase
  BY <1>38 DEF SetVideoBase, sessionVars, shown
<1>39. CASE SetVideoStart
  BY <1>39 DEF SetVideoStart, sessionVars, shown
<1>40. CASE NeedBase
  BY <1>40 DEF NeedBase, sessionVars, shown
<1>41. CASE LoadBase
  BY <1>41 DEF LoadBase, sessionVars, anchors, shown
<1>42. CASE StoreBase
  BY <1>42 DEF StoreBase, sessionVars, shown
<1>43. CASE UNCHANGED vars
  BY <1>43 DEF vars, callback, sessionVars, anchors, shown
<1> QED
  BY <1>1, <1>2, <1>3, <1>4, <1>5, <1>6, <1>7, <1>8, <1>9, <1>10, <1>11, <1>12,
     <1>13, <1>14, <1>15, <1>16, <1>17, <1>18, <1>19, <1>20, <1>21, <1>22,
     <1>23, <1>24, <1>25, <1>26, <1>27, <1>28, <1>29, <1>30, <1>31, <1>32,
     <1>33, <1>34, <1>35, <1>36, <1>37, <1>38, <1>39, <1>40, <1>41, <1>42,
     <1>43
     DEF Next, Worker, CallbackGoesOn

\* Every step keeps what is known of worker, connection, callbacks and picture.
LEMMA StepSession ==
  TypeOK /\ StopInv /\ PeerInv /\ MediaInv /\ CleanInv /\ [Next]_vars
    => (StopInv /\ PeerInv /\ MediaInv /\ CleanInv)'
<1> SUFFICES ASSUME TypeOK, StopInv, PeerInv, MediaInv, CleanInv, [Next]_vars
             PROVE  (StopInv /\ PeerInv /\ MediaInv /\ CleanInv)'
  OBVIOUS
<1> USE DEF StopInv, PeerInv, MediaInv, CleanInv, InSession, Media, Clearing
<1>0. w \in {"none", "start", "try", "free", "cleanup", "done"} \cup InSession
  BY DEF TypeOK
<1>1. CASE StartStream
  BY <1>1 DEF StartStream, callback, anchors, shown
<1>2. CASE StopStream
  BY <1>2 DEF StopStream, callback, sessionVars, anchors, shown
<1>3. CASE JoinWorker
  BY <1>3 DEF JoinWorker, callback, anchors, shown
<1>4. CASE BeginStart
  BY <1>4 DEF BeginStart, callback, anchors, shown
<1>5. CASE AttemptSucceeds
  BY <1>5 DEF AttemptSucceeds, callback, anchors, shown
<1>6. CASE AttemptFails
  BY <1>6 DEF AttemptFails, callback, anchors, shown
<1>7. CASE StartFails
  BY <1>7 DEF StartFails, callback, anchors, shown
<1>8. CASE StopClient
  BY <1>8 DEF StopClient, callback, anchors, shown
<1>9. CASE ClosePeer
  BY <1>9 DEF ClosePeer, callback, PliIsJoined, anchors, shown
<1>10. CASE LastWord
  BY <1>10 DEF LastWord, callback, DropPicture, ResetAnchors, CallbackIsOver,
               sessionVars
<1>11. CASE FreeDecoders
  BY <1>11 DEF FreeDecoders, callback, anchors, shown
<1>12. CASE Cleanup
  BY <1>12 DEF Cleanup, callback, DropPicture, sessionVars, anchors
<1>13. CASE Round
  BY <1>13 DEF Round, callback, sessionVars, anchors, shown
<1>14. CASE NeedsDummy
  BY <1>14 DEF NeedsDummy, callback, IsAudioOnly, sessionVars, anchors, shown
<1>15. CASE DummyPicture
  BY <1>15 DEF DummyPicture, callback, sessionVars, anchors
<1>16. CASE DummyFirst
  BY <1>16 DEF DummyFirst, callback, sessionVars, anchors
<1>17. CASE NoDummy
  BY <1>17 DEF NoDummy, callback, sessionVars, anchors, shown
<1>18. CASE Watchdog
  BY <1>18 DEF Watchdog, callback, Watches, sessionVars, anchors, shown
<1>19. CASE ClearFlags
  BY <1>19 DEF ClearFlags, callback, sessionVars, anchors
<1>20. CASE ClearPicture
  BY <1>20 DEF ClearPicture, callback, DropPicture, sessionVars, anchors
<1>21. CASE ClearBase
  BY <1>21 DEF ClearBase, callback, sessionVars, shown
<1>22. CASE ClearStart
  BY <1>22 DEF ClearStart, callback, sessionVars, shown
<1>23. CASE ClearAudio
  BY <1>23 DEF ClearAudio, callback, sessionVars, shown
<1>24. CASE ClearLast
  BY <1>24 DEF ClearLast, callback, sessionVars, anchors
<1>25. CASE PliEnds
  BY <1>25 DEF PliEnds, callback, PliStops, anchors, shown
<1>26. CASE VideoCall
  BY <1>0, <1>26 DEF VideoCall, MediaCall, IsTaken, sessionVars, anchors, shown
<1>27. CASE AudioCall
  BY <1>0, <1>27 DEF AudioCall, MediaCall, IsTaken, sessionVars, anchors, shown
<1>28. CASE StateUp
  BY <1>28 DEF StateUp, callback, sessionVars, anchors
<1>29. CASE StateDown
  BY <1>29 DEF StateDown, sessionVars, anchors
<1>30. CASE DecodeFails
  BY <1>30 DEF DecodeFails, sessionVars, anchors, shown
<1>31. CASE OutputVideo
  BY <1>31 DEF OutputVideo, sessionVars, anchors
<1>32. CASE OutputAudio
  BY <1>32 DEF OutputAudio, sessionVars, anchors, shown
<1>33. CASE NoteMedia
  BY <1>33 DEF NoteMedia, Clearing, sessionVars, anchors
<1>34. CASE NoteFirst
  BY <1>34 DEF NoteFirst, sessionVars, anchors
<1>35. CASE DownPicture
  BY <1>35 DEF DownPicture, DropPicture, sessionVars, anchors
<1>36. CASE DownAnchors
  BY <1>36 DEF DownAnchors, ResetAnchors, sessionVars, shown
<1>37. CASE Silence
  BY <1>37 DEF Silence, callback, sessionVars, anchors
<1>38. CASE SetVideoBase
  BY <1>38 DEF SetVideoBase, sessionVars, shown
<1>39. CASE SetVideoStart
  BY <1>39 DEF SetVideoStart, sessionVars, shown
<1>40. CASE NeedBase
  BY <1>40 DEF NeedBase, sessionVars, shown
<1>41. CASE LoadBase
  BY <1>41 DEF LoadBase, sessionVars, anchors, shown
<1>42. CASE StoreBase
  BY <1>42 DEF StoreBase, sessionVars, shown
<1>43. CASE UNCHANGED vars
  BY <1>43 DEF vars, callback, sessionVars, anchors, shown
<1> QED
  BY <1>1, <1>2, <1>3, <1>4, <1>5, <1>6, <1>7, <1>8, <1>9, <1>10, <1>11, <1>12,
     <1>13, <1>14, <1>15, <1>16, <1>17, <1>18, <1>19, <1>20, <1>21, <1>22,
     <1>23, <1>24, <1>25, <1>26, <1>27, <1>28, <1>29, <1>30, <1>31, <1>32,
     <1>33, <1>34, <1>35, <1>36, <1>37, <1>38, <1>39, <1>40, <1>41, <1>42,
     <1>43
     DEF Next, Worker, CallbackGoesOn

-----------------------------------------------------------------------------
\* The invariant of the session holds in every state of every behaviour.
THEOREM Invariance == Spec => []SessionInv
<1>1. SessionInv /\ [Next]_vars => SessionInv'
  BY StepType, StepSession DEF SessionInv
<1> QED
  BY InitInv, <1>1, PTL DEF Spec

\* Every variable keeps its shape, and the keyframe thread is joined before its
\* client is gone.
THEOREM TypeCorrect == Spec => []TypeOK
<1>1. SessionInv => TypeOK
  BY DEF SessionInv
<1> QED
  BY Invariance, <1>1, PTL

\* However late the library calls, no callback decodes with a freed decoder, see
\* whep_worker() and the mutex that WhepClient::stop() takes once more.
THEOREM CallbacksHaveDecoders == Spec => []DecodersOutliveCallbacks
<1>1. SessionInv => DecodersOutliveCallbacks
  BY DEF SessionInv, MediaInv, Media, DecodersOutliveCallbacks
<1> QED
  BY Invariance, <1>1, PTL

\* A worker that has ended leaves no picture in sight and no first frame, even
\* where dummy pictures, callbacks and clean-up met.
THEOREM WorkerEndsClean == Spec => []EndsClean
<1>1. SessionInv => EndsClean
  BY DEF SessionInv, CleanInv, EndsClean
<1> QED
  BY Invariance, <1>1, PTL
=============================================================================
