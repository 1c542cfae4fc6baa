---------------------- MODULE StreamLifecycle_proofs ----------------------
(***************************************************************************)
(* What StreamLifecycle promises for every choice of stream types and      *)
(* commands: the types, the three safety properties that rest on who may   *)
(* own the demuxer and which flag is still up when a stop begins, and that *)
(* the watchdog gives up on no connection but the one it watched.          *)
(***************************************************************************)
EXTENDS StreamLifecycle, TLAPS

\* Init gives the flags their values by equations; this turns them into types.
LEMMA FalseIsBoolean == \A b : b = FALSE => b \in BOOLEAN
  BY Zenon

\* What start_stream() sets run_ to is a state of the playout threads.
LEMMA FreshPlayoutType ==
  FreshPlayout(TRUE) \in Playout /\ FreshPlayout(FALSE) \in Playout
  BY SMT DEF FreshPlayout, Playout

\* So is what playout_reset() leaves.
LEMMA PlayoutResetType == play \in Playout /\ PlayoutReset => play' \in Playout
  BY Zenon DEF PlayoutReset, Playout

\* Only an open of an IVS stream makes a client: strengthens TypeOK.
ClientInv ==
  kind # "ivs" =>
    /\ conn \notin {"create", "start", "probe"}
    /\ worker \notin {"skCreate", "skStart", "skProbe"}

\* The inductive form of the type invariant
TypeInv == TypeOK /\ ClientInv

\* A source that was just created has its types.
LEMMA TypeInit == Init => TypeInv
  BY FreshPlayoutType, FalseIsBoolean
  DEF Init, TypeInv, ClientInv, TypeOK, UiPoints, WorkerPoints, ConnPoints,
    ClientStates, Requesters

\* The flags that start_stream() sets or leaves alone stay flags.
StartTypes ==
  /\ running \in BOOLEAN /\ backoff \in BOOLEAN /\ connected \in BOOLEAN
  /\ inProgress \in BOOLEAN /\ doubled \in BOOLEAN /\ firstFrame \in BOOLEAN
  /\ open \in BOOLEAN

\* start_stream() keeps their types.
LEMMA StartTypesHold == TypeOK /\ Start => StartTypes'
  BY Zenon DEF TypeOK, Start, StartTypes

\* No step of any thread leaves them.
LEMMA TypeStep == TypeInv /\ [Next]_vars => TypeInv'
<1> SUFFICES ASSUME TypeInv, [Next]_vars PROVE TypeInv'
  OBVIOUS
<1> USE FalseIsBoolean
    DEF TypeInv, ClientInv, TypeOK, life, asked, control, pending, attempt,
        demuxer, screen, UiPoints, WorkerPoints, ConnPoints, ClientStates,
        Requesters
<1>1. CASE UiSignal
  BY <1>1 DEF UiSignal
<1>2. CASE UiSignalAbort
  BY <1>2 DEF UiSignalAbort, RequestAbort
<1>3. CASE StopAbort
  BY <1>3 DEF StopAbort, RequestAbort
<1>4. CASE StopJoinWorker
  BY <1>4 DEF StopJoinWorker
<1>5. CASE StopJoinPlayout
  <2>1. play' \in Playout
    BY <1>5, Zenon DEF StopJoinPlayout, FreshPlayout, Playout
  <2> QED
    BY <1>5, <2>1 DEF StopJoinPlayout
<1>6. CASE StopJoinConnect
  BY <1>6 DEF StopJoinConnect, JoinConnect, ConnectThreadEnded
<1>7. CASE StopTeardown
  BY <1>7, PlayoutResetType DEF StopTeardown, CloseDemuxer
<1>8. CASE UiActivate
  <2>1. play' \in Playout
    BY <1>8, FreshPlayoutType, Zenon DEF UiActivate, Start
  <2>2. /\ active' \in BOOLEAN /\ pendingSkip' \in BOOLEAN
        /\ updateQueued' \in BOOLEAN /\ pendingRefresh' \in BOOLEAN
    BY <1>8, Zenon DEF UiActivate, Start
  <2>3. UNCHANGED <<kind, conn, requester, client>> /\ worker' = "top"
    BY <1>8 DEF UiActivate, Start
  <2>4. /\ ClientInv'
        /\ client' \in IF kind' = "ivs" THEN ClientStates ELSE {"none"}
    BY <2>3
  <2>5. Start
    BY <1>8 DEF UiActivate
  <2> QED
    BY <2>1, <2>2, <2>3, <2>4, <2>5, StartTypesHold
      DEF Start, StartTypes
<1>9. CASE UiActivateNoUrl
  BY <1>9 DEF UiActivateNoUrl
<1>10. CASE UiDeactivate
  BY <1>10 DEF UiDeactivate
<1>11. CASE RemoteRefresh
  BY <1>11 DEF RemoteRefresh
<1>12. CASE RemoteSkip
  BY <1>12 DEF RemoteSkip
<1>13. CASE SkipCheck
  BY <1>13 DEF SkipCheck, HasReadToInterrupt, UsesPlayout
<1>14. CASE SkipAbort
  BY <1>14 DEF SkipAbort, RequestAbort
<1>15. CASE WorkerTop
  BY <1>15 DEF WorkerTop, WorkerFrame
<1>16. CASE WorkerTakeRefresh
  BY <1>16 DEF WorkerTakeRefresh, RefreshAsked, WorkerFrame
<1>17. CASE WorkerBranch
  BY <1>17 DEF WorkerBranch, RefreshAsked, WorkerFrame
<1>18. CASE RefreshJoin
  BY <1>18 DEF RefreshJoin, JoinConnect, ConnectThreadEnded
<1>19. CASE RefreshReset
  BY <1>19, PlayoutResetType DEF RefreshReset, WorkerFrame
<1>20. CASE RefreshPicture
  BY <1>20 DEF RefreshPicture, CloseDemuxer, WorkerFrame
<1>21. CASE RefreshClear
  BY <1>21 DEF RefreshClear, WorkerFrame
<1>22. CASE WorkerDown
  BY <1>22 DEF WorkerDown, WorkerFrame
<1>23. CASE WorkerSpawn
  BY <1>23 DEF WorkerSpawn, ConnectThreadEnded
<1>24. CASE WorkerNoSkip
  BY <1>24 DEF WorkerNoSkip, WorkerFrame
<1>25. CASE WorkerTakeSkip
  BY <1>25 DEF WorkerTakeSkip, CloseDemuxer, WorkerFrame
<1>26. CASE SkipReset
  BY <1>26, PlayoutResetType DEF SkipReset, WorkerFrame
<1>27. CASE SkipClear
  BY <1>27 DEF SkipClear, UsesClient, WorkerFrame
<1>28. CASE SkipOpen
  <2> USE <1>28 DEF SkipOpen, SkipFrame, WorkerFrame
  <2>1. open' \in BOOLEAN /\ connected' \in BOOLEAN
    BY Zenon DEF OpenSucceeds, OpenFails, CloseDemuxer
  <2>2. client' \in {client, "none"}
    BY DEF OpenSucceeds, OpenFails, CloseDemuxer
  <2> QED
    BY <2>1, <2>2
<1>29. CASE ReadCall
  BY <1>29 DEF ReadCall, aborted, WorkerFrame
<1>30. CASE ReadPacket
  <2>1. play' \in Playout
    BY <1>30, Zenon DEF ReadPacket, UsesPlayout, Playout
  <2>2. firstFrame' \in BOOLEAN
    BY <1>30, Zenon DEF ReadPacket
  <2> QED
    BY <1>30, <2>1, <2>2 DEF ReadPacket, UsesPlayout, WorkerFrame
<1>31. CASE ReadAborted
  BY <1>31 DEF ReadAborted, aborted, WorkerFrame
<1>32. CASE ReadError
  BY <1>32 DEF ReadError, UsesPlayout, WorkerFrame
<1>33. CASE ReadFailed
  BY <1>33 DEF ReadFailed, UsesPlayout, WorkerFrame
<1>34. CASE DropReset
  BY <1>34, PlayoutResetType DEF DropReset, WorkerFrame
<1>35. CASE DropPicture
  BY <1>35 DEF DropPicture, WorkerFrame
<1>36. CASE ConnCheck
  BY <1>36 DEF ConnCheck, AttemptWanted, ConnFrame
<1>37. CASE ConnClose
  BY <1>37, PlayoutResetType DEF ConnClose, CloseDemuxer, UsesClient, ConnFrame
<1>38. CASE ConnOpen
  <2> USE <1>38 DEF ConnOpen, OpenFrame, ConnFrame
  <2>1. open' \in BOOLEAN /\ connected' \in BOOLEAN
    BY Zenon DEF OpenSucceeds, OpenFails, CloseDemuxer
  <2>2. client' \in {client, "none"}
    BY DEF OpenSucceeds, OpenFails, CloseDemuxer
  <2> QED
    BY <2>1, <2>2
<1>39. CASE ConnPublish
  BY <1>39 DEF ConnPublish, ConnFrame
<1>40. CASE ConnFinish
  BY <1>40 DEF ConnFinish, ConnFrame
<1>41. CASE ConnEnd
  BY <1>41 DEF ConnEnd, ClearInProgress, ConnFrame
<1>42. CASE DelayElapses
  BY <1>42 DEF DelayElapses
<1>43. CASE DecodeRestart
  <2>1. play' \in Playout
    BY <1>43, Zenon DEF DecodeRestart, UsesPlayout, Playout
  <2> QED
    BY <1>43, <2>1 DEF DecodeRestart, UsesPlayout, PlayoutFrame
<1>44. CASE DecodeStart
  <2>1. play' \in Playout
    BY <1>44, Zenon DEF DecodeStart, DecodeReady, UsesPlayout, Playout
  <2> QED
    BY <1>44, <2>1 DEF DecodeStart, DecodeReady, PlayoutFrame, UsesPlayout
<1>45. CASE DecodeFeed
  <2>1. play' \in Playout
    BY <1>45, Zenon DEF DecodeFeed, DecodeReady, UsesPlayout, Playout
  <2> QED
    BY <1>45, <2>1 DEF DecodeFeed, DecodeReady, PlayoutFrame, UsesPlayout
<1>46. CASE DecodePause
  <2>1. play' \in Playout
    BY <1>46, Zenon DEF DecodePause, DecodeReady, UsesPlayout, Playout
  <2> QED
    BY <1>46, <2>1 DEF DecodePause, DecodeReady, PlayoutFrame, UsesPlayout
<1>47. CASE Watchdog
  <2>1. play' \in Playout
    BY <1>47, Zenon DEF Watchdog, DecodeReady, UsesPlayout, Playout
  <2> QED
    BY <1>47, <2>1 DEF Watchdog, DecodeReady, RequestAbort, PlayoutFrame,
      UsesPlayout
<1>48. CASE Present
  BY <1>48 DEF Present, UsesPlayout, PlayoutFrame
<1>49. ASSUME NEW task \in BOOLEAN, NEW changed \in BOOLEAN,
             UiUpdate(task, changed)
      PROVE  TypeInv'
  <2>1. updateQueued' \in BOOLEAN /\ pendingRefresh' \in BOOLEAN
    BY <1>49, Zenon DEF UiUpdate
  <2>2. CASE Start
    <3>1. play' \in Playout
      BY <2>2, FreshPlayoutType, Zenon DEF Start
    <3>2. pendingSkip' \in BOOLEAN /\ active' \in BOOLEAN
      BY <1>49, <2>2, Zenon DEF UiUpdate, Start
    <3>3. UNCHANGED <<kind, conn, requester, client>> /\ worker' = "top"
      BY <1>49, <2>2 DEF UiUpdate, Start
    <3>4. /\ ClientInv'
          /\ client' \in IF kind' = "ivs" THEN ClientStates ELSE {"none"}
      BY <3>3
    <3> QED
      BY <2>1, <2>2, <3>1, <3>2, <3>3, <3>4, StartTypesHold
        DEF Start, StartTypes
  <2>3. CASE ~Start
    <3>1. /\ ui' \in {"signal", "idle"}
          /\ UNCHANGED <<attempt, demuxer, screen, kind, worker, requester,
                         running, pendingSkip, active>>
      BY <1>49, <2>3, Zenon DEF UiUpdate
    <3> QED
      BY <2>1, <3>1
  <2> QED
    BY <2>2, <2>3
<1>50. CASE UNCHANGED vars
  BY <1>50 DEF vars
<1>51. CASE UiSignalClient
  BY <1>51 DEF UiSignalClient, TellClient
<1>52. CASE StopClient
  BY <1>52 DEF StopClient, TellClient
<1>53. CASE RefreshAbort
  BY <1>53 DEF RefreshAbort, RequestAbort, WorkerFrame
<1>54. CASE RefreshSignal
  BY <1>54 DEF RefreshSignal, TellClient, WorkerFrame
<1>55. CASE SkipCreate
  BY <1>55 DEF SkipCreate, ClientCreated, SkipFrame, WorkerFrame
<1>56. CASE SkipStart
  BY <1>56 DEF SkipStart, ClientStarted, SkipFrame, WorkerFrame
<1>57. CASE SkipProbe
  <2> USE <1>57 DEF SkipProbe, SkipFrame, WorkerFrame
  <2>1. open' \in BOOLEAN /\ connected' \in BOOLEAN
    BY Zenon DEF ClientOpens, FallBack, CloseDemuxer
  <2>2. client' \in {client, "none"}
    BY DEF ClientOpens, FallBack, CloseDemuxer
  <2> QED
    BY <2>1, <2>2
<1>58. CASE ConnCreate
  BY <1>58 DEF ConnCreate, ClientCreated, OpenFrame, ConnFrame
<1>59. CASE ConnStart
  BY <1>59 DEF ConnStart, ClientStarted, OpenFrame, ConnFrame
<1>60. CASE ConnProbe
  <2> USE <1>60 DEF ConnProbe, OpenFrame, ConnFrame
  <2>1. open' \in BOOLEAN /\ connected' \in BOOLEAN
    BY Zenon DEF ClientOpens, FallBack, CloseDemuxer
  <2>2. client' \in {client, "none"}
    BY DEF ClientOpens, FallBack, CloseDemuxer
  <2> QED
    BY <2>1, <2>2
<1> QED
  BY <1>1, <1>2, <1>3, <1>4, <1>5, <1>6, <1>7, <1>8, <1>9, <1>10, <1>11, <1>12,
    <1>13, <1>14, <1>15, <1>16, <1>17, <1>18, <1>19, <1>20, <1>21, <1>22,
    <1>23, <1>24, <1>25, <1>26, <1>27, <1>28, <1>29, <1>30, <1>31, <1>32,
    <1>33, <1>34, <1>35, <1>36, <1>37, <1>38, <1>39, <1>40, <1>41, <1>42,
    <1>43, <1>44, <1>45, <1>46, <1>47, <1>48, <1>49, <1>50, <1>51, <1>52,
    <1>53, <1>54, <1>55, <1>56, <1>57, <1>58, <1>59, <1>60 DEF Next, UiThread,
    User, RequesterThread, Request, WorkerThread, Network, ConnThread, Server,
    PlayoutThreads

\* Every variable of the lifecycle keeps to its range, whatever stream types
\* and commands are allowed.
THEOREM TypeCorrect == Spec => []TypeOK
<1>1. TypeInv => TypeOK
  BY DEF TypeInv
<1> QED
  BY TypeInit, TypeStep, <1>1, PTL DEF Spec

-----------------------------------------------------------------------------
\* Where each thread can be while the UI thread starts, runs or stops the
\* stream: strengthens StoppedIsQuiescent.
StopInv ==
  /\ ui \in {"signal", "signalAbort", "signalClient"} => running
  /\ ui \in {"abort", "stopClient"} \/ Stopping => ~running
  /\ ui \in {"joinPlayout", "joinConnect", "teardown"} => worker = "off"
  /\ ui \in {"joinConnect", "teardown"} => ~play.alive
  /\ ui = "teardown" => conn = "none"
  /\ inProgress <=> conn \notin {"none", "done"}
  /\ StoppedIsQuiescent

\* The worker's half of the loop in which the stream is connected
ConnectedHalf ==
  WorkerOpens
    \cup {"skip", "skReset", "skClear", "readCall", "reading", "failed"}

\* Who owns the demuxer, as long as no attempt was started on a live stream:
\* strengthens DemuxerExclusive.
OwnerInv ==
  /\ worker \in {"rfReset", "rfPicture", "rfClear"} => conn = "none"
  /\ ~doubled /\ (connected \/ worker \in ConnectedHalf) =>
       conn \notin ConnOpens \cup {"check", "close", "opened", "fail"}

\* An abort that is gone again during a stop was cleared by a thread that
\* cannot block any more: strengthens StopHeard.
AbortInv ==
  /\ worker \in {"rfSignal", "rfJoin", "rfReset", "rfPicture", "rfClear"} =>
       aborted
  /\ (ui = "stopClient" \/ Stopping) /\ ~doubled /\ ~aborted =>
       /\ worker \in WorkerOpens \cup {"top", "exited", "off"}
       /\ conn \notin ConnOpens \cup {"close"}
  /\ Stopping /\ ~doubled /\ worker = "reading" => client \in {"none", "told"}

\* The inductive invariant
LifecycleInv == TypeInv /\ StopInv /\ OwnerInv /\ AbortInv

\* Nothing runs in a new source, so nothing is owned.
LEMMA InvInit == Init => LifecycleInv
<1> SUFFICES ASSUME Init PROVE LifecycleInv
  OBVIOUS
<1>1. TypeInv
  BY TypeInit
<1>2. ~play.alive /\ ~play.queued /\ ~play.clock
  BY DEF Init, FreshPlayout
<1> QED
  BY <1>1, <1>2 DEF Init, LifecycleInv, StopInv, OwnerInv, AbortInv, Stopping,
    StoppedIsQuiescent, ConnectedHalf, WorkerOpens, ConnOpens, aborted

\* Every step of every thread keeps the three invariants together: each of them
\* alone is too weak to be kept.
LEMMA InvStep == LifecycleInv /\ [Next]_vars => LifecycleInv'
<1> SUFFICES ASSUME LifecycleInv, [Next]_vars
             PROVE  StopInv' /\ OwnerInv' /\ AbortInv'
  BY TypeStep DEF LifecycleInv
<1> USE DEF LifecycleInv, TypeInv, StopInv, OwnerInv, AbortInv, Stopping,
    StoppedIsQuiescent, ConnectedHalf, WorkerOpens, ConnOpens, aborted,
    JoinConnect, ConnectThreadEnded, life, asked, control, pending, attempt,
    demuxer, screen
<1>1. CASE UiSignal
  BY <1>1 DEF UiSignal
<1>2. CASE UiSignalAbort
  BY <1>2 DEF UiSignalAbort, RequestAbort
<1>3. CASE StopAbort
  BY <1>3 DEF StopAbort, RequestAbort
<1>4. CASE StopJoinWorker
  BY <1>4 DEF StopJoinWorker
<1>5. CASE StopJoinPlayout
  BY <1>5 DEF StopJoinPlayout, FreshPlayout, TypeOK, Playout
<1>6. CASE StopJoinConnect
  BY <1>6 DEF StopJoinConnect
<1>7. CASE StopTeardown
  BY <1>7 DEF StopTeardown, CloseDemuxer, PlayoutReset, TypeOK, Playout
<1>8. CASE UiActivate
  BY <1>8 DEF UiActivate, Start, FreshPlayout, TypeOK, Playout
<1>9. CASE UiActivateNoUrl
  BY <1>9 DEF UiActivateNoUrl
<1>10. CASE UiDeactivate
  BY <1>10 DEF UiDeactivate
<1>11. CASE RemoteRefresh
  BY <1>11 DEF RemoteRefresh
<1>12. CASE RemoteSkip
  BY <1>12 DEF RemoteSkip
<1>13. CASE SkipCheck
  BY <1>13 DEF SkipCheck, HasReadToInterrupt, UsesPlayout
<1>14. CASE SkipAbort
  BY <1>14 DEF SkipAbort, RequestAbort
<1>15. CASE WorkerTop
  BY <1>15 DEF WorkerTop, WorkerFrame
<1>16. CASE WorkerTakeRefresh
  BY <1>16 DEF WorkerTakeRefresh, RefreshAsked, WorkerFrame
<1>17. CASE WorkerBranch
  BY <1>17 DEF WorkerBranch, RefreshAsked, WorkerFrame
<1>18. CASE RefreshJoin
  BY <1>18 DEF RefreshJoin
<1>19. CASE RefreshReset
  BY <1>19 DEF RefreshReset, PlayoutReset, WorkerFrame, TypeOK, Playout
<1>20. CASE RefreshPicture
  BY <1>20 DEF RefreshPicture, CloseDemuxer, WorkerFrame
<1>21. CASE RefreshClear
  BY <1>21 DEF RefreshClear, WorkerFrame
<1>22. CASE WorkerDown
  BY <1>22 DEF WorkerDown, WorkerFrame
<1>23. CASE WorkerSpawn
  BY <1>23 DEF WorkerSpawn
<1>24. CASE WorkerNoSkip
  BY <1>24 DEF WorkerNoSkip, WorkerFrame
<1>25. CASE WorkerTakeSkip
  BY <1>25 DEF WorkerTakeSkip, CloseDemuxer, WorkerFrame
<1>26. CASE SkipReset
  BY <1>26 DEF SkipReset, PlayoutReset, WorkerFrame, TypeOK, Playout
<1>27. CASE SkipClear
  BY <1>27 DEF SkipClear, UsesClient, WorkerFrame
<1>28. CASE SkipOpen
  BY <1>28 DEF SkipOpen, OpenSucceeds, OpenFails, CloseDemuxer,
    SkipFrame, WorkerFrame, UsesPlayout
<1>29. CASE ReadCall
  BY <1>29 DEF ReadCall, WorkerFrame
<1>30. CASE ReadPacket
  BY <1>30 DEF ReadPacket, UsesPlayout, WorkerFrame, TypeOK, Playout
<1>31. CASE ReadAborted
  BY <1>31 DEF ReadAborted, WorkerFrame
<1>32. CASE ReadError
  BY <1>32 DEF ReadError, UsesPlayout, WorkerFrame
<1>33. CASE ReadFailed
  BY <1>33 DEF ReadFailed, UsesPlayout, WorkerFrame
<1>34. CASE DropReset
  BY <1>34 DEF DropReset, PlayoutReset, WorkerFrame, TypeOK, Playout
<1>35. CASE DropPicture
  BY <1>35 DEF DropPicture, WorkerFrame
<1>36. CASE ConnCheck
  BY <1>36 DEF ConnCheck, AttemptWanted, ConnFrame
<1>37. CASE ConnClose
  BY <1>37 DEF ConnClose, CloseDemuxer, UsesClient, PlayoutReset, ConnFrame,
    TypeOK, Playout
<1>38. CASE ConnOpen
  BY <1>38 DEF ConnOpen, OpenSucceeds, OpenFails, CloseDemuxer,
    OpenFrame, ConnFrame, UsesPlayout
<1>39. CASE ConnPublish
  BY <1>39 DEF ConnPublish, ConnFrame
<1>40. CASE ConnFinish
  BY <1>40 DEF ConnFinish, ConnFrame
<1>41. CASE ConnEnd
  BY <1>41 DEF ConnEnd, ClearInProgress, ConnFrame
<1>42. CASE DelayElapses
  BY <1>42 DEF DelayElapses
<1>43. CASE DecodeRestart
  BY <1>43 DEF DecodeRestart, UsesPlayout, PlayoutFrame, TypeOK, Playout
<1>44. CASE DecodeStart
  BY <1>44 DEF DecodeStart, DecodeReady, PlayoutFrame, UsesPlayout, TypeOK,
    Playout
<1>45. CASE DecodeFeed
  BY <1>45 DEF DecodeFeed, DecodeReady, PlayoutFrame, UsesPlayout, TypeOK,
    Playout
<1>46. CASE DecodePause
  BY <1>46 DEF DecodePause, DecodeReady, PlayoutFrame, UsesPlayout, TypeOK,
    Playout
<1>47. CASE Watchdog
  BY <1>47 DEF Watchdog, DecodeReady, RequestAbort, PlayoutFrame, UsesPlayout,
    TypeOK, Playout
<1>48. CASE Present
  BY <1>48 DEF Present, UsesPlayout, PlayoutFrame
<1>49. ASSUME NEW task \in BOOLEAN, NEW changed \in BOOLEAN,
             UiUpdate(task, changed)
      PROVE  StopInv' /\ OwnerInv' /\ AbortInv'
  <2>1. CASE Start
    BY <1>49, <2>1 DEF UiUpdate, Start
  <2>2. CASE ~Start
    <3>1. /\ ui' = "idle" \/ (ui' = "signal" /\ running)
          /\ UNCHANGED <<attempt, demuxer, screen, worker, running>>
      <4> DEFINE restart == (pendingRefresh \/ changed) /\ active
      <4>1. /\ ui' = IF restart /\ running THEN "signal" ELSE "idle"
            /\ UNCHANGED <<attempt, demuxer, screen, worker, running>>
        BY <1>49, <2>2, Zenon DEF UiUpdate
      <4> QED
        BY <4>1
    <3> QED
      BY <1>49, <3>1 DEF UiUpdate
  <2> QED
    BY <2>1, <2>2
<1>50. CASE UNCHANGED vars
  BY <1>50 DEF vars
<1>51. CASE UiSignalClient
  BY <1>51 DEF UiSignalClient, TellClient
<1>52. CASE StopClient
  BY <1>52 DEF StopClient, TellClient
<1>53. CASE RefreshAbort
  BY <1>53 DEF RefreshAbort, RequestAbort, WorkerFrame
<1>54. CASE RefreshSignal
  BY <1>54 DEF RefreshSignal, TellClient, WorkerFrame
<1>55. CASE SkipCreate
  BY <1>55 DEF SkipCreate, ClientCreated, SkipFrame, WorkerFrame
<1>56. CASE SkipStart
  BY <1>56 DEF SkipStart, ClientStarted, SkipFrame, WorkerFrame
<1>57. CASE SkipProbe
  BY <1>57 DEF SkipProbe, ClientOpens, FallBack, CloseDemuxer, SkipFrame,
    WorkerFrame
<1>58. CASE ConnCreate
  BY <1>58 DEF ConnCreate, ClientCreated, OpenFrame, ConnFrame
<1>59. CASE ConnStart
  BY <1>59 DEF ConnStart, ClientStarted, OpenFrame, ConnFrame
<1>60. CASE ConnProbe
  BY <1>60 DEF ConnProbe, ClientOpens, FallBack, CloseDemuxer, OpenFrame,
    ConnFrame
<1> QED
  BY <1>1, <1>2, <1>3, <1>4, <1>5, <1>6, <1>7, <1>8, <1>9, <1>10, <1>11, <1>12,
    <1>13, <1>14, <1>15, <1>16, <1>17, <1>18, <1>19, <1>20, <1>21, <1>22,
    <1>23, <1>24, <1>25, <1>26, <1>27, <1>28, <1>29, <1>30, <1>31, <1>32,
    <1>33, <1>34, <1>35, <1>36, <1>37, <1>38, <1>39, <1>40, <1>41, <1>42,
    <1>43, <1>44, <1>45, <1>46, <1>47, <1>48, <1>49, <1>50, <1>51, <1>52,
    <1>53, <1>54, <1>55, <1>56, <1>57, <1>58, <1>59, <1>60 DEF Next, UiThread,
    User, RequesterThread, Request, WorkerThread, Network, ConnThread, Server,
    PlayoutThreads

\* The inductive invariant holds in every reachable state.
THEOREM InvCorrect == Spec => []LifecycleInv
  BY InvInit, InvStep, PTL DEF Spec

\* deactivate() leaves nothing behind for the next start_stream() to trip over.
THEOREM StopIsQuiescent == Spec => []StoppedIsQuiescent
<1>1. LifecycleInv => StoppedIsQuiescent
  BY DEF LifecycleInv, StopInv
<1> QED
  BY InvCorrect, <1>1, PTL

\* A refresh and a stop have the demuxer to themselves when they reset it,
\* whatever happened before; the worker and the connect thread use it in turns
\* until the worker starts an attempt on a live stream, which nothing forbids.
THEOREM DemuxerHasOneOwner == Spec => []DemuxerExclusive
<1>1. LifecycleInv => DemuxerExclusive
  BY DEF LifecycleInv, OwnerInv, DemuxerExclusive, WorkerUsesDemuxer,
    ConnUsesDemuxer, ConnectedHalf, StopInv, WorkerOpens, ConnOpens
<1> QED
  BY InvCorrect, <1>1, PTL

\* The one abort of stop_stream() is not lost to a read or to an attempt,
\* whichever of the four reset_abort() calls runs after it.
THEOREM StopReachesBlockedCalls == Spec => []StopHeard
<1>1. LifecycleInv => StopHeard
  BY DEF LifecycleInv, AbortInv, StopHeard, Stopping, WorkerOpens, ConnOpens
<1> QED
  BY InvCorrect, <1>1, PTL

-----------------------------------------------------------------------------
\* The watchdog cannot fire: nothing is queued, and the decode thread has yet
\* to start playing what comes.
Calm ==
  UsesPlayout /\ play.alive =>
    ~play.queued /\ (play.stale \/ play.phase = "starting")

\* A new connection begins on playout threads that are calm: strengthens
\* WatchdogSparesNewConnection.  The reset of the connection before makes them
\* so, and only a read could wake them, which needs a connected stream.
WatchdogInv ==
  ~doubled =>
    /\ worker \in ConnectedHalf => connected
    /\ worker = "dropReset" =>
         conn \notin ConnOpens \cup {"check", "close", "opened"}
    /\ ~connected /\ worker \notin {"rfReset", "dropReset"} => Calm
    /\ worker \in WorkerOpens \cup {"skClear"} => Calm
    /\ conn \in ConnOpens \cup {"check", "close"} \/ worker \in WorkerOpens =>
         "watchdog" \notin abortBy

\* The source is created without playout threads.
LEMMA WatchdogInit == Init => WatchdogInv
  BY DEF Init, WatchdogInv, ConnectedHalf, WorkerOpens, ConnOpens, Calm,
    FreshPlayout

\* Every step keeps them so.
LEMMA WatchdogStep ==
  LifecycleInv /\ WatchdogInv /\ [Next]_vars => WatchdogInv'
<1> SUFFICES ASSUME LifecycleInv, WatchdogInv, [Next]_vars
             PROVE  WatchdogInv'
  OBVIOUS
<1> USE DEF LifecycleInv, TypeInv, StopInv, OwnerInv, Stopping, WatchdogInv,
    ConnectedHalf, WorkerOpens, ConnOpens, Calm, UsesPlayout, JoinConnect,
    ConnectThreadEnded, life, asked, control, pending, attempt, demuxer, screen
<1>1. CASE UiSignal
  BY <1>1 DEF UiSignal
<1>2. CASE UiSignalAbort
  BY <1>2 DEF UiSignalAbort, RequestAbort
<1>3. CASE StopAbort
  BY <1>3 DEF StopAbort, RequestAbort
<1>4. CASE StopJoinWorker
  BY <1>4 DEF StopJoinWorker
<1>5. CASE StopJoinPlayout
  BY <1>5 DEF StopJoinPlayout, FreshPlayout, TypeOK, Playout
<1>6. CASE StopJoinConnect
  BY <1>6 DEF StopJoinConnect
<1>7. CASE StopTeardown
  BY <1>7 DEF StopTeardown, CloseDemuxer, PlayoutReset, TypeOK, Playout
<1>8. CASE UiActivate
  BY <1>8 DEF UiActivate, Start, FreshPlayout, TypeOK, Playout
<1>9. CASE UiActivateNoUrl
  BY <1>9 DEF UiActivateNoUrl
<1>10. CASE UiDeactivate
  BY <1>10 DEF UiDeactivate
<1>11. CASE RemoteRefresh
  BY <1>11 DEF RemoteRefresh
<1>12. CASE RemoteSkip
  BY <1>12 DEF RemoteSkip
<1>13. CASE SkipCheck
  BY <1>13 DEF SkipCheck, HasReadToInterrupt, UsesPlayout
<1>14. CASE SkipAbort
  BY <1>14 DEF SkipAbort, RequestAbort
<1>15. CASE WorkerTop
  BY <1>15 DEF WorkerTop, WorkerFrame
<1>16. CASE WorkerTakeRefresh
  BY <1>16 DEF WorkerTakeRefresh, RefreshAsked, WorkerFrame
<1>17. CASE WorkerBranch
  BY <1>17 DEF WorkerBranch, RefreshAsked, WorkerFrame
<1>18. CASE RefreshJoin
  BY <1>18 DEF RefreshJoin
<1>19. CASE RefreshReset
  BY <1>19 DEF RefreshReset, PlayoutReset, WorkerFrame, TypeOK, Playout
<1>20. CASE RefreshPicture
  BY <1>20 DEF RefreshPicture, CloseDemuxer, WorkerFrame
<1>21. CASE RefreshClear
  BY <1>21 DEF RefreshClear, WorkerFrame
<1>22. CASE WorkerDown
  BY <1>22 DEF WorkerDown, WorkerFrame
<1>23. CASE WorkerSpawn
  BY <1>23 DEF WorkerSpawn
<1>24. CASE WorkerNoSkip
  BY <1>24 DEF WorkerNoSkip, WorkerFrame
<1>25. CASE WorkerTakeSkip
  BY <1>25 DEF WorkerTakeSkip, CloseDemuxer, WorkerFrame
<1>26. CASE SkipReset
  BY <1>26 DEF SkipReset, PlayoutReset, WorkerFrame, TypeOK, Playout
<1>27. CASE SkipClear
  BY <1>27 DEF SkipClear, UsesClient, WorkerFrame
<1>28. CASE SkipOpen
  BY <1>28 DEF SkipOpen, OpenSucceeds, OpenFails, CloseDemuxer,
    SkipFrame, WorkerFrame, UsesPlayout
<1>29. CASE ReadCall
  BY <1>29 DEF ReadCall, WorkerFrame
<1>30. CASE ReadPacket
  BY <1>30 DEF ReadPacket, UsesPlayout, WorkerFrame, TypeOK, Playout
<1>31. CASE ReadAborted
  BY <1>31 DEF ReadAborted, WorkerFrame
<1>32. CASE ReadError
  BY <1>32 DEF ReadError, UsesPlayout, WorkerFrame
<1>33. CASE ReadFailed
  <2>1. /\ worker = "failed"
        /\ \/ worker' = "top" /\ connected' = connected
           \/ worker' = "dropReset"
        /\ UNCHANGED <<kind, conn, doubled, abortBy, play>>
    BY <1>33 DEF ReadFailed, WorkerFrame
  <2> QED
    BY <2>1
<1>34. CASE DropReset
  BY <1>34 DEF DropReset, PlayoutReset, WorkerFrame, TypeOK, Playout
<1>35. CASE DropPicture
  BY <1>35 DEF DropPicture, WorkerFrame
<1>36. CASE ConnCheck
  BY <1>36 DEF ConnCheck, AttemptWanted, ConnFrame
<1>37. CASE ConnClose
  BY <1>37 DEF ConnClose, CloseDemuxer, UsesClient, PlayoutReset, ConnFrame,
    TypeOK, Playout
<1>38. CASE ConnOpen
  BY <1>38 DEF ConnOpen, OpenSucceeds, OpenFails, CloseDemuxer,
    OpenFrame, ConnFrame, UsesPlayout
<1>39. CASE ConnPublish
  BY <1>39 DEF ConnPublish, ConnFrame
<1>40. CASE ConnFinish
  BY <1>40 DEF ConnFinish, ConnFrame
<1>41. CASE ConnEnd
  BY <1>41 DEF ConnEnd, ClearInProgress, ConnFrame
<1>42. CASE DelayElapses
  BY <1>42 DEF DelayElapses
<1>43. CASE DecodeRestart
  BY <1>43 DEF DecodeRestart, UsesPlayout, PlayoutFrame, TypeOK, Playout
<1>44. CASE DecodeStart
  BY <1>44 DEF DecodeStart, DecodeReady, PlayoutFrame, UsesPlayout, TypeOK,
    Playout
<1>45. CASE DecodeFeed
  BY <1>45 DEF DecodeFeed, DecodeReady, PlayoutFrame, UsesPlayout, TypeOK,
    Playout
<1>46. CASE DecodePause
  BY <1>46 DEF DecodePause, DecodeReady, PlayoutFrame, UsesPlayout, TypeOK,
    Playout
<1>47. CASE Watchdog
  BY <1>47 DEF Watchdog, DecodeReady, RequestAbort, PlayoutFrame, UsesPlayout,
    TypeOK, Playout
<1>48. CASE Present
  BY <1>48 DEF Present, UsesPlayout, PlayoutFrame
<1>49. ASSUME NEW task \in BOOLEAN, NEW changed \in BOOLEAN,
             UiUpdate(task, changed)
      PROVE  WatchdogInv'
  <2>1. CASE Start
    BY <2>1 DEF Start, FreshPlayout
  <2>2. CASE ~Start
    <3>1. UNCHANGED <<attempt, demuxer, screen, kind, worker>>
      BY <1>49, <2>2, Zenon DEF UiUpdate
    <3> QED
      BY <3>1
  <2> QED
    BY <2>1, <2>2
<1>50. CASE UNCHANGED vars
  BY <1>50 DEF vars
<1>51. CASE UiSignalClient
  BY <1>51 DEF UiSignalClient, TellClient
<1>52. CASE StopClient
  BY <1>52 DEF StopClient, TellClient
<1>53. CASE RefreshAbort
  BY <1>53 DEF RefreshAbort, RequestAbort, WorkerFrame
<1>54. CASE RefreshSignal
  BY <1>54 DEF RefreshSignal, TellClient, WorkerFrame
<1>55. CASE SkipCreate
  BY <1>55 DEF SkipCreate, ClientCreated, SkipFrame, WorkerFrame
<1>56. CASE SkipStart
  BY <1>56 DEF SkipStart, ClientStarted, SkipFrame, WorkerFrame
<1>57. CASE SkipProbe
  BY <1>57 DEF SkipProbe, ClientOpens, FallBack, CloseDemuxer, SkipFrame,
    WorkerFrame
<1>58. CASE ConnCreate
  BY <1>58 DEF ConnCreate, ClientCreated, OpenFrame, ConnFrame
<1>59. CASE ConnStart
  BY <1>59 DEF ConnStart, ClientStarted, OpenFrame, ConnFrame
<1>60. CASE ConnProbe
  BY <1>60 DEF ConnProbe, ClientOpens, FallBack, CloseDemuxer, OpenFrame,
    ConnFrame
<1> QED
  BY <1>1, <1>2, <1>3, <1>4, <1>5, <1>6, <1>7, <1>8, <1>9, <1>10, <1>11, <1>12,
    <1>13, <1>14, <1>15, <1>16, <1>17, <1>18, <1>19, <1>20, <1>21, <1>22,
    <1>23, <1>24, <1>25, <1>26, <1>27, <1>28, <1>29, <1>30, <1>31, <1>32,
    <1>33, <1>34, <1>35, <1>36, <1>37, <1>38, <1>39, <1>40, <1>41, <1>42,
    <1>43, <1>44, <1>45, <1>46, <1>47, <1>48, <1>49, <1>50, <1>51, <1>52,
    <1>53, <1>54, <1>55, <1>56, <1>57, <1>58, <1>59, <1>60 DEF Next, UiThread,
    User, RequesterThread, Request, WorkerThread, Network, ConnThread, Server,
    PlayoutThreads

\* The watchdog's abort never lands in the attempt that replaces the connection
\* it gave up on.
THEOREM WatchdogSparesNew == Spec => []WatchdogSparesNewConnection
<1>1. LifecycleInv /\ WatchdogInv => WatchdogSparesNewConnection
  BY DEF WatchdogInv, WatchdogSparesNewConnection, WorkerOpens, ConnOpens
<1> QED
  BY InvInit, InvStep, WatchdogInit, WatchdogStep, <1>1, PTL DEF Spec
=============================================================================
