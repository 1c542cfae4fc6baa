-------------------------- MODULE Overlays_proofs --------------------------
(***************************************************************************)
(* What Overlays promises, for any number of changes of the settings and   *)
(* whatever the disconnect overlay waits for.                              *)
(***************************************************************************)
EXTENDS Overlays, TLAPS

\* A source whose stream is off has no connection, no picture and no thread
\* that is at work for it.
OffInv == ~on => ~connected /\ ~fed /\ ~picture /\ ~submit /\ worker = "rest"

\* A frame comes from what a connection has brought, and a reset empties that:
\* none is under way where the worker goes on after one.
FedInv ==
  /\ submit => fed
  /\ worker \in {"clear", "drop", "forget", "retry", "skip"} => ~fed

\* The picture of a stream is a frame that has been noted, or is just now.
EverInv == picture /\ ~submit => ever

\* What update() notes before it changes the settings stays true until it does,
\* unless the very first frame moves the question from loading to disconnect.
CoverInv == update = "apply" /\ ~raced => covered = Covers

\* The picture of a stream that is down is covered, but where somebody is on
\* the way to look at it: the worker, the thread that submits a frame, or an
\* update() that knows that it was covered before; and but where a refresh has
\* left it.
PictureInv ==
  worker # "drop" /\ ~submit /\ ~raced /\ ~left
    => \/ update \in {"applyLoad", "uncover"} /\ covered
       \/ picture /\ ~first => Covers

\* What update_source_toggles() has judged still fits the flags of the stream,
\* and as long as nothing else has been stored, the settings.
LookInv ==
  /\ raw # "unread" => sees # "rest"
  /\ sees = "rest" => news = "none"
  /\ raw = "neither" => frame
  /\ raw = "asking" /\ news = "none" => ever /\ disF
  /\ raw = "loading" /\ news = "none" => loadF \/ ~disF \/ ~ever

StreamInv == OffInv /\ FedInv /\ EverInv /\ CoverInv /\ PictureInv

OverlaysInv == TypeOK /\ StreamInv /\ LookInv

-----------------------------------------------------------------------------
\* A debouncer has one of its five values after any step.
LEMMA DebouncerType ==
  ASSUME NEW o \in Debouncer, NEW cond \in BOOLEAN
  PROVE  /\ Step(o, cond) \in Debouncer /\ Passed(o) \in Debouncer
         /\ Reset(cond) \in Debouncer
  BY OverlayAssumption DEF Debouncer, Step, Passed, Reset

\* The start: no picture, every debouncer off.
LEMMA InitInv == Init => OverlaysInv
<1> SUFFICES ASSUME Init PROVE OverlaysInv
  OBVIOUS
<1>1. TypeOK
  <2>1. /\ disF \in BOOLEAN /\ loadF \in BOOLEAN
        /\ {on, connected, first, ever, stalled, few, picture, submit,
            refresh, fed, frame, restarts, covered, raced, left}
             \subseteq BOOLEAN
    BY DEF Init
  <2>2. {dis, load} \subseteq Debouncer
    BY DEF Init, Reset, Debouncer
  <2>3. updates \in 0 .. MaxUpdates
    BY OverlayAssumption DEF Init
  <2> QED
    BY <2>1, <2>2, <2>3 DEF Init, TypeOK
<1>2. StreamInv /\ LookInv
  BY DEF Init, StreamInv, OffInv, FedInv, EverInv, CoverInv, PictureInv, LookInv
<1> QED
  BY <1>1, <1>2 DEF OverlaysInv

\* Every step keeps every variable in its shape.
LEMMA StepType == TypeOK /\ [Next]_vars => TypeOK'
<1> SUFFICES ASSUME TypeOK, [Next]_vars PROVE TypeOK'
  OBVIOUS
<1> USE DEF TypeOK
<1>1. CASE Start
  BY <1>1, DebouncerType DEF Start, updating, fallbacks, looked
<1>2. CASE Stop
  BY <1>2, DebouncerType DEF Stop, updating, fallbacks, looked
<1>3. CASE Connect
  BY <1>3 DEF Connect, updating, fallbacks, toggles, looked, history
<1>4. CASE AttemptsFail
  BY <1>4 DEF AttemptsFail, updating, fallbacks, toggles, looked, history
<1>5. CASE Frame
  BY <1>5 DEF Frame, updating, fallbacks, toggles, looked, history
<1>6. CASE NoteFrame
  <2>1. raced' \in BOOLEAN
    <3>1. raced \in BOOLEAN
      OBVIOUS
    <3> HIDE DEF TypeOK
    <3> QED
      BY <1>6, <3>1, Zenon DEF NoteFrame
  <2>2. /\ first' = TRUE /\ ever' = TRUE /\ submit' = FALSE /\ left' = FALSE
        /\ news' \in {news, "flags"}
        /\ UNCHANGED <<on, connected, stalled, few, fed, worker, refresh,
                      picture, disF, loadF, sees, raw, frame, dis, load,
                      update, restarts, covered, updates>>
    BY <1>6 DEF NoteFrame, News, updating, fallbacks, toggles, looked
  <2>3. ({on, connected, first, ever, stalled, few, fed, picture, disF, loadF,
          submit, refresh, frame, restarts, covered, left} \subseteq BOOLEAN)'
    BY <2>2
  <2>4. ({on, connected, first, ever, stalled, few, fed, picture, disF, loadF,
          submit, refresh, frame, restarts, covered, raced, left}
           \subseteq BOOLEAN)'
    <3> HIDE DEF TypeOK
    <3> QED
      BY <2>1, <2>3, Zenon
  <2>5. (/\ worker \in {"rest", "reset", "clear", "drop", "join", "refresh",
                      "forget", "retry", "skip"}
         /\ sees \in {"rest", "up", "down"}
         /\ raw \in {"unread", "asking", "loading", "disconnect", "neither"}
         /\ {dis, load} \subseteq Debouncer
         /\ update \in {"rest", "apply", "applyLoad", "uncover", "restart"}
         /\ updates \in 0 .. MaxUpdates
         /\ news \in {"none", "loading", "flags"})'
    BY <2>2
  <2> QED
    BY <2>4, <2>5, Zenon
<1>7. CASE Stall
  BY <1>7 DEF Stall, updating, fallbacks, toggles, looked, history
<1>8. CASE Lose
  BY <1>8 DEF Lose, updating, fallbacks, toggles, looked, history
<1>9. CASE WorkerGoesOn
  BY <1>9 DEF WorkerGoesOn, ResetPlayout, ClearFirst, WorkerDrops, DropPicture,
              updating, fallbacks, toggles, looked, history
<1>10. CASE Refreshing
  BY <1>10 DEF Refreshing, AskRefresh, TakeRefresh, Disconnect, ForgetFirst,
               RefreshEnds, stream, updating, fallbacks, toggles, looked,
               history
<1>11. CASE Skipping
  BY <1>11 DEF Skipping, Skip, SkipEnds, updating, fallbacks, toggles, looked,
               history
<1>12. CASE Look
  BY <1>12 DEF Look, stream, fallbacks, updating, history
<1>13. CASE Judge
  BY <1>13 DEF Judge, stream, fallbacks, updating, history
<1>14. CASE Ask
  BY <1>14 DEF Ask, stream, fallbacks, updating, history
<1>15. CASE Decide
  <2>1. /\ dis' \in Debouncer /\ load' \in Debouncer
    <3>1. /\ TRUE \in BOOLEAN /\ FALSE \in BOOLEAN
          /\ Reset(TRUE) \in Debouncer /\ Reset(FALSE) \in Debouncer
      BY DEF Reset, Debouncer
    <3>2. \A o \in Debouncer : \A c : Step(o, c) \in Debouncer
      BY OverlayAssumption DEF Step, Debouncer
    <3> QED
      BY <1>15, <3>1, <3>2 DEF Decide
  <2>2. picture' \in BOOLEAN /\ left' \in BOOLEAN
    BY <1>15 DEF Decide, DropPicture
  <2>3. /\ UNCHANGED <<on, connected, first, ever, stalled, few, fed, worker,
                      submit, refresh, disF, loadF, update, restarts, covered,
                      updates, raced>>
        /\ sees' = "rest" /\ raw' = "unread" /\ frame' = FALSE /\ news' = "none"
    BY <1>15 DEF Decide, stream, fallbacks, updating
  <2> QED
    BY <2>1, <2>2, <2>3
<1>16. CASE Time
  BY <1>16, DebouncerType DEF Time, stream, fallbacks, updating, looked, history
<1>17. CASE Update
  <2>1. covered' \in BOOLEAN /\ update' = "apply"
    BY <1>17 DEF Update, Covers
  <2>2. updates' \in 0 .. MaxUpdates
    BY <1>17, OverlayAssumption DEF Update
  <2> QED
    BY <1>17, <2>1, <2>2 DEF Update, stream, fallbacks, toggles, looked, history
<1>18. CASE ApplyDisconnect
  BY <1>18 DEF ApplyDisconnect, News, stream, toggles, looked
<1>19. CASE ApplyLoading
  BY <1>19 DEF ApplyLoading, News, stream, toggles, looked
<1>20. CASE Uncover
  <2>1. picture' \in BOOLEAN /\ left' \in BOOLEAN
    BY <1>20 DEF Uncover, DropPicture
  <2> QED
    BY <1>20, <2>1 DEF Uncover, stream, fallbacks, toggles, looked
<1>21. CASE Restart
  BY <1>21 DEF Restart, stream, fallbacks, toggles, looked, history
<1>22. CASE UNCHANGED vars
  BY <1>22 DEF vars, stream, fallbacks, toggles, looked, updating, history
<1> QED
  BY <1>1, <1>2, <1>3, <1>4, <1>5, <1>6, <1>7, <1>8, <1>9, <1>10, <1>11, <1>12,
     <1>13, <1>14, <1>15, <1>16, <1>17, <1>18, <1>19, <1>20, <1>21, <1>22
     DEF Next, Toggles, UpdateGoesOn

\* Every step keeps what is known of the picture and of who looks after it.
LEMMA StepStream == TypeOK /\ StreamInv /\ [Next]_vars => StreamInv'
<1> SUFFICES ASSUME TypeOK, StreamInv, [Next]_vars PROVE StreamInv'
  OBVIOUS
<1> USE DEF StreamInv, OffInv, FedInv, EverInv, CoverInv, PictureInv, Covers
<1>0. {on, connected, first, ever, fed, picture, disF, loadF, submit, covered,
       raced, left} \subseteq BOOLEAN
  BY DEF TypeOK
<1>1. CASE Start
  BY <1>0, <1>1 DEF Start, updating, fallbacks, looked
<1>2. CASE Stop
  BY <1>0, <1>2 DEF Stop, updating, fallbacks, looked
<1>3. CASE Connect
  BY <1>0, <1>3 DEF Connect, updating, fallbacks, toggles, looked, history
<1>4. CASE AttemptsFail
  BY <1>0, <1>4 DEF AttemptsFail, updating, fallbacks, toggles, looked, history
<1>5. CASE Frame
  BY <1>0, <1>5 DEF Frame, updating, fallbacks, toggles, looked, history
<1>6. CASE NoteFrame
  BY <1>0, <1>6 DEF NoteFrame, News, updating, fallbacks, toggles, looked
<1>7. CASE Stall
  BY <1>0, <1>7 DEF Stall, updating, fallbacks, toggles, looked, history
<1>8. CASE Lose
  BY <1>0, <1>8 DEF Lose, updating, fallbacks, toggles, looked, history
<1>9. CASE ResetPlayout
  BY <1>0, <1>9 DEF ResetPlayout, updating, fallbacks, toggles, looked, history
<1>10. CASE ClearFirst
  BY <1>0, <1>10 DEF ClearFirst, updating, fallbacks, toggles, looked, history
<1>11. CASE WorkerDrops
  BY <1>0, <1>11 DEF WorkerDrops, DropPicture, updating, fallbacks, toggles,
                     looked
<1>12. CASE AskRefresh
  BY <1>0, <1>12 DEF AskRefresh, stream, updating, fallbacks, toggles, looked,
                     history
<1>13. CASE TakeRefresh
  BY <1>0, <1>13 DEF TakeRefresh, updating, fallbacks, toggles, looked, history
<1>14. CASE Disconnect
  BY <1>0, <1>14 DEF Disconnect, updating, fallbacks, toggles, looked, history
<1>15. CASE ForgetFirst
  BY <1>0, <1>15 DEF ForgetFirst, updating, fallbacks, toggles, looked
<1>16. CASE RefreshEnds
  BY <1>0, <1>16 DEF RefreshEnds, updating, fallbacks, toggles, looked, history
<1>17. CASE Skip
  BY <1>0, <1>17 DEF Skip, updating, fallbacks, toggles, looked, history
<1>18. CASE SkipEnds
  BY <1>0, <1>18 DEF SkipEnds, updating, fallbacks, toggles, looked, history
<1>19. CASE Look
  BY <1>0, <1>19 DEF Look, stream, fallbacks, updating, history
<1>20. CASE Judge
  BY <1>0, <1>20 DEF Judge, stream, fallbacks, updating, history
<1>21. CASE Ask
  BY <1>0, <1>21 DEF Ask, stream, fallbacks, updating, history
<1>22. CASE Decide
  BY <1>0, <1>22 DEF Decide, DropPicture, stream, fallbacks, updating
<1>23. CASE Time
  BY <1>0, <1>23 DEF Time, stream, fallbacks, updating, looked, history
<1>24. CASE Update
  BY <1>0, <1>24 DEF Update, stream, fallbacks, toggles, looked, history
<1>25. CASE ApplyDisconnect
  BY <1>0, <1>25 DEF ApplyDisconnect, News, stream, toggles, looked
<1>26. CASE ApplyLoading
  BY <1>0, <1>26 DEF ApplyLoading, News, stream, toggles, looked
<1>27. CASE Uncover
  BY <1>0, <1>27 DEF Uncover, WasCovered, DropPicture, stream, fallbacks,
                     toggles, looked
<1>28. CASE Restart
  BY <1>0, <1>28 DEF Restart, stream, fallbacks, toggles, looked, history
<1>29. CASE UNCHANGED vars
  BY <1>0, <1>29 DEF vars, stream, fallbacks, toggles, looked, updating, history
<1> QED
  BY <1>1, <1>2, <1>3, <1>4, <1>5, <1>6, <1>7, <1>8, <1>9, <1>10, <1>11,
     <1>12, <1>13, <1>14, <1>15, <1>16, <1>17, <1>18, <1>19, <1>20, <1>21,
     <1>22, <1>23, <1>24, <1>25, <1>26, <1>27, <1>28, <1>29
     DEF Next, WorkerGoesOn, Refreshing, Skipping, Toggles, UpdateGoesOn

\* Every step keeps what is known of a look that is under way.
LEMMA StepLook == TypeOK /\ LookInv /\ [Next]_vars => LookInv'
<1> SUFFICES ASSUME TypeOK, LookInv, [Next]_vars PROVE LookInv'
  OBVIOUS
<1> USE DEF LookInv
<1>0. /\ {first, ever, disF, loadF, frame} \subseteq BOOLEAN
      /\ sees \in {"rest", "up", "down"}
      /\ news \in {"none", "loading", "flags"}
  BY DEF TypeOK
<1>1. CASE Start
  BY <1>0, <1>1 DEF Start, updating, fallbacks, looked
<1>2. CASE Stop
  BY <1>0, <1>2 DEF Stop, updating, fallbacks, looked
<1>3. CASE Connect
  BY <1>0, <1>3 DEF Connect, updating, fallbacks, toggles, looked, history
<1>4. CASE AttemptsFail
  BY <1>0, <1>4 DEF AttemptsFail, updating, fallbacks, toggles, looked, history
<1>5. CASE Frame
  BY <1>0, <1>5 DEF Frame, updating, fallbacks, toggles, looked, history
<1>6. CASE NoteFrame
  BY <1>0, <1>6 DEF NoteFrame, News, updating, fallbacks, toggles, looked
<1>7. CASE Stall
  BY <1>0, <1>7 DEF Stall, updating, fallbacks, toggles, looked, history
<1>8. CASE Lose
  BY <1>0, <1>8 DEF Lose, updating, fallbacks, toggles, looked, history
<1>9. CASE ResetPlayout
  BY <1>0, <1>9 DEF ResetPlayout, updating, fallbacks, toggles, looked, history
<1>10. CASE ClearFirst
  BY <1>0, <1>10 DEF ClearFirst, updating, fallbacks, toggles, looked, history
<1>11. CASE WorkerDrops
  BY <1>0, <1>11 DEF WorkerDrops, DropPicture, updating, fallbacks, toggles,
                     looked
<1>12. CASE AskRefresh
  BY <1>0, <1>12 DEF AskRefresh, stream, updating, fallbacks, toggles, looked,
                     history
<1>13. CASE TakeRefresh
  BY <1>0, <1>13 DEF TakeRefresh, updating, fallbacks, toggles, looked, history
<1>14. CASE Disconnect
  BY <1>0, <1>14 DEF Disconnect, updating, fallbacks, toggles, looked, history
<1>15. CASE ForgetFirst
  BY <1>0, <1>15 DEF ForgetFirst, updating, fallbacks, toggles, looked
<1>16. CASE RefreshEnds
  BY <1>0, <1>16 DEF RefreshEnds, updating, fallbacks, toggles, looked, history
<1>17. CASE Skip
  BY <1>0, <1>17 DEF Skip, updating, fallbacks, toggles, looked, history
<1>18. CASE SkipEnds
  BY <1>0, <1>18 DEF SkipEnds, updating, fallbacks, toggles, looked, history
<1>19. CASE Look
  BY <1>0, <1>19 DEF Look, stream, fallbacks, updating, history
<1>20. CASE Judge
  BY <1>0, <1>20 DEF Judge, MayWait, Buffering, InitialConnecting, stream,
                     fallbacks, updating, history
<1>21. CASE Ask
  BY <1>0, <1>21 DEF Ask, stream, fallbacks, updating, history
<1>22. CASE Decide
  BY <1>0, <1>22 DEF Decide, DropPicture, stream, fallbacks, updating
<1>23. CASE Time
  BY <1>0, <1>23 DEF Time, stream, fallbacks, updating, looked, history
<1>24. CASE Update
  BY <1>0, <1>24 DEF Update, stream, fallbacks, toggles, looked, history
<1>25. CASE ApplyDisconnect
  BY <1>0, <1>25 DEF ApplyDisconnect, News, stream, toggles, looked
<1>26. CASE ApplyLoading
  BY <1>0, <1>26 DEF ApplyLoading, News, stream, toggles, looked
<1>27. CASE Uncover
  BY <1>0, <1>27 DEF Uncover, WasCovered, DropPicture, stream, fallbacks,
                     toggles, looked
<1>28. CASE Restart
  BY <1>0, <1>28 DEF Restart, stream, fallbacks, toggles, looked, history
<1>29. CASE UNCHANGED vars
  BY <1>0, <1>29 DEF vars, stream, fallbacks, toggles, looked, updating, history
<1> QED
  BY <1>1, <1>2, <1>3, <1>4, <1>5, <1>6, <1>7, <1>8, <1>9, <1>10, <1>11,
     <1>12, <1>13, <1>14, <1>15, <1>16, <1>17, <1>18, <1>19, <1>20, <1>21,
     <1>22, <1>23, <1>24, <1>25, <1>26, <1>27, <1>28, <1>29
     DEF Next, WorkerGoesOn, Refreshing, Skipping, Toggles, UpdateGoesOn

-----------------------------------------------------------------------------
\* What OverlaysInv says of the picture is more than the property asks.
LEMMA InvImplies == OverlaysInv => NoBareFrozenPicture
  BY DEF OverlaysInv, StreamInv, PictureInv, NoBareFrozenPicture,
         FrozenIsCovered

\* A disconnect overlay that goes out gives way to loading, or the stream had
\* its picture again, or there is no fallback that it could give way to.
LEMMA StepCovers ==
  ASSUME OverlaysInv, [Next]_vars
  PROVE  [on /\ IsShown(dis) /\ ~IsShown(dis') /\ HasFallback /\ news = "none"
            => frame \/ IsShown(load')]_vars
<1> SUFFICES ASSUME Next, on, IsShown(dis), ~IsShown(dis'), HasFallback,
                    news = "none", ~frame
             PROVE  IsShown(load')
  BY DEF vars, toggles
<1>1. dis' # dis
  OBVIOUS
<1>2. CASE Decide
  <2> DEFINE takesOver == IsShown(dis) /\ raw = "loading" /\ loadF
             d == IF takesOver THEN Reset(FALSE)
                               ELSE Step(dis, raw = "disconnect")
  <2>1. dis' = d /\ load' = Step(IF takesOver THEN Reset(TRUE) ELSE load,
                                raw = "loading" /\ ~IsShown(d))
    BY <1>2 DEF Decide
  <2>2. takesOver
    <3>1. ASSUME ~takesOver PROVE FALSE
      <4>1. dis' = Step(dis, raw = "disconnect")
        BY <2>1, <3>1
      <4>2. raw # "disconnect"
        BY <4>1, <1>1 DEF Step, IsShown
      <4>3. raw = "loading"
        BY <4>2, <1>2 DEF Decide, OverlaysInv, LookInv
      <4>4. ~loadF
        BY <3>1, <4>3
      <4>5. disF /\ ever
        BY <4>4 DEF HasFallback
      <4> QED
        BY <4>3, <4>4, <4>5 DEF OverlaysInv, LookInv
    <3> QED
      BY <3>1
  <2>3. IsShown(Step(Reset(TRUE), TRUE))
    BY DEF IsShown, Step, Reset
  <2>4. ~IsShown(Reset(FALSE))
    BY DEF IsShown, Reset
  <2>5. load' = Step(Reset(TRUE), raw = "loading" /\ ~IsShown(Reset(FALSE)))
    BY <2>1, <2>2
  <2>6. (raw = "loading" /\ ~IsShown(Reset(FALSE))) = TRUE
    BY <2>2, <2>4
  <2> QED
    BY <2>3, <2>5, <2>6
<1>3. CASE Start
  BY <1>3 DEF Start
<1>4. CASE Time
  BY <1>4 DEF Time, Passed, IsShown
<1>5. CASE Stop \/ Connect \/ AttemptsFail \/ Frame \/ NoteFrame \/ Stall
  BY <1>1, <1>5
     DEF Stop, Connect, AttemptsFail, Frame, NoteFrame, Stall, toggles
<1>6. CASE Lose \/ WorkerGoesOn \/ Refreshing \/ Skipping
  BY <1>1, <1>6
     DEF Lose, WorkerGoesOn, ResetPlayout, ClearFirst, WorkerDrops, Refreshing,
         AskRefresh, TakeRefresh, Disconnect, ForgetFirst, RefreshEnds,
         Skipping, Skip, SkipEnds, toggles
<1>7. CASE Look \/ Judge \/ Ask \/ Update \/ UpdateGoesOn
  BY <1>1, <1>7
     DEF Look, Judge, Ask, Update, UpdateGoesOn, ApplyDisconnect, ApplyLoading,
         Uncover, Restart, toggles
<1> QED
  BY <1>2, <1>3, <1>4, <1>5, <1>6, <1>7 DEF Next, Toggles

-----------------------------------------------------------------------------
\* The invariant of the overlays holds in every state of every behaviour.
THEOREM Invariance == Spec => []OverlaysInv
<1>1. OverlaysInv /\ [Next]_vars => OverlaysInv'
  BY StepType, StepStream, StepLook DEF OverlaysInv
<1> QED
  BY InitInv, <1>1, PTL DEF Spec

\* Every variable keeps its shape.
THEOREM TypeCorrect == Spec => []TypeOK
<1>1. OverlaysInv => TypeOK
  BY DEF OverlaysInv
<1> QED
  BY Invariance, <1>1, PTL

\* However a loss, the overlays' decisions and a change of settings meet, no
\* frozen picture of the stream is left that no fallback covers, see
\* drop_picture() and fallback_covers_picture(); but for the picture that a
\* refresh keeps, and a change during which the very first frame comes.
THEOREM NoFrozenPictureIsBare == Spec => []NoBareFrozenPicture
  BY Invariance, InvImplies, PTL

\* The disconnect overlay goes out for a frame or for loading, whatever happens
\* to the connection after update_source_toggles() has read it, as long as no
\* settings are stored and no frame is noted while it is at work.
THEOREM OverlaysHandOver == Spec => HandsOver
<1>1. OverlaysInv /\ [Next]_vars
        => [on /\ IsShown(dis) /\ ~IsShown(dis') /\ HasFallback /\ news = "none"
              => frame \/ IsShown(load')]_vars
  BY StepCovers
<1> QED
  BY Invariance, <1>1, PTL DEF Spec, HandsOver
=============================================================================
