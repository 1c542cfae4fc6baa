------------------------------ MODULE Overlays ------------------------------
(***************************************************************************)
(* What the viewers of a source see when its stream starts, stalls, is     *)
(* lost and comes back: the picture OBS holds, and the overlays that cover *)
(* it, with their debouncers.  The threads are the worker, the present     *)
(* thread, whoever runs update_source_toggles() under toggle_mutex_ (the   *)
(* overlay thread and the worker), and the caller of update().             *)
(*                                                                         *)
(* Time is what a debouncer waits for.  Left out are low bitrate, which    *)
(* shows only where both overlays are down, the scene items that older     *)
(* settings name, but for what they do to the picture, the blur, WHEP, see *)
(* WhepSession, and frames that outlive a reset, see PlayoutHandoff.       *)
(* Dropping the picture is one step with the look whether a fallback       *)
(* covers it, and Judge reads the flags of the stream in one.  What the    *)
(* fallback layer is told follows from the debouncers; how it draws is     *)
(* FallbackLayer.                                                          *)
(***************************************************************************)
EXTENDS Naturals

CONSTANTS
  Grace,       \* disconnect_grace_ms_ is more than zero
  Named,       \* a scene item is named for the disconnect overlay
  MaxUpdates   \* bound: changes of the settings

ASSUME OverlayAssumption ==
  /\ Grace \in BOOLEAN /\ Named \in BOOLEAN /\ MaxUpdates \in Nat

VARIABLES
  on,          \* running_
  connected,   \* connected_
  first, ever, \* first_frame_received_, ever_received_frame_
  stalled,     \* playout_stalled_
  few,         \* no more than two attempts have been made
  fed,         \* the playout has what a connection brought
  picture,     \* OBS holds a frame of the stream
  disF, loadF, \* disconnect_fallback_, loading_fallback_
  refresh,     \* pending_refresh_
  worker,      \* what the worker does about a loss, a refresh or a skip
  submit,      \* the present thread has put a frame out and goes on
  sees,        \* update_source_toggles(): connected_ as read, or "rest"
  raw,         \* which of loading_raw and dis_raw it has set, if any
  frame,       \* first_frame, as it has read it
  dis, load,   \* the debouncers
  update,      \* what update() is at
  restarts,    \* is_refresh
  covered,     \* was_covered
  updates,
  raced,       \* history: the very first frame came during an update()
  left,        \* history: a refresh has left the picture where it was
  news         \* history: what came while update_source_toggles() was at work
               \* that it asks for: settings of loading, or anything else

stream == <<on, connected, first, ever, stalled, few, fed, worker, submit>>
fallbacks == <<disF, loadF>>
looked == <<sees, raw, frame>>
toggles == <<looked, dis, load>>
updating == <<update, restarts, covered, updates>>
history == <<raced, left, news>>
vars == <<stream, refresh, picture, fallbacks, toggles, updating, history>>

\* OverlayDebouncer: off, with its condition there for a while or for long
\* enough, or on, for a while or for long enough
Debouncer == {"off", "coming", "due", "on", "ripe"}

IsShown(o) == o \in {"on", "ripe"}

\* reset()
Reset(state) == IF state THEN "on" ELSE "off"

Init ==
  /\ disF \in BOOLEAN /\ loadF \in BOOLEAN
  /\ on = FALSE /\ connected = FALSE /\ first = FALSE /\ ever = FALSE
  /\ stalled = FALSE /\ few = TRUE /\ fed = FALSE /\ picture = FALSE
  /\ refresh = FALSE /\ worker = "rest" /\ submit = FALSE
  /\ sees = "rest" /\ raw = "unread" /\ frame = FALSE
  /\ dis = Reset(FALSE) /\ load = Reset(FALSE)
  /\ update = "rest" /\ restarts = FALSE
  /\ covered = FALSE /\ updates = 0
  /\ raced = FALSE /\ left = FALSE /\ news = "none"

\* fallback_covers_picture()
Covers == IF ever THEN disF ELSE loadF

DropPicture == picture' = (picture /\ Covers) /\ left' = FALSE

News(what) == IF sees = "rest" \/ news = "flags" THEN news ELSE what

-----------------------------------------------------------------------------
(* The stream                                                              *)

Start ==
  /\ ~on /\ update = "rest"
  /\ on' = TRUE /\ few' = TRUE /\ raced' = FALSE
  /\ dis' = Reset(FALSE) /\ load' = Reset(FALSE)
  /\ UNCHANGED <<connected, first, ever, stalled, fed, worker, submit, refresh,
                 picture, fallbacks, looked, updating, left, news>>

\* stop_stream(), once its threads have ended
Stop ==
  /\ on /\ update = "rest" /\ worker = "rest" /\ ~submit
  /\ sees = "rest"
  /\ on' = FALSE /\ connected' = FALSE /\ first' = FALSE /\ ever' = FALSE
  /\ stalled' = FALSE /\ fed' = FALSE /\ picture' = FALSE /\ left' = FALSE
  /\ load' = Reset(FALSE)
  /\ UNCHANGED <<few, worker, submit, refresh, fallbacks, looked, dis,
                 updating, raced, news>>

\* The connect thread; the worker may be at its end already, for a refresh
Connect ==
  /\ on /\ ~connected /\ worker \in {"rest", "join"}
  /\ connected' = TRUE /\ few' = TRUE /\ fed' = TRUE
  /\ UNCHANGED <<on, first, ever, stalled, worker, submit, refresh, picture,
                 fallbacks, toggles, updating, history>>

AttemptsFail ==
  /\ on /\ ~connected /\ few /\ ~ever
  /\ few' = FALSE
  /\ UNCHANGED <<on, connected, first, ever, stalled, fed, worker, submit,
                 refresh, picture, fallbacks, toggles, updating, history>>

\* The present thread submits a frame and notes it
Frame ==
  /\ fed /\ ~submit
  /\ picture' = TRUE /\ submit' = TRUE
  /\ UNCHANGED <<on, connected, first, ever, stalled, few, fed, worker,
                 refresh, fallbacks, toggles, updating, history>>

NoteFrame ==
  /\ submit
  /\ first' = TRUE /\ ever' = TRUE /\ submit' = FALSE
  /\ raced' = (raced \/ (~ever /\ update \in {"apply", "applyLoad", "uncover"}))
  /\ left' = FALSE /\ news' = News("flags")
  /\ UNCHANGED <<on, connected, stalled, few, fed, worker, refresh, picture,
                 fallbacks, toggles, updating>>

\* The buffer runs empty, or has filled again
Stall ==
  /\ fed /\ first
  /\ stalled' = ~stalled
  /\ UNCHANGED <<on, connected, first, ever, few, fed, worker, submit, refresh,
                 picture, fallbacks, toggles, updating, history>>

\* A read fails, and not because a refresh has aborted it
Lose ==
  /\ connected /\ worker = "rest" /\ ~refresh
  /\ connected' = FALSE /\ worker' = "reset"
  /\ UNCHANGED <<on, first, ever, stalled, few, fed, submit, refresh, picture,
                 fallbacks, toggles, updating, history>>

\* playout_reset() waits for the frame that is being submitted
ResetPlayout ==
  /\ worker \in {"reset", "refresh"} /\ ~submit
  /\ stalled' = FALSE /\ fed' = FALSE
  /\ worker' = IF worker = "reset" THEN "clear" ELSE "forget"
  /\ UNCHANGED <<on, connected, first, ever, few, submit, refresh, picture,
                 fallbacks, toggles, updating, history>>

ClearFirst ==
  /\ worker = "clear"
  /\ first' = FALSE /\ worker' = "drop"
  /\ UNCHANGED <<on, connected, ever, stalled, few, fed, submit, refresh,
                 picture, fallbacks, toggles, updating, history>>

WorkerDrops ==
  /\ worker = "drop"
  /\ DropPicture /\ worker' = "rest"
  /\ UNCHANGED <<on, connected, first, ever, stalled, few, fed, submit,
                 refresh, fallbacks, toggles, updating, raced, news>>

-----------------------------------------------------------------------------
(* A refresh and a skip to live: the picture is to stay                    *)

\* The button, or a remote command
AskRefresh ==
  /\ ~refresh
  /\ refresh' = TRUE
  /\ UNCHANGED <<stream, picture, fallbacks, toggles, updating, history>>

\* The worker waits for the connect thread
TakeRefresh ==
  /\ on /\ refresh /\ worker = "rest"
  /\ refresh' = FALSE /\ worker' = "join"
  /\ UNCHANGED <<on, connected, first, ever, stalled, few, fed, submit, picture,
                 fallbacks, toggles, updating, history>>

Disconnect ==
  /\ worker = "join"
  /\ connected' = FALSE /\ worker' = "refresh"
  /\ UNCHANGED <<on, first, ever, stalled, few, fed, submit, refresh, picture,
                 fallbacks, toggles, updating, history>>

ForgetFirst ==
  /\ worker = "forget"
  /\ first' = FALSE /\ left' = picture /\ worker' = "retry"
  /\ UNCHANGED <<on, connected, ever, stalled, few, fed, submit, refresh,
                 picture, fallbacks, toggles, updating, raced, news>>

RefreshEnds ==
  /\ worker = "retry"
  /\ few' = TRUE /\ worker' = "rest"
  /\ UNCHANGED <<on, connected, first, ever, stalled, fed, submit, refresh,
                 picture, fallbacks, toggles, updating, history>>

\* An in-place reconnect keeps connected_ and first_frame_received_ ...
Skip ==
  /\ connected /\ worker = "rest" /\ ~submit
  /\ stalled' = FALSE /\ fed' = FALSE /\ worker' = "skip"
  /\ UNCHANGED <<on, connected, first, ever, few, submit, refresh, picture,
                 fallbacks, toggles, updating, history>>

\* ... unless it fails
SkipEnds ==
  /\ worker = "skip"
  /\ connected' \in BOOLEAN /\ fed' = connected' /\ worker' = "rest"
  /\ UNCHANGED <<on, first, ever, stalled, few, submit, refresh, picture,
                 fallbacks, toggles, updating, history>>

-----------------------------------------------------------------------------
(* update_source_toggles()                                                 *)

\* OverlayDebouncer::step()
Step(o, cond) ==
  CASE cond /\ o = "off" -> IF Grace THEN "coming" ELSE "on"
    [] cond /\ o = "due" -> "on"
    [] ~cond /\ o \in {"coming", "due", "ripe"} -> "off"
    [] OTHER -> o

\* It begins with connected_
Look ==
  /\ on /\ sees = "rest"
  /\ sees' = IF connected THEN "up" ELSE "down"
  /\ UNCHANGED <<stream, refresh, picture, fallbacks, raw, frame, dis, load,
                 updating, history>>

Buffering == sees = "up" /\ ~first

\* What-if: buffering always brings loading
NeverWaits == FALSE

\* With nothing to take over, disconnect waits for the picture itself
MayWait == Buffering /\ ever /\ disF

InitialConnecting == ~ever /\ few

\* The flags of the stream and disconnect_fallback_
Judge ==
  /\ sees # "rest" /\ raw = "unread"
  /\ raw' = CASE MayWait -> "asking"
              [] ~MayWait /\ (Buffering \/ InitialConnecting) -> "loading"
              [] ~Buffering /\ ~InitialConnecting
                   /\ (sees = "down" \/ (stalled /\ first)) -> "disconnect"
              [] OTHER -> "neither"
  /\ frame' = first
  /\ UNCHANGED <<stream, refresh, picture, fallbacks, sees, dis, load,
                 updating, history>>

\* loading_fallback_, for whether anything takes over
Ask ==
  /\ raw = "asking"
  /\ raw' = IF loadF THEN "loading" ELSE "disconnect"
  /\ UNCHANGED <<stream, refresh, picture, fallbacks, sees, frame, dis, load,
                 updating, history>>

\* Disconnect goes first; with it up and the stream back, loading takes over,
\* if loading_fallback_, read once more, still has something to draw
Decide ==
  LET takesOver == IsShown(dis) /\ raw = "loading" /\ loadF
      d == IF takesOver THEN Reset(FALSE) ELSE Step(dis, raw = "disconnect")
      l == Step(IF takesOver THEN Reset(TRUE) ELSE load,
                raw = "loading" /\ ~IsShown(d))
  IN  /\ raw \in {"loading", "disconnect", "neither"}
      /\ dis' = d /\ load' = l
      /\ IF IsShown(d) /\ ~IsShown(dis) /\ (sees = "down" \/ Named)
           THEN DropPicture ELSE UNCHANGED <<picture, left>>
      /\ sees' = "rest" /\ raw' = "unread" /\ frame' = FALSE
      /\ news' = "none"
      /\ UNCHANGED <<stream, refresh, fallbacks, updating, raced>>

\* What a debouncer waits for has passed
Passed(o) == CASE o = "coming" -> "due" [] o = "on" -> "ripe" [] OTHER -> o

Time ==
  /\ <<dis, load>> # <<Passed(dis), Passed(load)>>
  /\ \/ dis' = Passed(dis) /\ UNCHANGED load
     \/ load' = Passed(load) /\ UNCHANGED dis
  /\ UNCHANGED <<stream, refresh, picture, fallbacks, looked, updating,
                 history>>

-----------------------------------------------------------------------------
(* update(): the settings                                                  *)

\* A refresh that is pending makes it restart the stream
Update ==
  /\ update = "rest" /\ updates < MaxUpdates
  /\ updates' = updates + 1
  /\ refresh' = FALSE /\ restarts' = refresh
  /\ covered' = Covers
  /\ update' = "apply"
  /\ UNCHANGED <<stream, picture, fallbacks, toggles, history>>

\* apply_fallback_settings(): of each fallback, whether it draws anything itself
ApplyDisconnect ==
  /\ update = "apply"
  /\ disF' \in BOOLEAN /\ update' = "applyLoad" /\ news' = News("flags")
  /\ UNCHANGED <<stream, refresh, picture, loadF, toggles, restarts, covered,
                 updates, raced, left>>

ApplyLoading ==
  /\ update = "applyLoad"
  /\ loadF' \in BOOLEAN /\ update' = "uncover" /\ news' = News("loading")
  /\ UNCHANGED <<stream, refresh, picture, disF, toggles, restarts, covered,
                 updates, raced, left>>

\* What-if: the picture counts as covered by what draws from now on
NowCovered == Covers

WasCovered == covered

\* Nothing is left to draw over a picture of a stream that is down
Uncover ==
  /\ update = "uncover"
  /\ IF WasCovered /\ ~first THEN DropPicture ELSE UNCHANGED <<picture, left>>
  /\ update' = "restart" /\ covered' = FALSE
  /\ UNCHANGED <<stream, refresh, fallbacks, toggles, restarts, updates, raced,
                 news>>

\* A stream that runs is restarted by its worker; a setting may ask for it too
Restart ==
  /\ update = "restart"
  /\ \E needs_restart \in {TRUE, restarts} :
       refresh' = (refresh \/ (on /\ needs_restart))
  /\ update' = "rest" /\ restarts' = FALSE
  /\ UNCHANGED <<stream, picture, fallbacks, toggles, covered, updates,
                 history>>

-----------------------------------------------------------------------------
WorkerGoesOn == ResetPlayout \/ ClearFirst \/ WorkerDrops
Refreshing ==
  AskRefresh \/ TakeRefresh \/ Disconnect \/ ForgetFirst \/ RefreshEnds
Skipping == Skip \/ SkipEnds
Toggles == Look \/ Judge \/ Ask \/ Decide
UpdateGoesOn == ApplyDisconnect \/ ApplyLoading \/ Uncover \/ Restart

Next ==
  \/ Start \/ Stop \/ Connect \/ AttemptsFail \/ Frame \/ NoteFrame \/ Stall
  \/ Lose \/ WorkerGoesOn \/ Refreshing \/ Skipping \/ Toggles \/ Time
  \/ Update \/ UpdateGoesOn

Spec == Init /\ [][Next]_vars

-----------------------------------------------------------------------------
(* Properties                                                              *)

\* Every variable keeps its shape
TypeOK ==
  /\ {on, connected, first, ever, stalled, few, fed, picture, disF, loadF,
      submit, refresh, frame, restarts, covered, raced, left} \subseteq BOOLEAN
  /\ worker \in {"rest", "reset", "clear", "drop", "join", "refresh", "forget",
                 "retry", "skip"}
  /\ sees \in {"rest", "up", "down"}
  /\ raw \in {"unread", "asking", "loading", "disconnect", "neither"}
  /\ {dis, load} \subseteq Debouncer
  /\ update \in {"rest", "apply", "applyLoad", "uncover", "restart"}
  /\ updates \in 0 .. MaxUpdates
  /\ news \in {"none", "loading", "flags"}

FrozenIsCovered ==
  worker = "rest" /\ update = "rest" /\ ~submit /\ ~left =>
    (picture /\ ~first => Covers)

\* The picture of a stream that is down stays only where a fallback covers it:
\* a change of settings, a disconnect and the overlays that meet leave no frozen
\* picture.  Left out are the picture that a refresh keeps on purpose, until
\* something else looks at it, and a change during which the very first frame
\* comes: was_covered then asked for the fallback of the time before.
NoBareFrozenPicture == ~raced => FrozenIsCovered

\* A change of settings clears what is on screen if nothing is left to draw
\* while the stream is down, whenever frames come.
UpdateUncovers == FrozenIsCovered

HasFallback == loadF \/ (disF /\ ever)

\* The disconnect overlay of a stream goes out for a frame or for loading, never
\* to bare nothing, whatever the connection does between the look at it and the
\* debouncers.  Left out are settings that are stored in between, and frames.
HandsOver ==
  [][on /\ IsShown(dis) /\ ~IsShown(dis') /\ HasFallback /\ news = "none"
       => frame \/ IsShown(load')]_vars

\* Loading comes in as disconnect goes out, with no gap between them, and so it
\* does with settings of the loading overlay that are stored meanwhile.
StaysCovered ==
  [][on /\ IsShown(dis) /\ ~IsShown(dis') /\ HasFallback /\ news # "flags"
       => frame \/ IsShown(load')]_vars
=============================================================================
