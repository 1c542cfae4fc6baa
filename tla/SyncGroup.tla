----------------------------- MODULE SyncGroup -----------------------------
(***************************************************************************)
(* Stream sync: a main source and its followers, each with a decode thread *)
(* that measures its delay in rounds, and the registry they share.  The    *)
(* user presses the sync button and edits delays and offsets.              *)
(*                                                                         *)
(* Delays are counted in units larger than the code's tolerances (300 ms   *)
(* and less), from the best arrival of each stream.  Streams flow: what    *)
(* stalls, and staleness of a source that went away, are left out, and so  *)
(* are cuts for a backlog of seconds; auto catch-up is on.  How well two   *)
(* sounds match is left out too: a match has the difference between what   *)
(* the two sources last played.                                            *)
(***************************************************************************)
EXTENDS Integers

CONSTANTS
  Main, Followers,  \* the sources of the group
  Base,             \* target latency of every source
  Floor,            \* the least it can play with: lead and headroom
  MaxShift,         \* MAX_SYNC_OFFSET_MS
  Paths,            \* differences between a follower's path and the main one
  SavedDelay,       \* the main delay to begin with
  Delays,           \* bound: main delays the panel is given
  Offsets,          \* bound: offsets the panel is given
  MaxAsks           \* bound: uses of the sync button and edits in the panel

None == -99         \* no value

Sources == {Main} \cup Followers
Shifts == -MaxShift .. MaxShift

ASSUME SyncAssumption ==
  /\ Main \notin Followers /\ Followers # {}
  /\ Base \in Nat /\ Floor \in 0 .. Base
  /\ MaxShift \in Nat \ {0} /\ Paths \subseteq Shifts
  /\ SavedDelay \in Shifts
  /\ Delays \subseteq Shifts /\ Offsets \subseteq Shifts
  /\ MaxAsks \in Nat

VARIABLES
  setup,     \* mode, may_delay_main and each path, none of which changes
  offset,    \* offsets_ms
  mainDelay, \* main_delay_ms
  request,   \* hold_requests_ of the main source, 0 for none
  published, \* delay of the main source in states_
  move,      \* its move_id
  known,     \* sources with an entry in states_
  phase,     \* each source: "start", "play", or "hold" when it waits
  lat,       \* its delay, while it waits the one it last played with
  force,     \* force_cut
  follow,    \* the policy's follow target, None when it follows nobody
  error,     \* sync_error_ms_, None while sync_active_ is false
  mainMove,  \* main_move_id, None while main_delay_valid is false
  jump,      \* jump_pending
  applied,   \* shift_applied_ms, None while shift_known is false
  seen,      \* shift_seen_ms
  check,     \* shift_check_us is set
  round,     \* where its metrics round is
  listening, \* followers whose sync_listen_state_ is Listening
  traced,    \* sources that listen to themselves since the last press
  heldAt,    \* sync_listen_base_delay_ms_
  lined,     \* history: followers whose last match met nothing in motion
  overtaken, \* history: followers whose last match met an edit not made yet
  asks       \* uses of the button and edits so far

registry == <<offset, mainDelay, request, published, move, known>>
playing == <<phase, lat, force, follow>>
steering == <<error, mainMove, jump>>
shifting == <<applied, seen, check>>
history == <<lined, overtaken>>
listen == <<listening, traced, heldAt, history>>
user == <<asks>>
vars ==
  <<setup, registry, playing, steering, shifting, round, listen, user>>

Largest(a, b) == IF a > b THEN a ELSE b
Smallest(a, b) == IF a < b THEN a ELSE b

Init ==
  /\ setup \in [mode : {"Follow", "Fixed"}, mayDelay : BOOLEAN,
                path : [Followers -> Paths]]
  /\ offset = [f \in Followers |-> 0] /\ mainDelay = SavedDelay /\ request = 0
  /\ published = 0 /\ move = 0 /\ known = {}
  /\ phase = [s \in Sources |-> "start"] /\ lat = [s \in Sources |-> Base]
  /\ force = [s \in Sources |-> FALSE] /\ follow = [s \in Sources |-> None]
  /\ error = [s \in Sources |-> None] /\ mainMove = [s \in Sources |-> None]
  /\ jump = [s \in Sources |-> FALSE]
  /\ applied = [s \in Sources |-> None] /\ seen = [s \in Sources |-> 0]
  /\ check = [s \in Sources |-> FALSE]
  /\ round = [s \in Sources |-> "rest"]
  /\ listening = {} /\ traced = {} /\ heldAt = [f \in Followers |-> 0]
  /\ lined = {} /\ overtaken = {}
  /\ asks = 0

-----------------------------------------------------------------------------
(* Targets                                                                 *)

\* shift_of()
ShiftOf(s) == IF s = Main THEN mainDelay ELSE offset[s]

Follows(s) == setup.mode = "Follow" /\ s # Main /\ Main \in known

\* What the policy is configured with
OwnTarget(s) ==
  Base + IF s = Main \/ setup.mode = "Fixed" THEN ShiftOf(s) ELSE 0

\* target_us()
Target(s) ==
  Largest(IF follow[s] # None THEN follow[s] ELSE OwnTarget(s), Floor)

\* playout_hold()
Hold(s) == phase' = [phase EXCEPT ![s] = "hold"]

\* playout_land()
Land(s, missing) ==
  /\ IF missing > 0 THEN Hold(s) ELSE UNCHANGED phase
  /\ force' = [force EXCEPT ![s] = @ \/ missing < 0]

\* announce_move()
Announce(by) ==
  IF Main \in known THEN published' = published + by /\ move' = move + 1
                    ELSE UNCHANGED <<published, move>>

-----------------------------------------------------------------------------
(* A metrics round                                                         *)

Listens(s) == s \in listening \/ (s = Main /\ listening # {})

\* Rounds of a source that listens end with that
ToListening(s) ==
  round' = [round EXCEPT ![s] = IF Listens(s) THEN "listen" ELSE "rest"]

\* A source that does not play only listens
JustListen(f) ==
  /\ f # Main /\ round[f] = "rest" /\ phase[f] # "play" /\ Listens(f)
  /\ round' = [round EXCEPT ![f] = "listen"]
  /\ UNCHANGED <<setup, registry, playing, steering, shifting, listen, user>>

\* apply_main_delay_request(): nothing asked for, or no more than there is
NoRequest ==
  /\ round[Main] = "rest"
  /\ request = 0 \/ Smallest(request, MaxShift) <= mainDelay
  /\ request' = 0
  /\ IF phase[Main] = "play" THEN round' = [round EXCEPT ![Main] = "steer"]
                             ELSE ToListening(Main)
  /\ UNCHANGED <<setup, offset, mainDelay, published, move, known, playing,
                 steering, shifting, listen, user>>

TakeRequest ==
  LET after == Smallest(request, MaxShift)
  IN  /\ round[Main] = "rest" /\ request # 0 /\ after > mainDelay
      /\ mainDelay' = after /\ request' = 0
      /\ applied' = [applied EXCEPT ![Main] = after]
      /\ seen' = [seen EXCEPT ![Main] = after]
      /\ IF phase[Main] = "play"
           THEN Announce(after - mainDelay) /\ Hold(Main)
           ELSE UNCHANGED <<published, move, phase>>
      /\ ToListening(Main)
      /\ UNCHANGED <<setup, offset, known, lat, force, follow, steering,
                     check, listen, user>>

\* It is the main source's second step, and a follower's first
Steers(s) == IF s = Main THEN round[s] = "steer"
                         ELSE round[s] = "rest" /\ phase[s] = "play"

\* playout_update_sync() of a source that follows nobody.  On its way to a
\* cut it keeps what it announced.
SteerAlone(s) ==
  /\ Steers(s) /\ ~Follows(s)
  /\ published' = IF s = Main /\ ~force[s] THEN lat[s] ELSE published
  /\ known' = IF force[s] THEN known ELSE known \cup {s}
  /\ follow' = [follow EXCEPT ![s] = None]
  /\ error' = [error EXCEPT ![s] = None]
  /\ mainMove' = [mainMove EXCEPT ![s] = None]
  /\ round' = [round EXCEPT ![s] = "shift"]
  /\ UNCHANGED <<setup, offset, mainDelay, request, move, phase, lat, force,
                 jump, shifting, listen, user>>

\* And of a follower.  The smoothed delay of the main source is taken as
\* arrived at the published one.
SteerAfter(f) ==
  /\ Steers(f) /\ Follows(f)
  /\ IF mainMove[f] # move
       THEN /\ jump' = [jump EXCEPT ![f] = mainMove[f] # None]
            /\ mainMove' = [mainMove EXCEPT ![f] = move]
       ELSE UNCHANGED <<jump, mainMove>>
  /\ follow' = [follow EXCEPT ![f] = published + offset[f]]
  /\ error' = [error EXCEPT ![f] = lat[f] - offset[f] - published]
  /\ known' = known \cup {f}
  /\ round' = [round EXCEPT ![f] = "shift"]
  /\ UNCHANGED <<setup, offset, mainDelay, request, published, move, phase, lat,
                 force, shifting, listen, user>>

\* playout_apply_shift(): the first time, a check of where it started
FirstShift(s) ==
  /\ round[s] = "shift" /\ applied[s] = None
  /\ applied' = [applied EXCEPT ![s] = ShiftOf(s)]
  /\ seen' = [seen EXCEPT ![s] = ShiftOf(s)]
  /\ check' = [check EXCEPT ![s] = TRUE]
  /\ ToListening(s)
  /\ UNCHANGED <<setup, registry, playing, steering, listen, user>>

\* Its time has come; until then the round goes on below
CheckShift(s) ==
  /\ round[s] = "shift" /\ applied[s] # None /\ check[s] /\ ~force[s]
  /\ check' = [check EXCEPT ![s] = FALSE]
  /\ Land(s, Target(s) - lat[s])
  /\ ToListening(s)
  /\ UNCHANGED <<setup, registry, lat, follow, steering, applied, seen,
                 listen, user>>

\* A move of the main source
JumpAfter(s) ==
  /\ round[s] = "shift" /\ applied[s] # None /\ jump[s]
  /\ jump' = [jump EXCEPT ![s] = FALSE]
  /\ Land(s, Target(s) - lat[s])
  /\ ToListening(s)
  /\ UNCHANGED <<setup, registry, lat, follow, error, mainMove, shifting,
                 listen, user>>

\* What-if: a change counts as made when it is first seen
AppliedWhenSeen(s) == ShiftOf(s)

AppliedSoFar(s) == applied[s]

\* A change of the panel, seen first, and made once it has been still for
\* SHIFT_SETTLE_US
SeeShift(s) ==
  /\ round[s] = "shift" /\ applied[s] # None /\ ~jump[s]
  /\ ShiftOf(s) # seen[s]
  /\ seen' = [seen EXCEPT ![s] = ShiftOf(s)]
  /\ applied' = [applied EXCEPT ![s] = AppliedSoFar(s)]
  /\ ToListening(s)
  /\ UNCHANGED <<setup, registry, playing, steering, check, listen, user>>

NoShift(s) ==
  /\ round[s] = "shift" /\ applied[s] # None /\ ~jump[s]
  /\ ShiftOf(s) = seen[s]
  /\ ToListening(s)
  /\ UNCHANGED <<setup, registry, playing, steering, shifting, listen, user>>

MakeShift(s) ==
  LET missing == Target(s) - lat[s]
  IN  /\ round[s] = "shift" /\ applied[s] # None /\ ~jump[s]
      /\ ShiftOf(s) = seen[s] /\ ShiftOf(s) # applied[s]
      /\ applied' = [applied EXCEPT ![s] = ShiftOf(s)]
      /\ IF s = Main THEN Announce(missing) ELSE UNCHANGED <<published, move>>
      /\ Land(s, missing)
      /\ check' = [check EXCEPT ![s] = @ \/ force'[s]]
      /\ overtaken' = overtaken \ {s}
      /\ ToListening(s)
      /\ UNCHANGED <<setup, offset, mainDelay, request, known, lat, follow,
                     steering, seen, listening, traced, heldAt, lined, user>>

-----------------------------------------------------------------------------
(* A sync                                                                  *)

\* How far behind the main source's picture this one's is
OnScreen(f) == lat[f] - lat[Main] + setup.path[f]

\* What-if: an error under way is not counted
PendingIgnored(f) == 0

Pending(f) == IF error[f] # None THEN error[f] ELSE 0

Clamped(o) == Largest(-MaxShift, Smallest(o, MaxShift))

TotalDelay(f, short) == heldAt[f] + short

\* Nothing moves that the match does not count: the main source plays where
\* it says and where it was when listening began, and a follower of its own
\* target plays there.
AtRest(f) ==
  /\ phase[Main] = "play" /\ lat[Main] = Target(Main) /\ published = lat[Main]
  /\ request = 0 /\ mainDelay = heldAt[f] /\ phase[f] # "hold"
  /\ error[f] # None => error[f] = lat[f] - offset[f] - published
  /\ error[f] = None => lat[f] = Target(f)
  /\ ShiftOf(f) = applied[f] /\ ShiftOf(Main) = applied[Main]

\* apply_sync_offset(): the offset, and then the main source has to wait, or
\* nobody can, or this source waits itself
ApplySyncOffset(f) ==
  LET delta == OnScreen(f)
      new == Clamped(offset[f] + Pending(f) - delta)
      short == Floor - (lat[f] - delta)
      waits == short <= 0 /\ delta < 0 /\ phase[f] = "play"
  IN  /\ offset' = [offset EXCEPT ![f] = new]
      /\ request' = IF short > 0 /\ setup.mayDelay
                      THEN Largest(request, TotalDelay(f, short)) ELSE request
      /\ IF waits THEN Hold(f) ELSE UNCHANGED phase
      /\ follow' = [follow EXCEPT ![f] =
                      IF waits /\ error[f] # None THEN lat[f] - delta ELSE @]
      /\ applied' = [applied EXCEPT ![f] = new]
      /\ seen' = [seen EXCEPT ![f] = new]
      /\ lined' = IF AtRest(f) /\ (short <= 0 \/ setup.mayDelay)
                    THEN lined \cup {f} ELSE lined \ {f}
      /\ overtaken' = IF applied[f] \notin {None, offset[f]}
                        THEN overtaken \cup {f} ELSE overtaken

\* playout_update_listen() of a follower that hears a match in two traces
Match(f) ==
  /\ round[f] = "listen" /\ f \in listening /\ {Main, f} \subseteq traced
  /\ ApplySyncOffset(f)
  /\ listening' = listening \ {f}
  /\ round' = [round EXCEPT ![f] = "rest"]
  /\ UNCHANGED <<setup, mainDelay, published, move, known, lat, force, steering,
                 check, traced, heldAt, user>>

\* SYNC_LISTEN_US are over
GiveUp(f) ==
  /\ round[f] = "listen" /\ f \in listening
  /\ listening' = listening \ {f}
  /\ round' = [round EXCEPT ![f] = "rest"]
  /\ UNCHANGED <<setup, registry, playing, steering, shifting, traced, heldAt,
                 history, user>>

\* No match yet, or nothing to listen for
EndRound(s) ==
  /\ round[s] = "listen"
  /\ traced' = IF Listens(s) THEN traced \cup {s} ELSE traced
  /\ round' = [round EXCEPT ![s] = "rest"]
  /\ UNCHANGED <<setup, registry, playing, steering, shifting, listening,
                 heldAt, history, user>>

-----------------------------------------------------------------------------
(* Playing                                                                 *)

\* A source starts at its target, a follower where the group is
StartPlaying(s) ==
  /\ phase[s] = "start" /\ round[s] = "rest"
  /\ phase' = [phase EXCEPT ![s] = "play"]
  /\ follow' = [follow EXCEPT ![s] = IF Follows(s) THEN published + offset[s]
                                                   ELSE @]
  /\ lat' = [lat EXCEPT ![s] =
               IF Follows(s) THEN Largest(published + offset[s], Floor)
                             ELSE Target(s)]
  /\ UNCHANGED <<setup, registry, force, steering, shifting, round, listen,
                 user>>

\* The buffer has filled up to the target
Resume(s) ==
  /\ phase[s] = "hold" /\ round[s] = "rest"
  /\ phase' = [phase EXCEPT ![s] = "play"]
  /\ lat' = [lat EXCEPT ![s] = Largest(@, Target(s))]
  /\ UNCHANGED <<setup, registry, force, follow, steering, shifting, round,
                 listen, user>>

\* playout_run_policy(): a cut that was asked for
Cut(s) ==
  /\ phase[s] = "play" /\ round[s] = "rest" /\ force[s]
  /\ lat' = [lat EXCEPT ![s] = Target(s)]
  /\ force' = [force EXCEPT ![s] = FALSE]
  /\ UNCHANGED <<setup, registry, phase, follow, steering, shifting, round,
                 listen, user>>

\* RecoveryPolicy::step(): the rate brings it closer, from below only a
\* follower or one that is short by more than half
Drift(s) ==
  LET off == lat[s] - Target(s)
  IN  /\ phase[s] = "play" /\ round[s] = "rest"
      /\ off > 0 \/ (off < 0 /\ (follow[s] # None \/ -2 * off > Target(s)))
      /\ lat' = [lat EXCEPT ![s] = IF off > 0 THEN @ - 1 ELSE @ + 1]
      /\ UNCHANGED <<setup, registry, phase, force, follow, steering, shifting,
                     round, listen, user>>

-----------------------------------------------------------------------------
(* The user                                                                *)

\* start_sync(): followers with a stream beside a main source with one listen
Press ==
  /\ asks < MaxAsks
  /\ asks' = asks + 1
  /\ LET hearing == IF Main \in known THEN Followers \cap known ELSE {}
     IN  /\ listening' = listening \cup hearing
         /\ traced' = IF hearing = {} THEN traced ELSE {}
         /\ heldAt' = [f \in Followers |-> IF f \in hearing THEN mainDelay
                                                            ELSE heldAt[f]]
  /\ UNCHANGED <<setup, registry, playing, steering, shifting, round, history>>

\* set_offset() by the panel
EditOffset(f) ==
  /\ asks < MaxAsks
  /\ asks' = asks + 1
  /\ \E o \in Offsets \ {offset[f]} : offset' = [offset EXCEPT ![f] = o]
  /\ lined' = lined \ {f}
  /\ UNCHANGED <<setup, mainDelay, request, published, move, known, playing,
                 steering, shifting, round, listening, traced, heldAt,
                 overtaken>>

\* set_config() with another main delay
EditMainDelay ==
  /\ asks < MaxAsks
  /\ asks' = asks + 1
  /\ \E d \in Delays \ {mainDelay} :
       /\ mainDelay' = d
       /\ lined' = IF setup.mode = "Follow" /\ d > mainDelay THEN lined ELSE {}
  /\ UNCHANGED <<setup, offset, request, published, move, known, playing,
                 steering, shifting, round, listening, traced, heldAt,
                 overtaken>>

-----------------------------------------------------------------------------
Round(s) ==
  \/ JustListen(s)
  \/ SteerAlone(s) \/ SteerAfter(s)
  \/ FirstShift(s) \/ CheckShift(s) \/ JumpAfter(s)
  \/ SeeShift(s) \/ NoShift(s) \/ MakeShift(s)
  \/ EndRound(s)

Play(s) == StartPlaying(s) \/ Resume(s) \/ Cut(s) \/ Drift(s)

\* What a round does when a time is up
Timed(s) == CheckShift(s) \/ MakeShift(s)

Next ==
  \/ NoRequest \/ TakeRequest
  \/ \E s \in Sources : Round(s) \/ Play(s)
  \/ \E f \in Followers : Match(f) \/ GiveUp(f) \/ EditOffset(f)
  \/ Press \/ EditMainDelay

\* Decode threads go round, streams flow, time passes.  Between two rounds a
\* source has the time to play on: what its policy wants happens although
\* rounds come again and again.
Spec ==
  /\ Init /\ [][Next]_vars
  /\ WF_vars(NoRequest \/ TakeRequest)
  /\ \A s \in Sources :
       WF_vars(Round(s)) /\ SF_vars(Play(s)) /\ SF_vars(Timed(s))

-----------------------------------------------------------------------------
(* Properties                                                              *)

\* Every variable keeps its shape, offsets and main delay stay within
\* MAX_SYNC_OFFSET_MS, and no source plays below its floor
TypeOK ==
  /\ setup.mode \in {"Follow", "Fixed"} /\ setup.mayDelay \in BOOLEAN
  /\ offset \in [Followers -> Shifts] /\ mainDelay \in Shifts
  /\ request \in Nat /\ published \in Nat /\ move \in Nat
  /\ known \subseteq Sources
  /\ phase \in [Sources -> {"start", "play", "hold"}]
  /\ \A s \in Sources : lat[s] >= Floor
  /\ force \in [Sources -> BOOLEAN] /\ jump \in [Sources -> BOOLEAN]
  /\ \A s \in Sources : (error[s] = None \/ mainMove[s] # None)
  /\ check \in [Sources -> BOOLEAN]
  /\ round \in [Sources -> {"rest", "steer", "shift", "listen"}]
  /\ listening \subseteq Followers /\ traced \subseteq Sources
  /\ lined \cup overtaken \subseteq Followers

\* A sync that was measured with nothing in motion puts the follower's picture
\* beside the main one, moves of either after it included: the offset, the
\* main source's wait and the follower's own all aim at the same place.
LinesUp == \A f \in Followers : <>[](f \in lined => OnScreen(f) = 0)

\* In its own mode or after the group, a source plays where it should.
InPlace(s) ==
  lat[s] = IF s = Main \/ setup.mode = "Fixed" THEN Largest(OwnTarget(s), Floor)
           ELSE Largest(lat[Main] + offset[s], Floor)

\* apply_sync_offset(): "This change has been dealt with above, in its own way".
\* The group settles with every source in its place, whatever moves the panel
\* and a sync ask for on top of each other.  It does not in Fixed mode: a match
\* that meets an edit the decode thread has not made yet takes it for made, and
\* if the pictures are side by side nothing ever moves.
GroupSettles == <>[](\A s \in Sources : phase[s] = "play" /\ InPlace(s))

\* What is left of it: the group settles but for a source with a target of its
\* own whose edit was overtaken like that.  A source in Follow mode settles all
\* the same, as its target is measured anew in each round.
Settled(s) ==
  phase[s] = "play" /\ (InPlace(s) \/ (setup.mode = "Fixed" /\ s \in overtaken))

SettlesUnlessOvertaken == <>[](\A s \in Sources : Settled(s))
=============================================================================
