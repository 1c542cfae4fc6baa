--------------------------- MODULE FallbackLayer ---------------------------
(***************************************************************************)
(* What a source draws when its stream is in trouble: for each state one   *)
(* layer with content that is made by the UI thread, run and drawn by the  *)
(* graphics thread, and counted by OBS.  The two threads meet in mutex_,   *)
(* which configure() lets go of while it releases the old content and      *)
(* makes the new one.                                                      *)
(*                                                                         *)
(* The background of a layer is treated like its content and left out, and *)
(* so is what a change of a spec without new content is about: sizes,      *)
(* colours, animations.  What is wanted is decided in Overlays; here it    *)
(* changes freely.                                                         *)
(***************************************************************************)
EXTENDS Integers, Sequences

CONSTANTS
  States,     \* states whose layers there are
  Kinds,      \* kinds of content, but for "none" that draws nothing itself
  Preloaded,  \* kinds that are kept loaded while the source is visible
  Contents,   \* bound: pieces of content there can be at once
  Steps,      \* ticks an animation takes
  MaxTasks    \* bound: changes of settings

ASSUME LayerAssumption ==
  /\ "none" \notin Kinds /\ Preloaded \subseteq Kinds
  /\ 0 \notin Contents /\ Steps \in Nat \ {0} /\ MaxTasks \in Nat

VARIABLES
  shown,     \* shown_: the state whose layer is wanted, or "none"
  visible,   \* OBS shows the source somewhere
  spec,      \* per layer its kind
  child,     \* per layer its content, 0 for none
  ready, active, rising, progress,   \* per layer
  refs,      \* per content: references
  showing,   \* per content: how often it was shown
  running,   \* per content: how often it was activated
  tasks,     \* UI tasks that wait
  ui,        \* what configure() is at: "rest", "release", "create", "install"
  old,       \* the content it took away, with its flags
  made,      \* the content it made
  drawing,   \* content the graphics thread holds to draw, 0 for none
  queued     \* changes of settings so far

counts == <<refs, showing, running>>
layers == <<spec, child, ready, active>>
anims == <<rising, progress>>
uiVars == <<tasks, ui, old, made>>
vars == <<shown, visible, layers, anims, counts, uiVars, drawing, queued>>

Nothing == [child |-> 0, ready |-> FALSE, active |-> FALSE]

Init ==
  /\ shown = "none" /\ visible \in BOOLEAN
  /\ spec = [s \in States |-> "none"] /\ child = [s \in States |-> 0]
  /\ ready = [s \in States |-> FALSE] /\ active = [s \in States |-> FALSE]
  /\ rising = [s \in States |-> FALSE] /\ progress = [s \in States |-> 0]
  /\ refs = [c \in Contents |-> 0] /\ showing = [c \in Contents |-> 0]
  /\ running = [c \in Contents |-> 0]
  /\ tasks = <<>> /\ ui = "rest" /\ old = Nothing /\ made = 0
  /\ drawing = 0 /\ queued = 0

\* draws_itself() and preloads()
DrawsItself(kind) == kind \in Kinds
Preloads(kind) == kind \in Preloaded

\* Adds by to what is counted of a content, if there is one
Counted(count, c, by) ==
  IF c = 0 THEN count ELSE [count EXCEPT ![c] = @ + by]

-----------------------------------------------------------------------------
(* What the source wants                                                   *)

\* show()
Show ==
  /\ shown' \in (States \cup {"none"}) \ {shown}
  /\ UNCHANGED <<visible, layers, anims, counts, uiVars, drawing, queued>>

\* apply_fallback_settings() hands a layer's settings to the UI thread
Queue ==
  /\ queued < MaxTasks
  /\ \E s \in States, kind \in Kinds \cup {"none"} :
       tasks' = Append(tasks, [state |-> s, kind |-> kind])
  /\ queued' = queued + 1
  /\ UNCHANGED <<shown, visible, layers, anims, counts, ui, old, made, drawing>>

-----------------------------------------------------------------------------
(* configure(), on the UI thread                                           *)

\* The layer gives its content away, unless the new spec has the same
Configure ==
  LET task == Head(tasks)
      s == task.state
  IN  /\ ui = "rest" /\ tasks # <<>>
      /\ IF spec[s] = task.kind
           THEN /\ tasks' = Tail(tasks)
                /\ UNCHANGED <<layers, ui, old>>
           ELSE /\ spec' = [spec EXCEPT ![s] = task.kind]
                /\ old' = [child |-> child[s], ready |-> ready[s],
                           active |-> active[s]]
                /\ child' = [child EXCEPT ![s] = 0]
                /\ ready' = [ready EXCEPT ![s] = FALSE]
                /\ active' = [active EXCEPT ![s] = FALSE]
                /\ ui' = "release"
                /\ UNCHANGED tasks
      /\ UNCHANGED <<shown, visible, anims, counts, made, drawing, queued>>

\* release_layer()
ReleaseLayer ==
  /\ ui = "release"
  /\ showing' = Counted(showing, old.child, IF old.ready THEN -1 ELSE 0)
  /\ running' = Counted(running, old.child, IF old.active THEN -1 ELSE 0)
  /\ refs' = Counted(refs, old.child, -1)
  /\ old' = Nothing
  /\ IF DrawsItself(Head(tasks).kind)
       THEN ui' = "create" /\ UNCHANGED tasks
       ELSE ui' = "rest" /\ tasks' = Tail(tasks)
  /\ UNCHANGED <<shown, visible, layers, anims, made, drawing, queued>>

\* create_child(), which fails without the OBS plugin for the kind
CreateChild ==
  /\ ui = "create"
  /\ \/ /\ \E c \in Contents : refs[c] = 0
        /\ made' = CHOOSE c \in Contents : refs[c] = 0
        /\ refs' = [refs EXCEPT ![made'] = 1]
     \/ made' = 0 /\ UNCHANGED refs
  /\ ui' = "install"
  /\ UNCHANGED <<shown, visible, layers, anims, showing, running, tasks, old,
                 drawing, queued>>

\* What-if: what a tick decided in the meantime stays
FlagsKept(flags, s) == flags

FlagsCleared(flags, s) == [flags EXCEPT ![s] = FALSE]

Install ==
  LET s == Head(tasks).state
  IN  /\ ui = "install"
      /\ child' = [child EXCEPT ![s] = made]
      /\ ready' = FlagsCleared(ready, s)
      /\ active' = FlagsCleared(active, s)
      /\ ui' = "rest" /\ made' = 0 /\ tasks' = Tail(tasks)
      /\ UNCHANGED <<shown, visible, spec, anims, counts, old, drawing, queued>>

-----------------------------------------------------------------------------
(* tick() and render(), on the graphics thread                             *)

Least(a, b) == IF a < b THEN a ELSE b
Most(a, b) == IF a > b THEN a ELSE b

\* set_refs() of a layer: what it counts once more, or once less
Change(now, before) ==
  CASE now /\ ~before -> 1 [] ~now /\ before -> -1 [] OTHER -> 0

\* Of all layers, each with content of its own
SetRefs(nowReady, nowActive) ==
  LET Of(c) == {s \in States : child[s] = c}
      After(count, now, before) ==
        [c \in Contents |->
           IF Of(c) = {} THEN count[c]
           ELSE LET s == CHOOSE s \in Of(c) : TRUE
                IN  count[c] + Change(now[s], before[s])]
  IN  /\ showing' = After(showing, nowReady, ready)
      /\ running' = After(running, nowActive, active)
      /\ ready' = nowReady /\ active' = nowActive

\* Alive through its way out, unless the source itself has left the screen
Alive(wanted, after) == visible /\ (wanted \/ after > 0)

\* One tick: animations go on, content is run while it is wanted or on its
\* way out, and kept loaded while the source is visible
Tick ==
  LET Wanted(s) == s = shown /\ DrawsItself(spec[s])
      after == [s \in States |-> IF Wanted(s) THEN Least(progress[s] + 1, Steps)
                                              ELSE Most(progress[s] - 1, 0)]
  IN  /\ drawing = 0
      /\ rising' = [s \in States |-> Wanted(s)]
      /\ progress' = after
      /\ SetRefs([s \in States |-> visible /\ Preloads(spec[s])],
                 [s \in States |-> Alive(Wanted(s), after[s])])
      /\ UNCHANGED <<shown, visible, spec, child, refs, uiVars, drawing,
                     queued>>

\* What-if: render() draws what the layer points to
Borrowed(c) == refs

Referenced(c) == [refs EXCEPT ![c] = @ + 1]

\* render() draws a layer outside the lock, with a reference of its own
Draw(s) ==
  /\ drawing = 0
  /\ progress[s] > 0 /\ DrawsItself(spec[s]) /\ child[s] # 0
  /\ refs' = Referenced(child[s]) /\ drawing' = child[s]
  /\ UNCHANGED <<shown, visible, layers, anims, showing, running, uiVars,
                 queued>>

Drawn ==
  /\ drawing # 0
  /\ refs' = [refs EXCEPT ![drawing] = @ - 1] /\ drawing' = 0
  /\ UNCHANGED <<shown, visible, layers, anims, showing, running, uiVars,
                 queued>>

\* The user switches to a scene with the source, or away from it
Visible ==
  /\ visible' = ~visible
  /\ UNCHANGED <<shown, layers, anims, counts, uiVars, drawing, queued>>

-----------------------------------------------------------------------------
UiTask == Configure \/ ReleaseLayer \/ CreateChild \/ Install

Next ==
  \/ Show \/ Queue \/ Visible \/ UiTask \/ Tick \/ Drawn
  \/ \E s \in States : Draw(s)

\* The UI thread runs its tasks; the graphics thread ends what it draws and
\* comes back to tick, before the next frame.
Spec ==
  /\ Init /\ [][Next]_vars
  /\ WF_vars(UiTask) /\ SF_vars(Tick) /\ WF_vars(Drawn)

-----------------------------------------------------------------------------
(* Properties                                                              *)

\* Every variable keeps its shape
TypeOK ==
  /\ shown \in States \cup {"none"} /\ visible \in BOOLEAN
  /\ spec \in [States -> Kinds \cup {"none"}]
  /\ child \in [States -> Contents \cup {0}]
  /\ ready \in [States -> BOOLEAN] /\ active \in [States -> BOOLEAN]
  /\ rising \in [States -> BOOLEAN] /\ progress \in [States -> 0 .. Steps]
  /\ ui \in {"rest", "release", "create", "install"}
  /\ \A i \in DOMAIN tasks :
       tasks[i] \in [state : States, kind : Kinds \cup {"none"}]
  /\ made \in Contents \cup {0} /\ drawing \in Contents \cup {0}

\* OBS's counts of a content follow the layer whatever configure() and a tick
\* do at a time: none is negative or above one, what is released has none left,
\* and what is drawn is not released.
CountsBalance ==
  /\ \A c \in Contents : {showing[c], running[c]} \subseteq 0 .. 1
  /\ \A c \in Contents : refs[c] = 0 => showing[c] = 0 /\ running[c] = 0
  /\ drawing # 0 => refs[drawing] > 0

\* Whatever was configured and shown on the way, the screen of a state that
\* stays wanted ends up in place with its content running, and of a source that
\* stays hidden nothing runs in the end.
InPlace(s) ==
  DrawsItself(spec[s]) =>
    /\ rising[s] /\ progress[s] = Steps
    /\ child[s] # 0 => running[child[s]] = 1

EndsInPlace ==
  /\ \A s \in States : <>[](shown = s /\ visible) => <>[]InPlace(s)
  /\ <>[]~visible => <>[](\A c \in Contents : running[c] = 0)
=============================================================================
