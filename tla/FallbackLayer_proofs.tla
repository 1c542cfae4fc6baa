------------------------ MODULE FallbackLayer_proofs ------------------------
(***************************************************************************)
(* What FallbackLayer promises of OBS's counts, for any layers, kinds of   *)
(* content and changes of the settings.                                    *)
(***************************************************************************)
EXTENDS FallbackLayer, TLAPS

Task == [state : States, kind : Kinds \cup {"none"}]
Gone == [child : Contents \cup {0}, ready : BOOLEAN, active : BOOLEAN]

\* Whatever configure() is at, the layer it works on has no content.
TaskInv ==
  /\ tasks \in Seq(Task) /\ old \in Gone
  /\ ui # "rest" => tasks # <<>> /\ child[Head(tasks).state] = 0
  /\ ui # "release" => old = Nothing
  /\ ui # "install" => made = 0

\* Each content has one owner: a layer, or configure() that took it from a layer
\* or has just made it.
ApartInv ==
  /\ \A s, t \in States : child[s] # 0 /\ child[s] = child[t] => s = t
  /\ \A s \in States : child[s] # 0 => child[s] \notin {old.child, made}
  /\ old.child # 0 => old.child # made

Owned(c) == c \in {old.child, made} \/ \E s \in States : child[s] = c

\* The layer that has c holds it by a flag, or configure() took c from one that
\* did.
Held(c, flags, flag) ==
  \/ old.child = c /\ flag
  \/ \E s \in States : child[s] = c /\ flags[s]

Shows(c) == Held(c, ready, old.ready)
Runs(c) == Held(c, active, old.active)

One(b) == IF b THEN 1 ELSE 0

\* OBS counts what the owner has, and what is drawn.
CountInv ==
  /\ \A count \in {refs, showing, running} : DOMAIN count = Contents
  /\ \A c \in Contents :
       /\ refs[c] = One(Owned(c)) + One(drawing = c)
       /\ showing[c] = One(Shows(c))
       /\ running[c] = One(Runs(c))

LayersInv == TypeOK /\ TaskInv /\ ApartInv /\ CountInv

-----------------------------------------------------------------------------
\* The start: no content, nothing counted.
LEMMA InitInv == Init => LayersInv
<1> SUFFICES ASSUME Init PROVE LayersInv
  OBVIOUS
<1>1. TypeOK
  BY LayerAssumption DEF Init, TypeOK
<1>2. TaskInv
  BY DEF Init, TaskInv, Nothing, Gone
<1>3. ApartInv /\ CountInv
  BY LayerAssumption
     DEF Init, ApartInv, CountInv, Owned, Shows, Runs, Held, One, Nothing
<1> QED
  BY <1>1, <1>2, <1>3 DEF LayersInv

\* What the invariant says of the counts is more than the property asks.
LEMMA InvImplies == LayersInv => CountsBalance
<1> SUFFICES ASSUME LayersInv PROVE CountsBalance
  OBVIOUS
<1>1. \A c \in Contents : {showing[c], running[c]} \subseteq 0 .. 1
  BY DEF LayersInv, CountInv, One
<1>2. \A c \in Contents : refs[c] = 0 => ~Owned(c)
  BY DEF LayersInv, CountInv, One
<1>3. \A c \in Contents : refs[c] = 0 => showing[c] = 0 /\ running[c] = 0
  BY <1>2 DEF LayersInv, CountInv, One, Owned, Shows, Runs, Held
<1>4. drawing # 0 => refs[drawing] > 0
  BY DEF LayersInv, CountInv, One, TypeOK
<1> QED
  BY <1>1, <1>3, <1>4 DEF CountsBalance

\* Every step keeps every variable in its shape.
LEMMA StepType == TypeOK /\ TaskInv /\ [Next]_vars => TypeOK'
<1> SUFFICES ASSUME TypeOK, TaskInv, [Next]_vars PROVE TypeOK'
  OBVIOUS
<1> USE DEF TypeOK
<1>1. CASE Show
  BY <1>1 DEF Show, layers, anims, uiVars
<1>2. CASE Queue
  <2>1. \A i \in DOMAIN tasks' : tasks'[i] \in Task
    BY <1>2 DEF Queue, TaskInv, Task
  <2> QED
    BY <1>2, <2>1 DEF Queue, layers, anims, Task
<1>3. CASE Visible
  BY <1>3 DEF Visible, layers, anims, uiVars
<1>4. CASE Configure
  <2>1. tasks # <<>> /\ Head(tasks) \in Task
    BY <1>4 DEF Configure, TaskInv
  <2>2. Len(Tail(tasks)) = Len(tasks) - 1
        /\ \A i \in DOMAIN Tail(tasks) : Tail(tasks)[i] \in Task
    BY <2>1 DEF TaskInv
  <2> QED
    BY <1>4, <2>1, <2>2 DEF Configure, layers, anims, Task
<1>5. CASE ReleaseLayer
  <2>1. tasks # <<>>
    BY <1>5 DEF ReleaseLayer, TaskInv
  <2>2. \A i \in DOMAIN Tail(tasks) : Tail(tasks)[i] \in Task
    BY <2>1 DEF TaskInv
  <2> QED
    BY <1>5, <2>2 DEF ReleaseLayer, layers, anims, Task
<1>6. CASE CreateChild
  BY <1>6 DEF CreateChild, layers, anims
<1>7. CASE Install
  <2>1. tasks # <<>> /\ Head(tasks) \in Task
    BY <1>7 DEF Install, TaskInv
  <2>2. \A i \in DOMAIN Tail(tasks) : Tail(tasks)[i] \in Task
    BY <2>1 DEF TaskInv
  <2> QED
    BY <1>7, <2>1, <2>2 DEF Install, FlagsCleared, anims, Task
<1>8. CASE Tick
  <2>1. ready' \in [States -> BOOLEAN] /\ active' \in [States -> BOOLEAN]
    BY <1>8 DEF Tick, SetRefs, Alive, Preloads
  <2>2. rising' \in [States -> BOOLEAN] /\ progress' \in [States -> 0 .. Steps]
    BY <1>8, LayerAssumption DEF Tick, Least, Most, DrawsItself
  <2> QED
    BY <1>8, <2>1, <2>2 DEF Tick, uiVars
<1>9. CASE Drawn
  BY <1>9 DEF Drawn, layers, anims, uiVars
<1>10. ASSUME NEW s \in States, Draw(s) PROVE TypeOK'
  BY <1>10 DEF Draw, layers, anims, uiVars
<1>11. CASE UNCHANGED vars
  BY <1>11 DEF vars, layers, anims, uiVars
<1> QED
  BY <1>1, <1>2, <1>3, <1>4, <1>5, <1>6, <1>7, <1>8, <1>9, <1>10, <1>11
     DEF Next, UiTask

\* Every step keeps the tasks in order and each content with one owner.
LEMMA StepApart ==
  TypeOK /\ TaskInv /\ ApartInv /\ CountInv /\ [Next]_vars
    => TaskInv' /\ ApartInv'
<1> SUFFICES ASSUME TypeOK, TaskInv, ApartInv, CountInv, [Next]_vars
             PROVE  TaskInv' /\ ApartInv'
  OBVIOUS
<1>1. CASE Show \/ Visible \/ Drawn \/ Tick \/ UNCHANGED vars
  BY <1>1 DEF Show, Visible, Drawn, Tick, vars, layers, uiVars, TaskInv,
              ApartInv
<1>2. CASE Queue
  <2>1. PICK task \in Task : tasks' = Append(tasks, task)
    BY <1>2 DEF Queue, Task
  <2>2. /\ tasks' \in Seq(Task)
        /\ tasks # <<>> => tasks' # <<>> /\ Head(tasks') = Head(tasks)
    BY <2>1 DEF TaskInv
  <2> QED
    BY <1>2, <2>2 DEF Queue, layers, TaskInv, ApartInv
<1>3. CASE Configure
  <2>1. /\ tasks # <<>> /\ Head(tasks) \in Task /\ Tail(tasks) \in Seq(Task)
        /\ ui = "rest" /\ made = 0 /\ made' = 0 /\ old = Nothing
    BY <1>3 DEF Configure, TaskInv
  <2> DEFINE s == Head(tasks).state
  <2>2. s \in States
    BY <2>1 DEF Task
  <2>3. CASE spec[s] = Head(tasks).kind
    BY <1>3, <2>1, <2>3 DEF Configure, layers, TaskInv, ApartInv
  <2>4. CASE spec[s] # Head(tasks).kind
    <3>1. /\ old' = [child |-> child[s], ready |-> ready[s],
                     active |-> active[s]]
          /\ child' = [child EXCEPT ![s] = 0]
          /\ ui' = "release" /\ tasks' = tasks
      BY <1>3, <2>4 DEF Configure
    <3>2. old' \in Gone /\ old'.child = child[s]
      BY <2>2, <3>1 DEF Gone, TypeOK
    <3>3. TaskInv'
      BY <2>1, <2>2, <3>1, <3>2 DEF TaskInv, TypeOK
    <3>4. ApartInv'
      BY <2>1, <2>2, <3>1, <3>2 DEF ApartInv, TypeOK
    <3> QED
      BY <3>3, <3>4
  <2> QED
    BY <2>3, <2>4
<1>4. CASE ReleaseLayer
  <2>1. /\ tasks # <<>> /\ Tail(tasks) \in Seq(Task) /\ old' = Nothing
        /\ Nothing \in Gone /\ Nothing.child = 0
    BY <1>4 DEF ReleaseLayer, TaskInv, Nothing, Gone
  <2> QED
    BY <1>4, <2>1 DEF ReleaseLayer, layers, TaskInv, ApartInv
<1>5. CASE CreateChild
  <2>1. made' = 0 \/ (made' \in Contents /\ refs[made'] = 0)
    BY <1>5 DEF CreateChild
  <2>2. made' # 0 => ~Owned(made')
    BY <2>1 DEF CountInv, One
  <2>3. old = Nothing /\ old.child = 0
    BY <1>5 DEF CreateChild, TaskInv, Nothing
  <2> QED
    BY <1>5, <2>2, <2>3 DEF CreateChild, layers, TaskInv, ApartInv, Owned
<1>6. CASE Install
  <2>1. /\ tasks # <<>> /\ Head(tasks) \in Task /\ Tail(tasks) \in Seq(Task)
        /\ child[Head(tasks).state] = 0 /\ old = Nothing /\ old.child = 0
    BY <1>6 DEF Install, TaskInv, Nothing
  <2>2. Head(tasks).state \in States
    BY <2>1 DEF Task
  <2>3. TaskInv'
    BY <1>6, <2>1 DEF Install, TaskInv
  <2>4. ApartInv'
    BY <1>6, <2>1, <2>2 DEF Install, ApartInv, TypeOK
  <2> QED
    BY <2>3, <2>4
<1>7. ASSUME NEW s \in States, Draw(s) PROVE TaskInv' /\ ApartInv'
  BY <1>7 DEF Draw, layers, uiVars, TaskInv, ApartInv
<1> QED
  BY <1>1, <1>2, <1>3, <1>4, <1>5, <1>6, <1>7 DEF Next, UiTask

\* What a tick makes of the count n of c, see SetRefs.
Ticked(n, c, now, before) ==
  LET Of == {s \in States : child[s] = c}
  IN  IF Of = {} THEN n
      ELSE LET s == CHOOSE s \in Of : TRUE
           IN  n + Change(now[s], before[s])

\* A tick counts a content once more or once less as its layer's flag changes,
\* and leaves alone what configure() has.
LEMMA TickCounts ==
  ASSUME ApartInv, NEW c \in Contents, 0 \notin Contents,
         NEW before \in [States -> BOOLEAN], NEW now \in [States -> BOOLEAN],
         NEW flag \in BOOLEAN, NEW n, n = One(Held(c, before, flag)),
         child \in [States -> Contents \cup {0}]
  PROVE  Ticked(n, c, now, before) = One(Held(c, now, flag))
<1> DEFINE Of == {s \in States : child[s] = c}
<1>1. CASE Of = {}
  BY <1>1 DEF Ticked, Held, One
<1>2. CASE Of # {}
  <2> DEFINE s == CHOOSE s \in Of : TRUE
  <2>1. s \in States /\ child[s] = c
    BY <1>2
  <2>2. c # 0 /\ c # old.child
    BY <2>1 DEF ApartInv
  <2>3. \A t \in States : child[t] = c => t = s
    BY <2>1, <2>2 DEF ApartInv
  <2> HIDE DEF s
  <2>4. Held(c, before, flag) <=> before[s]
    BY <2>1, <2>2, <2>3 DEF Held
  <2>5. Held(c, now, flag) <=> now[s]
    BY <2>1, <2>2, <2>3 DEF Held
  <2>6. before[s] \in BOOLEAN /\ now[s] \in BOOLEAN
    BY <2>1
  <2>7. n + Change(now[s], before[s]) = One(Held(c, now, flag))
    BY <2>4, <2>5, <2>6 DEF One, Change
  <2> QED
    BY <1>2, <2>7 DEF s, Ticked
<1> QED
  BY <1>1, <1>2

\* Where the owners and flags stay and the counts do, too.
LEMMA SameCount ==
  ASSUME CountInv,
         UNCHANGED <<child, ready, active, refs, showing, running, old, made,
                     drawing>>
  PROVE  CountInv'
<1>1. ASSUME NEW c \in Contents
      PROVE  (Owned(c)' <=> Owned(c)) /\ (Shows(c)' <=> Shows(c))
             /\ (Runs(c)' <=> Runs(c))
  BY DEF Owned, Shows, Runs, Held
<1> QED
  BY <1>1 DEF CountInv, One

\* Every step keeps OBS's counts what the owners have.
LEMMA StepCount ==
  TypeOK /\ TaskInv /\ ApartInv /\ CountInv /\ [Next]_vars => CountInv'
<1> SUFFICES ASSUME TypeOK, TaskInv, ApartInv, CountInv, [Next]_vars
             PROVE  CountInv'
  OBVIOUS
<1>0. 0 \notin Contents
  BY LayerAssumption
<1>1. CASE Show \/ Queue \/ Visible \/ UNCHANGED vars
  BY <1>1, SameCount DEF Show, Queue, Visible, vars, layers, counts, uiVars
<1>2. CASE Configure
  <2> DEFINE s == Head(tasks).state
  <2>1. /\ s \in States /\ old.child = 0
        /\ UNCHANGED <<refs, showing, running, drawing, made>>
    <3>1. tasks \in Seq(Task) /\ tasks # <<>> /\ old = Nothing
      BY <1>2 DEF Configure, TaskInv
    <3>2. Head(tasks) \in Task
      BY <3>1
    <3> QED
      BY <1>2, <3>1, <3>2 DEF Configure, counts, Nothing, Task
  <2>2. CASE spec[s] = Head(tasks).kind
    BY <1>2, <2>1, <2>2, SameCount DEF Configure, layers
  <2>3. CASE spec[s] # Head(tasks).kind
    <3>1. /\ old' = [child |-> child[s], ready |-> ready[s],
                     active |-> active[s]]
          /\ child' = [child EXCEPT ![s] = 0]
          /\ ready' = [ready EXCEPT ![s] = FALSE]
          /\ active' = [active EXCEPT ![s] = FALSE]
      BY <1>2, <2>3 DEF Configure
    <3> HIDE DEF s
    <3>2. ASSUME NEW c \in Contents PROVE Owned(c)' <=> Owned(c)
      BY <1>0, <2>1, <3>1 DEF TypeOK, Owned
    <3>3. ASSUME NEW c \in Contents PROVE Shows(c)' <=> Shows(c)
      BY <1>0, <2>1, <3>1 DEF TypeOK, Shows, Held
    <3>4. ASSUME NEW c \in Contents PROVE Runs(c)' <=> Runs(c)
      BY <1>0, <2>1, <3>1 DEF TypeOK, Runs, Held
    <3> QED
      BY <2>1, <3>2, <3>3, <3>4 DEF CountInv, One
  <2> QED
    BY <2>2, <2>3
<1>3. CASE ReleaseLayer
  <2>1. /\ showing' = Counted(showing, old.child, IF old.ready THEN -1 ELSE 0)
        /\ running' = Counted(running, old.child, IF old.active THEN -1 ELSE 0)
        /\ refs' = Counted(refs, old.child, -1)
        /\ old'.child = 0 /\ made = 0 /\ old \in Gone
        /\ UNCHANGED <<child, ready, active, made, drawing>>
    BY <1>3 DEF ReleaseLayer, layers, Nothing, TaskInv
  <2>2. \A count \in {refs', showing', running'} : DOMAIN count = Contents
    BY <2>1 DEF Counted, CountInv
  <2>3. ASSUME NEW c \in Contents, c = old.child
        PROVE  /\ refs'[c] = refs[c] - 1
               /\ showing'[c] = showing[c] + (IF old.ready THEN -1 ELSE 0)
               /\ running'[c] = running[c] + (IF old.active THEN -1 ELSE 0)
    <3>1. c # 0 /\ c \in DOMAIN refs /\ c \in DOMAIN showing
          /\ c \in DOMAIN running
      BY <1>0 DEF CountInv
    <3> QED
      BY <2>1, <2>3, <3>1 DEF Counted
  <2>4. ASSUME NEW c \in Contents, c # old.child
        PROVE  /\ refs'[c] = refs[c] /\ showing'[c] = showing[c]
               /\ running'[c] = running[c]
    BY <2>1, <2>4 DEF Counted, CountInv
  <2>5. ASSUME NEW c \in Contents
        PROVE  /\ refs'[c] = One(Owned(c)') + One(drawing' = c)
               /\ showing'[c] = One(Shows(c)') /\ running'[c] = One(Runs(c)')
    <3>0. c # 0
      BY <1>0
    <3>1. CASE c = old.child
      <4>1. \A s \in States : child[s] # c
        BY <3>0, <3>1 DEF ApartInv
      <4>2. ~Owned(c)' /\ ~Shows(c)' /\ ~Runs(c)'
        BY <2>1, <3>0, <4>1 DEF Owned, Shows, Runs, Held
      <4>3. Owned(c) /\ (Shows(c) <=> old.ready) /\ (Runs(c) <=> old.active)
        BY <3>1, <4>1 DEF Owned, Shows, Runs, Held
      <4>4. old.ready \in BOOLEAN /\ old.active \in BOOLEAN
        BY <2>1 DEF Gone
      <4> QED
        BY <2>1, <2>3, <3>1, <4>2, <4>3, <4>4 DEF CountInv, One
    <3>2. CASE c # old.child
      <4>1. (Owned(c)' <=> Owned(c)) /\ (Shows(c)' <=> Shows(c))
            /\ (Runs(c)' <=> Runs(c))
        BY <2>1, <3>0, <3>2 DEF Owned, Shows, Runs, Held
      <4> QED
        BY <2>1, <2>4, <3>2, <4>1 DEF CountInv, One
    <3> QED
      BY <3>1, <3>2
  <2> QED
    BY <2>2, <2>5 DEF CountInv
<1>4. CASE CreateChild
  <2>1. /\ made = 0 /\ drawing' = drawing
        /\ UNCHANGED <<child, ready, active, old, showing, running>>
    BY <1>4 DEF CreateChild, layers, TaskInv
  <2>2. CASE made' = 0 /\ UNCHANGED refs
    BY <2>1, <2>2, SameCount
  <2>3. CASE /\ made' \in Contents /\ refs[made'] = 0
             /\ refs' = [refs EXCEPT ![made'] = 1]
    <3>1. ~Owned(made') /\ drawing # made'
      BY <2>3 DEF CountInv, One
    <3>2. ASSUME NEW c \in Contents
          PROVE  /\ Owned(c)' <=> Owned(c) \/ c = made'
                 /\ (Shows(c)' <=> Shows(c)) /\ (Runs(c)' <=> Runs(c))
      BY <1>0, <2>1 DEF Owned, Shows, Runs, Held
    <3> QED
      BY <2>1, <2>3, <3>1, <3>2 DEF CountInv, One
  <2> QED
    BY <1>4, <2>2, <2>3 DEF CreateChild
<1>5. CASE Install
  <2> DEFINE s == Head(tasks).state
  <2>1. /\ s \in States /\ child[s] = 0 /\ old.child = 0
        /\ child' = [child EXCEPT ![s] = made] /\ made' = 0
        /\ ready' = [ready EXCEPT ![s] = FALSE]
        /\ active' = [active EXCEPT ![s] = FALSE]
        /\ UNCHANGED <<refs, showing, running, drawing, old>>
    <3>1. /\ tasks \in Seq(Task) /\ tasks # <<>> /\ old = Nothing
          /\ child[s] = 0
      BY <1>5 DEF Install, TaskInv
    <3>2. Head(tasks) \in Task
      BY <3>1
    <3> QED
      BY <1>5, <3>1, <3>2 DEF Install, FlagsCleared, counts, Nothing, Task
  <2> HIDE DEF s
  <2>2. ASSUME NEW c \in Contents PROVE Owned(c)' <=> Owned(c)
    BY <1>0, <2>1 DEF TypeOK, Owned
  <2>3. ASSUME NEW c \in Contents, NEW t \in States
        PROVE  /\ child'[t] = c /\ ready'[t] <=> child[t] = c /\ ready[t]
               /\ child'[t] = c /\ active'[t] <=> child[t] = c /\ active[t]
    BY <1>0, <2>1 DEF TypeOK
  <2>4. ASSUME NEW c \in Contents
        PROVE  (Shows(c)' <=> Shows(c)) /\ (Runs(c)' <=> Runs(c))
    BY <1>0, <2>1, <2>3 DEF Shows, Runs, Held
  <2> QED
    BY <2>1, <2>2, <2>4 DEF CountInv, One
<1>6. CASE Tick
  <2>1. /\ ready' \in [States -> BOOLEAN] /\ active' \in [States -> BOOLEAN]
        /\ SetRefs(ready', active')
        /\ UNCHANGED <<child, refs, old, made, drawing>>
    BY <1>6 DEF Tick, SetRefs, Alive, Preloads, uiVars
  <2>2. old.ready \in BOOLEAN /\ old.active \in BOOLEAN
    BY DEF TaskInv, Gone
  <2>3. ASSUME NEW c \in Contents
        PROVE  /\ showing'[c] = One(Held(c, ready', old.ready))
               /\ running'[c] = One(Held(c, active', old.active))
    <3>1. /\ showing[c] = One(Held(c, ready, old.ready))
          /\ running[c] = One(Held(c, active, old.active))
      BY DEF CountInv, Shows, Runs
    <3>2. /\ ready \in [States -> BOOLEAN] /\ active \in [States -> BOOLEAN]
          /\ child \in [States -> Contents \cup {0}]
      BY DEF TypeOK
    <3>3. /\ showing'[c] = Ticked(showing[c], c, ready', ready)
          /\ running'[c] = Ticked(running[c], c, active', active)
      BY <2>1 DEF SetRefs, Ticked
    <3>4. Ticked(showing[c], c, ready', ready) = One(Held(c, ready', old.ready))
      BY <1>0, <2>1, <2>2, <3>1, <3>2, TickCounts
    <3>5. Ticked(running[c], c, active', active)
            = One(Held(c, active', old.active))
      BY <1>0, <2>1, <2>2, <3>1, <3>2, TickCounts
    <3> QED
      BY <3>3, <3>4, <3>5
  <2>4. DOMAIN showing' = Contents /\ DOMAIN running' = Contents
    BY <2>1 DEF SetRefs
  <2>5. ASSUME NEW c \in Contents
        PROVE  /\ Owned(c)' <=> Owned(c)
               /\ Shows(c)' <=> Held(c, ready', old.ready)
               /\ Runs(c)' <=> Held(c, active', old.active)
    BY <2>1 DEF Owned, Shows, Runs, Held
  <2> QED
    BY <2>1, <2>3, <2>4, <2>5 DEF CountInv, One
<1>7. ASSUME Drawn \/ \E s \in States : Draw(s) PROVE CountInv'
  <2>1. UNCHANGED <<child, ready, active, showing, running, old, made>>
    BY <1>7 DEF Drawn, Draw, layers, uiVars
  <2>2. ASSUME NEW c \in Contents
        PROVE  (Owned(c)' <=> Owned(c)) /\ (Shows(c)' <=> Shows(c))
               /\ (Runs(c)' <=> Runs(c))
    BY <2>1 DEF Owned, Shows, Runs, Held
  <2>3. ASSUME NEW c \in Contents
        PROVE  refs'[c] = One(Owned(c)) + One(drawing' = c)
    <3>1. CASE Drawn
      BY <1>0, <3>1 DEF Drawn, TypeOK, CountInv, One
    <3>2. ASSUME NEW s \in States, Draw(s)
          PROVE  refs'[c] = One(Owned(c)) + One(drawing' = c)
      BY <1>0, <3>2 DEF Draw, Referenced, TypeOK, CountInv, One
    <3> QED
      BY <1>7, <3>1, <3>2
  <2>4. DOMAIN refs' = Contents
    BY <1>7 DEF Drawn, Draw, Referenced, CountInv
  <2> QED
    BY <2>1, <2>2, <2>3, <2>4 DEF CountInv, One
<1> QED
  BY <1>1, <1>2, <1>3, <1>4, <1>5, <1>6, <1>7 DEF Next, UiTask

-----------------------------------------------------------------------------
\* The invariant of the layers holds in every state of every behaviour.
THEOREM Invariance == Spec => []LayersInv
<1>1. LayersInv /\ [Next]_vars => LayersInv'
  BY StepType, StepApart, StepCount DEF LayersInv
<1> QED
  BY InitInv, <1>1, PTL DEF Spec

\* Every variable keeps its shape.
THEOREM TypeCorrect == Spec => []TypeOK
<1>1. LayersInv => TypeOK
  BY DEF LayersInv
<1> QED
  BY Invariance, <1>1, PTL

\* However configure(), tick() and render() meet, nothing is counted twice, what
\* is released is counted no more, and what is drawn is not released.
THEOREM CountsStayBalanced == Spec => []CountsBalance
  BY Invariance, InvImplies, PTL
=============================================================================
