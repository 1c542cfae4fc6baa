------------------------- MODULE StatsServer_proofs -------------------------
(***************************************************************************)
(* What StatsServer promises for any number of sockets, sources, names and *)
(* keys: the types with the limit on clients, that the sender never sends  *)
(* to a closed socket, that no command or callback runs in a source that   *)
(* is gone, and that nobody acts on a key of the past.                     *)
(***************************************************************************)
EXTENDS StatsServer, FiniteSetTheorems, TLAPS

-----------------------------------------------------------------------------
(* The inductive invariant                                                 *)

Holding == {"alive", "joined", "uncommanded", "unregistered"}

\* The sources whose reference is counted
Referring == {s \in Sources : life[s] \in Holding}

\* The reference count is exact, and who is on its way out holds no reference
\* any more: what start() and stop() trust when they look at it.
RefInv ==
  /\ refs = Cardinality(Referring) + (IF panel = "on" THEN 1 ELSE 0)
  /\ holder \in Sources => life[holder] = "releasing"
  /\ holder = "panel" => panel = "leaving"

\* No thread and no client
Stopped == ~running /\ srv = "none" /\ snd = "none" /\ listed = {}

\* How far stop() has come
StopInv ==
  /\ control \in {"joinServer", "joinSender", "clearClients"} => ~running
  /\ control \in {"joinSender", "clearClients"} => srv = "none"
  /\ control = "clearClients" => snd = "none"
  /\ control = "free" /\ refs = 0 => Stopped
  /\ control = "after" /\ (refs = 0 \/ holder \in Keys \cup {Nobody}) => Stopped

\* Which frames the server thread may still have in hand
BatchInv ==
  /\ batch \in Seq(Sockets \X Messages)
  /\ srv \in {"none", "bind", "round", "serve"} => batch = <<>>
  /\ srv = "upgrade" => batch # <<>>
  /\ \A i \in DOMAIN batch :
       batch[i][1] \in listed \/ srv = "upgrade" => batch[i][1] \in upgraded

\* Sockets are closed by whoever took them off the list, and never under the
\* sender: strengthens SendsToOpenSockets.
SocketInv ==
  /\ srv # "close" => closing = {}
  /\ closing \cap listed = {}
  /\ \A c \in listed : sock[c] # "idle"
  /\ snd # "send" => targets = {}
  /\ SendsToOpenSockets

\* Who is registered is there to be called: strengthens NoCallIntoTheGone.
CallInv ==
  /\ \A n \in Names : \A s \in Sources \ renamed :
       handlers[n] = s => n = name[s] /\ life[s] \in {"alive", "joined"}
  /\ \A n \in Names : \A s \in Sources \ renamed :
       connectCbs[n] = s =>
         n = name[s] /\ life[s] \in {"alive", "joined", "uncommanded"}
  /\ srv \in {"command", "callback"} => callee \in Sources
  /\ srv = "command" /\ callee \notin renamed =>
       life[callee] \in {"alive", "joined"}
  /\ srv = "callback" /\ callee \notin renamed =>
       life[callee] \in {"alive", "joined", "uncommanded"}

\* Only listed clients have shown a key, and that is the current one:
\* strengthens KeyIsCurrent.
KeyInv ==
  \A c \in Sockets :
    /\ keyed[c] \in {Nobody, accessKey}
    /\ c \notin listed => keyed[c] = Nobody

\* The inductive invariant
ServerInv ==
  TypeOK /\ RefInv /\ StopInv /\ BatchInv /\ SocketInv /\ CallInv /\ KeyInv

-----------------------------------------------------------------------------
(* What each group of threads leaves alone                                 *)

\* The server thread changes no reference, no source and nothing of the
\* sender.
LEMMA ServingFrame ==
  Serving => UNCHANGED <<refVars, sndVars, sourceVars>>
  BY DEF Serving, Bind, Leave, Round, Idle, CloseSockets, Return, Accept,
    Finish, Request, Receive, FinishUpgrade, Authenticate, Command

\* The sender only changes its own state and ends sockets.
LEMMA SendingFrame ==
  Sending => UNCHANGED <<refVars, srvVars, listed, upgraded, authed, keyed,
                         blocked, sourceVars>>
  BY DEF Sending, SenderWakes, Deliver, Delivered, Send, clientVars

\* A client only changes its socket, and time its block.
LEMMA ClientsFrame ==
  Clients => UNCHANGED <<refVars, srvVars, sndVars, listed, upgraded, authed,
                         keyed, sourceVars>>
  BY DEF Clients, HangUp, Unblock, clientVars

-----------------------------------------------------------------------------
(* References                                                              *)

\* There are finitely many sources to hold one.
LEMMA ReferringFinite ==
  /\ IsFiniteSet(Referring)
  /\ Cardinality(Referring) \in 0 .. Cardinality(Sources)
<1>1. Referring \subseteq Sources
  BY DEF Referring
<1> QED
  BY <1>1, ServerAssumption, FS_Subset, FS_CardinalityType
  DEF ServerAssumption

\* The reference count is a number within the type's range.
LEMMA RefCount ==
  RefInv => refs \in Nat /\ refs \in 0 .. Cardinality(Sources) + 1
  BY ReferringFinite, ServerAssumption, FS_CardinalityType
  DEF RefInv, ServerAssumption

\* Every reference taken is given back once.
LEMMA RefStep == TypeOK /\ RefInv /\ [Next]_vars => RefInv'
<1> SUFFICES ASSUME TypeOK, RefInv, [Next]_vars PROVE RefInv'
  OBVIOUS
<1>1. CASE JoinServer
  BY <1>1 DEF JoinServer, RefInv, Referring, sourceVars
<1>2. CASE JoinSender
  BY <1>2 DEF JoinSender, RefInv, Referring, sourceVars
<1>3. CASE ClearClients
  BY <1>3 DEF ClearClients, RefInv, Referring, sourceVars
<1>4. CASE AfterStop
  <2>1. \A s \in Sources : life'[s] \in Holding <=> life[s] \in Holding
    BY <1>4 DEF AfterStop, RefInv, TypeOK, Holding
  <2>2. Referring' = Referring
    BY <2>1 DEF Referring
  <2> QED
    BY <1>4, <2>2, ServerAssumption
    DEF AfterStop, RefInv, ServerAssumption, Nobody
<1>5. CASE Serving
  BY <1>5, ServingFrame
  DEF RefInv, Referring, refVars, sourceVars
<1>6. CASE Sending
  BY <1>6, SendingFrame
  DEF RefInv, Referring, refVars, sourceVars
<1>7. CASE Clients
  BY <1>7, ClientsFrame
  DEF RefInv, Referring, refVars, sourceVars
<1>8. CASE PanelStart
  <2>1. Referring' = Referring
    BY <1>8 DEF PanelStart, Referring
  <2> QED
    BY <1>8, <2>1, ReferringFinite DEF PanelStart, AddRef, RefInv
<1>9. CASE PanelStop
  <2>1. Referring' = Referring
    BY <1>9 DEF PanelStop, Referring
  <2>2. holder' = "panel" /\ panel' = "leaving" /\ refs' = refs - 1
    BY <1>9, ReferringFinite DEF PanelStop, ReleaseRef, RefInv
  <2> QED
    BY <1>9, <2>1, <2>2, ServerAssumption, ReferringFinite
    DEF PanelStop, RefInv, ServerAssumption
<1>10. ASSUME NEW k \in Keys \cup {Nobody}, Configure(k) PROVE RefInv'
  <2>1. Referring' = Referring
    BY <1>10 DEF Configure, Referring, sourceVars
  <2> QED
    BY <1>10, <2>1, ServerAssumption
    DEF Configure, RefInv, ServerAssumption, Nobody, sourceVars
<1>11. ASSUME NEW s \in Sources, Create(s) PROVE RefInv'
  <2>1. Referring' = Referring \cup {s} /\ s \notin Referring
    BY <1>11 DEF Create, Referring, Holding, TypeOK
  <2>2. Cardinality(Referring') = Cardinality(Referring) + 1
    BY <2>1, ReferringFinite, FS_AddElement
  <2>3. refs' = refs + 1 /\ UNCHANGED <<holder, panel>>
    BY <1>11 DEF Create, AddRef
  <2>4. holder \in Sources => life'[holder] = "releasing"
    BY <1>11 DEF Create, RefInv, TypeOK
  <2> QED
    BY <2>2, <2>3, <2>4, ReferringFinite DEF RefInv
<1>12. ASSUME NEW s \in Sources, WriteStats(s) PROVE RefInv'
  <2>1. Referring' = Referring
    BY <1>12 DEF WriteStats, Referring
  <2> QED
    BY <1>12, <2>1 DEF WriteStats, RefInv, refVars
<1>13. ASSUME NEW s \in Sources, Rename(s) PROVE RefInv'
  <2>1. Referring' = Referring
    BY <1>13 DEF Rename, Referring
  <2> QED
    BY <1>13, <2>1 DEF Rename, RefInv, refVars
<1>14. ASSUME NEW s \in Sources, Destroy(s) PROVE RefInv'
  <2>1. Referring' = Referring
    BY <1>14 DEF Destroy, Referring, Holding, TypeOK
  <2> QED
    BY <1>14, <2>1 DEF Destroy, RefInv, refVars, TypeOK
<1>15. ASSUME NEW s \in Sources, UnregisterCommand(s) PROVE RefInv'
  <2>1. Referring' = Referring
    BY <1>15 DEF UnregisterCommand, Referring, Holding, TypeOK
  <2> QED
    BY <1>15, <2>1 DEF UnregisterCommand, RefInv, refVars, TypeOK
<1>16. ASSUME NEW s \in Sources, UnregisterCallback(s) PROVE RefInv'
  <2>1. Referring' = Referring
    BY <1>16 DEF UnregisterCallback, Referring, Holding, TypeOK
  <2> QED
    BY <1>16, <2>1 DEF UnregisterCallback, RefInv, refVars, TypeOK
<1>17. ASSUME NEW s \in Sources, ReleaseSource(s) PROVE RefInv'
  <2>1. Referring' = Referring \ {s} /\ s \in Referring
    BY <1>17 DEF ReleaseSource, Referring, Holding, TypeOK
  <2>2. /\ Cardinality(Referring') = Cardinality(Referring) - 1
        /\ Cardinality(Referring') \in Nat
    BY <2>1, ReferringFinite, FS_RemoveElement, FS_CardinalityType
  <2>3. holder' = s /\ panel' = panel /\ refs' = refs - 1
    BY <1>17, <2>2, ReferringFinite DEF ReleaseSource, ReleaseRef, RefInv
  <2>4. life'[s] = "releasing"
    BY <1>17 DEF ReleaseSource, TypeOK
  <2> QED
    BY <2>2, <2>3, <2>4, ReferringFinite, ServerAssumption
    DEF RefInv, ServerAssumption
<1>18. CASE UNCHANGED vars
  BY <1>18 DEF vars, RefInv, Referring, refVars, sourceVars
<1> QED
  BY <1>1, <1>2, <1>3, <1>4, <1>5, <1>6, <1>7, <1>8, <1>9, <1>10, <1>11,
    <1>12, <1>13, <1>14, <1>15, <1>16, <1>17, <1>18 DEF Next, Controlling,
    Owners

-----------------------------------------------------------------------------
(* start() and stop()                                                      *)

\* stop() goes on only when the thread it waits for is gone, and leaves a server
\* without threads and clients.
LEMMA StopStep == TypeOK /\ RefInv /\ StopInv /\ [Next]_vars => StopInv'
<1> SUFFICES ASSUME TypeOK, RefInv, StopInv, [Next]_vars PROVE StopInv'
  OBVIOUS
<1> USE DEF StopInv, Stopped, refVars, srvVars, sndVars, clientVars,
  sourceVars
<1>1. CASE JoinServer
  BY <1>1 DEF JoinServer
<1>2. CASE JoinSender
  BY <1>2 DEF JoinSender
<1>3. CASE ClearClients
  BY <1>3 DEF ClearClients, ClientsAfterStop
<1>4. CASE AfterStop
  BY <1>4, RefCount, ServerAssumption DEF AfterStop, Start, RefInv,
    ServerAssumption, Nobody, TypeOK
<1>5. CASE Bind
  BY <1>5 DEF Bind
<1>6. CASE Leave
  BY <1>6 DEF Leave, GivesUpBinding
<1>7. CASE Round
  BY <1>7 DEF Round, Unlist
<1>8. CASE Idle
  BY <1>8 DEF Idle
<1>9. CASE CloseSockets
  BY <1>9 DEF CloseSockets, MayClose
<1>10. CASE Return
  BY <1>10 DEF Return, Handled
<1>11. ASSUME NEW c \in Sockets, Accept(c) PROVE StopInv'
  BY <1>11 DEF Accept
<1>12. ASSUME NEW c \in Sockets, Finish(c) PROVE StopInv'
  BY <1>12 DEF Finish, Unlist
<1>13. ASSUME NEW c \in Sockets, Request(c) PROVE StopInv'
  BY <1>13 DEF Request
<1>14. ASSUME NEW c \in Sockets, Receive(c) PROVE StopInv'
  BY <1>14 DEF Receive
<1>15. ASSUME NEW c \in Sockets, FinishUpgrade(c) PROVE StopInv'
  BY <1>15 DEF FinishUpgrade, Unlist
<1>16. ASSUME NEW c \in Sockets, NEW m \in Messages, Authenticate(c, m)
      PROVE  StopInv'
  BY <1>16 DEF Authenticate, Unlist, Handled
<1>17. ASSUME NEW c \in Sockets, NEW m \in Messages, Command(c, m)
      PROVE  StopInv'
  BY <1>17 DEF Command, Handled
<1>18. CASE SenderWakes
  BY <1>18 DEF SenderWakes
<1>19. CASE Deliver
  BY <1>19 DEF Deliver, Audience
<1>20. CASE Delivered
  BY <1>20 DEF Delivered
<1>21. ASSUME NEW c \in Sockets, Send(c) PROVE StopInv'
  BY <1>21 DEF Send
<1>22. CASE Clients
  BY <1>22, ClientsFrame
<1>23. CASE PanelStart
  BY <1>23, RefCount, ServerAssumption DEF PanelStart, AddRef, Start, RefInv,
    ServerAssumption, Nobody, TypeOK
<1>24. CASE PanelStop
  BY <1>24, RefCount, ServerAssumption DEF PanelStop, ReleaseRef, RefInv,
    ServerAssumption, Nobody, TypeOK
<1>25. ASSUME NEW k \in Keys \cup {Nobody}, Configure(k) PROVE StopInv'
  BY <1>25, RefCount, ServerAssumption DEF Configure, RefInv,
    ServerAssumption, Nobody, TypeOK
<1>26. ASSUME NEW s \in Sources, Create(s) PROVE StopInv'
  BY <1>26, RefCount, ServerAssumption DEF Create, AddRef, Start, RefInv,
    ServerAssumption, Nobody, TypeOK
<1>27. ASSUME NEW s \in Sources, WriteStats(s) PROVE StopInv'
  BY <1>27 DEF WriteStats
<1>28. ASSUME NEW s \in Sources, Rename(s) PROVE StopInv'
  BY <1>28 DEF Rename
<1>29. ASSUME NEW s \in Sources, Destroy(s) PROVE StopInv'
  BY <1>29 DEF Destroy
<1>30. ASSUME NEW s \in Sources, UnregisterCommand(s) PROVE StopInv'
  BY <1>30 DEF UnregisterCommand
<1>31. ASSUME NEW s \in Sources, UnregisterCallback(s) PROVE StopInv'
  BY <1>31 DEF UnregisterCallback
<1>32. ASSUME NEW s \in Sources, ReleaseSource(s) PROVE StopInv'
  BY <1>32, RefCount, ServerAssumption DEF ReleaseSource, ReleaseRef, RefInv,
    ServerAssumption, Nobody, TypeOK
<1>33. CASE UNCHANGED vars
  BY <1>33 DEF vars
<1> QED
  BY <1>1, <1>2, <1>3, <1>4, <1>5, <1>6, <1>7, <1>8, <1>9, <1>10, <1>11,
    <1>12, <1>13, <1>14, <1>15, <1>16, <1>17, <1>18, <1>19, <1>20, <1>21,
    <1>22, <1>23, <1>24, <1>25, <1>26, <1>27, <1>28, <1>29, <1>30, <1>31,
    <1>32, <1>33 DEF Next, Controlling, Serving, Sending, Owners

-----------------------------------------------------------------------------
(* Types                                                                   *)

\* What is left of a batch once its head is taken
LEMMA BatchTail ==
  ASSUME BatchInv, batch # <<>>
  PROVE  /\ Tail(batch) \in Seq(Sockets \X Messages)
         /\ Len(Tail(batch)) = Len(batch) - 1
         /\ 1 \in DOMAIN batch /\ Head(batch) = batch[1]
         /\ \A i \in DOMAIN Tail(batch) :
              i + 1 \in DOMAIN batch /\ Tail(batch)[i] = batch[i + 1]
  BY DEF BatchInv

\* A list that loses members or gains one below the limit stays within it.
LEMMA ListBound ==
  ASSUME TypeOK
  PROVE  /\ \A l \in SUBSET listed : Cardinality(l) <= MaxClients
         /\ \A c \in Sockets :
              ~Full => Cardinality(listed \cup {c}) <= MaxClients
<1>1. IsFiniteSet(listed) /\ Cardinality(listed) \in Nat
  BY ServerAssumption, FS_Subset, FS_CardinalityType
  DEF ServerAssumption, TypeOK
<1>2. ASSUME NEW l \in SUBSET listed PROVE Cardinality(l) <= MaxClients
  <2>1. Cardinality(l) <= Cardinality(listed) /\ Cardinality(l) \in Nat
    BY <1>1, FS_Subset, FS_CardinalityType
  <2> QED
    BY <1>1, <2>1, ServerAssumption DEF TypeOK, ServerAssumption
<1>3. ASSUME NEW c \in Sockets, ~Full
      PROVE  Cardinality(listed \cup {c}) <= MaxClients
  <2>1. CASE c \in listed
    <3>1. listed \cup {c} = listed
      BY <2>1
    <3> QED
      BY <3>1 DEF TypeOK
  <2>2. CASE c \notin listed
    <3>1. Cardinality(listed \cup {c}) = Cardinality(listed) + 1
      BY <1>1, <2>2, FS_AddElement
    <3> QED
      BY <1>1, <1>3, <3>1, ServerAssumption DEF Full, ServerAssumption
  <2> QED
    BY <2>1, <2>2
<1> QED
  BY <1>2, <1>3

\* Whoever owns a reference leaves the clients and the frames in hand alone.
LEMMA OwnersFrame ==
  Owners => UNCHANGED <<batch, closing, callee, targets, clientVars>>
  BY DEF Owners, AddRef, ReleaseRef, srvVars, sndVars, PanelStart, PanelStop,
    Configure, Create, WriteStats, Rename, Destroy, UnregisterCommand,
    UnregisterCallback, ReleaseSource

\* TypeOK but for the count of references, in four parts: start() and stop(),
\* the two threads, the clients and the sources.
ControlTypes ==
  /\ running \in BOOLEAN
  /\ accessKey \in Keys \cup {Nobody}
  /\ control \in {"free", "joinServer", "joinSender", "clearClients", "after"}
  /\ holder \in Keys \cup Sources \cup {"panel", Nobody}

ThreadTypes ==
  /\ srv \in {"none", "bind", "round", "serve", "close", "upgrade", "handle",
              "command", "callback"}
  /\ Len(batch) <= MaxBatch /\ closing \subseteq Sockets
  /\ callee \in Sources \cup {Nobody}
  /\ snd \in {"none", "wait", "send"}
  /\ targets \subseteq Sockets

ClientTypes ==
  /\ sock \in [Sockets -> {"idle", "open", "ended"}]
  /\ listed \subseteq Sockets /\ Cardinality(listed) <= MaxClients
  /\ upgraded \subseteq listed /\ authed \subseteq upgraded
  /\ keyed \in [Sockets -> Keys \cup {Nobody}]
  /\ blocked \subseteq Sockets \ Local

SourceTypes ==
  /\ life \in [Sources -> {"none", "alive", "joined", "uncommanded",
                           "unregistered", "releasing", "gone"}]
  /\ name \in [Sources -> Names \cup {Nobody}]
  /\ renamed \subseteq Sources
  /\ handlers \in [Names -> Sources \cup {Nobody}]
  /\ connectCbs \in [Names -> Sources \cup {Nobody}]
  /\ panel \in {"none", "on", "leaving", "gone"}

LEMMA TypeParts ==
  TypeOK <=> /\ refs \in 0 .. Cardinality(Sources) + 1
             /\ ControlTypes /\ ThreadTypes /\ ClientTypes /\ SourceTypes
  BY DEF TypeOK, ControlTypes, ThreadTypes, ClientTypes, SourceTypes

\* start() and stop() keep their types.
LEMMA ControlTypesStep ==
  TypeOK /\ RefInv /\ BatchInv /\ [Next]_vars => ControlTypes'
<1> SUFFICES ASSUME TypeOK, RefInv, BatchInv, [Next]_vars PROVE ControlTypes'
  OBVIOUS
<1>0. ControlTypes
  BY TypeParts
<1> USE DEF ControlTypes, refVars, srvVars, sndVars, clientVars, sourceVars
<1>1. CASE JoinServer
  BY <1>1, <1>0 DEF JoinServer
<1>2. CASE JoinSender
  BY <1>2, <1>0 DEF JoinSender
<1>3. CASE ClearClients
  BY <1>3, <1>0 DEF ClearClients, ClientsAfterStop
<1>4. CASE AfterStop
  <2>1. running' \in BOOLEAN
    BY <1>4, <1>0, Zenon DEF AfterStop, Start
  <2> QED
    BY <1>4, <1>0, <2>1 DEF AfterStop, Start
<1>5. CASE Serving
  BY <1>5, <1>0, ServingFrame
<1>6. CASE Sending
  BY <1>6, <1>0, SendingFrame
<1>7. CASE Clients
  BY <1>7, <1>0, ClientsFrame
<1>8. CASE PanelStart
  <2>1. running' \in BOOLEAN
    BY <1>8, <1>0, Zenon DEF PanelStart, AddRef, Start
  <2> QED
    BY <1>8, <1>0, <2>1 DEF PanelStart, AddRef, Start
<1>9. CASE PanelStop
  <2>1. running' \in BOOLEAN
    BY <1>9, <1>0, Zenon DEF PanelStop, ReleaseRef
  <2> QED
    BY <1>9, <1>0, <2>1 DEF PanelStop, ReleaseRef
<1>10. ASSUME NEW k \in Keys \cup {Nobody}, Configure(k) PROVE ControlTypes'
  BY <1>10, <1>0 DEF Configure
<1>11. ASSUME NEW s \in Sources, Create(s) PROVE ControlTypes'
  <2>1. running' \in BOOLEAN
    BY <1>11, <1>0, Zenon DEF Create, AddRef, Start
  <2> QED
    BY <1>11, <1>0, <2>1 DEF Create, AddRef, Start
<1>12. ASSUME NEW s \in Sources, WriteStats(s) PROVE ControlTypes'
  BY <1>12, <1>0 DEF WriteStats
<1>13. ASSUME NEW s \in Sources, Rename(s) PROVE ControlTypes'
  BY <1>13, <1>0 DEF Rename
<1>14. ASSUME NEW s \in Sources, Destroy(s) PROVE ControlTypes'
  BY <1>14, <1>0 DEF Destroy
<1>15. ASSUME NEW s \in Sources, UnregisterCommand(s) PROVE ControlTypes'
  BY <1>15, <1>0 DEF UnregisterCommand
<1>16. ASSUME NEW s \in Sources, UnregisterCallback(s) PROVE ControlTypes'
  BY <1>16, <1>0 DEF UnregisterCallback
<1>17. ASSUME NEW s \in Sources, ReleaseSource(s) PROVE ControlTypes'
  <2>1. running' \in BOOLEAN
    BY <1>17, <1>0, Zenon DEF ReleaseSource, ReleaseRef
  <2> QED
    BY <1>17, <1>0, <2>1 DEF ReleaseSource, ReleaseRef
<1>18. CASE UNCHANGED vars
  BY <1>18, <1>0 DEF vars
<1> QED
  BY <1>1, <1>2, <1>3, <1>4, <1>5, <1>6, <1>7, <1>8, <1>9, <1>10, <1>11,
    <1>12, <1>13, <1>14, <1>15, <1>16, <1>17, <1>18 DEF Next, Controlling,
    Owners

\* So do the sources.
LEMMA SourceTypesStep ==
  TypeOK /\ RefInv /\ BatchInv /\ [Next]_vars => SourceTypes'
<1> SUFFICES ASSUME TypeOK, RefInv, BatchInv, [Next]_vars PROVE SourceTypes'
  OBVIOUS
<1>0. SourceTypes
  BY TypeParts
<1> USE DEF SourceTypes, refVars, srvVars, sndVars, clientVars, sourceVars
<1>1. CASE JoinServer
  BY <1>1, <1>0 DEF JoinServer
<1>2. CASE JoinSender
  BY <1>2, <1>0 DEF JoinSender
<1>3. CASE ClearClients
  BY <1>3, <1>0 DEF ClearClients
<1>4. CASE AfterStop
  BY <1>4, <1>0 DEF AfterStop
<1>5. CASE Serving
  BY <1>5, <1>0, ServingFrame
<1>6. CASE Sending
  BY <1>6, <1>0, SendingFrame
<1>7. CASE Clients
  BY <1>7, <1>0, ClientsFrame
<1>8. CASE PanelStart
  BY <1>8, <1>0 DEF PanelStart
<1>9. CASE PanelStop
  BY <1>9, <1>0 DEF PanelStop
<1>10. ASSUME NEW k \in Keys \cup {Nobody}, Configure(k) PROVE SourceTypes'
  BY <1>10, <1>0 DEF Configure
<1>11. ASSUME NEW s \in Sources, Create(s) PROVE SourceTypes'
  BY <1>11, <1>0 DEF Create
<1>12. ASSUME NEW s \in Sources, WriteStats(s) PROVE SourceTypes'
  BY <1>12, <1>0 DEF WriteStats
<1>13. ASSUME NEW s \in Sources, Rename(s) PROVE SourceTypes'
  BY <1>13, <1>0 DEF Rename
<1>14. ASSUME NEW s \in Sources, Destroy(s) PROVE SourceTypes'
  BY <1>14, <1>0 DEF Destroy
<1>15. ASSUME NEW s \in Sources, UnregisterCommand(s) PROVE SourceTypes'
  BY <1>15, <1>0 DEF UnregisterCommand
<1>16. ASSUME NEW s \in Sources, UnregisterCallback(s) PROVE SourceTypes'
  BY <1>16, <1>0 DEF UnregisterCallback
<1>17. ASSUME NEW s \in Sources, ReleaseSource(s) PROVE SourceTypes'
  BY <1>17, <1>0 DEF ReleaseSource
<1>18. CASE UNCHANGED vars
  BY <1>18, <1>0 DEF vars
<1> QED
  BY <1>1, <1>2, <1>3, <1>4, <1>5, <1>6, <1>7, <1>8, <1>9, <1>10, <1>11,
    <1>12, <1>13, <1>14, <1>15, <1>16, <1>17, <1>18 DEF Next, Controlling,
    Owners

\* So do the two threads.
LEMMA ThreadTypesStep ==
  TypeOK /\ RefInv /\ BatchInv /\ [Next]_vars => ThreadTypes'
<1> SUFFICES ASSUME TypeOK, RefInv, BatchInv, [Next]_vars PROVE ThreadTypes'
  OBVIOUS
<1>0. ThreadTypes
  BY TypeParts
<1> USE DEF ThreadTypes, refVars, srvVars, sndVars, clientVars, sourceVars
<1>1. CASE JoinServer
  BY <1>1, <1>0 DEF JoinServer
<1>2. CASE JoinSender
  BY <1>2, <1>0 DEF JoinSender
<1>3. CASE ClearClients
  BY <1>3, <1>0 DEF ClearClients, ClientsAfterStop
<1>4. CASE AfterStop
  BY <1>4, <1>0 DEF AfterStop, Start
<1>5. CASE Bind
  BY <1>5, <1>0 DEF Bind
<1>6. CASE Leave
  BY <1>6, <1>0 DEF Leave, GivesUpBinding
<1>7. CASE Round
  <2>1. closing' \subseteq Sockets
    BY <1>7, <1>0 DEF Round, TypeOK
  <2>2. srv' \in {"serve", "close"}
    BY <1>7, <1>0 DEF Round
  <2> QED
    BY <1>7, <1>0, <2>1, <2>2 DEF Round
<1>8. CASE Idle
  BY <1>8, <1>0 DEF Idle
<1>9. CASE CloseSockets
  BY <1>9, <1>0 DEF CloseSockets, MayClose
<1>10. CASE Return
  BY <1>10, <1>0 DEF Return, Handled
<1>11. ASSUME NEW c \in Sockets, Accept(c) PROVE ThreadTypes'
  BY <1>11, <1>0 DEF Accept
<1>12. ASSUME NEW c \in Sockets, Finish(c) PROVE ThreadTypes'
  <2>1. \A x : Len(<<x>>) = 1 /\ Len(<<>>) = 0
    OBVIOUS
  <2> QED
    BY <1>12, <1>0, <2>1, ServerAssumption DEF Finish, ServerAssumption
<1>13. ASSUME NEW c \in Sockets, Request(c) PROVE ThreadTypes'
  <2>1. \A x : Len(<<x>>) = 1 /\ Len(<<>>) = 0
    OBVIOUS
  <2> QED
    BY <1>13, <1>0, <2>1, ServerAssumption DEF Request, ServerAssumption
<1>14. ASSUME NEW c \in Sockets, Receive(c) PROVE ThreadTypes'
  <2>1. PICK l \in 1 .. MaxBatch, f \in [1 .. MaxBatch -> Messages] :
           batch' = [i \in 1 .. l |-> <<c, f[i]>>]
    BY <1>14, <1>0 DEF Receive
  <2>2. Len(batch') = l
    BY <2>1, ServerAssumption DEF ServerAssumption
  <2> QED
    BY <1>14, <1>0, <2>2, ServerAssumption DEF Receive, ServerAssumption
<1>15. ASSUME NEW c \in Sockets, FinishUpgrade(c) PROVE ThreadTypes'
  <2>1. Len(batch') = 0
    BY <1>15, <1>0 DEF FinishUpgrade
  <2>2. \/ closing' = {c} /\ srv' = "close" /\ callee' = callee
        \/ /\ closing' = closing
           /\ \/ srv' = "round" /\ callee' = callee
              \/ srv' = "callback" /\ callee' \in Sources
    BY <1>15, <1>0 DEF FinishUpgrade
  <2> QED
    BY <1>15, <1>0, <2>1, <2>2, ServerAssumption DEF FinishUpgrade,
      ServerAssumption
<1>16. ASSUME NEW c \in Sockets, NEW m \in Messages, Authenticate(c, m)
      PROVE  ThreadTypes'
  <2>1. Len(Tail(batch)) <= MaxBatch
    BY <1>16, <1>0, BatchTail, ServerAssumption DEF Authenticate,
      ServerAssumption
  <2> QED
    BY <1>16, <1>0, <2>1 DEF Authenticate, Handled
<1>17. ASSUME NEW c \in Sockets, NEW m \in Messages, Command(c, m)
      PROVE  ThreadTypes'
  <2>1. Len(Tail(batch)) <= MaxBatch
    BY <1>17, <1>0, BatchTail, ServerAssumption DEF Command, ServerAssumption
  <2>2. m \in Names => handlers[m] \in Sources \cup {Nobody}
    BY DEF TypeOK
  <2> QED
    BY <1>17, <1>0, <2>1, <2>2 DEF Command, Handled
<1>18. CASE SenderWakes
  BY <1>18, <1>0 DEF SenderWakes
<1>19. CASE Deliver
  BY <1>19, <1>0 DEF Deliver, Audience, TypeOK
<1>20. CASE Delivered
  BY <1>20, <1>0 DEF Delivered
<1>21. ASSUME NEW c \in Sockets, Send(c) PROVE ThreadTypes'
  BY <1>21, <1>0 DEF Send
<1>22. CASE Clients
  BY <1>22, <1>0, ClientsFrame
<1>23. CASE PanelStart
  BY <1>23, <1>0, OwnersFrame DEF PanelStart, AddRef, Start
<1>24. CASE PanelStop
  BY <1>24, <1>0, OwnersFrame DEF PanelStop
<1>25. ASSUME NEW k \in Keys \cup {Nobody}, Configure(k) PROVE ThreadTypes'
  BY <1>25, <1>0, OwnersFrame DEF Configure
<1>26. ASSUME NEW s \in Sources, Create(s) PROVE ThreadTypes'
  BY <1>26, <1>0, OwnersFrame DEF Create, AddRef, Start
<1>27. ASSUME NEW s \in Sources, WriteStats(s) PROVE ThreadTypes'
  BY <1>27, <1>0 DEF WriteStats
<1>28. ASSUME NEW s \in Sources, Rename(s) PROVE ThreadTypes'
  BY <1>28, <1>0 DEF Rename
<1>29. ASSUME NEW s \in Sources, Destroy(s) PROVE ThreadTypes'
  BY <1>29, <1>0 DEF Destroy
<1>30. ASSUME NEW s \in Sources, UnregisterCommand(s) PROVE ThreadTypes'
  BY <1>30, <1>0 DEF UnregisterCommand
<1>31. ASSUME NEW s \in Sources, UnregisterCallback(s) PROVE ThreadTypes'
  BY <1>31, <1>0 DEF UnregisterCallback
<1>32. ASSUME NEW s \in Sources, ReleaseSource(s) PROVE ThreadTypes'
  BY <1>32, <1>0, OwnersFrame DEF ReleaseSource
<1>33. CASE UNCHANGED vars
  BY <1>33, <1>0 DEF vars
<1> QED
  BY <1>1, <1>2, <1>3, <1>4, <1>5, <1>6, <1>7, <1>8, <1>9, <1>10, <1>11,
    <1>12, <1>13, <1>14, <1>15, <1>16, <1>17, <1>18, <1>19, <1>20, <1>21,
    <1>22, <1>23, <1>24, <1>25, <1>26, <1>27, <1>28, <1>29, <1>30, <1>31,
    <1>32, <1>33 DEF Next, Controlling, Serving, Sending, Owners

\* A client that is taken off the list leaves the lists consistent.
LEMMA UnlistTypes ==
  ASSUME TypeOK, NEW c \in Sockets, Unlist(c)
  PROVE  /\ listed' \subseteq Sockets /\ Cardinality(listed') <= MaxClients
         /\ upgraded' \subseteq listed' /\ authed' \subseteq upgraded'
         /\ keyed' \in [Sockets -> Keys \cup {Nobody}]
<1>1. Cardinality(listed') <= MaxClients
  <2>1. listed' \in SUBSET listed
    BY DEF Unlist
  <2> QED
    BY <2>1, ListBound
<1> QED
  BY <1>1 DEF TypeOK, Unlist

\* The frames in hand during an upgrade, or of a client still listed, are those
\* of a client that has been upgraded.
LEMMA HeadUpgraded ==
  ASSUME BatchInv, batch # <<>>
  PROVE  Head(batch)[1] \in listed \/ srv = "upgrade" =>
           Head(batch)[1] \in upgraded
  BY BatchTail DEF BatchInv

\* So do the clients, whose number stays within the limit.
LEMMA ClientTypesStep ==
  TypeOK /\ RefInv /\ BatchInv /\ [Next]_vars => ClientTypes'
<1> SUFFICES ASSUME TypeOK, RefInv, BatchInv, [Next]_vars PROVE ClientTypes'
  OBVIOUS
<1>0. ClientTypes
  BY TypeParts
<1> USE DEF ClientTypes, refVars, srvVars, sndVars, clientVars, sourceVars
<1>1. CASE JoinServer
  BY <1>1, <1>0 DEF JoinServer
<1>2. CASE JoinSender
  BY <1>2, <1>0 DEF JoinSender
<1>3. CASE ClearClients
  <2>1. Cardinality({}) <= MaxClients
    BY ListBound
  <2> QED
    BY <1>3, <1>0, <2>1 DEF ClearClients, ClientsAfterStop
<1>4. CASE AfterStop
  BY <1>4, <1>0 DEF AfterStop
<1>5. CASE Bind
  BY <1>5, <1>0 DEF Bind
<1>6. CASE Leave
  BY <1>6, <1>0 DEF Leave
<1>7. CASE Round
  <2>1. CASE UNCHANGED <<listed, upgraded, authed, keyed>>
    BY <1>7, <1>0, <2>1 DEF Round
  <2>2. ASSUME NEW c \in listed \ authed, Unlist(c) PROVE ClientTypes'
    BY <1>7, <1>0, <2>2, UnlistTypes DEF Round
  <2> QED
    BY <1>7, <1>0, <2>1, <2>2 DEF Round
<1>8. CASE Idle
  BY <1>8, <1>0 DEF Idle
<1>9. CASE CloseSockets
  BY <1>9, <1>0 DEF CloseSockets
<1>10. CASE Return
  BY <1>10, <1>0 DEF Return
<1>11. ASSUME NEW c \in Sockets, Accept(c) PROVE ClientTypes'
  <2>1. ~Full => Cardinality(listed \cup {c}) <= MaxClients
    BY ListBound
  <2> QED
    BY <1>11, <1>0, <2>1 DEF Accept
<1>12. ASSUME NEW c \in Sockets, Finish(c) PROVE ClientTypes'
  BY <1>12, <1>0, UnlistTypes DEF Finish
<1>13. ASSUME NEW c \in Sockets, Request(c) PROVE ClientTypes'
  BY <1>13, <1>0 DEF Request
<1>14. ASSUME NEW c \in Sockets, Receive(c) PROVE ClientTypes'
  BY <1>14, <1>0 DEF Receive
<1>15. ASSUME NEW c \in Sockets, FinishUpgrade(c) PROVE ClientTypes'
  <2>1. c \in upgraded
    BY <1>15, <1>0, HeadUpgraded DEF FinishUpgrade
  <2>2. CASE Unlist(c)
    BY <1>15, <1>0, <2>2, UnlistTypes DEF FinishUpgrade
  <2>3. CASE ~Unlist(c)
    BY <1>15, <1>0, <2>1, <2>3 DEF FinishUpgrade
  <2> QED
    BY <2>2, <2>3
<1>16. ASSUME NEW c \in Sockets, NEW m \in Messages, Authenticate(c, m)
      PROVE  ClientTypes'
  <2>1. c \in listed => c \in upgraded
    BY <1>16, <1>0, HeadUpgraded DEF Authenticate
  <2>2. accessKey \in Keys \cup {Nobody}
    BY DEF TypeOK
  <2>3. CASE Proves(c, m)
    BY <1>16, <1>0, <2>1, <2>2, <2>3 DEF Authenticate
  <2>4. CASE ~Proves(c, m)
    BY <1>16, <1>0, <2>4, UnlistTypes DEF Authenticate
  <2> QED
    BY <2>3, <2>4
<1>17. ASSUME NEW c \in Sockets, NEW m \in Messages, Command(c, m)
      PROVE  ClientTypes'
  <2>1. accessKey \in Keys \cup {Nobody}
    BY DEF TypeOK
  <2> QED
    BY <1>17, <1>0, <2>1 DEF Command
<1>18. CASE SenderWakes
  BY <1>18, <1>0 DEF SenderWakes
<1>19. CASE Deliver
  BY <1>19, <1>0 DEF Deliver
<1>20. CASE Delivered
  BY <1>20, <1>0 DEF Delivered
<1>21. ASSUME NEW c \in Sockets, Send(c) PROVE ClientTypes'
  BY <1>21, <1>0 DEF Send
<1>22. ASSUME NEW c \in Sockets, HangUp(c) PROVE ClientTypes'
  BY <1>22, <1>0 DEF HangUp
<1>23. ASSUME NEW c \in Sockets, Unblock(c) PROVE ClientTypes'
  BY <1>23, <1>0 DEF Unblock
<1>24. CASE Owners
  BY <1>24, <1>0, OwnersFrame
<1>25. CASE UNCHANGED vars
  BY <1>25, <1>0 DEF vars
<1> QED
  BY <1>1, <1>2, <1>3, <1>4, <1>5, <1>6, <1>7, <1>8, <1>9, <1>10, <1>11,
    <1>12, <1>13, <1>14, <1>15, <1>16, <1>17, <1>18, <1>19, <1>20, <1>21,
    <1>22, <1>23, <1>24, <1>25 DEF Next, Controlling, Serving, Sending,
    Clients

\* No step leaves the types, and no client is accepted beyond the limit.
LEMMA TypeStep == TypeOK /\ RefInv /\ BatchInv /\ [Next]_vars => TypeOK'
<1> SUFFICES ASSUME TypeOK, RefInv, BatchInv, [Next]_vars PROVE TypeOK'
  OBVIOUS
<1>1. RefInv'
  BY RefStep
<1>2. (refs \in 0 .. Cardinality(Sources) + 1)'
  <2>1. Referring' \subseteq Sources
    BY DEF Referring
  <2>2. Cardinality(Referring') \in 0 .. Cardinality(Sources)
    BY <2>1, ServerAssumption, FS_Subset, FS_CardinalityType
    DEF ServerAssumption
  <2>3. Cardinality(Sources) \in Nat
    BY ServerAssumption, FS_CardinalityType DEF ServerAssumption
  <2> QED
    BY <1>1, <2>2, <2>3 DEF RefInv
<1>3. ControlTypes' /\ ThreadTypes' /\ ClientTypes' /\ SourceTypes'
  BY ControlTypesStep, ThreadTypesStep, ClientTypesStep, SourceTypesStep
<1> QED
  BY <1>2, <1>3
  DEF TypeOK, ControlTypes, ThreadTypes, ClientTypes, SourceTypes

\* The threads are started only where there are none.
LEMMA StartsFromNothing ==
  ASSUME StopInv, AfterStop \/ AddRef
  PROVE  \/ UNCHANGED <<running, srv, snd>>
         \/ Stopped /\ srv' = "bind" /\ snd' = "wait"
<1>1. UNCHANGED <<running, srv, snd>> \/ (Start /\ Stopped)
  BY Zenon DEF AfterStop, AddRef, StopInv
<1> QED
  BY <1>1 DEF Start, Stopped

-----------------------------------------------------------------------------
(* Frames and sockets                                                      *)

\* A frame in hand is of a client that was upgraded, or that is gone.
LEMMA BatchStep == TypeOK /\ StopInv /\ BatchInv /\ [Next]_vars => BatchInv'
<1> SUFFICES ASSUME TypeOK, StopInv, BatchInv, [Next]_vars PROVE BatchInv'
  OBVIOUS
<1> USE DEF BatchInv, refVars, srvVars, sndVars, clientVars, sourceVars
<1>1. CASE JoinServer
  BY <1>1 DEF JoinServer
<1>2. CASE JoinSender
  BY <1>2 DEF JoinSender
<1>3. CASE ClearClients
  BY <1>3 DEF ClearClients, StopInv
<1>4. CASE AfterStop
  <2>1. srv' = srv \/ (srv = "none" /\ srv' = "bind")
    BY <1>4, StartsFromNothing DEF Stopped
  <2> QED
    BY <1>4, <2>1 DEF AfterStop
<1>5. CASE Bind
  BY <1>5 DEF Bind, TypeOK
<1>6. CASE Leave
  BY <1>6 DEF Leave, TypeOK
<1>7. CASE Round
  BY <1>7 DEF Round, TypeOK, Unlist
<1>8. CASE Idle
  BY <1>8 DEF Idle, TypeOK
<1>9. CASE CloseSockets
  BY <1>9 DEF CloseSockets, TypeOK
<1>10. CASE Return
  BY <1>10 DEF Return, Handled
<1>11. ASSUME NEW c \in Sockets, Accept(c) PROVE BatchInv'
  BY <1>11 DEF Accept, TypeOK
<1>12. ASSUME NEW c \in Sockets, Finish(c) PROVE BatchInv'
  <2>1. batch' = <<>> \/ \E m \in Messages : batch' = <<<<c, m>>>>
    BY <1>12 DEF Finish
  <2>2. c \notin listed' /\ srv' = "close"
    BY <1>12 DEF Finish, Unlist
  <2>3. CASE batch' = <<>>
    BY <2>2, <2>3
  <2>4. ASSUME NEW m \in Messages, batch' = <<<<c, m>>>>
        PROVE  BatchInv'
    <3>1. \A i \in DOMAIN batch' : batch'[i][1] = c
      BY <2>4
    <3>2. batch' \in Seq(Sockets \X Messages)
      BY <2>4
    <3> QED
      BY <2>2, <3>1, <3>2
  <2> QED
    BY <2>1, <2>3, <2>4
<1>13. ASSUME NEW c \in Sockets, Request(c) PROVE BatchInv'
  <2>1. "key" \in Messages
    BY DEF Messages
  <2> QED
    BY <1>13, <2>1 DEF Request
<1>14. ASSUME NEW c \in Sockets, Receive(c) PROVE BatchInv'
  <2>1. PICK l \in 1 .. MaxBatch, f \in [1 .. MaxBatch -> Messages] :
           batch' = [i \in 1 .. l |-> <<c, f[i]>>]
    BY <1>14 DEF Receive
  <2>2. /\ batch' \in Seq(Sockets \X Messages)
        /\ \A i \in DOMAIN batch' : batch'[i][1] = c
    BY <2>1, ServerAssumption DEF ServerAssumption
  <2> QED
    BY <1>14, <2>2 DEF Receive
<1>15. ASSUME NEW c \in Sockets, FinishUpgrade(c) PROVE BatchInv'
  <2>1. batch' = <<>> /\ srv' \in {"close", "round", "callback"}
    BY <1>15 DEF FinishUpgrade
  <2> QED
    BY <2>1
<1>16. ASSUME NEW c \in Sockets, NEW m \in Messages, Authenticate(c, m)
      PROVE  BatchInv'
  <2>1. /\ batch # <<>> /\ batch' = Tail(batch)
        /\ srv = "handle"
        /\ \/ srv' \in {"close", "handle", "command"}
           \/ srv' = "round" /\ batch' = <<>>
    BY <1>16, Zenon DEF Authenticate, Handled
  <2>2. /\ listed' \subseteq listed
        /\ upgraded' = upgraded \cap listed' \/ upgraded' = upgraded
    BY <1>16 DEF Authenticate, Unlist, TypeOK
  <2>3. \A i \in DOMAIN Tail(batch) :
          Tail(batch)[i][1] \in listed => Tail(batch)[i][1] \in upgraded
    BY <2>1, BatchTail
  <2> QED
    BY <2>1, <2>2, <2>3, BatchTail
<1>17. ASSUME NEW c \in Sockets, NEW m \in Messages, Command(c, m)
      PROVE  BatchInv'
  <2>1. /\ batch # <<>> /\ batch' = Tail(batch)
        /\ srv = "handle"
        /\ \/ srv' \in {"close", "handle", "command"}
           \/ srv' = "round" /\ batch' = <<>>
    BY <1>17, Zenon DEF Command, Handled
  <2>2. /\ listed' \subseteq listed
        /\ upgraded' = upgraded \cap listed' \/ upgraded' = upgraded
    BY <1>17 DEF Command, Unlist, TypeOK
  <2>3. \A i \in DOMAIN Tail(batch) :
          Tail(batch)[i][1] \in listed => Tail(batch)[i][1] \in upgraded
    BY <2>1, BatchTail
  <2> QED
    BY <2>1, <2>2, <2>3, BatchTail
<1>18. CASE Sending
  BY <1>18, SendingFrame
<1>19. CASE Clients
  BY <1>19, ClientsFrame
<1>20. CASE PanelStart
  <2>1. srv' = srv \/ (srv = "none" /\ srv' = "bind")
    BY <1>20, StartsFromNothing DEF PanelStart, Stopped
  <2> QED
    BY <1>20, <2>1, OwnersFrame DEF Owners
<1>21. CASE PanelStop
  BY <1>21 DEF PanelStop, ReleaseRef
<1>22. ASSUME NEW k \in Keys \cup {Nobody}, Configure(k) PROVE BatchInv'
  BY <1>22 DEF Configure
<1>23. ASSUME NEW s \in Sources, Create(s) PROVE BatchInv'
  <2>1. srv' = srv \/ (srv = "none" /\ srv' = "bind")
    BY <1>23, StartsFromNothing DEF Create, Stopped
  <2> QED
    BY <1>23, <2>1, OwnersFrame DEF Owners
<1>24. ASSUME NEW s \in Sources, WriteStats(s) PROVE BatchInv'
  BY <1>24 DEF WriteStats
<1>25. ASSUME NEW s \in Sources, Rename(s) PROVE BatchInv'
  BY <1>25 DEF Rename
<1>26. ASSUME NEW s \in Sources, Destroy(s) PROVE BatchInv'
  BY <1>26 DEF Destroy
<1>27. ASSUME NEW s \in Sources, UnregisterCommand(s) PROVE BatchInv'
  BY <1>27 DEF UnregisterCommand
<1>28. ASSUME NEW s \in Sources, UnregisterCallback(s) PROVE BatchInv'
  BY <1>28 DEF UnregisterCallback
<1>29. ASSUME NEW s \in Sources, ReleaseSource(s) PROVE BatchInv'
  BY <1>29 DEF ReleaseSource, ReleaseRef
<1>30. CASE UNCHANGED vars
  BY <1>30 DEF vars
<1> QED
  BY <1>1, <1>2, <1>3, <1>4, <1>5, <1>6, <1>7, <1>8, <1>9, <1>10, <1>11,
    <1>12, <1>13, <1>14, <1>15, <1>16, <1>17, <1>18, <1>19, <1>20, <1>21,
    <1>22, <1>23, <1>24, <1>25, <1>26, <1>27, <1>28, <1>29, <1>30 DEF Next,
    Controlling, Serving, Owners

\* The parts of the types that sockets need
SockTypes ==
  /\ sock \in [Sockets -> {"idle", "open", "ended"}]
  /\ listed \subseteq Sockets /\ targets \subseteq Sockets

\* Nobody closes a socket that is listed or being sent to.
LEMMA SocketStep ==
  TypeOK /\ StopInv /\ SocketInv /\ [Next]_vars => SocketInv'
<1> SUFFICES ASSUME TypeOK, StopInv, SocketInv, [Next]_vars
             PROVE  SocketInv'
  OBVIOUS
<1>0. SockTypes
  BY DEF TypeOK, SockTypes
<1> USE DEF SocketInv, SendsToOpenSockets, SockTypes, refVars, srvVars,
  sndVars, clientVars, sourceVars
<1>1. CASE JoinServer
  BY <1>1, <1>0 DEF JoinServer
<1>2. CASE JoinSender
  BY <1>2, <1>0 DEF JoinSender
<1>3. CASE ClearClients
  <2>1. srv = "none" /\ snd = "none"
    BY <1>3 DEF ClearClients, StopInv
  <2> QED
    BY <1>3, <2>1 DEF ClearClients, ClientsAfterStop
<1>4. CASE AfterStop
  <2>1. \/ UNCHANGED <<srv, snd>>
        \/ srv = "none" /\ snd = "none" /\ srv' = "bind" /\ snd' = "wait"
    BY <1>4, StartsFromNothing DEF Stopped
  <2>2. UNCHANGED <<closing, targets, sock, listed>>
    BY <1>4 DEF AfterStop
  <2> QED
    BY <2>1, <2>2
<1>5. CASE Bind
  BY <1>5, <1>0 DEF Bind
<1>6. CASE Leave
  BY <1>6, <1>0 DEF Leave, GivesUpBinding
<1>7. CASE Round
  BY <1>7, <1>0 DEF Round, Unlist
<1>8. CASE Idle
  BY <1>8, <1>0 DEF Idle
<1>9. CASE CloseSockets
  BY <1>9, <1>0 DEF CloseSockets, MayClose
<1>10. CASE Return
  BY <1>10, <1>0 DEF Return, Handled
<1>11. ASSUME NEW c \in Sockets, Accept(c) PROVE SocketInv'
  BY <1>11, <1>0 DEF Accept
<1>12. ASSUME NEW c \in Sockets, Finish(c) PROVE SocketInv'
  BY <1>12, <1>0 DEF Finish, Unlist
<1>13. ASSUME NEW c \in Sockets, Request(c) PROVE SocketInv'
  BY <1>13, <1>0 DEF Request
<1>14. ASSUME NEW c \in Sockets, Receive(c) PROVE SocketInv'
  BY <1>14, <1>0 DEF Receive
<1>15. ASSUME NEW c \in Sockets, FinishUpgrade(c) PROVE SocketInv'
  <2>1. \/ Unlist(c) /\ closing' = {c} /\ srv' = "close"
        \/ UNCHANGED <<closing, listed>> /\ srv' \in {"round", "callback"}
    BY <1>15 DEF FinishUpgrade
  <2>2. srv = "upgrade" /\ UNCHANGED <<snd, targets, sock>>
    BY <1>15 DEF FinishUpgrade
  <2> QED
    BY <2>1, <2>2, <1>0 DEF Unlist
<1>16. ASSUME NEW c \in Sockets, NEW m \in Messages, Authenticate(c, m)
      PROVE  SocketInv'
  BY <1>16, <1>0 DEF Authenticate, Unlist, Handled
<1>17. ASSUME NEW c \in Sockets, NEW m \in Messages, Command(c, m)
      PROVE  SocketInv'
  BY <1>17, <1>0 DEF Command, Handled
<1>18. CASE SenderWakes
  BY <1>18, <1>0 DEF SenderWakes
<1>19. CASE Deliver
  BY <1>19, <1>0 DEF Deliver, Audience
<1>20. CASE Delivered
  BY <1>20, <1>0 DEF Delivered
<1>21. ASSUME NEW c \in Sockets, Send(c) PROVE SocketInv'
  BY <1>21, <1>0 DEF Send
<1>22. ASSUME NEW c \in Sockets, HangUp(c) PROVE SocketInv'
  BY <1>22, <1>0 DEF HangUp
<1>23. ASSUME NEW c \in Sockets, Unblock(c) PROVE SocketInv'
  BY <1>23, <1>0 DEF Unblock
<1>24. CASE PanelStart
  <2>1. \/ UNCHANGED <<srv, snd>>
        \/ srv = "none" /\ snd = "none" /\ srv' = "bind" /\ snd' = "wait"
    BY <1>24, StartsFromNothing DEF PanelStart, Stopped
  <2>2. UNCHANGED <<closing, targets, sock, listed>>
    BY <1>24 DEF PanelStart, AddRef
  <2> QED
    BY <2>1, <2>2
<1>25. CASE PanelStop
  BY <1>25, <1>0 DEF PanelStop, ReleaseRef
<1>26. ASSUME NEW k \in Keys \cup {Nobody}, Configure(k) PROVE SocketInv'
  BY <1>26, <1>0 DEF Configure
<1>27. ASSUME NEW s \in Sources, Create(s) PROVE SocketInv'
  <2>1. \/ UNCHANGED <<srv, snd>>
        \/ srv = "none" /\ snd = "none" /\ srv' = "bind" /\ snd' = "wait"
    BY <1>27, StartsFromNothing DEF Create, Stopped
  <2>2. UNCHANGED <<closing, targets, sock, listed>>
    BY <1>27 DEF Create, AddRef
  <2> QED
    BY <2>1, <2>2
<1>28. ASSUME NEW s \in Sources, WriteStats(s) PROVE SocketInv'
  BY <1>28, <1>0 DEF WriteStats
<1>29. ASSUME NEW s \in Sources, Rename(s) PROVE SocketInv'
  BY <1>29, <1>0 DEF Rename
<1>30. ASSUME NEW s \in Sources, Destroy(s) PROVE SocketInv'
  BY <1>30, <1>0 DEF Destroy
<1>31. ASSUME NEW s \in Sources, UnregisterCommand(s) PROVE SocketInv'
  BY <1>31, <1>0 DEF UnregisterCommand
<1>32. ASSUME NEW s \in Sources, UnregisterCallback(s) PROVE SocketInv'
  BY <1>32, <1>0 DEF UnregisterCallback
<1>33. ASSUME NEW s \in Sources, ReleaseSource(s) PROVE SocketInv'
  BY <1>33, <1>0 DEF ReleaseSource, ReleaseRef
<1>34. CASE UNCHANGED vars
  BY <1>34 DEF vars
<1> QED
  BY <1>1, <1>2, <1>3, <1>4, <1>5, <1>6, <1>7, <1>8, <1>9, <1>10, <1>11,
    <1>12, <1>13, <1>14, <1>15, <1>16, <1>17, <1>18, <1>19, <1>20, <1>21,
    <1>22, <1>23, <1>24, <1>25, <1>26, <1>27, <1>28, <1>29, <1>30, <1>31,
    <1>32, <1>33, <1>34 DEF Next, Controlling, Serving, Sending, Clients,
    Owners

-----------------------------------------------------------------------------
(* Calls into the sources, and keys                                        *)

\* A source is called only while its destructor still has to unregister it.
LEMMA CallStep ==
  TypeOK /\ RefInv /\ StopInv /\ CallInv /\ [Next]_vars => CallInv'
<1> SUFFICES ASSUME TypeOK, RefInv, StopInv, CallInv, [Next]_vars
             PROVE  CallInv'
  OBVIOUS
<1>0. SourceTypes
  BY TypeParts
<1> USE DEF CallInv, SourceTypes, refVars, srvVars, sndVars, clientVars,
  sourceVars
<1>1. CASE JoinServer
  BY <1>1 DEF JoinServer
<1>2. CASE JoinSender
  BY <1>2 DEF JoinSender
<1>3. CASE ClearClients
  BY <1>3 DEF ClearClients, ClientsAfterStop
<1>4. CASE AfterStop
  <2>1. srv' = srv \/ (srv = "none" /\ srv' = "bind")
    BY <1>4, StartsFromNothing DEF Stopped
  <2>2. \A s \in Sources : s # holder => life'[s] = life[s]
    BY <1>4 DEF AfterStop
  <2>3. UNCHANGED <<callee, name, renamed, handlers, connectCbs>>
    BY <1>4 DEF AfterStop
  <2>4. holder \in Sources => life[holder] = "releasing"
    BY DEF RefInv
  <2> QED
    BY <2>1, <2>2, <2>3, <2>4
<1>5. CASE Bind
  BY <1>5 DEF Bind
<1>6. CASE Leave
  BY <1>6 DEF Leave, GivesUpBinding
<1>7. CASE Round
  BY <1>7 DEF Round, Unlist
<1>8. CASE Idle
  BY <1>8 DEF Idle
<1>9. CASE CloseSockets
  BY <1>9 DEF CloseSockets, MayClose
<1>10. CASE Return
  <2>1. srv' \in {"round", "handle", "close"}
    BY <1>10, Zenon DEF Return, Handled
  <2>2. UNCHANGED <<life, name, renamed, handlers, connectCbs>>
    BY <1>10 DEF Return
  <2> QED
    BY <2>1, <2>2
<1>11. ASSUME NEW c \in Sockets, Accept(c) PROVE CallInv'
  BY <1>11 DEF Accept
<1>12. ASSUME NEW c \in Sockets, Finish(c) PROVE CallInv'
  BY <1>12 DEF Finish, Unlist
<1>13. ASSUME NEW c \in Sockets, Request(c) PROVE CallInv'
  BY <1>13 DEF Request
<1>14. ASSUME NEW c \in Sockets, Receive(c) PROVE CallInv'
  BY <1>14 DEF Receive
<1>15. ASSUME NEW c \in Sockets, FinishUpgrade(c) PROVE CallInv'
  <2>1. \/ srv' \in {"close", "round"}
        \/ /\ srv' = "callback" /\ callee' \in Sources
           /\ \E n \in Names : connectCbs[n] = callee'
    BY <1>15 DEF FinishUpgrade
  <2>2. UNCHANGED <<life, name, renamed, handlers, connectCbs>>
    BY <1>15 DEF FinishUpgrade
  <2> QED
    BY <2>1, <2>2
<1>16. ASSUME NEW c \in Sockets, NEW m \in Messages, Authenticate(c, m)
      PROVE  CallInv'
  <2>1. srv' \in {"round", "handle", "close"}
    BY <1>16, Zenon DEF Authenticate, Handled
  <2>2. UNCHANGED <<life, name, renamed, handlers, connectCbs>>
    BY <1>16 DEF Authenticate
  <2> QED
    BY <2>1, <2>2
<1>17. ASSUME NEW c \in Sockets, NEW m \in Messages, Command(c, m)
      PROVE  CallInv'
  <2>1. \/ srv' \in {"round", "handle"}
        \/ /\ srv' = "command" /\ callee' = handlers[m]
           /\ m \in Names /\ handlers[m] # Nobody
    BY <1>17, Zenon DEF Command, Handled
  <2>2. m \in Names => handlers[m] \in Sources \cup {Nobody}
    BY DEF TypeOK
  <2>3. UNCHANGED <<life, name, renamed, handlers, connectCbs>>
    BY <1>17 DEF Command
  <2> QED
    BY <2>1, <2>2, <2>3
<1>18. CASE Sending
  BY <1>18, SendingFrame
<1>19. CASE Clients
  BY <1>19, ClientsFrame
<1>20. CASE PanelStart
  <2>1. srv' = srv \/ (srv = "none" /\ srv' = "bind")
    BY <1>20, StartsFromNothing DEF PanelStart, Stopped
  <2> QED
    BY <1>20, <2>1 DEF PanelStart, AddRef
<1>21. CASE PanelStop
  BY <1>21 DEF PanelStop, ReleaseRef
<1>22. ASSUME NEW k \in Keys \cup {Nobody}, Configure(k) PROVE CallInv'
  BY <1>22 DEF Configure
<1>23. ASSUME NEW s \in Sources, Create(s) PROVE CallInv'
  <2>1. srv' = srv \/ (srv = "none" /\ srv' = "bind")
    BY <1>23, StartsFromNothing DEF Create, Stopped
  <2>2. PICK n \in Names : /\ name' = [name EXCEPT ![s] = n]
                           /\ handlers' = [handlers EXCEPT ![n] = s]
                           /\ connectCbs' = [connectCbs EXCEPT ![n] = s]
    BY <1>23 DEF Create
  <2>3. /\ life[s] = "none" /\ life' = [life EXCEPT ![s] = "alive"]
        /\ srv \notin {"command", "callback"}
        /\ UNCHANGED <<callee, renamed>>
    BY <1>23 DEF Create, AddRef, HeldThroughCommand, HeldThroughCallback
  <2> QED
    BY <1>0, <2>1, <2>2, <2>3
<1>24. ASSUME NEW s \in Sources, WriteStats(s) PROVE CallInv'
  BY <1>24, <1>0 DEF WriteStats
<1>25. ASSUME NEW s \in Sources, Rename(s) PROVE CallInv'
  BY <1>25, <1>0 DEF Rename
<1>26. ASSUME NEW s \in Sources, Destroy(s) PROVE CallInv'
  BY <1>26, <1>0 DEF Destroy
<1>27. ASSUME NEW s \in Sources, UnregisterCommand(s) PROVE CallInv'
  <2>1. Nobody \notin Sources
    BY ServerAssumption DEF ServerAssumption
  <2> QED
    BY <1>27, <1>0, <2>1 DEF UnregisterCommand, HeldThroughCommand
<1>28. ASSUME NEW s \in Sources, UnregisterCallback(s) PROVE CallInv'
  <2>1. Nobody \notin Sources
    BY ServerAssumption DEF ServerAssumption
  <2> QED
    BY <1>28, <1>0, <2>1 DEF UnregisterCallback, HeldThroughCallback
<1>29. ASSUME NEW s \in Sources, ReleaseSource(s) PROVE CallInv'
  BY <1>29, <1>0 DEF ReleaseSource
<1>30. CASE UNCHANGED vars
  BY <1>30 DEF vars
<1> QED
  BY <1>1, <1>2, <1>3, <1>4, <1>5, <1>6, <1>7, <1>8, <1>9, <1>10, <1>11,
    <1>12, <1>13, <1>14, <1>15, <1>16, <1>17, <1>18, <1>19, <1>20, <1>21,
    <1>22, <1>23, <1>24, <1>25, <1>26, <1>27, <1>28, <1>29, <1>30 DEF Next,
    Controlling, Serving, Owners

\* The parts of the types that keys need
KeyTypes ==
  /\ keyed \in [Sockets -> Keys \cup {Nobody}]
  /\ listed \subseteq Sockets /\ accessKey \in Keys \cup {Nobody}

\* The key changes only while there is no client.
LEMMA KeyStep == TypeOK /\ StopInv /\ KeyInv /\ [Next]_vars => KeyInv'
<1> SUFFICES ASSUME TypeOK, StopInv, KeyInv, [Next]_vars PROVE KeyInv'
  OBVIOUS
<1>0. KeyTypes
  BY DEF TypeOK, KeyTypes
<1> USE DEF KeyInv, KeyTypes, refVars, srvVars, sndVars, clientVars,
  sourceVars
<1>1. CASE JoinServer
  BY <1>1 DEF JoinServer
<1>2. CASE JoinSender
  BY <1>2 DEF JoinSender
<1>3. CASE ClearClients
  BY <1>3, <1>0 DEF ClearClients, ClientsAfterStop
<1>4. CASE AfterStop
  <2>1. UNCHANGED accessKey \/ Stopped
    BY <1>4 DEF AfterStop, StopInv
  <2>2. UNCHANGED <<keyed, listed>>
    BY <1>4 DEF AfterStop
  <2> QED
    BY <2>1, <2>2, <1>0 DEF Stopped
<1>5. CASE Bind
  BY <1>5 DEF Bind
<1>6. CASE Leave
  BY <1>6 DEF Leave, GivesUpBinding
<1>7. CASE Round
  BY <1>7, <1>0 DEF Round, Unlist
<1>8. CASE Idle
  BY <1>8 DEF Idle
<1>9. CASE CloseSockets
  BY <1>9 DEF CloseSockets, MayClose
<1>10. CASE Return
  BY <1>10 DEF Return, Handled
<1>11. ASSUME NEW c \in Sockets, Accept(c) PROVE KeyInv'
  BY <1>11, <1>0 DEF Accept
<1>12. ASSUME NEW c \in Sockets, Finish(c) PROVE KeyInv'
  BY <1>12, <1>0 DEF Finish, Unlist
<1>13. ASSUME NEW c \in Sockets, Request(c) PROVE KeyInv'
  BY <1>13 DEF Request
<1>14. ASSUME NEW c \in Sockets, Receive(c) PROVE KeyInv'
  BY <1>14 DEF Receive
<1>15. ASSUME NEW c \in Sockets, FinishUpgrade(c) PROVE KeyInv'
  BY <1>15, <1>0 DEF FinishUpgrade, Unlist
<1>16. ASSUME NEW c \in Sockets, NEW m \in Messages, Authenticate(c, m)
      PROVE  KeyInv'
  BY <1>16, <1>0 DEF Authenticate, Unlist
<1>17. ASSUME NEW c \in Sockets, NEW m \in Messages, Command(c, m)
      PROVE  KeyInv'
  BY <1>17, <1>0 DEF Command, Audience
<1>18. CASE Sending
  BY <1>18, SendingFrame
<1>19. CASE Clients
  BY <1>19, ClientsFrame
<1>20. CASE PanelStart
  BY <1>20 DEF PanelStart, AddRef
<1>21. CASE PanelStop
  BY <1>21 DEF PanelStop, ReleaseRef
<1>22. ASSUME NEW k \in Keys \cup {Nobody}, Configure(k) PROVE KeyInv'
  BY <1>22 DEF Configure
<1>23. ASSUME NEW s \in Sources, Create(s) PROVE KeyInv'
  BY <1>23 DEF Create, AddRef
<1>24. ASSUME NEW s \in Sources, WriteStats(s) PROVE KeyInv'
  BY <1>24 DEF WriteStats
<1>25. ASSUME NEW s \in Sources, Rename(s) PROVE KeyInv'
  BY <1>25 DEF Rename
<1>26. ASSUME NEW s \in Sources, Destroy(s) PROVE KeyInv'
  BY <1>26 DEF Destroy
<1>27. ASSUME NEW s \in Sources, UnregisterCommand(s) PROVE KeyInv'
  BY <1>27 DEF UnregisterCommand
<1>28. ASSUME NEW s \in Sources, UnregisterCallback(s) PROVE KeyInv'
  BY <1>28 DEF UnregisterCallback
<1>29. ASSUME NEW s \in Sources, ReleaseSource(s) PROVE KeyInv'
  BY <1>29 DEF ReleaseSource, ReleaseRef
<1>30. CASE UNCHANGED vars
  BY <1>30 DEF vars
<1> QED
  BY <1>1, <1>2, <1>3, <1>4, <1>5, <1>6, <1>7, <1>8, <1>9, <1>10, <1>11,
    <1>12, <1>13, <1>14, <1>15, <1>16, <1>17, <1>18, <1>19, <1>20, <1>21,
    <1>22, <1>23, <1>24, <1>25, <1>26, <1>27, <1>28, <1>29, <1>30 DEF Next,
    Controlling, Serving, Owners

-----------------------------------------------------------------------------
(* The theorems                                                            *)

\* A server that nobody has referred to yet has neither threads nor clients.
LEMMA InvInit == Init => ServerInv
<1> SUFFICES ASSUME Init PROVE ServerInv
  OBVIOUS
<1>1. Cardinality({}) = 0 /\ Cardinality(Sources) \in Nat
  BY ServerAssumption, FS_EmptySet, FS_CardinalityType DEF ServerAssumption
<1>2. Referring = {}
  BY DEF Init, Referring, Holding
<1>3. RefInv
  BY <1>1, <1>2, ServerAssumption DEF Init, RefInv, ServerAssumption, Nobody
<1>4. refs \in 0 .. Cardinality(Sources) + 1
  BY <1>1 DEF Init
<1>5. ControlTypes /\ SourceTypes
  <2>1. running \in BOOLEAN
    BY Zenon DEF Init
  <2> QED
    BY <2>1 DEF Init, ControlTypes, SourceTypes
<1>6. ThreadTypes /\ ClientTypes
  BY <1>1, ServerAssumption
  DEF Init, ThreadTypes, ClientTypes, ServerAssumption
<1>7. TypeOK
  BY <1>4, <1>5, <1>6, TypeParts
<1>8. StopInv /\ BatchInv /\ SocketInv
  BY DEF Init, StopInv, Stopped, BatchInv, SocketInv, SendsToOpenSockets
<1>9. CallInv /\ KeyInv
  BY ServerAssumption DEF Init, CallInv, KeyInv, ServerAssumption
<1> QED
  BY <1>3, <1>7, <1>8, <1>9 DEF ServerInv

\* Every step keeps the parts of the invariant together.
LEMMA InvStep == ServerInv /\ [Next]_vars => ServerInv'
  BY RefStep, StopStep, TypeStep, BatchStep, SocketStep, CallStep, KeyStep
  DEF ServerInv

\* The inductive invariant holds in every reachable state: the reference count
\* is exact, and stop() leaves no thread and no client behind.
THEOREM Invariance == Spec => []ServerInv
  BY InvInit, InvStep, PTL DEF Spec

\* Every variable keeps its shape, and clients_ stays within MAX_CLIENTS.
THEOREM TypeCorrect == Spec => []TypeOK
<1>1. ServerInv => TypeOK
  BY DEF ServerInv
<1> QED
  BY Invariance, <1>1, PTL

\* The sender never sends to a socket that close_sockets() or stop() closed.
THEOREM SenderKeepsToOpenSockets == Spec => []SendsToOpenSockets
<1>1. ServerInv => SendsToOpenSockets
  BY DEF ServerInv, SocketInv
<1> QED
  BY Invariance, <1>1, PTL

\* No handler or callback runs in a source whose destructor has finished, for
\* sources that keep their name.
THEOREM CallsFindTheirSource == Spec => []NoCallIntoTheGone
<1>1. ServerInv => NoCallIntoTheGone
  BY DEF ServerInv, CallInv, NoCallIntoTheGone
<1> QED
  BY Invariance, <1>1, PTL

\* Whoever may act on OBS has shown no other key than the one that is set now.
THEOREM OnlyTheCurrentKey == Spec => []KeyIsCurrent
<1>1. ServerInv => KeyIsCurrent
  BY DEF ServerInv, KeyInv, KeyIsCurrent, Audience, TypeOK
<1> QED
  BY Invariance, <1>1, PTL
=============================================================================
