------------------------ MODULE LLHlsClient_proofs ------------------------
(***************************************************************************)
(* Proofs about LLHlsClient, for every window, ring, number of errors and  *)
(* length of the stream: types, bounds, and that no thread sleeps on what  *)
(* is there already.                                                       *)
(***************************************************************************)
EXTENDS LLHlsClient, TLAPS

Busy == {"check", "fetch", "write"}   \* the download thread holds a request

\* The client is not there, or start() has no thread running yet.
BeforeThreads == {"none", "created", "reset", "starting", "fetched"}

\* A thread runs only for a client that was started; no playlist names what
\* the server has not published.
ThreadsInv ==
  /\ owner \in BeforeThreads =>
       download = "off" /\ playlist = "off" /\ errors = 0
  /\ owner = "joinDownload" => playlist = "off"
  /\ playlist # "off" => current # None
  /\ playlist \notin {"off", "exited"} => errors < MaxErrors
  /\ current <= edge
  /\ download \in Busy => part \in Parts

ClientInv == TypeOK /\ ThreadsInv /\ WaitsForMissing

-----------------------------------------------------------------------------
\* A request list names published parts, and perhaps the one after the last.
LEMMA RequestsType ==
  ASSUME NEW lo \in Nat \ {0}, NEW last \in 1..MaxPart, lo <= last + 1
  PROVE  Requests(lo, last) \in Seq(Parts)
<1> DEFINE listed == [i \in 1..(last - lo + 1) |-> lo + i - 1]
<1>1. listed \in Seq(Parts)
  <2>1. last - lo + 1 \in Nat
    OBVIOUS
  <2>2. \A i \in 1..(last - lo + 1) : lo + i - 1 \in Parts
    BY ClientAssumption DEF Parts
  <2> QED BY <2>1, <2>2
<1>2. <<last + 1>> \in Seq(Parts)
  BY ClientAssumption DEF Parts
<1>3. <<>> \in Seq(Parts)
  OBVIOUS
<1> QED BY <1>1, <1>2, <1>3 DEF Requests

\* The oldest part listed exists, and is the last one at the latest.
LEMMA OldestType ==
  ASSUME NEW last \in 1..MaxPart
  PROVE  Oldest(last) \in Nat \ {0} /\ Oldest(last) <= last
BY ClientAssumption DEF Oldest

\* A reload asks for parts of the stream only.
LEMMA FirstNewType ==
  ASSUME TypeOK, ThreadsInv
  PROVE  /\ FirstNew(edge) \in Nat \ {0} /\ FirstNew(edge) <= edge + 1
         /\ current # None =>
              (current + 1)..(FirstNew(edge) - 1) \subseteq Parts
<1>1. Oldest(edge) \in Nat \ {0} /\ Oldest(edge) <= edge
  BY OldestType DEF TypeOK
<1>2. current \in 1..MaxPart \cup {-1} /\ current <= edge /\ edge \in 1..MaxPart
  BY DEF TypeOK, ThreadsInv, None
<1> QED BY <1>1, <1>2, ClientAssumption DEF FirstNew, Parts, None

\* Asking for something wakes a download thread that sleeps.
LEMMA EnqueueWakes ==
  ASSUME TypeOK, WaitsForMissing, NEW requests \in Seq(Parts),
         Enqueue(requests)
  PROVE  /\ queue' \in Seq(Parts)
         /\ download' \in DownloadPoints
         /\ download' = "waiting" => queue' = <<>>
         /\ download' = "off" <=> download = "off"
         /\ download' \in Busy => download \in Busy
<1>1. CASE requests = <<>>
  <2>1. queue' = queue
    BY <1>1 DEF Enqueue, TypeOK
  <2> QED BY <1>1, <2>1 DEF Enqueue, TypeOK, WaitsForMissing
<1>2. CASE requests # <<>>
  BY <1>2 DEF Enqueue, NotifyQueue, TypeOK, DownloadPoints, Busy
<1> QED BY <1>1, <1>2

\* Filling the ring wakes a reader that sleeps, and never overfills it.
LEMMA RingWriteWakes ==
  ASSUME TypeOK, WaitsForMissing, NEW p \in Parts \cup {Init0}, RingWrite(p)
  PROVE  /\ ring' \in Seq(Parts \cup {Init0}) /\ Len(ring') <= Capacity
         /\ owner' \in OwnerPoints
         /\ owner' = "waiting" => ring' = <<>>
         /\ owner' = owner \/ (owner = "waiting" /\ owner' = "woken")
<1>1. CASE running
  <2>1. Len(ring) + 1 <= Capacity
    BY <1>1 DEF RingWrite, RoomInRing, TypeOK
  <2>2. ring' = Append(ring, p) /\ NotifyBuf
    BY <1>1 DEF RingWrite
  <2> QED BY <2>1, <2>2 DEF TypeOK, NotifyBuf, OwnerPoints
<1>2. CASE ~running
  BY <1>2 DEF RingWrite, TypeOK, WaitsForMissing
<1> QED BY <1>1, <1>2

\* Taking the next request leaves none behind that a sleeping thread misses.
LEMMA DequeueType ==
  ASSUME TypeOK, Dequeue
  PROVE  /\ queue' \in Seq(Parts) /\ part' \in Parts \cup {None}
         /\ download' \in {"check", "waiting", "notify"}
         /\ download' = "waiting" => queue' = <<>>
         /\ download' \in Busy => part' \in Parts
<1>1. CASE queue # <<>>
  BY <1>1 DEF Dequeue, TypeOK, Busy
<1>2. CASE queue = <<>>
  BY <1>2 DEF Dequeue, TypeOK, Busy
<1> QED BY <1>1, <1>2

-----------------------------------------------------------------------------
\* A client that was never started satisfies the invariant.
LEMMA ClientInit == Init => ClientInv
<1> SUFFICES ASSUME Init PROVE ClientInv
  OBVIOUS
<1>1. running \in BOOLEAN /\ abort \in BOOLEAN
  BY Zenon DEF Init
<1> QED
  BY <1>1, ClientAssumption
     DEF Init, ClientInv, TypeOK, ThreadsInv, WaitsForMissing, OwnerPoints,
         SignalPoints, PlaylistPoints, DownloadPoints, None, Busy

\* The flags of a client that is gone are down.
LEMMA DestroyType == Destroy => running' \in BOOLEAN /\ abort' \in BOOLEAN
  BY Zenon DEF Destroy

\* The calls of the owner: they start with nothing and leave nothing.
LEMMA OwnerStep == ClientInv /\ (Create \/ Close \/ OwnerThread) => ClientInv'
<1> SUFFICES ASSUME ClientInv, Create \/ Close \/ OwnerThread PROVE ClientInv'
  OBVIOUS
<1> USE ClientAssumption DEF ClientInv, TypeOK, ThreadsInv, WaitsForMissing,
      OwnerPoints, SignalPoints, PlaylistPoints, DownloadPoints, None, Busy,
      BeforeThreads, server, stopVars, listing, loading, reading
<1>1. CASE Create
  BY <1>1 DEF Create
<1>2. CASE Close
  BY <1>2 DEF Close
<1>3. CASE StartFails
  BY <1>3, DestroyType DEF StartFails, Destroy
<1>4. CASE StartThreads
  BY <1>4 DEF StartThreads
<1>5. CASE Read
  <2>1. CASE ring # <<>>
    <3>1. Head(ring) \in Parts \cup {Init0} /\ Len(Tail(ring)) = Len(ring) - 1
      BY <2>1
    <3>2. Tail(ring) \in Seq(Parts \cup {Init0})
      BY <2>1
    <3> QED BY <1>5, <2>1, <3>1, <3>2 DEF Read
  <2>2. CASE ring = <<>>
    BY <1>5, <2>2 DEF Read
  <2> QED BY <2>1, <2>2
<1>6. CASE Stop
  <2>1. running' \in BOOLEAN
    BY <1>6, Zenon DEF Stop
  <2> QED BY <1>6, <2>1 DEF Stop
<1>7. CASE StopAbort
  BY <1>7 DEF StopAbort
<1>8. CASE StopNotify
  BY <1>8 DEF StopNotify, StopWakesQueue, NotifyQueue
<1>9. CASE StopJoinPlaylist
  BY <1>9 DEF StopJoinPlaylist
<1>10. CASE StopJoinDownload
  BY <1>10, DestroyType DEF StopJoinDownload, Destroy
<1>11. CASE StartReset
  <2>1. abort' \in BOOLEAN
    BY <1>11, Zenon DEF StartReset
  <2> QED BY <1>11, <2>1 DEF StartReset
<1>12. CASE StartRunning
  <2>1. running' \in BOOLEAN
    BY <1>12, Zenon DEF StartRunning
  <2> QED BY <1>12, <2>1 DEF StartRunning
<1>13. CASE StartFetched
  BY <1>13 DEF StartFetched
<1> QED
  BY <1>1, <1>2, <1>3, <1>4, <1>5, <1>6, <1>7, <1>8, <1>9, <1>10, <1>11, <1>12,
    <1>13 DEF OwnerThread

\* An interrupt only wakes.
LEMMA SignalStep == ClientInv /\ (Signal \/ SignalThread) => ClientInv'
<1> SUFFICES ASSUME ClientInv, Signal \/ SignalThread PROVE ClientInv'
  OBVIOUS
<1> USE DEF ClientInv, TypeOK, ThreadsInv, WaitsForMissing, OwnerPoints,
      SignalPoints, DownloadPoints, Busy, BeforeThreads, server, listing,
      loading, reading
<1>1. CASE Signal
  <2>1. running' \in BOOLEAN
    BY <1>1, Zenon DEF Signal
  <2> QED BY <1>1, <2>1 DEF Signal
<1>2. CASE SignalAbort
  BY <1>2 DEF SignalAbort
<1>3. CASE SignalNotifyQueue
  BY <1>3 DEF SignalNotifyQueue, NotifyQueue
<1>4. CASE SignalNotifyBuf
  BY <1>4 DEF SignalNotifyBuf, NotifyBuf
<1> QED BY <1>1, <1>2, <1>3, <1>4 DEF SignalThread

\* So does the playlist thread.
LEMMA PlaylistStep == ClientInv /\ PlaylistThread => ClientInv'
<1> SUFFICES ASSUME ClientInv, PlaylistThread PROVE ClientInv'
  OBVIOUS
<1>a. TypeOK /\ ThreadsInv /\ WaitsForMissing
  BY DEF ClientInv
<1> USE <1>a, ClientAssumption DEF BeforeThreads
<1>1. CASE PlaylistInit
  BY <1>1 DEF PlaylistInit, PlaylistFrame, ClientInv, TypeOK, ThreadsInv,
     WaitsForMissing, PlaylistPoints, server, stopVars
<1>2. CASE PlaylistInitFails
  BY <1>2 DEF PlaylistInitFails, ClientInv, TypeOK, ThreadsInv,
     WaitsForMissing, PlaylistPoints, server, loading, reading
<1>3. CASE PlaylistInitWrite
  <2>1. RingWrite(Init0)
    BY <1>3 DEF PlaylistInitWrite
  <2> QED BY <1>3, <2>1, RingWriteWakes
       DEF PlaylistInitWrite, PlaylistFrame, ClientInv, TypeOK, ThreadsInv,
           WaitsForMissing, PlaylistPoints, server, stopVars
<1>4. CASE PlaylistFirst
  <2>1. PICK lo \in Oldest(current)..current : Enqueue(Requests(lo, current))
    BY <1>4 DEF PlaylistFirst
  <2>2. current \in 1..MaxPart
    BY <1>4 DEF PlaylistFirst, TypeOK, ThreadsInv
  <2>3. lo \in Nat \ {0} /\ lo <= current + 1
    BY <2>1, <2>2, OldestType
  <2>4. Requests(lo, current) \in Seq(Parts)
    BY <2>2, <2>3, RequestsType
  <2> QED BY <1>4, <2>1, <2>4, EnqueueWakes
       DEF PlaylistFirst, PlaylistFrame, ClientInv, TypeOK, ThreadsInv,
           WaitsForMissing, PlaylistPoints, server, stopVars
<1>5. CASE PlaylistLoop
  BY <1>5 DEF PlaylistLoop, PlaylistFrame, ClientInv, TypeOK, ThreadsInv,
     WaitsForMissing, PlaylistPoints, server, stopVars
<1>6. CASE PlaylistReload
  <2>1. edge \in 1..MaxPart /\ Enqueue(Requests(FirstNew(edge), edge))
    BY <1>6 DEF PlaylistReload, TypeOK
  <2>2. Requests(FirstNew(edge), edge) \in Seq(Parts)
    BY <2>1, FirstNewType, RequestsType
  <2>3. current # None
    BY <1>6 DEF PlaylistReload, ThreadsInv
  <2>4. lost' \subseteq Parts
    BY <1>6, <2>3, FirstNewType DEF PlaylistReload, TypeOK
  <2> QED BY <1>6, <2>1, <2>2, <2>4, EnqueueWakes
       DEF PlaylistReload, PlaylistFrame, ClientInv, TypeOK, ThreadsInv,
           WaitsForMissing, PlaylistPoints, None, server, stopVars
<1>7. CASE PlaylistReloadFails
  BY <1>7 DEF PlaylistReloadFails, PlaylistFrame, ClientInv, TypeOK,
     ThreadsInv, WaitsForMissing, PlaylistPoints, server, stopVars
<1> QED BY <1>1, <1>2, <1>3, <1>4, <1>5, <1>6, <1>7 DEF PlaylistThread

\* So does the download thread.
LEMMA DownloadStep == ClientInv /\ DownloadThread => ClientInv'
<1> SUFFICES ASSUME ClientInv, DownloadThread PROVE ClientInv'
  OBVIOUS
<1>a. TypeOK /\ ThreadsInv /\ WaitsForMissing
  BY DEF ClientInv
<1> USE <1>a DEF BeforeThreads, DownloadFrame, server, stopVars, listing
<1>1. CASE DownloadLoop
  <2>1. CASE running
    BY <1>1, <2>1, DequeueType DEF DownloadLoop, ClientInv, TypeOK, ThreadsInv,
       WaitsForMissing, DownloadPoints
  <2>2. CASE ~running
    BY <1>1, <2>2 DEF DownloadLoop, ClientInv, TypeOK, ThreadsInv,
       WaitsForMissing, DownloadPoints, Busy
  <2> QED BY <2>1, <2>2
<1>2. CASE DownloadWoken
  BY <1>2, DequeueType DEF DownloadWoken, ClientInv, TypeOK, ThreadsInv,
     WaitsForMissing, DownloadPoints
<1>3. CASE DownloadCheck
  BY <1>3 DEF DownloadCheck, ClientInv, TypeOK, ThreadsInv, WaitsForMissing,
     DownloadPoints, Busy
<1>4. CASE DownloadFetch
  BY <1>4 DEF DownloadFetch, ClientInv, TypeOK, ThreadsInv, WaitsForMissing,
     DownloadPoints, Busy
<1>5. CASE DownloadFetchFails
  BY <1>5 DEF DownloadFetchFails, ClientInv, TypeOK, ThreadsInv,
     WaitsForMissing, DownloadPoints, Busy
<1>6. CASE DownloadWrite
  <2>1. part \in Parts \cup {Init0} /\ RingWrite(part)
    BY <1>6 DEF DownloadWrite, ThreadsInv, Busy
  <2> QED BY <1>6, <2>1, RingWriteWakes
       DEF DownloadWrite, ClientInv, TypeOK, ThreadsInv, WaitsForMissing,
           DownloadPoints, Busy
<1>7. CASE DownloadNotify
  BY <1>7 DEF DownloadNotify, NotifyBuf, ClientInv, TypeOK, ThreadsInv,
     WaitsForMissing, DownloadPoints, OwnerPoints, Busy
<1> QED BY <1>1, <1>2, <1>3, <1>4, <1>5, <1>6, <1>7 DEF DownloadThread

\* Every step of the client keeps its invariant.
LEMMA ClientStep == ClientInv /\ [Next]_vars => ClientInv'
<1> SUFFICES ASSUME ClientInv, [Next]_vars PROVE ClientInv'
  OBVIOUS
<1>1. CASE Publish
  BY <1>1, ClientAssumption
     DEF Publish, ClientInv, TypeOK, ThreadsInv, WaitsForMissing, None,
         stopVars, listing, loading, reading
<1>2. CASE UNCHANGED vars
  BY <1>2 DEF vars, ClientInv, TypeOK, ThreadsInv, WaitsForMissing
<1> QED
  BY <1>1, <1>2, OwnerStep, SignalStep, PlaylistStep, DownloadStep DEF Next

\* The client's invariant: what its threads rely on of each other.
THEOREM ClientCorrect == Spec => []ClientInv
  BY ClientInit, ClientStep, PTL DEF Spec

\* The ring never holds more than its capacity, and every variable of the
\* client has its type, however long the stream and whatever its window.
THEOREM TypeCorrect == Spec => []TypeOK
  BY ClientCorrect, PTL DEF ClientInv

\* enqueue_part(), dequeue_part(), ring_write() and read() lose no wake-up.
THEOREM NoWakeUpIsLost == Spec => []WaitsForMissing
  BY ClientCorrect, PTL DEF ClientInv

-----------------------------------------------------------------------------
(***************************************************************************)
(* The stream is whole: what is in the ring, being downloaded and queued   *)
(* continues what FFmpeg has got, up to the last part that was listed.     *)
(***************************************************************************)

\* Last part that made it into the ring
Newest == IF ring # <<>> THEN ring[Len(ring)] ELSE delivered

Before(p, q) == p < q \/ (p = q /\ mode = "hints")

Covered(p, q) == p > 0 => (p + 1)..(q - 1) \subseteq lost

\* Last part that was asked for
Top == IF mode = "hints" THEN current + 1 ELSE current

RingInv ==
  /\ \A i \in 1..Len(ring) : Before(delivered, ring[i])
  /\ \A i, j \in 1..Len(ring) : i < j => Before(ring[i], ring[j])
  /\ \A i \in 1..(Len(ring) - 1) : Covered(ring[i], ring[i + 1])
  /\ ring # <<>> => IF delivered = None THEN mapped <=> ring[1] = Init0
                                        ELSE Covered(delivered, ring[1])

QueueInv ==
  /\ \A i, j \in 1..Len(queue) : i < j => Before(queue[i], queue[j])
  /\ \A i \in 1..(Len(queue) - 1) : Covered(queue[i], queue[i + 1])
  /\ queue # <<>> => queue[Len(queue)] = Top

\* The next part continues the ring.
LinkInv ==
  IF download \in Busy
    THEN /\ Before(Newest, part) /\ Covered(Newest, part)
         /\ \A i \in 1..Len(queue) : Before(part, queue[i])
         /\ IF queue # <<>> THEN Covered(part, queue[1]) ELSE part = Top
    ELSE /\ \A i \in 1..Len(queue) : Before(Newest, queue[i])
         /\ IF queue # <<>> THEN Covered(Newest, queue[1])
                            ELSE Newest <= Top /\ Covered(Newest, Top + 1)

NothingYet == queue = <<>> /\ download \notin Busy

\* Once the client has stopped nothing is written any more, and requests no
\* longer matter.
FlowInv ==
  running =>
    IF playlist \in {"off", "init", "initWrite"}
      THEN NothingYet /\ Newest = None
      ELSE IF playlist = "first"
        THEN NothingYet /\ Newest = (IF mapped THEN Init0 ELSE None)
        ELSE QueueInv /\ LinkInv /\ (mapped => Newest # None)

ControlInv ==
  /\ owner \in BeforeThreads =>
       /\ ring = <<>> /\ queue = <<>> /\ delivered = None /\ current = None
  /\ owner = "none" => ~running
  /\ owner \in {"abort", "notify", "joinPlaylist", "joinDownload"} => ~running
  /\ playlist \in {"init", "initWrite"} => mapped

StreamInv == ClientInv /\ RingInv /\ FlowInv /\ ControlInv

content == <<ring, delivered, queue, part, lost, mode, mapped, current>>

\* What there is to say of parts stays true while no part moves.
LEMMA ContentKept ==
  ASSUME UNCHANGED content, download' \in Busy <=> download \in Busy
  PROVE  /\ RingInv => RingInv'
         /\ Newest' = Newest
         /\ NothingYet => NothingYet'
         /\ QueueInv => QueueInv'
         /\ LinkInv => LinkInv'
<1>1. Newest' = Newest /\ Top' = Top
  BY DEF content, Newest, Top
<1>2. RingInv => RingInv'
  BY DEF content, RingInv, Before, Covered
<1>3. QueueInv => QueueInv'
  BY <1>1 DEF content, QueueInv, Before, Covered
<1>4. LinkInv => LinkInv'
  BY <1>1 DEF content, LinkInv, Before, Covered
<1>5. NothingYet => NothingYet'
  BY DEF content, NothingYet
<1> QED BY <1>1, <1>2, <1>3, <1>4, <1>5

\* The newest part, when there is one, ends the ring.
LEMMA NewestType ==
  ASSUME TypeOK
  PROVE  /\ Newest \in Parts \cup {Init0, None}
         /\ Newest = None => ring = <<>> /\ delivered = None
  <1>1. CASE ring = <<>>
    BY <1>1 DEF TypeOK, Newest
  <1>2. CASE ring # <<>>
    <2>1. Len(ring) \in 1..Len(ring)
      BY <1>2 DEF TypeOK
    <2>2. ring[Len(ring)] \in Parts \cup {Init0}
      BY <2>1 DEF TypeOK
    <2> QED BY <1>2, <2>2 DEF Newest, Parts, None, Init0
  <1> QED BY <1>1, <1>2

\* Reading takes the oldest part, and keeps what links the others.
LEMMA ReadKeeps ==
  ASSUME StreamInv, ring # <<>>, delivered' = Head(ring), ring' = Tail(ring),
         lost' = {p \in lost : p > Head(ring)}, mode' = mode, mapped' = mapped
  PROVE  RingInv' /\ Newest' = Newest
<1>1. /\ ring \in Seq(Parts \cup {Init0}) /\ Len(ring) \in Nat \ {0}
      /\ ring' \in Seq(Parts \cup {Init0}) /\ Len(ring') = Len(ring) - 1
      /\ delivered' = ring[1] /\ \A i \in 1..Len(ring') : ring'[i] = ring[i + 1]
      /\ \A i \in 1..Len(ring) : ring[i] \in Parts \cup {Init0}
  BY DEF StreamInv, ClientInv, TypeOK
<1>2. Newest' = Newest
  <2>1. CASE Len(ring) = 1
    <3>1. ring' = <<>>
      BY <1>1, <2>1
    <3> QED BY <1>1, <2>1, <3>1 DEF Newest
  <2>2. CASE Len(ring) > 1
    <3>1. Len(ring') \in 1..Len(ring') /\ Len(ring') + 1 = Len(ring)
      BY <1>1, <2>2
    <3>2. ring'[Len(ring')] = ring[Len(ring)]
      BY <1>1, <3>1
    <3>3. ring' # <<>> /\ ring # <<>>
      BY <3>1, <2>2
    <3> QED BY <3>2, <3>3 DEF Newest
  <2> QED BY <1>1, <2>1, <2>2
<1>3. (\A i \in 1..Len(ring) : Before(delivered, ring[i]))'
  BY <1>1 DEF StreamInv, RingInv, Before
<1>4. (\A i, j \in 1..Len(ring) : i < j => Before(ring[i], ring[j]))'
  BY <1>1 DEF StreamInv, RingInv, Before
<1>5. \A i \in 1..(Len(ring) - 1) :
        ring[i] > 0 => (ring[i] + 1)..(ring[i + 1] - 1) \subseteq lost'
  <2> TAKE i \in 1..(Len(ring) - 1)
  <2>1. Covered(ring[i], ring[i + 1]) /\ (i = 1 \/ Before(ring[1], ring[i]))
    BY <1>1 DEF StreamInv, RingInv
  <2>2. ring[i] \in Nat /\ ring[1] \in Nat /\ ring[1] <= ring[i]
    BY <1>1, <2>1, ClientAssumption DEF Before, Parts, Init0
  <2>3. ring[i + 1] \in Nat
    BY <1>1, ClientAssumption DEF Parts, Init0
  <2> QED BY <1>1, <2>1, <2>2, <2>3 DEF Covered
<1>6. (\A i \in 1..(Len(ring) - 1) : Covered(ring[i], ring[i + 1]))'
  BY <1>1, <1>5 DEF Covered
<1>7. (ring # <<>> => delivered # None /\ Covered(delivered, ring[1]))'
  <2>1. delivered' # None
    BY <1>1 DEF Parts, Init0, None
  <2> QED BY <1>1, <1>5, <2>1 DEF Covered
<1> QED
  BY <1>2, <1>3, <1>4, <1>6, <1>7 DEF RingInv

\* Writing a part that continues the ring makes it the newest.
LEMMA WriteKeeps ==
  ASSUME StreamInv, NEW p \in Parts \cup {Init0}, ring' = Append(ring, p),
         UNCHANGED <<delivered, lost, mode, mapped>>,
         Before(Newest, p), Covered(Newest, p),
         Newest = None => (mapped <=> p = Init0)
  PROVE  RingInv' /\ Newest' = p
<1>1. /\ ring \in Seq(Parts \cup {Init0}) /\ Len(ring) \in Nat
      /\ Len(ring') = Len(ring) + 1 /\ ring'[Len(ring')] = p
      /\ \A i \in 1..Len(ring) : ring'[i] = ring[i]
      /\ \A i \in 1..Len(ring) : ring[i] \in Parts \cup {Init0}
      /\ ring' # <<>>
  BY DEF StreamInv, ClientInv, TypeOK
<1>2. Newest' = p
  BY <1>1 DEF Newest
<1>3. \A i \in 1..Len(ring) : Before(ring[i], p)
  <2> TAKE i \in 1..Len(ring)
  <2>1. ring # <<>> /\ Len(ring) \in 1..Len(ring)
    BY <1>1
  <2>2. Newest = ring[Len(ring)]
    BY <2>1 DEF Newest
  <2>3. i = Len(ring) \/ Before(ring[i], ring[Len(ring)])
    BY <1>1, <2>1 DEF StreamInv, RingInv
  <2>4. ring[i] \in Int /\ ring[Len(ring)] \in Int /\ p \in Int
    BY <1>1, <2>1, ClientAssumption DEF Parts, Init0
  <2> QED BY <2>2, <2>3, <2>4 DEF Before
<1>4. (\A i, j \in 1..Len(ring) : i < j => Before(ring[i], ring[j]))'
  BY <1>1, <1>3 DEF StreamInv, RingInv, Before
<1>5. (\A i \in 1..(Len(ring) - 1) : Covered(ring[i], ring[i + 1]))'
  <2>1. \A i \in 1..Len(ring) :
          ring'[i] > 0 => (ring'[i] + 1)..(ring'[i + 1] - 1) \subseteq lost
    <3> TAKE i \in 1..Len(ring)
    <3>1. CASE i = Len(ring)
      <4>1. Newest = ring'[i] /\ ring'[i + 1] = p
        BY <1>1, <3>1 DEF Newest
      <4> QED BY <4>1 DEF Covered
    <3>2. CASE i < Len(ring)
      <4>1. Covered(ring[i], ring[i + 1])
        BY <1>1, <3>2 DEF StreamInv, RingInv
      <4>2. ring'[i] = ring[i] /\ ring'[i + 1] = ring[i + 1]
        BY <1>1, <3>2
      <4> QED BY <4>1, <4>2 DEF Covered
    <3> QED BY <1>1, <3>1, <3>2
  <2> QED BY <1>1, <2>1 DEF Covered
<1>6. CASE ring = <<>>
  <2>1. Newest = delivered /\ Len(ring) = 0 /\ ring'[1] = p
    BY <1>1, <1>6 DEF Newest
  <2>2. (\A i \in 1..Len(ring) : Before(delivered, ring[i]))'
    BY <1>1, <2>1 DEF Before
  <2>3. (IF delivered = None THEN mapped <=> ring[1] = Init0
                             ELSE Covered(delivered, ring[1]))'
    BY <2>1 DEF Covered
  <2> QED BY <1>2, <1>4, <1>5, <2>2, <2>3 DEF RingInv
<1>7. CASE ring # <<>>
  <2>1. Len(ring) \in 1..Len(ring) /\ 1 \in 1..Len(ring) /\ ring'[1] = ring[1]
    BY <1>1, <1>7
  <2>2. Newest = ring[Len(ring)] /\ Before(delivered, Newest)
    BY <1>7, <2>1 DEF Newest, StreamInv, RingInv
  <2>3. Before(delivered, p)
    <3>1. delivered \in Int /\ Newest \in Int /\ p \in Int
      BY NewestType, ClientAssumption
         DEF StreamInv, ClientInv, TypeOK, Parts, Init0, None
    <3> QED BY <2>2, <3>1 DEF Before
  <2>4. (\A i \in 1..Len(ring) : Before(delivered, ring[i]))'
    BY <1>1, <2>3 DEF Before, StreamInv, RingInv
  <2>5. (IF delivered = None THEN mapped <=> ring[1] = Init0
                             ELSE Covered(delivered, ring[1]))'
    BY <1>7, <2>1 DEF Covered, StreamInv, RingInv
  <2> QED BY <1>2, <1>4, <1>5, <2>4, <2>5 DEF RingInv
<1> QED BY <1>6, <1>7

\* The parts asked for are the new ones in order, up to the top.
LEMMA RequestsAre ==
  ASSUME NEW lo \in Nat \ {0}, NEW last \in 1..MaxPart, lo <= last + 1
  PROVE  LET top == IF mode = "hints" THEN last + 1 ELSE last
         IN  /\ Len(Requests(lo, last)) = top - lo + 1
             /\ \A i \in 1..(top - lo + 1) : Requests(lo, last)[i] = lo + i - 1
<1> DEFINE listed == [i \in 1..(last - lo + 1) |-> lo + i - 1]
<1>1. last - lo + 1 \in Nat
  OBVIOUS
<1>2. listed \in Seq(Int) /\ Len(listed) = last - lo + 1
  BY <1>1
<1>3. \A i \in 1..(last - lo + 1) : listed[i] = lo + i - 1
  OBVIOUS
<1> HIDE DEF listed
<1>4. CASE mode = "hints"
  <2>1. Requests(lo, last) = listed \o <<last + 1>>
    BY <1>4 DEF Requests, listed
  <2> QED BY <1>1, <1>2, <1>3, <1>4, <2>1
<1>5. CASE mode # "hints"
  <2>1. Requests(lo, last) = listed
    BY <1>2, <1>5 DEF Requests, listed
  <2> QED BY <1>1, <1>2, <1>3, <1>5, <2>1
<1> QED BY <1>4, <1>5

\* A sequence is empty just when its length is zero.
LEMMA NotEmpty ==
  ASSUME NEW S, NEW s \in Seq(S)
  PROVE  s # <<>> <=> Len(s) > 0
OBVIOUS

\* Where the next part asked for has to go on
Tip == IF download \in Busy THEN part ELSE Newest

End == IF queue # <<>> THEN queue[Len(queue)] ELSE Tip

\* Requests that continue the queue keep it, and its link to the ring.
LEMMA EnqueueKeeps ==
  ASSUME StreamInv, QueueInv, LinkInv,
         NEW lo \in Nat \ {0}, NEW last \in 1..MaxPart, lo <= last + 1,
         lo <= last \/ mode = "hints", current' = last,
         queue' = queue \o Requests(lo, last),
         download' \in Busy <=> download \in Busy,
         UNCHANGED <<ring, delivered, part, mode, mapped>>,
         lost \subseteq lost',
         Before(End, lo), End > 0 => (End + 1)..(lo - 1) \subseteq lost'
  PROVE  QueueInv' /\ LinkInv'
<1> DEFINE n == Len(queue)
           top == IF mode = "hints" THEN last + 1 ELSE last
           m == Len(queue')
<1>1. /\ n \in Nat /\ queue \in Seq(Parts)
      /\ \A i \in 1..n : queue[i] \in Int
      /\ n > 0 <=> queue # <<>>
  BY ClientAssumption DEF StreamInv, ClientInv, TypeOK, Parts
<1>2. top \in Nat /\ lo <= top /\ Top' = top
  BY DEF Top
<1>3. /\ m = n + (top - lo + 1)
      /\ \A i \in 1..n : queue'[i] = queue[i]
      /\ \A i \in (n + 1)..m : queue'[i] = lo + (i - n) - 1
      /\ queue' # <<>>
  <2>1. Requests(lo, last) \in Seq(Parts)
    BY RequestsType
  <2>2. /\ Len(Requests(lo, last)) = top - lo + 1
        /\ \A i \in 1..(top - lo + 1) : Requests(lo, last)[i] = lo + i - 1
    BY RequestsAre
  <2>3. m = n + Len(Requests(lo, last))
    BY <1>1, <2>1
  <2>4. \A i \in 1..n : queue'[i] = queue[i]
    BY <1>1, <2>1
  <2>5. \A i \in (n + 1)..m : queue'[i] = Requests(lo, last)[i - n]
    BY <1>1, <2>1, <2>3
  <2>6. \A i \in (n + 1)..m : i - n \in 1..(top - lo + 1)
    BY <1>1, <1>2, <2>2, <2>3
  <2>7. queue' # <<>>
    BY <1>1, <1>2, <2>2, <2>3
  <2> QED BY <2>2, <2>3, <2>4, <2>5, <2>6, <2>7
<1>4. Newest' = Newest /\ Tip \in Int /\ End \in Int /\ Tip' = Tip
  <2>1. Newest' = Newest /\ Newest \in Int
    BY NewestType, ClientAssumption
       DEF Newest, StreamInv, ClientInv, Parts, Init0, None
  <2>2. Tip \in Int /\ Tip' = Tip
    BY <2>1, ClientAssumption
       DEF Tip, StreamInv, ClientInv, ThreadsInv, Parts
  <2>3. n > 0 => queue[n] \in Int
    BY <1>1
  <2> QED BY <1>1, <2>1, <2>2, <2>3 DEF End
<1>5. /\ \A i \in 1..n : Before(Tip, queue[i])
      /\ n > 0 => Covered(Tip, queue[1])
      /\ n = 0 => End = Tip
  BY <1>1 DEF LinkInv, Tip, End
<1>6. \A i \in 1..n : i = n \/ Before(queue[i], queue[n])
  BY <1>1 DEF QueueInv
<1>7. n > 0 => End = queue[n]
  BY <1>1 DEF End
<1>8. \A i \in 1..n : Before(queue[i], lo)
  <2> TAKE i \in 1..n
  <2>1. Before(queue[n], lo) /\ n \in 1..n
    BY <1>1, <1>7
  <2>2. queue[i] \in Int /\ queue[n] \in Int
    BY <1>1, <2>1
  <2>3. i = n \/ Before(queue[i], queue[n])
    BY <1>6
  <2> QED BY <2>1, <2>2, <2>3 DEF Before
<1>9. Before(Tip, lo)
  <2>1. CASE n = 0
    BY <1>5, <2>1
  <2>2. CASE n > 0
    BY <1>1, <1>4, <1>5, <1>8, <2>2 DEF Before
  <2> QED BY <1>1, <2>1, <2>2
<1>10. \A i, j \in 1..m : i < j => Before(queue'[i], queue'[j])
  <2> SUFFICES ASSUME NEW i \in 1..m, NEW j \in 1..m, i < j
               PROVE  Before(queue'[i], queue'[j])
    OBVIOUS
  <2>1. CASE j <= n
    BY <1>1, <1>3, <2>1 DEF QueueInv
  <2>2. CASE i <= n /\ j > n
    <3>1. queue'[i] = queue[i] /\ queue'[j] \in Int /\ lo <= queue'[j]
      BY <1>1, <1>2, <1>3, <2>2
    <3> QED BY <1>1, <1>8, <2>2, <3>1 DEF Before
  <2>3. CASE i > n
    <3>1. i \in (n + 1)..m /\ j \in (n + 1)..m
      BY <1>1, <1>2, <1>3, <2>3
    <3>2. queue'[i] = lo + (i - n) - 1 /\ queue'[j] = lo + (j - n) - 1
      BY <1>3, <3>1
    <3>3. queue'[i] < queue'[j]
      BY <1>1, <3>1, <3>2
    <3> QED BY <3>3 DEF Before
  <2> QED BY <1>1, <1>2, <1>3, <2>1, <2>2, <2>3
<1>11. \A i \in 1..(m - 1) :
         queue'[i] > 0 => (queue'[i] + 1)..(queue'[i + 1] - 1) \subseteq lost'
  <2> TAKE i \in 1..(m - 1)
  <2>1. CASE i < n
    <3>1. Covered(queue[i], queue[i + 1])
      BY <1>1, <2>1 DEF QueueInv
    <3>2. queue'[i] = queue[i] /\ queue'[i + 1] = queue[i + 1]
      BY <1>1, <1>3, <2>1
    <3> QED BY <3>1, <3>2 DEF Covered
  <2>2. CASE i = n
    <3>1. i \in 1..n /\ n > 0 /\ i + 1 \in (n + 1)..m
      BY <1>1, <1>2, <1>3, <2>2
    <3>2. queue'[i] = End
      BY <1>3, <1>7, <2>2, <3>1
    <3>3. queue'[i + 1] = lo + (i + 1 - n) - 1
      BY <1>3, <3>1
    <3>4. queue'[i + 1] = lo
      BY <1>1, <2>2, <3>3
    <3> QED BY <3>2, <3>4
  <2>3. CASE i > n
    <3>1. i \in (n + 1)..m /\ i + 1 \in (n + 1)..m
      BY <1>1, <1>2, <1>3, <2>3
    <3>2. queue'[i] = lo + (i - n) - 1
      BY <1>3, <3>1
    <3>3. PICK k \in (n + 1)..m : k = i + 1
      BY <3>1
    <3>4. queue'[k] = lo + (k - n) - 1
      BY <1>3, <3>3
    <3>5. queue'[i + 1] = queue'[i] + 1 /\ queue'[i] \in Int
      BY <1>1, <3>1, <3>2, <3>3, <3>4
    <3> QED BY <3>5
  <2> QED BY <1>1, <1>2, <1>3, <2>1, <2>2, <2>3
<1>12. QueueInv'
  <2>1. (\A i, j \in 1..Len(queue) : i < j => Before(queue[i], queue[j]))'
    BY <1>10 DEF Before
  <2>2. (\A i \in 1..(Len(queue) - 1) : Covered(queue[i], queue[i + 1]))'
    BY <1>11 DEF Covered
  <2>3. m \in (n + 1)..m /\ lo + (m - n) - 1 = top
    BY <1>1, <1>2, <1>3
  <2>4. queue'[m] = top
    BY <1>3, <2>3
  <2> QED BY <1>2, <2>1, <2>2, <2>4 DEF QueueInv
<1>13. \A i \in 1..m : Before(Tip, queue'[i])
  <2> TAKE i \in 1..m
  <2>1. CASE i <= n
    BY <1>1, <1>3, <1>5, <2>1
  <2>2. CASE i > n
    <3>1. queue'[i] \in Int /\ lo <= queue'[i]
      BY <1>1, <1>2, <1>3, <2>2
    <3> QED BY <1>4, <1>9, <3>1 DEF Before
  <2> QED BY <1>1, <1>2, <1>3, <2>1, <2>2
<1>14. Tip > 0 => (Tip + 1)..(queue'[1] - 1) \subseteq lost'
  <2>1. CASE n = 0
    <3>1. queue'[1] = lo
      BY <1>2, <1>3, <2>1
    <3> QED BY <1>5, <2>1, <3>1
  <2>2. CASE n > 0
    <3>1. queue'[1] = queue[1]
      BY <1>1, <1>3, <2>2
    <3> QED BY <1>5, <2>2, <3>1 DEF Covered
  <2> QED BY <1>1, <2>1, <2>2
<1>15. LinkInv'
  <2>1. CASE download \in Busy
    <3>1. (Before(Newest, part) /\ Covered(Newest, part))'
      BY <1>4, <2>1 DEF LinkInv, Before, Covered
    <3>2. Tip = part
      BY <2>1 DEF Tip
    <3>3. (\A i \in 1..Len(queue) : Before(part, queue[i]))'
      BY <1>13, <3>2 DEF Before
    <3>4. Covered(part, queue[1])'
      BY <1>14, <3>2 DEF Covered
    <3> QED BY <1>3, <2>1, <3>1, <3>3, <3>4 DEF LinkInv
  <2>2. CASE download \notin Busy
    <3>1. Tip = Newest
      BY <2>2 DEF Tip
    <3>2. (\A i \in 1..Len(queue) : Before(Newest, queue[i]))'
      BY <1>4, <1>13, <3>1 DEF Before
    <3>3. Covered(Newest, queue[1])'
      BY <1>4, <1>14, <3>1 DEF Covered
    <3> QED BY <1>3, <2>2, <3>2, <3>3 DEF LinkInv
  <2> QED BY <2>1, <2>2
<1> QED BY <1>12, <1>15

\* The request taken from the queue is the one that continues the ring.
LEMMA DequeueKeeps ==
  ASSUME StreamInv, QueueInv, LinkInv, download \notin Busy, queue # <<>>,
         part' = Head(queue), queue' = Tail(queue), download' \in Busy,
         UNCHANGED <<ring, delivered, lost, mode, mapped, current>>
  PROVE  QueueInv' /\ LinkInv'
<1>1. /\ Len(queue) \in Nat \ {0} /\ Len(queue') = Len(queue) - 1
      /\ part' = queue[1] /\ \A i \in 1..Len(queue') : queue'[i] = queue[i + 1]
      /\ queue' # <<>> <=> Len(queue) > 1
  <2>1. queue \in Seq(Parts) /\ Len(queue) \in Nat \ {0}
    BY DEF StreamInv, ClientInv, TypeOK
  <2>2. /\ Len(queue') = Len(queue) - 1 /\ part' = queue[1]
        /\ queue' \in Seq(Parts)
        /\ \A i \in 1..Len(queue') : queue'[i] = queue[i + 1]
    BY <2>1
  <2>3. queue' # <<>> <=> Len(queue') > 0
    BY <2>2, NotEmpty
  <2> QED BY <2>1, <2>2, <2>3
<1>2. Newest' = Newest /\ Top' = Top
  BY DEF Newest, Top
<1>3. QueueInv'
  <2>1. (\A i, j \in 1..Len(queue) : i < j => Before(queue[i], queue[j]))'
    BY <1>1 DEF QueueInv, Before
  <2>2. (\A i \in 1..(Len(queue) - 1) : Covered(queue[i], queue[i + 1]))'
    BY <1>1 DEF QueueInv, Covered
  <2>3. queue' # <<>> => queue'[Len(queue')] = queue[Len(queue)]
    BY <1>1
  <2> QED BY <1>2, <2>1, <2>2, <2>3 DEF QueueInv
<1>4. LinkInv'
  <2>1. (Before(Newest, part) /\ Covered(Newest, part))'
    BY <1>1, <1>2 DEF LinkInv, Before, Covered
  <2>2. (\A i \in 1..Len(queue) : Before(part, queue[i]))'
    BY <1>1 DEF QueueInv, Before
  <2>3. queue' # <<>> => Covered(part, queue[1])'
    BY <1>1 DEF QueueInv, Covered
  <2>4. queue' = <<>> => part' = Top'
    BY <1>1, <1>2 DEF QueueInv
  <2> QED BY <2>1, <2>2, <2>3, <2>4 DEF LinkInv
<1> QED BY <1>3, <1>4

\* A part that was given up is a hole the next one may leap.
LEMMA GivenUpKeeps ==
  ASSUME StreamInv, QueueInv, LinkInv, download \in Busy, download' \notin Busy,
         lost' = lost \cup {part},
         UNCHANGED <<ring, delivered, queue, mode, mapped, current>>
  PROVE  QueueInv' /\ LinkInv'
<1>1. /\ Newest' = Newest /\ Top' = Top
      /\ Newest \in Int /\ part \in Nat \ {0} /\ Top \in Int
  BY NewestType, ClientAssumption
     DEF Newest, Top, StreamInv, ClientInv, TypeOK, ThreadsInv, Parts, Init0,
         None
<1>2. Len(queue) \in Nat /\ \A i \in 1..Len(queue) : queue[i] \in Int
  BY ClientAssumption DEF StreamInv, ClientInv, TypeOK, Parts
<1>3. QueueInv'
  BY <1>1 DEF QueueInv, Before, Covered
<1>4. (\A i \in 1..Len(queue) : Before(Newest, queue[i]))'
  BY <1>1, <1>2 DEF LinkInv, Before
<1>5. CASE queue # <<>>
  <2>1. queue[1] \in Int
    BY <1>2, <1>5 DEF StreamInv, ClientInv, TypeOK
  <2>2. Covered(Newest, queue[1])'
    BY <1>1, <1>5, <2>1 DEF LinkInv, Covered
  <2> QED BY <1>3, <1>4, <1>5, <2>2 DEF LinkInv
<1>6. CASE queue = <<>>
  <2>1. Newest <= Top /\ part = Top
    BY <1>1, <1>6 DEF LinkInv, Before
  <2>2. Covered(Newest, Top + 1)'
    BY <1>1, <2>1 DEF LinkInv, Covered
  <2> QED BY <1>1, <1>3, <1>4, <1>6, <2>1, <2>2 DEF LinkInv
<1> QED BY <1>5, <1>6

\* Requests are for parts after the one that is read: what was lost before it
\* may be forgotten.
LEMMA ReadKeepsRequests ==
  ASSUME StreamInv, ring # <<>>, QueueInv, LinkInv, Newest' = Newest,
         lost' = {p \in lost : p > Head(ring)},
         UNCHANGED <<download, queue, part, mode, mapped, current>>
  PROVE  QueueInv' /\ LinkInv'
<1>1. /\ Head(ring) \in Int /\ Newest \in Int /\ Head(ring) <= Newest
      /\ Top' = Top /\ Top \in Int
  <2>1. /\ ring \in Seq(Parts \cup {Init0}) /\ Len(ring) \in Nat \ {0}
        /\ Head(ring) = ring[1]
        /\ \A i \in 1..Len(ring) : ring[i] \in Int
    BY ClientAssumption DEF StreamInv, ClientInv, TypeOK, Parts, Init0
  <2>2. Newest = ring[Len(ring)]
    BY DEF Newest
  <2>3. Len(ring) = 1 \/ Before(ring[1], ring[Len(ring)])
    <3>1. 1 \in 1..Len(ring) /\ Len(ring) \in 1..Len(ring)
      BY <2>1
    <3>2. 1 < Len(ring) => Before(ring[1], ring[Len(ring)])
      BY <3>1 DEF StreamInv, RingInv
    <3>3. \A n \in Nat \ {0} : n = 1 \/ 1 < n
      OBVIOUS
    <3> QED BY <2>1, <3>2, <3>3
  <2>4. ring[1] \in Int /\ ring[Len(ring)] \in Int
    BY <2>1
  <2>5. Top' = Top /\ Top \in Int
    BY ClientAssumption DEF Top, StreamInv, ClientInv, TypeOK, None
  <2> QED BY <2>1, <2>2, <2>3, <2>4, <2>5 DEF Before
<1>2. Len(queue) \in Nat /\ \A i \in 1..Len(queue) : queue[i] \in Int
  BY ClientAssumption DEF StreamInv, ClientInv, TypeOK, Parts
<1>3. download \in Busy => part \in Int /\ Head(ring) <= part
  <2>1. download \in Busy => part \in Int /\ Before(Newest, part)
    BY ClientAssumption DEF LinkInv, StreamInv, ClientInv, ThreadsInv, Parts
  <2> QED BY <1>1, <2>1 DEF Before
<1>4. \A i \in 1..Len(queue) : Head(ring) <= queue[i]
  <2> TAKE i \in 1..Len(queue)
  <2>1. queue[i] \in Int
    BY <1>2
  <2>2. CASE download \in Busy
    <3>1. Before(part, queue[i])
      BY <2>2 DEF LinkInv
    <3> QED BY <1>1, <1>3, <2>1, <2>2, <3>1 DEF Before
  <2>3. CASE download \notin Busy
    <3>1. Before(Newest, queue[i])
      BY <2>3 DEF LinkInv
    <3> QED BY <1>1, <2>1, <3>1 DEF Before
  <2> QED BY <2>2, <2>3
<1>5. \A p, q \in Int :
        Head(ring) <= p /\ Covered(p, q) =>
          (p > 0 => (p + 1)..(q - 1) \subseteq lost')
  BY <1>1 DEF Covered
<1>6. QueueInv'
  <2>1. (\A i, j \in 1..Len(queue) : i < j => Before(queue[i], queue[j]))'
    BY DEF QueueInv, Before
  <2>2. \A i \in 1..(Len(queue) - 1) :
          queue[i] > 0 => (queue[i] + 1)..(queue[i + 1] - 1) \subseteq lost'
    <3> TAKE i \in 1..(Len(queue) - 1)
    <3>1. Covered(queue[i], queue[i + 1])
      BY DEF QueueInv
    <3>2. /\ queue[i] \in Int /\ queue[i + 1] \in Int
          /\ Head(ring) <= queue[i]
      BY <1>2, <1>4
    <3> QED BY <1>5, <3>1, <3>2
  <2>3. (\A i \in 1..(Len(queue) - 1) : Covered(queue[i], queue[i + 1]))'
    BY <2>2 DEF Covered
  <2> QED BY <1>1, <2>1, <2>3 DEF QueueInv
<1>7. CASE download \in Busy
  <2>1. (Before(Newest, part) /\ Covered(Newest, part))'
    BY <1>1, <1>3, <1>5, <1>7 DEF LinkInv, Before, Covered
  <2>2. (\A i \in 1..Len(queue) : Before(part, queue[i]))'
    BY <1>7 DEF LinkInv, Before
  <2>3. (IF queue # <<>> THEN Covered(part, queue[1]) ELSE part = Top)'
    <3>1. CASE queue # <<>>
      <4>1. Covered(part, queue[1]) /\ queue[1] \in Int
        BY <1>2, <1>7, <3>1 DEF LinkInv, StreamInv, ClientInv, TypeOK
      <4> QED BY <1>3, <1>5, <1>7, <3>1, <4>1 DEF Covered
    <3>2. CASE queue = <<>>
      BY <1>1, <1>7, <3>2 DEF LinkInv
    <3> QED BY <3>1, <3>2
  <2> QED BY <1>6, <1>7, <2>1, <2>2, <2>3 DEF LinkInv
<1>8. CASE download \notin Busy
  <2>1. (\A i \in 1..Len(queue) : Before(Newest, queue[i]))'
    BY <1>8 DEF LinkInv, Before
  <2>2. (IF queue # <<>> THEN Covered(Newest, queue[1])
                         ELSE Newest <= Top /\ Covered(Newest, Top + 1))'
    <3>1. CASE queue # <<>>
      <4>1. Covered(Newest, queue[1]) /\ queue[1] \in Int
        BY <1>2, <1>8, <3>1 DEF LinkInv, StreamInv, ClientInv, TypeOK
      <4> QED BY <1>1, <1>5, <3>1, <4>1 DEF Covered
    <3>2. CASE queue = <<>>
      <4>1. Newest <= Top /\ Covered(Newest, Top + 1) /\ Top + 1 \in Int
        BY <1>1, <1>8, <3>2 DEF LinkInv
      <4> QED BY <1>1, <1>5, <3>2, <4>1 DEF Covered
    <3> QED BY <3>1, <3>2
  <2> QED BY <1>6, <1>8, <2>1, <2>2 DEF LinkInv
<1> QED BY <1>7, <1>8

-----------------------------------------------------------------------------
\* Before the first start there is no stream.
LEMMA StreamInit == Init => StreamInv
<1> SUFFICES ASSUME Init PROVE StreamInv
  OBVIOUS
<1>1. ClientInv
  BY ClientInit
<1>2. ring = <<>> /\ queue = <<>> /\ delivered = None /\ Newest = None
  BY DEF Init, Newest
<1>3. RingInv
  BY <1>2 DEF RingInv
<1>4. ~running /\ playlist = "off" /\ owner = "none" /\ current = None
  BY Zenon DEF Init
<1> QED BY <1>1, <1>2, <1>3, <1>4 DEF StreamInv, FlowInv, ControlInv

\* A step of one thread that moves no part and does not change what is
\* expected of them.
LEMMA StepKeeps ==
  ASSUME StreamInv, UNCHANGED content,
         download' \in Busy <=> download \in Busy,
         running' => running /\ (playlist' = playlist \/
           IF playlist \in {"off", "init", "initWrite"}
             THEN playlist' \in {"off", "init", "initWrite"}
             ELSE playlist # "first" /\
                  playlist' \notin {"off", "init", "initWrite", "first"})
  PROVE  RingInv' /\ FlowInv'
<1>1. RingInv'
  BY ContentKept DEF StreamInv
<1>2. ASSUME running' PROVE FlowInv'
  <2>1. running /\ FlowInv
    BY <1>2 DEF StreamInv
  <2>2. mapped' = mapped
    BY DEF content
  <2>3. CASE playlist \in {"off", "init", "initWrite"}
    <3>1. playlist' \in {"off", "init", "initWrite"}
      BY <1>2, <2>3
    <3> QED BY <2>1, <2>3, <3>1, ContentKept DEF FlowInv
  <2>4. CASE playlist = "first"
    <3>1. playlist' = "first"
      BY <1>2, <2>4
    <3> QED BY <2>1, <2>2, <2>4, <3>1, ContentKept DEF FlowInv
  <2>5. CASE playlist \notin {"off", "init", "initWrite", "first"}
    <3>1. playlist' \notin {"off", "init", "initWrite", "first"}
      BY <1>2, <2>5
    <3> QED BY <2>1, <2>2, <2>5, <3>1, ContentKept DEF FlowInv
  <2> QED BY <2>3, <2>4, <2>5
<1> QED BY <1>1, <1>2 DEF FlowInv

\* A new client has nothing; a client that is gone leaves nothing.
LEMMA NothingInRing ==
  ASSUME ring' = <<>> PROVE RingInv'
BY DEF RingInv

\* Reads move the stream on, and a new client begins a new one.
LEMMA OwnerKeepsStream ==
  StreamInv /\ (Create \/ Close \/ OwnerThread)
    => RingInv' /\ FlowInv' /\ ControlInv'
<1> SUFFICES ASSUME StreamInv, Create \/ Close \/ OwnerThread
             PROVE  RingInv' /\ FlowInv' /\ ControlInv'
  OBVIOUS
<1> USE DEF BeforeThreads, server, stopVars, listing, loading, reading
<1>a. ControlInv /\ ThreadsInv /\ TypeOK
  BY DEF StreamInv, ClientInv
<1>1. ASSUME Create \/ StartReset \/ StartRunning \/ StartFetched
      PROVE  RingInv' /\ FlowInv' /\ ControlInv'
  <2>1. /\ owner \in BeforeThreads /\ owner' \in BeforeThreads \ {"none"}
        /\ UNCHANGED <<ring, queue, delivered, current, playlist, download>>
    BY <1>1 DEF Create, StartReset, StartRunning, StartFetched, BeforeThreads
  <2>2. /\ ring = <<>> /\ queue = <<>> /\ delivered = None
        /\ playlist' = "off" /\ download' = "off"
    BY <2>1, <1>a DEF ControlInv, ThreadsInv
  <2>3. /\ ring' = <<>> /\ queue' = <<>> /\ Newest' = None
        /\ NothingYet'
    BY <2>1, <2>2 DEF Newest, NothingYet, Busy
  <2>4. RingInv' /\ FlowInv'
    BY <2>2, <2>3, NothingInRing DEF FlowInv
  <2>5. ControlInv'
    BY <1>a, <2>1, <2>2 DEF ControlInv, BeforeThreads
  <2> QED BY <2>4, <2>5
<1>2. CASE Close
  <2>1. RingInv' /\ FlowInv'
    BY <1>2, StepKeeps DEF Close, content
  <2> QED BY <1>2, <1>a, <2>1 DEF Close, ControlInv
<1>3. CASE StartFails
  <2>1. ring' = <<>> /\ ~running' /\ playlist' = "off"
    BY <1>3, <1>a, Zenon DEF StartFails, Destroy, ThreadsInv
  <2> QED BY <1>3, <2>1, NothingInRing
       DEF StartFails, Destroy, FlowInv, ControlInv
<1>4. CASE StartThreads
  <2>1. ring = <<>> /\ queue = <<>> /\ delivered = None
    BY <1>4, <1>a DEF StartThreads, ControlInv
  <2>2. ring' = <<>> /\ Newest' = None /\ NothingYet'
    BY <1>4, <2>1 DEF StartThreads, Newest, NothingYet, Busy
  <2>3. FlowInv'
    BY <1>4, <2>2 DEF StartThreads, FlowInv
  <2>4. ControlInv'
    BY <1>4 DEF StartThreads, ControlInv
  <2> QED BY <2>2, <2>3, <2>4, NothingInRing
<1>5. CASE Read
  <2>1. ControlInv'
    BY <1>5, <1>a DEF Read, ControlInv
  <2>2. CASE ring # <<>>
    <3>1. RingInv' /\ Newest' = Newest
      BY <1>5, <2>2, ReadKeeps DEF Read
    <3>2. /\ delivered' = Head(ring) /\ ring' = Tail(ring)
          /\ lost' = {p \in lost : p > Head(ring)}
          /\ UNCHANGED <<download, queue, part, mode, mapped, current>>
      BY <1>5, <2>2 DEF Read
    <3>3. QueueInv /\ LinkInv => QueueInv' /\ LinkInv'
      BY <2>2, <3>1, <3>2, ReadKeepsRequests
    <3>4. Newest # None
      BY <2>2, NewestType DEF StreamInv, ClientInv
    <3>5. FlowInv'
      BY <1>5, <3>1, <3>2, <3>3, <3>4
         DEF Read, FlowInv, StreamInv, NothingYet
    <3> QED BY <2>1, <3>1, <3>5
  <2>3. CASE ring = <<>>
    BY <1>5, <2>1, <2>3, StepKeeps DEF Read, content
  <2> QED BY <2>2, <2>3
<1>6. CASE Stop
  <2>1. RingInv' /\ FlowInv'
    BY <1>6, StepKeeps DEF Stop, content
  <2> QED BY <1>6, <1>a, <2>1 DEF Stop, ControlInv
<1>7. CASE StopAbort
  <2>1. RingInv' /\ FlowInv'
    BY <1>7, StepKeeps DEF StopAbort, content
  <2> QED BY <1>7, <1>a, <2>1 DEF StopAbort, ControlInv
<1>8. CASE StopNotify
  <2>1. download' \in Busy <=> download \in Busy
    BY <1>8 DEF StopNotify, StopWakesQueue, NotifyQueue, Busy
  <2>2. RingInv' /\ FlowInv'
    BY <1>8, <2>1, StepKeeps DEF StopNotify, content
  <2> QED BY <1>8, <1>a, <2>2 DEF StopNotify, ControlInv
<1>9. CASE StopJoinPlaylist
  <2>1. ~running'
    BY <1>9, <1>a DEF StopJoinPlaylist, ControlInv
  <2>2. RingInv' /\ FlowInv'
    BY <1>9, <2>1, StepKeeps DEF StopJoinPlaylist, content
  <2> QED BY <1>9, <1>a, <2>1, <2>2 DEF StopJoinPlaylist, ControlInv
<1>10. CASE StopJoinDownload
  <2>1. ring' = <<>> /\ ~running' /\ playlist' = "off"
    BY <1>10, <1>a, Zenon DEF StopJoinDownload, Destroy, ThreadsInv
  <2> QED BY <1>10, <2>1, NothingInRing
       DEF StopJoinDownload, Destroy, FlowInv, ControlInv
<1> QED
  BY <1>1, <1>2, <1>3, <1>4, <1>5, <1>6, <1>7, <1>8, <1>9, <1>10
     DEF OwnerThread

\* signal_stop() does not touch the stream.
LEMMA SignalKeepsStream ==
  StreamInv /\ (Signal \/ SignalThread) => RingInv' /\ FlowInv' /\ ControlInv'
<1> SUFFICES ASSUME StreamInv, Signal \/ SignalThread
             PROVE  RingInv' /\ FlowInv' /\ ControlInv'
  OBVIOUS
<1> USE DEF server, listing, loading, reading
<1>a. ControlInv
  BY DEF StreamInv
<1>1. CASE Signal
  <2>1. ~running'
    BY <1>1, Zenon DEF Signal
  <2>2. RingInv' /\ FlowInv'
    BY <1>1, <2>1, StepKeeps DEF Signal, content
  <2> QED BY <1>1, <1>a, <2>1, <2>2 DEF Signal, ControlInv
<1>2. CASE SignalAbort
  <2>1. RingInv' /\ FlowInv'
    BY <1>2, StepKeeps DEF SignalAbort, content
  <2> QED BY <1>2, <1>a, <2>1 DEF SignalAbort, ControlInv
<1>3. CASE SignalNotifyQueue
  <2>1. download' \in Busy <=> download \in Busy
    BY <1>3 DEF SignalNotifyQueue, NotifyQueue, Busy
  <2>2. RingInv' /\ FlowInv'
    BY <1>3, <2>1, StepKeeps DEF SignalNotifyQueue, content
  <2> QED BY <1>3, <1>a, <2>2 DEF SignalNotifyQueue, ControlInv
<1>4. CASE SignalNotifyBuf
  <2>1. RingInv' /\ FlowInv'
    BY <1>4, StepKeeps DEF SignalNotifyBuf, content
  <2> QED BY <1>4, <1>a, <2>1 DEF SignalNotifyBuf, NotifyBuf, ControlInv,
       BeforeThreads
<1> QED BY <1>1, <1>2, <1>3, <1>4 DEF SignalThread

\* A thread writes or asks only while a client is there.
LEMMA ControlKept ==
  ASSUME StreamInv, playlist # "off" \/ download # "off",
         running' => running, owner' = owner \/ owner' = "woken",
         playlist' \in {"init", "initWrite"} => mapped, mapped' = mapped
  PROVE  ControlInv'
<1>1. owner \notin BeforeThreads
  BY DEF StreamInv, ClientInv, ThreadsInv, BeforeThreads
<1> QED BY <1>1 DEF StreamInv, ControlInv, BeforeThreads

\* What the playlist thread asks for continues the stream.
LEMMA PlaylistKeepsStream ==
  StreamInv /\ PlaylistThread => RingInv' /\ FlowInv' /\ ControlInv'
<1> SUFFICES ASSUME StreamInv, PlaylistThread
             PROVE  RingInv' /\ FlowInv' /\ ControlInv'
  OBVIOUS
<1> USE DEF PlaylistFrame, server, stopVars, loading, reading
<1>a. ControlInv /\ ThreadsInv /\ TypeOK /\ FlowInv /\ WaitsForMissing
  BY DEF StreamInv, ClientInv
<1>1. CASE PlaylistInit
  <2>1. RingInv' /\ FlowInv'
    BY <1>1, StepKeeps DEF PlaylistInit, content
  <2> QED BY <1>1, <1>a, <2>1, ControlKept DEF PlaylistInit, ControlInv
<1>2. CASE PlaylistInitFails
  <2>1. ~running'
    BY <1>2, Zenon DEF PlaylistInitFails
  <2>2. RingInv' /\ FlowInv'
    BY <1>2, <2>1, StepKeeps DEF PlaylistInitFails, content
  <2> QED BY <1>2, <2>1, <2>2, ControlKept DEF PlaylistInitFails
<1>3. CASE PlaylistInitWrite
  <2>1. /\ RingWrite(Init0) /\ playlist = "initWrite" /\ playlist' = "first"
        /\ mapped /\ mapped' = mapped /\ running' = running
    BY <1>3, <1>a DEF PlaylistInitWrite, ControlInv
  <2>2. ControlInv'
    BY <1>3, <2>1, ControlKept DEF RingWrite, NotifyBuf
  <2>3. CASE ~running
    <3>1. RingInv' /\ FlowInv'
      BY <1>3, <2>1, <2>3, StepKeeps DEF PlaylistInitWrite, RingWrite, content
    <3> QED BY <2>2, <3>1
  <2>4. CASE running
    <3>1. ring' = Append(ring, Init0) /\ Newest = None /\ NothingYet
      BY <1>a, <2>1, <2>4 DEF RingWrite, FlowInv
    <3>2. Before(Newest, Init0) /\ Covered(Newest, Init0)
      BY <3>1 DEF Before, Covered, None, Init0
    <3>3. RingInv' /\ Newest' = Init0
      BY <1>3, <2>1, <3>1, <3>2, WriteKeeps DEF PlaylistInitWrite
    <3>4. NothingYet'
      BY <1>3, <3>1 DEF PlaylistInitWrite, NothingYet
    <3>5. FlowInv'
      BY <2>1, <3>3, <3>4 DEF FlowInv
    <3> QED BY <2>2, <3>3, <3>5
  <2> QED BY <2>3, <2>4
<1>4. CASE PlaylistFirst
  <2>1. PICK lo \in Oldest(current)..current : Enqueue(Requests(lo, current))
    BY <1>4 DEF PlaylistFirst
  <2>2. /\ current \in 1..MaxPart /\ lo \in Nat \ {0}
        /\ lo <= current /\ lo <= current + 1
    <3>1. current \in 1..MaxPart
      BY <1>4, <1>a DEF PlaylistFirst, TypeOK, ThreadsInv
    <3> QED BY <2>1, <3>1, OldestType
  <2>3. /\ queue' = queue \o Requests(lo, current)
        /\ download' \in Busy <=> download \in Busy
    BY <2>1 DEF Enqueue, NotifyQueue, Busy
  <2>4. RingInv' /\ Newest' = Newest
    BY <1>4 DEF PlaylistFirst, StreamInv, RingInv, Before, Covered, Newest
  <2>5. ASSUME running
        PROVE  QueueInv /\ LinkInv /\ Before(End, lo) /\ ~(End > 0)
    <3>1. NothingYet /\ Newest = IF mapped THEN Init0 ELSE None
      BY <1>4, <1>a, <2>5 DEF PlaylistFirst, FlowInv
    <3>2. End = Newest /\ End \in {Init0, None}
      BY <3>1 DEF NothingYet, End, Tip
    <3>3. QueueInv
      BY <3>1 DEF NothingYet, QueueInv
    <3>4. Newest <= Top /\ Covered(Newest, Top + 1)
      BY <2>2, <3>2 DEF Top, Covered, Init0, None
    <3>5. LinkInv
      BY <3>1, <3>4 DEF NothingYet, LinkInv
    <3> QED BY <2>2, <3>2, <3>3, <3>5 DEF Before, Init0, None
  <2>6. ASSUME running PROVE FlowInv'
    <3>1. /\ current' = current /\ lost' = lost /\ playlist' = "loop"
          /\ UNCHANGED <<ring, delivered, part, mode, mapped>>
      BY <1>4 DEF PlaylistFirst
    <3>2. QueueInv' /\ LinkInv'
      BY <2>2, <2>3, <2>5, <2>6, <3>1, EnqueueKeeps
    <3>3. mapped => Newest # None
      BY <1>4, <1>a, <2>6 DEF PlaylistFirst, FlowInv, Init0, None
    <3> QED BY <2>4, <3>1, <3>2, <3>3 DEF FlowInv
  <2>7. FlowInv'
    BY <1>4, <2>6 DEF PlaylistFirst, FlowInv
  <2>8. ControlInv'
    BY <1>4, ControlKept DEF PlaylistFirst
  <2> QED BY <2>4, <2>7, <2>8
<1>5. CASE PlaylistLoop
  <2>1. RingInv' /\ FlowInv'
    BY <1>5, StepKeeps DEF PlaylistLoop, content
  <2> QED BY <1>5, <2>1, ControlKept DEF PlaylistLoop
<1>6. CASE PlaylistReload
  <2> DEFINE lo == FirstNew(edge)
  <2>1. /\ playlist = "fetch" /\ playlist' = "loop" /\ current' = edge
        /\ lost' = lost \cup ((current + 1)..(lo - 1))
        /\ UNCHANGED <<ring, delivered, part, mode, mapped, running, owner>>
        /\ Enqueue(Requests(lo, edge))
    BY <1>6 DEF PlaylistReload
  <2>2. /\ edge \in 1..MaxPart /\ current \in 1..MaxPart /\ current <= edge
        /\ lo \in Nat \ {0} /\ current + 1 <= lo /\ lo <= edge + 1
    <3>1. current \in 1..MaxPart /\ edge \in 1..MaxPart /\ current <= edge
      BY <1>a, <2>1 DEF TypeOK, ThreadsInv
    <3>2. lo \in Nat \ {0} /\ lo <= edge + 1
      BY <1>a, FirstNewType
    <3>3. current + 1 <= lo
      BY <3>1, OldestType DEF FirstNew
    <3> QED BY <3>1, <3>2, <3>3
  <2> HIDE DEF lo
  <2>3. /\ queue' = queue \o Requests(lo, edge)
        /\ download' \in Busy <=> download \in Busy
    BY <2>1 DEF Enqueue, NotifyQueue, Busy, lo
  <2>4. RingInv' /\ Newest' = Newest
    BY <2>1 DEF StreamInv, RingInv, Before, Covered, Newest
  <2>5. ControlInv'
    BY <2>1, ControlKept
  <2>6. ASSUME running PROVE QueueInv /\ LinkInv /\ (mapped => Newest # None)
    BY <1>a, <2>1, <2>6 DEF FlowInv
  <2>7. ASSUME running
        PROVE  /\ Before(End, lo)
               /\ End > 0 => (End + 1)..(lo - 1) \subseteq lost'
    <3>1. QueueInv /\ LinkInv
      BY <2>6, <2>7
    <3>2. \/ End = Top
          \/ Newest <= Top /\ Covered(Newest, Top + 1) /\ End = Newest
      BY <3>1 DEF QueueInv, LinkInv, End, Tip
    <3>3. Newest \in Int
      BY <1>a, NewestType, ClientAssumption DEF Parts, Init0, None
    <3>4. CASE End = Top
      BY <2>1, <2>2, <3>4 DEF Top, Before
    <3>5. CASE Newest <= Top /\ Covered(Newest, Top + 1) /\ End = Newest
      <4>1. Before(End, lo)
        BY <2>2, <3>3, <3>5 DEF Top, Before
      <4>2. End > 0 => (End + 1)..(lo - 1) \subseteq lost'
        BY <2>1, <2>2, <3>3, <3>5 DEF Top, Covered
      <4> QED BY <4>1, <4>2
    <3> QED BY <3>2, <3>4, <3>5
  <2>8. ASSUME running PROVE FlowInv'
    <3>1. QueueInv' /\ LinkInv'
      <4>1. CASE lo <= edge \/ mode = "hints"
        BY <2>1, <2>2, <2>3, <2>6, <2>7, <2>8, <4>1, EnqueueKeeps
      <4>2. CASE ~(lo <= edge \/ mode = "hints")
        <5>1. edge = current /\ lo = current + 1
          BY <2>2, <4>2, OldestType DEF lo, FirstNew
        <5>2. Requests(lo, edge) = <<>>
          BY <2>2, <4>2, <5>1 DEF Requests
        <5>3. queue' = queue /\ lost' = lost /\ current' = current
          BY <1>a, <2>1, <2>2, <2>3, <5>1, <5>2 DEF TypeOK
        <5> QED BY <2>1, <2>3, <2>6, <2>8, <5>3, ContentKept DEF content
      <4> QED BY <4>1, <4>2
    <3> QED BY <2>1, <2>4, <2>6, <2>8, <3>1 DEF FlowInv
  <2>9. FlowInv'
    BY <2>1, <2>8 DEF FlowInv
  <2> QED BY <2>4, <2>5, <2>9
<1>7. CASE PlaylistReloadFails
  <2>1. RingInv' /\ FlowInv'
    BY <1>7, StepKeeps DEF PlaylistReloadFails, content
  <2> QED BY <1>7, <2>1, ControlKept DEF PlaylistReloadFails
<1> QED BY <1>1, <1>2, <1>3, <1>4, <1>5, <1>6, <1>7 DEF PlaylistThread

\* Taking the next request, or finding none.
LEMMA DequeueStep ==
  ASSUME StreamInv, Dequeue, download \notin Busy,
         UNCHANGED <<ring, delivered, lost, mode, mapped, current, running>>,
         playlist' = playlist
  PROVE  RingInv' /\ FlowInv'
<1>1. CASE queue = <<>>
  <2>1. part' = part /\ queue' = queue /\ download' \notin Busy
    BY <1>1 DEF Dequeue, Busy
  <2> QED BY <2>1, StepKeeps DEF content
<1>2. CASE queue # <<>>
  <2>1. part' = Head(queue) /\ queue' = Tail(queue) /\ download' \in Busy
    BY <1>2 DEF Dequeue, Busy
  <2>2. RingInv' /\ Newest' = Newest
    BY DEF StreamInv, RingInv, Before, Covered, Newest
  <2>3. ASSUME running PROVE FlowInv'
    <3>1. /\ playlist \notin {"off", "init", "initWrite", "first"}
          /\ QueueInv /\ LinkInv /\ (mapped => Newest # None)
      BY <1>2, <2>3 DEF StreamInv, FlowInv, NothingYet
    <3>2. QueueInv' /\ LinkInv'
      BY <1>2, <2>1, <3>1, DequeueKeeps
    <3> QED BY <2>2, <3>1, <3>2 DEF FlowInv
  <2> QED BY <2>2, <2>3 DEF FlowInv
<1> QED BY <1>1, <1>2

\* What the download thread holds is part of a stream that is under way.
LEMMA BusyFlow ==
  ASSUME StreamInv, running, download \in Busy
  PROVE  /\ playlist \notin {"off", "init", "initWrite", "first"}
         /\ QueueInv /\ LinkInv /\ (mapped => Newest # None)
BY DEF StreamInv, FlowInv, NothingYet

\* The download thread writes the parts in the order asked for.
LEMMA DownloadKeepsStream ==
  StreamInv /\ DownloadThread => RingInv' /\ FlowInv' /\ ControlInv'
<1> SUFFICES ASSUME StreamInv, DownloadThread
             PROVE  RingInv' /\ FlowInv' /\ ControlInv'
  OBVIOUS
<1> USE DEF DownloadFrame, server, stopVars, listing
<1>a. ControlInv /\ ThreadsInv /\ TypeOK
  BY DEF StreamInv, ClientInv
<1>1. CASE DownloadLoop
  <2>1. ControlInv'
    BY <1>1, <1>a, ControlKept DEF DownloadLoop, ControlInv
  <2>2. CASE running
    BY <1>1, <2>1, <2>2, DequeueStep DEF DownloadLoop, Busy
  <2>3. CASE ~running
    BY <1>1, <2>1, <2>3, StepKeeps DEF DownloadLoop, Busy, content
  <2> QED BY <2>2, <2>3
<1>2. CASE DownloadWoken
  <2>1. ControlInv'
    BY <1>2, <1>a, ControlKept DEF DownloadWoken, ControlInv
  <2> QED BY <1>2, <2>1, DequeueStep DEF DownloadWoken, Busy
<1>3. CASE DownloadCheck
  <2>1. ControlInv'
    BY <1>3, <1>a, ControlKept DEF DownloadCheck, ControlInv
  <2>2. CASE running
    BY <1>3, <2>1, <2>2, StepKeeps DEF DownloadCheck, Busy, content
  <2>3. CASE ~running
    <3>1. RingInv'
      BY <1>3, <2>3 DEF DownloadCheck, StreamInv, RingInv, Before, Covered
    <3> QED BY <1>3, <2>1, <2>3, <3>1 DEF DownloadCheck, FlowInv
  <2> QED BY <2>2, <2>3
<1>4. CASE DownloadFetch
  <2>1. ControlInv'
    BY <1>4, <1>a, ControlKept DEF DownloadFetch, ControlInv
  <2> QED BY <1>4, <2>1, StepKeeps DEF DownloadFetch, Busy, content
<1>5. CASE DownloadFetchFails
  <2>1. ControlInv'
    BY <1>5, <1>a, ControlKept DEF DownloadFetchFails, ControlInv
  <2>2. RingInv' /\ Newest' = Newest
    <3>1. /\ UNCHANGED <<ring, delivered, mode, mapped>>
          /\ lost \subseteq lost'
      BY <1>5 DEF DownloadFetchFails
    <3> QED BY <3>1 DEF StreamInv, RingInv, Before, Covered, Newest
  <2>3. ASSUME running PROVE FlowInv'
    <3>1. download \in Busy /\ download' \notin Busy
      BY <1>5, <2>3 DEF DownloadFetchFails, Busy
    <3>2. QueueInv' /\ LinkInv'
      BY <1>5, <2>3, <3>1, BusyFlow, GivenUpKeeps DEF DownloadFetchFails
    <3> QED BY <1>5, <2>2, <2>3, <3>1, <3>2, BusyFlow
         DEF DownloadFetchFails, FlowInv
  <2> QED BY <1>5, <2>1, <2>2, <2>3 DEF DownloadFetchFails, FlowInv
<1>6. CASE DownloadWrite
  <2>1. /\ RingWrite(part) /\ download \in Busy /\ download' \notin Busy
        /\ playlist' = playlist /\ running' = running
        /\ UNCHANGED <<delivered, lost, mode, mapped, current, queue>>
    BY <1>6 DEF DownloadWrite, Busy
  <2>2. ControlInv'
    BY <1>6, <1>a, <2>1, ControlKept
       DEF RingWrite, NotifyBuf, Busy, ControlInv
  <2>3. CASE ~running
    <3>1. ring' = ring
      BY <2>1, <2>3 DEF RingWrite
    <3>2. RingInv'
      BY <2>1, <3>1 DEF StreamInv, RingInv, Before, Covered
    <3> QED BY <2>1, <2>2, <2>3, <3>2 DEF FlowInv
  <2>4. CASE running
    <3>1. /\ playlist \notin {"off", "init", "initWrite", "first"}
          /\ QueueInv /\ LinkInv /\ (mapped => Newest # None)
      BY <2>1, <2>4, BusyFlow
    <3>2. part \in Parts /\ part \in Nat \ {0} /\ ring' = Append(ring, part)
      BY <1>a, <2>1, <2>4, ClientAssumption DEF RingWrite, ThreadsInv, Parts
    <3>3. Before(Newest, part) /\ Covered(Newest, part)
      BY <2>1, <3>1 DEF LinkInv
    <3>4. Newest = None => (mapped <=> part = Init0)
      BY <3>1, <3>2 DEF Init0
    <3>5. RingInv' /\ Newest' = part
      BY <2>1, <3>2, <3>3, <3>4, WriteKeeps
    <3>6. Top' = Top
      BY <2>1 DEF Top
    <3>7. QueueInv'
      BY <2>1, <3>1, <3>6 DEF QueueInv, Before, Covered
    <3>8. LinkInv'
      <4>1. (\A i \in 1..Len(queue) : Before(Newest, queue[i]))'
        BY <2>1, <3>1, <3>5 DEF LinkInv, Before
      <4>2. queue # <<>> => Covered(Newest, queue[1])'
        BY <2>1, <3>1, <3>5 DEF LinkInv, Covered
      <4>3. queue = <<>> => (Newest <= Top /\ Covered(Newest, Top + 1))'
        BY <2>1, <3>1, <3>2, <3>5, <3>6 DEF LinkInv, Covered
      <4> QED BY <2>1, <4>1, <4>2, <4>3 DEF LinkInv
    <3>9. Newest' # None
      BY <3>2, <3>5 DEF None
    <3> QED BY <2>1, <2>2, <3>1, <3>5, <3>7, <3>8, <3>9 DEF FlowInv
  <2> QED BY <2>3, <2>4
<1>7. CASE DownloadNotify
  <2>1. ControlInv'
    BY <1>7, <1>a, ControlKept DEF DownloadNotify, NotifyBuf, ControlInv
  <2> QED BY <1>7, <2>1, StepKeeps DEF DownloadNotify, Busy, content
<1> QED BY <1>1, <1>2, <1>3, <1>4, <1>5, <1>6, <1>7 DEF DownloadThread

\* Every step keeps the stream in order.
LEMMA StreamStep == StreamInv /\ [Next]_vars => StreamInv'
<1> SUFFICES ASSUME StreamInv, [Next]_vars PROVE StreamInv'
  OBVIOUS
<1>1. ClientInv'
  BY ClientStep DEF StreamInv
<1>2. CASE Publish
  <2>1. RingInv' /\ FlowInv'
    BY <1>2, StepKeeps
       DEF Publish, content, stopVars, reading, listing, loading
  <2> QED BY <1>1, <1>2, <2>1
       DEF Publish, stopVars, reading, listing, loading, StreamInv, ControlInv
<1>3. CASE UNCHANGED vars
  <2>1. RingInv' /\ FlowInv'
    BY <1>3, StepKeeps DEF vars, content
  <2> QED BY <1>1, <1>3, <2>1 DEF vars, StreamInv, ControlInv
<1> QED
  BY <1>1, <1>2, <1>3, OwnerKeepsStream, SignalKeepsStream,
     PlaylistKeepsStream, DownloadKeepsStream DEF Next, StreamInv

\* What is in the ring and asked for continues what FFmpeg has read.
THEOREM StreamCorrect == Spec => []StreamInv
  BY StreamInit, StreamStep, PTL DEF Spec

-----------------------------------------------------------------------------
\* The ring shrinks only when FFmpeg reads, or with the client.
LEMMA OnlyReadShrinks ==
  ASSUME StreamInv, [Next]_vars, Len(ring') < Len(ring), owner' # "none"
  PROVE  Read
<1>1. ring \in Seq(Parts \cup {Init0})
  BY DEF StreamInv, ClientInv, TypeOK
<1>2. ring' # ring
  BY <1>1
<1>3. ASSUME NEW p, RingWrite(p) PROVE FALSE
  <2>1. ring' = Append(ring, p)
    BY <1>2, <1>3 DEF RingWrite
  <2> QED BY <1>1, <2>1
<1>4. ~Destroy
  BY DEF Destroy
<1>5. ~(Create \/ Close \/ Stop \/ StopAbort \/ StopNotify \/ StopJoinPlaylist)
  BY <1>2 DEF Create, Close, Stop, StopAbort, StopNotify, StopJoinPlaylist
<1>6. /\ ~(StartReset \/ StartRunning \/ StartFetched \/ StartThreads)
      /\ ~(StartFails \/ StopJoinDownload)
  BY <1>2, <1>4 DEF StartReset, StartRunning, StartFetched, StartFails,
     StartThreads, StopJoinDownload
<1>7. ~(Signal \/ SignalThread)
  BY <1>2 DEF Signal, SignalThread, SignalAbort, SignalNotifyQueue,
              SignalNotifyBuf
<1>8. ~PlaylistThread
  BY <1>2, <1>3 DEF PlaylistThread, PlaylistInit, PlaylistInitFails,
     PlaylistInitWrite, PlaylistFirst, PlaylistLoop, PlaylistReload,
     PlaylistReloadFails
<1>9. ~DownloadThread
  BY <1>2, <1>3 DEF DownloadThread, DownloadLoop, DownloadWoken, DownloadCheck,
     DownloadFetch, DownloadFetchFails, DownloadWrite, DownloadNotify
<1>10. ~Publish /\ ~(UNCHANGED vars)
  BY <1>2 DEF Publish, vars
<1> QED BY <1>5, <1>6, <1>7, <1>8, <1>9, <1>10 DEF Next, OwnerThread

\* What a read takes out of the ring comes right after what it took before.
LEMMA ReadFollows ==
  ASSUME StreamInv, Read, Len(ring') < Len(ring)
  PROVE  Follows(delivered, delivered')
<1>1. /\ ring \in Seq(Parts \cup {Init0})
      /\ delivered \in Parts \cup {Init0, None}
  BY DEF StreamInv, ClientInv, TypeOK
<1>2. ring # <<>> /\ delivered' = ring[1] /\ 1 \in 1..Len(ring)
  BY <1>1 DEF Read
<1>3. /\ Before(delivered, ring[1])
      /\ IF delivered = None THEN mapped <=> ring[1] = Init0
                             ELSE Covered(delivered, ring[1])
  BY <1>2 DEF StreamInv, RingInv
<1> QED BY <1>2, <1>3 DEF Follows, Before, Covered

\* FFmpeg gets the stream: the init segment, then the parts in order, none left
\* out but those that could not be had, and without preload hints none twice
\* (ring_write(), read(), playlist_worker()).
THEOREM StreamStaysWhole == Spec => StreamIsWhole
<1>1. StreamInv /\ [Next]_vars =>
        (Len(ring') < Len(ring) /\ owner' # "none" =>
           Follows(delivered, delivered'))
  BY OnlyReadShrinks, ReadFollows
<1> QED BY <1>1, StreamCorrect, PTL DEF Spec, StreamIsWhole
=============================================================================
