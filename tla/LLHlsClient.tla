---------------------------- MODULE LLHlsClient ----------------------------
(***************************************************************************)
(* The low-latency HLS client of an Amazon IVS stream: a playlist thread   *)
(* that asks the server what there is, a download thread that fetches it   *)
(* part by part, and a ring buffer FFmpeg reads from on the thread that    *)
(* owns the demuxer (worker or connect thread in turns).  Any thread may   *)
(* interrupt it with signal_stop().                                        *)
(*                                                                         *)
(* A part is its number in the stream: a media sequence number and the     *)
(* index of a part in it, or a prefetch URL, count up with it.  Init is    *)
(* the init segment.  Every part fills one unit of the ring.  A thread in  *)
(* a condition variable stays there until it is notified.                  *)
(***************************************************************************)
EXTENDS Integers, Sequences

CONSTANTS
  Modes,      \* kinds of playlist, a subset of AllModes
  Window,     \* parts a playlist lists
  Capacity,   \* RING_CAPACITY, in parts
  MaxErrors,  \* MAX_CONSECUTIVE_ERRORS
  MaxPart     \* bound: parts of the stream

\* "prefetch": IVS; "parts" and "hints": LL-HLS without and with preload hints
AllModes == {"prefetch", "parts", "hints"}

ASSUME ClientAssumption ==
  /\ Modes \subseteq AllModes
  /\ Window \in Nat \ {0} /\ Capacity \in Nat \ {0} /\ MaxErrors \in Nat \ {0}
  /\ MaxPart \in Nat \ {0}

Init0 == 0   \* the init segment, in front of every part
None == -1   \* nothing yet

VARIABLES
  mode,       \* what the server's playlists look like
  mapped,     \* the playlist names an init segment (EXT-X-MAP)
  edge,       \* the server: last part published
  running,    \* running_
  abort,      \* fetcher_.abort_
  owner,      \* control of the thread that owns the client
  signal,     \* control of the thread in signal_stop()
  playlist,   \* control of playlist_thread_
  download,   \* control of download_thread_
  current,    \* last part of playlist_: current_msn_ and current_part_idx_
  errors,     \* consecutive_errors
  queue,      \* download_queue_
  part,       \* the request being downloaded
  ring,       \* ring_buffer_
  delivered,  \* last part FFmpeg got
  lost        \* history: parts after it never listed or not downloaded

vars == <<mode, mapped, edge, running, abort, owner, signal, playlist, download,
          current, errors, queue, part, ring, delivered, lost>>

server == <<mode, mapped, edge>>
stopVars == <<running, abort, signal>>
listing == <<playlist, current, errors>>
loading == <<download, part>>
reading == <<owner, delivered>>

OwnerPoints == {"none", "created", "reset", "starting", "fetched", "reading",
                "waiting", "woken", "stop", "abort", "notify", "joinPlaylist",
                "joinDownload"}
SignalPoints == {"idle", "abort", "notifyQueue", "notifyBuf"}
PlaylistPoints == {"off", "init", "initWrite", "first", "loop", "fetch",
                   "exited"}
DownloadPoints == {"off", "loop", "waiting", "woken", "check", "fetch",
                   "write", "notify", "exited"}

Init ==
  /\ mode \in Modes /\ mapped \in BOOLEAN /\ edge = 1
  /\ running = FALSE /\ abort = FALSE /\ signal = "idle"
  /\ owner = "none" /\ delivered = None
  /\ playlist = "off" /\ current = None /\ errors = 0
  /\ download = "off" /\ part = None
  /\ queue = <<>> /\ ring = <<>> /\ lost = {}

-----------------------------------------------------------------------------
(***************************************************************************)
(* Notifications.  They are given under the mutex of the waiting thread's  *)
(* predicate, so none falls between its check and its wait.                *)
(***************************************************************************)

\* What-if: a part arrives and nobody is told.
QueueNotNotified == UNCHANGED download

\* queue_cv_.notify_one() or notify_all(): only the download thread waits.
NotifyQueue == download' = IF download = "waiting" THEN "woken" ELSE download

\* What-if: the ring is filled without a word.
BufNotNotified == UNCHANGED owner

\* buf_cv_.notify_one() or notify_all(): only the owner waits.
NotifyBuf == owner' = IF owner = "waiting" THEN "woken" ELSE owner

-----------------------------------------------------------------------------
(***************************************************************************)
(* The owner: open_ivs(), FFmpeg's reads and close().                      *)
(***************************************************************************)

\* llhls_client_.reset()
Destroy ==
  /\ owner' = "none"
  /\ running' = FALSE /\ abort' = FALSE
  /\ current' = None /\ errors' = 0 /\ queue' = <<>> /\ ring' = <<>>
  /\ delivered' = None /\ lost' = {}

\* open_ivs(): a new client, which signal_stop() can reach from now on
Create ==
  /\ owner = "none"
  /\ owner' = "created"
  /\ UNCHANGED <<server, stopVars, delivered, listing, loading, queue, ring,
                 lost>>

\* start() takes back an abort that came before it ...
StartReset ==
  /\ owner = "created"
  /\ abort' = FALSE
  /\ owner' = "reset"
  /\ UNCHANGED <<server, running, signal, delivered, listing, loading, queue,
                 ring, lost>>

\* ... and raises the flag that a signal_stop() may just have taken down.
StartRunning ==
  /\ owner = "reset"
  /\ running' = TRUE
  /\ owner' = "starting"
  /\ UNCHANGED <<server, abort, signal, delivered, listing, loading, queue,
                 ring, lost>>

\* The playlist is there before an abort could stop that.
StartFetched ==
  /\ owner = "starting" /\ ~abort
  /\ owner' = "fetched"
  /\ UNCHANGED <<server, stopVars, delivered, listing, loading, queue, ring,
                 lost>>

\* No playlist, or not a low-latency one: no thread has been started.
StartFails ==
  /\ owner \in {"starting", "fetched"} /\ signal = "idle"
  /\ Destroy
  /\ UNCHANGED <<server, signal, playlist, loading>>

StartThreads ==
  /\ owner = "fetched"
  /\ current' = edge
  /\ playlist' = IF mapped THEN "init" ELSE "first"
  /\ download' = "loop"
  /\ owner' = "reading"
  /\ UNCHANGED <<server, stopVars, delivered, errors, part, queue,
                 ring, lost>>

\* read(), from its predicate on: data, or the end if the client has stopped.
Read ==
  /\ owner \in {"reading", "woken"}
  /\ IF ring # <<>>
       THEN /\ delivered' = Head(ring)
            /\ ring' = Tail(ring)
            /\ lost' = {p \in lost : p > Head(ring)}
            /\ owner' = "reading"
       ELSE /\ owner' \in IF running THEN {"waiting"} ELSE {"reading", "stop"}
            /\ UNCHANGED <<delivered, ring, lost>>
  /\ UNCHANGED <<server, stopVars, listing, loading, queue>>

\* A failed probe closes the client, and so does the worker when it wants
\* another connection or none.
Close ==
  /\ owner = "reading"
  /\ owner' = "stop"
  /\ UNCHANGED <<server, stopVars, delivered, listing, loading,
                 queue, ring, lost>>

\* stop().  Only the call that stops a running client wakes its threads.
Stop ==
  /\ owner = "stop"
  /\ running' = FALSE
  /\ owner' = IF running THEN "abort" ELSE "joinPlaylist"
  /\ UNCHANGED <<server, abort, signal, delivered, listing, loading, queue,
                 ring, lost>>

StopAbort ==
  /\ owner = "abort"
  /\ abort' = TRUE
  /\ owner' = "notify"
  /\ UNCHANGED <<server, running, signal, delivered, listing,
                 loading, queue, ring, lost>>

\* What-if: stop() relies on the fetcher's abort.
StopWakesNobody == UNCHANGED download

StopWakesQueue == NotifyQueue

\* Nobody waits for data: the owner is here.
StopNotify ==
  /\ owner = "notify"
  /\ StopWakesQueue
  /\ owner' = "joinPlaylist"
  /\ UNCHANGED <<server, stopVars, delivered, listing, part, queue,
                 ring, lost>>

StopJoinPlaylist ==
  /\ owner = "joinPlaylist" /\ playlist \in {"off", "exited"}
  /\ playlist' = "off"
  /\ owner' = "joinDownload"
  /\ UNCHANGED <<server, stopVars, delivered, current, errors,
                 loading, queue, ring, lost>>

\* The client is destroyed.  A request_abort() under way at this moment would
\* use it after it is gone; that one case is left out.
StopJoinDownload ==
  /\ owner = "joinDownload" /\ download \in {"off", "exited"}
  /\ signal = "idle"
  /\ download' = "off"
  /\ Destroy
  /\ UNCHANGED <<server, signal, playlist, part>>

OwnerThread ==
  \/ StartReset \/ StartRunning \/ StartFetched \/ StartFails \/ StartThreads
  \/ Read \/ Stop \/ StopAbort \/ StopNotify
  \/ StopJoinPlaylist \/ StopJoinDownload

-----------------------------------------------------------------------------
(***************************************************************************)
(* signal_stop(), from request_abort() on any thread                       *)
(***************************************************************************)

\* A call has nothing to do on a client that is down and aborted and where
\* nobody sleeps.
Signal ==
  /\ signal = "idle" /\ owner # "none"
  /\ running \/ ~abort \/ owner = "waiting" \/ download = "waiting"
  /\ running' = FALSE
  /\ signal' = "abort"
  /\ UNCHANGED <<server, abort, reading, listing, loading, queue, ring, lost>>

SignalAbort ==
  /\ signal = "abort"
  /\ abort' = TRUE
  /\ signal' = "notifyQueue"
  /\ UNCHANGED <<server, running, reading, listing, loading, queue, ring, lost>>

SignalNotifyQueue ==
  /\ signal = "notifyQueue"
  /\ NotifyQueue
  /\ signal' = "notifyBuf"
  /\ UNCHANGED <<server, running, abort, reading, listing, part, queue, ring,
                 lost>>

SignalNotifyBuf ==
  /\ signal = "notifyBuf"
  /\ NotifyBuf
  /\ signal' = "idle"
  /\ UNCHANGED <<server, running, abort, delivered, listing,
                 loading, queue, ring, lost>>

SignalThread == SignalAbort \/ SignalNotifyQueue \/ SignalNotifyBuf

-----------------------------------------------------------------------------
(***************************************************************************)
(* The playlist thread                                                     *)
(***************************************************************************)

PlaylistFrame == UNCHANGED <<server, stopVars, delivered, part>>

Oldest(last) == IF last > Window THEN last - Window + 1 ELSE 1

\* The requests for the parts from lo to last, and for the one hinted at
Requests(lo, last) ==
  [i \in 1..(last - lo + 1) |-> lo + i - 1]
    \o (IF mode = "hints" THEN <<last + 1>> ELSE <<>>)

\* enqueue_part() for each of them
Enqueue(requests) ==
  /\ queue' = queue \o requests
  /\ IF requests = <<>> THEN UNCHANGED download ELSE NotifyQueue

\* What-if: room for what is in the ring counts as room for one more part.
RoomUncounted == Len(ring) <= Capacity

RoomInRing == Len(ring) + 1 <= Capacity

\* ring_write() waits for room as long as the client runs, and writes nothing
\* once it has stopped.
RingWrite(p) ==
  /\ RoomInRing \/ ~running
  /\ IF running THEN ring' = Append(ring, p) /\ NotifyBuf
                ELSE UNCHANGED <<ring, owner>>

PlaylistInit ==
  /\ playlist = "init" /\ ~abort
  /\ playlist' = "initWrite"
  /\ UNCHANGED <<current, errors, download, owner, queue, ring, lost>>
  /\ PlaylistFrame

\* Without an init segment the client gives up, and tells nobody.
PlaylistInitFails ==
  /\ playlist = "init"
  /\ running' = FALSE
  /\ playlist' = "exited"
  /\ UNCHANGED <<server, abort, signal, reading, current, errors, loading,
                 queue, ring, lost>>

PlaylistInitWrite ==
  /\ playlist = "initWrite"
  /\ RingWrite(Init0)
  /\ playlist' = "first"
  /\ UNCHANGED <<current, errors, download, queue, lost>>
  /\ PlaylistFrame

\* Starts at an independent part, or with every prefetch URL.
PlaylistFirst ==
  /\ playlist = "first"
  /\ \E lo \in Oldest(current)..current :
       /\ mode = "prefetch" => lo = Oldest(current)
       /\ Enqueue(Requests(lo, current))
  /\ playlist' = "loop"
  /\ UNCHANGED <<current, errors, owner, ring, lost>>
  /\ PlaylistFrame

PlaylistLoop ==
  /\ playlist = "loop"
  /\ playlist' = IF running THEN "fetch" ELSE "exited"
  /\ UNCHANGED <<current, errors, download, owner, queue, ring, lost>>
  /\ PlaylistFrame

\* What-if: the part known as the last one counts as new.
FromLast(last) == IF current < Oldest(last) THEN Oldest(last) ELSE current

\* The first part that is new.  Prefetch URLs that do not hold the last known
\* one are all new; a playlist that went past its window has lost some.
FirstNew(last) ==
  IF current + 1 < Oldest(last) THEN Oldest(last) ELSE current + 1

\* The blocking reload of LL-HLS names the part it waits for.
Answered == mode = "prefetch" \/ edge > current

\* A reload shows where the server is by now.  Playlists never go back.
PlaylistReload ==
  /\ playlist = "fetch" /\ ~abort /\ Answered
  /\ Enqueue(Requests(FirstNew(edge), edge))
  /\ lost' = lost \cup ((current + 1)..(FirstNew(edge) - 1))
  /\ current' = edge
  /\ errors' = 0
  /\ playlist' = "loop"
  /\ UNCHANGED <<owner, ring>>
  /\ PlaylistFrame

\* After too many errors in a row the thread ends, and running_ stays.
PlaylistReloadFails ==
  /\ playlist = "fetch"
  /\ errors' = IF running THEN errors + 1 ELSE errors
  /\ playlist' = IF running /\ errors' < MaxErrors THEN "loop" ELSE "exited"
  /\ UNCHANGED <<current, download, owner, queue, ring, lost>>
  /\ PlaylistFrame

PlaylistThread ==
  \/ PlaylistInit \/ PlaylistInitFails \/ PlaylistInitWrite \/ PlaylistFirst
  \/ PlaylistLoop \/ PlaylistReload \/ PlaylistReloadFails

-----------------------------------------------------------------------------
(***************************************************************************)
(* The download thread                                                     *)
(***************************************************************************)

DownloadFrame == UNCHANGED <<server, stopVars, delivered, listing>>

\* dequeue_part(), from its predicate on
Dequeue ==
  IF queue # <<>>
    THEN /\ part' = Head(queue)
         /\ queue' = Tail(queue)
         /\ download' = "check"
    ELSE /\ download' = IF running THEN "waiting" ELSE "notify"
         /\ UNCHANGED <<part, queue>>

DownloadLoop ==
  /\ download = "loop"
  /\ IF running THEN Dequeue
                ELSE download' = "notify" /\ UNCHANGED <<part, queue>>
  /\ UNCHANGED <<owner, ring, lost>>
  /\ DownloadFrame

DownloadWoken ==
  /\ download = "woken"
  /\ Dequeue
  /\ UNCHANGED <<owner, ring, lost>>
  /\ DownloadFrame

DownloadCheck ==
  /\ download = "check"
  /\ IF running THEN download' = "fetch" /\ UNCHANGED part
                ELSE download' = "notify" /\ part' = None
  /\ UNCHANGED <<owner, queue, ring, lost>>
  /\ DownloadFrame

DownloadFetch ==
  /\ download = "fetch" /\ ~abort /\ part <= edge
  /\ download' = "write"
  /\ UNCHANGED <<part, owner, queue, ring, lost>>
  /\ DownloadFrame

\* The part is given up.
DownloadFetchFails ==
  /\ download = "fetch"
  /\ download' = IF running THEN "loop" ELSE "notify"
  /\ lost' = lost \cup {part}
  /\ part' = None
  /\ UNCHANGED <<owner, queue, ring>>
  /\ DownloadFrame

DownloadWrite ==
  /\ download = "write"
  /\ RingWrite(part)
  /\ part' = None
  /\ download' = "loop"
  /\ UNCHANGED <<queue, lost>>
  /\ DownloadFrame

DownloadNotify ==
  /\ download = "notify"
  /\ NotifyBuf
  /\ download' = "exited"
  /\ UNCHANGED <<part, queue, ring, lost>>
  /\ DownloadFrame

DownloadThread ==
  \/ DownloadLoop \/ DownloadWoken \/ DownloadCheck \/ DownloadFetch
  \/ DownloadFetchFails \/ DownloadWrite \/ DownloadNotify

-----------------------------------------------------------------------------
Publish ==
  /\ edge < MaxPart
  /\ edge' = edge + 1
  /\ UNCHANGED <<mode, mapped, stopVars, reading, listing, loading, queue, ring,
                 lost>>

Next ==
  \/ Create \/ Close \/ OwnerThread
  \/ Signal \/ SignalThread
  \/ PlaylistThread \/ DownloadThread
  \/ Publish

\* The threads are scheduled and HTTP requests end, by their own timeout or by
\* the abort.  Nothing is assumed of the server or of who stops the client.
Fairness ==
  /\ WF_vars(OwnerThread) /\ WF_vars(SignalThread)
  /\ WF_vars(PlaylistThread) /\ WF_vars(DownloadThread)

Spec == Init /\ [][Next]_vars

FairSpec == Spec /\ Fairness

-----------------------------------------------------------------------------
Parts == 1..MaxPart + 1    \* a hint names the part after the last one

TypeOK ==
  /\ mode \in Modes /\ mapped \in BOOLEAN /\ edge \in 1..MaxPart
  /\ running \in BOOLEAN /\ abort \in BOOLEAN
  /\ owner \in OwnerPoints /\ signal \in SignalPoints
  /\ playlist \in PlaylistPoints /\ download \in DownloadPoints
  /\ current \in 1..MaxPart \cup {None} /\ errors \in 0..MaxErrors
  /\ queue \in Seq(Parts) /\ part \in Parts \cup {None}
  /\ ring \in Seq(Parts \cup {Init0}) /\ Len(ring) <= Capacity
  /\ delivered \in Parts \cup {Init0, None}
  /\ lost \subseteq Parts

\* No wake-up is lost: a thread waits only for what is not there yet.
WaitsForMissing ==
  /\ owner = "waiting" => ring = <<>>
  /\ download = "waiting" => queue = <<>>

\* q may come right after p in the byte stream: the init segment first, then
\* the parts in order, without those that could not be had, and none of them
\* twice unless the playlist carries preload hints.
Follows(p, q) ==
  IF p = None THEN (mapped <=> q = Init0)
  ELSE /\ p < q \/ (p = q /\ mode = "hints")
       /\ p > 0 => (p + 1)..(q - 1) \subseteq lost

\* ring_write(): "dropping corrupts the TS byte stream".  FFmpeg reads no part
\* too few and none out of order, whatever the threads, the reloads, the hints
\* and the full ring do; how often it reads one is EveryPartOnce below.
StreamIsWhole ==
  [][Len(ring') < Len(ring) /\ owner' # "none" =>
       Follows(delivered, delivered')]_vars

\* request_abort() on a thread that cannot join the client's threads is enough
\* to end them, wherever they block, once start() has raised running_.  What a
\* call does that comes before, start() undoes: StopStaysResponsive of
\* StreamLifecycle is about that.
SignalEndsThreads ==
  signal = "abort" /\ ~running /\ owner \notin {"created", "reset"}
    ~> (/\ playlist \in {"off", "exited"}
        /\ download \in {"off", "exited"}
        /\ owner # "waiting")

\* stop() of a running client comes back.
StopCompletes == owner = "abort" ~> owner = "none"

\* ll-hls-client.h: "Call stop() to fully shut down".  When the playlist thread
\* has given up on the init segment running_ is down already; stop() then wakes
\* nobody and waits for a download thread that sleeps.
StopAlwaysCompletes == owner = "stop" ~> owner = "none"

\* The same comment of ring_write(): what is read is the server's byte stream,
\* so every part comes once.  A part that was hinted at is asked for at once,
\* and again by the reload that lists it.
EveryPartOnce ==
  [][Len(ring') < Len(ring) /\ owner' # "none" =>
       delivered' # delivered]_vars
=============================================================================
