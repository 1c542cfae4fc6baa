----------------------------- MODULE StatsFeed -----------------------------
(***************************************************************************)
(* What the dashboard shows: threads that publish parts of the state, each *)
(* composing the whole of it into a frame and queueing that, a sender that *)
(* takes frames off the queue, and clients that come and go.  Writing,     *)
(* composing, counting the clients and queueing are separate critical      *)
(* sections, so frames may be queued in another order than they were       *)
(* composed in.  StatsServer models the clients' sockets and the server    *)
(* thread; binary preview frames are left out of the queue, and OBS runs   *)
(* on: stop_remote() is left out too.                                      *)
(***************************************************************************)
EXTENDS Integers, Sequences, FiniteSets

CONSTANTS
  Clients,      \* panels
  QueueCap,     \* MAX_QUEUED_FRAMES
  Sources,      \* live stream sources
  StatsValues,  \* values of a source's stats that a client can tell apart
  MaxBusy       \* bound: broadcasts under way at once

Quiet == 0      \* a part of the state never published, or removed
Publishers == Sources \cup {"ui", "tick", "server"}
Parts == Sources \cup {"obs", "audio"}

ASSUME FeedAssumption ==
  /\ QueueCap \in Nat \ {0} /\ MaxBusy \in Nat \ {0}
  /\ StatsValues \subseteq Nat \ {Quiet}
  /\ Sources \cap {"ui", "tick", "server", "obs", "audio"} = {}

VARIABLES
  server,    \* "up", "down", or where stop() is
  rows,      \* sources_, obs_state_ and audio_state_
  queue,     \* send_queue_
  pub,       \* control of each publishing thread
  composed,  \* the frame it has composed
  snd,       \* control of the sender thread
  sending,   \* the frame it delivers
  targets,   \* clients it still has to send it to
  audience,  \* authenticated clients, those get_client_count() counts
  seen       \* each client: the last frame it got

feed == <<rows, queue, pub, composed>>
sender == <<snd, sending, targets>>
audVars == <<audience, seen>>
vars == <<server, feed, sender, audVars>>

Frames == [Parts -> StatsValues \cup {Quiet, 1}]
NoFrame == [p \in Parts |-> Quiet]

Init ==
  /\ server = "up"
  /\ rows = NoFrame /\ queue = <<>>
  /\ pub = [p \in Publishers |-> "idle"]
  /\ composed = [p \in Publishers |-> NoFrame]
  /\ snd = "wait" /\ sending = NoFrame /\ targets = {}
  /\ audience = {} /\ seen = [c \in Clients |-> NoFrame]

-----------------------------------------------------------------------------
(* Publishers                                                              *)

MayPublish(p) ==
  /\ pub[p] = "idle"
  /\ Cardinality({q \in Publishers : pub[q] # "idle"}) < MaxBusy

\* A thread changes its part of the state, then has to broadcast it
Write(p, part, value) ==
  /\ MayPublish(p)
  /\ rows' = [rows EXCEPT ![part] = value]
  /\ pub' = [pub EXCEPT ![p] = "written"]
  /\ UNCHANGED <<queue, composed, server, sender, audVars>>

\* write_stats_json() in the worker: update_source()
WriteStats(s) == \E v \in StatsValues : Write(s, s, v)

\* publish_state() on an OBS event: set_obs_state()
PublishState == Write("ui", "obs", 1)

\* What-if: the audio state goes out when it has changed, and never again
AudioWhenChanged == rows["audio"] = Quiet

\* publish_audio() sends it again after a few rounds, changed or not
AudioIsDue == TRUE

\* publish_audio() on the tick, while anyone listens: set_audio_state()
PublishAudio ==
  /\ audience # {} /\ AudioIsDue
  /\ Write("tick", "audio", 1)

\* broadcast_all() composes the whole state, unless there is none
Compose(p) ==
  /\ pub[p] = "written"
  /\ pub' = [pub EXCEPT ![p] = IF rows = NoFrame THEN "idle" ELSE "composed"]
  /\ composed' = [composed EXCEPT ![p] = rows]
  /\ UNCHANGED <<rows, queue, server, sender, audVars>>

\* send_ws_frame_raw(): without clients there is no frame
CountClients(p) ==
  /\ pub[p] = "composed"
  /\ pub' = [pub EXCEPT ![p] = IF audience = {} THEN "idle" ELSE "counted"]
  /\ composed' = [composed EXCEPT ![p] = IF audience = {} THEN NoFrame ELSE @]
  /\ UNCHANGED <<rows, queue, server, sender, audVars>>

QueueFull == Len(queue) >= QueueCap

\* A full queue gives its oldest frame up
Push(p) ==
  /\ pub[p] = "counted"
  /\ queue' = Append(IF QueueFull THEN Tail(queue) ELSE queue, composed[p])
  /\ pub' = [pub EXCEPT ![p] = "idle"]
  /\ composed' = [composed EXCEPT ![p] = NoFrame]
  /\ UNCHANGED <<rows, server, sender, audVars>>

Broadcast(p) == Compose(p) \/ CountClients(p) \/ Push(p)

-----------------------------------------------------------------------------
(* The sender thread                                                       *)

Take ==
  /\ snd = "wait" /\ queue # <<>>
  /\ sending' = Head(queue) /\ queue' = Tail(queue)
  /\ snd' = "deliver"
  /\ UNCHANGED <<rows, pub, composed, targets, server, audVars>>

\* deliver() copies the client list
Deliver ==
  /\ snd = "deliver"
  /\ targets' = audience /\ snd' = "send"
  /\ UNCHANGED <<sending, server, feed, audVars>>

\* One client: it gets the frame, or it is shut down and leaves by itself
Send(c) ==
  /\ snd = "send" /\ c \in targets
  /\ targets' = targets \ {c}
  /\ \/ seen' = [seen EXCEPT ![c] = IF c \in audience THEN sending ELSE @]
        /\ UNCHANGED audience
     \/ audience' = audience \ {c}
        /\ seen' = [seen EXCEPT ![c] = NoFrame]
  /\ UNCHANGED <<snd, sending, server, feed>>

Delivered ==
  /\ snd = "send" /\ targets = {}
  /\ snd' = IF server = "up" THEN "wait" ELSE "none"
  /\ sending' = NoFrame
  /\ UNCHANGED <<targets, server, feed, audVars>>

SenderWakes ==
  /\ snd = "wait" /\ server # "up"
  /\ snd' = "none"
  /\ UNCHANGED <<sending, targets, server, feed, audVars>>

Sending ==
  \/ Take \/ Deliver \/ Delivered \/ SenderWakes
  \/ \E c \in Clients : Send(c)

-----------------------------------------------------------------------------
(* Clients, sources, and the server's start and stop                       *)

\* A client proves itself: broadcast_all() on the server thread
Authenticate(c) ==
  /\ server = "up" /\ c \notin audience /\ MayPublish("server")
  /\ audience' = audience \cup {c}
  /\ pub' = [pub EXCEPT !["server"] = "written"]
  /\ UNCHANGED <<rows, queue, composed, seen, server, sender>>

\* An overlay of this machine is trusted at once, and nothing is sent
Trust(c) ==
  /\ server = "up" /\ c \notin audience /\ pub["server"] = "idle"
  /\ audience' = audience \cup {c}
  /\ UNCHANGED <<seen, server, feed, sender>>

Depart(c) ==
  /\ server = "up" /\ c \in audience /\ pub["server"] = "idle"
  /\ audience' = audience \ {c}
  /\ seen' = [seen EXCEPT ![c] = NoFrame]
  /\ UNCHANGED <<server, feed, sender>>

\* ~LiveStreamSource(), its worker joined: remove_source() tells nobody.  A
\* source of that name may be created again.
RemoveSource(s) ==
  /\ rows[s] # Quiet /\ pub[s] = "idle"
  /\ rows' = [rows EXCEPT ![s] = Quiet]
  /\ UNCHANGED <<server, queue, pub, composed, sender, audVars>>

\* stop(): the server thread ends first, what it was broadcasting included,
\* then the sender
Stop ==
  /\ server = "up"
  /\ server' = "stopping"
  /\ UNCHANGED <<feed, sender, audVars>>

ClearQueue ==
  /\ server = "stopping" /\ pub["server"] = "idle" /\ snd = "none"
  /\ server' = "clearing"
  /\ queue' = <<>>
  /\ UNCHANGED <<rows, pub, composed, sender, audVars>>

\* Clients and stats go, the OBS and audio state stay
ClearClients ==
  /\ server = "clearing"
  /\ server' = "down"
  /\ audience' = {} /\ seen' = [c \in Clients |-> NoFrame]
  /\ rows' = [p \in Parts |-> IF p \in Sources THEN Quiet ELSE rows[p]]
  /\ UNCHANGED <<queue, pub, composed, sender>>

Start ==
  /\ server = "down"
  /\ server' = "up" /\ snd' = "wait"
  /\ UNCHANGED <<sending, targets, feed, audVars>>

-----------------------------------------------------------------------------
Next ==
  \/ Sending
  \/ PublishState \/ PublishAudio \/ \E s \in Sources : WriteStats(s)
  \/ \E p \in Publishers : Broadcast(p)
  \/ \E c \in Clients : Authenticate(c) \/ Trust(c) \/ Depart(c)
  \/ \E s \in Sources : RemoveSource(s)
  \/ Stop \/ ClearQueue \/ ClearClients \/ Start

\* Threads run on, ticks come as long as OBS renders, and a stop() that began
\* goes on.  No source has to publish, no client to come or go.
Spec ==
  /\ Init /\ [][Next]_vars
  /\ WF_vars(Sending)
  /\ \A p \in Publishers : WF_vars(Broadcast(p))
  /\ WF_vars(PublishAudio)
  /\ WF_vars(ClearQueue \/ ClearClients)

-----------------------------------------------------------------------------
(* Properties                                                              *)

\* Every variable keeps its shape; the queue never holds more than
\* MAX_QUEUED_FRAMES, however many threads push
TypeOK ==
  /\ server \in {"up", "stopping", "clearing", "down"}
  /\ rows \in Frames
  /\ queue \in Seq(Frames) /\ Len(queue) <= QueueCap
  /\ pub \in [Publishers -> {"idle", "written", "composed", "counted"}]
  /\ composed \in [Publishers -> Frames]
  /\ snd \in {"none", "wait", "deliver", "send"} /\ sending \in Frames
  /\ targets \subseteq Clients /\ audience \subseteq Clients
  /\ seen \in [Clients -> Frames]

\* A client that stays hears in the end how things stand, once they stay: though
\* frames are queued out of order, the oldest are dropped, a trusted client is
\* sent nothing when it joins, a source's end is announced by nobody, and a
\* stop may leave a frame behind for the next start.  What puts it right is the
\* audio state that publish_audio() repeats, the whole state with it.
PanelCatchesUp ==
  \A c \in Clients :
    (<>[][rows' = rows]_vars /\ <>[](c \in audience))
      => <>[](seen[c] = rows)
=============================================================================
