---------------------------- MODULE StatsServer ----------------------------
(***************************************************************************)
(* The dashboard server's threads and those it meets: a server thread that *)
(* accepts clients and handles what they say, a sender thread that sends   *)
(* on a copy of the client list, whoever adds or releases a reference or   *)
(* changes the settings and so starts and stops the two, and sources that  *)
(* come and go while clients command them by name.                         *)
(*                                                                         *)
(* One step is one critical section.  What is sent is StatsFeed's matter:  *)
(* here the sender may find a frame at any time.  A client is a socket     *)
(* that may connect again once it is closed.                               *)
(***************************************************************************)
EXTENDS Integers, Sequences, FiniteSets

CONSTANTS
  Sockets,      \* connections
  Local,        \* those from this machine
  MaxClients,   \* MAX_CLIENTS
  MaxBatch,     \* bound: frames of a client one recv() completes
  Sources,      \* live stream sources, destroyed once each
  Names,        \* names a source may have
  Keys          \* access keys the settings may hold

Nobody == "nobody"   \* no source, no thread, no key

ASSUME ServerAssumption ==
  /\ Local \subseteq Sockets /\ IsFiniteSet(Sockets) /\ IsFiniteSet(Sources)
  /\ MaxClients \in Nat \ {0}
  /\ MaxBatch \in Nat \ {0}
  /\ Nobody \notin Sources \cup Keys \cup Names
  /\ "panel" \notin Sources \cup Keys /\ Sources \cap Keys = {}
  /\ {"key", "token", "wrong", "remote"} \cap Names = {}

VARIABLES
  refs,       \* ref_count_
  accessKey,  \* access_key_, Nobody when empty
  running,    \* running_
  control,    \* where the holder of ref_mutex_ is in stop(), "free" for none
  holder,     \* what it does after: a key to configure, a source or "panel"
  srv,        \* control of the server thread
  batch,      \* frames it has parsed and not handled yet: <<socket, message>>
  closing,    \* sockets in close_sockets()
  callee,     \* source whose handler or callback it is in
  snd,        \* control of the sender thread
  targets,    \* sockets it still has to send its frame to
  sock,       \* the socket: "idle", "open", or "ended" by either side
  listed,     \* clients_
  upgraded,   \* upgraded of each client
  authed,     \* authed of each client
  keyed,      \* has_key of each client, and history: which key that was
  blocked,    \* auth_blocked_until_ms_ still in the future
  life,       \* each source: "none", "alive", leaving in steps, "gone"
  name,       \* obs_source_get_name()
  renamed,    \* history: sources that had another name
  handlers,   \* cmd_handlers_
  connectCbs, \* connect_callbacks_
  panel       \* init_obs_remote() and shutdown: "none", "on", "leaving", "gone"

refVars == <<refs, accessKey, running, control, holder>>
srvVars == <<srv, batch, closing, callee>>
sndVars == <<snd, targets>>
clientVars == <<sock, listed, upgraded, authed, keyed, blocked>>
sourceVars == <<life, name, renamed, handlers, connectCbs, panel>>
vars == <<refVars, srvVars, sndVars, clientVars, sourceVars>>

Messages == {"key", "token", "wrong", "remote"} \cup Names

\* get_client_count() counts these
Audience == listed \cap authed

Init ==
  /\ refs = 0 /\ accessKey \in Keys \cup {Nobody} /\ running = FALSE
  /\ control = "free" /\ holder = Nobody
  /\ srv = "none" /\ batch = <<>> /\ closing = {} /\ callee = Nobody
  /\ snd = "none" /\ targets = {}
  /\ sock = [c \in Sockets |-> "idle"] /\ listed = {} /\ upgraded = {}
  /\ authed = {} /\ keyed = [c \in Sockets |-> Nobody] /\ blocked = {}
  /\ life = [s \in Sources |-> "none"] /\ name = [s \in Sources |-> Nobody]
  /\ renamed = {}
  /\ handlers = [n \in Names |-> Nobody]
  /\ connectCbs = [n \in Names |-> Nobody] /\ panel = "none"

-----------------------------------------------------------------------------
(* References: start() and stop() under ref_mutex_                         *)

\* start(): both threads, unless they run
Start ==
  /\ running' = TRUE
  /\ srv' = IF running THEN srv ELSE "bind"
  /\ snd' = IF running THEN snd ELSE "wait"

\* add_ref()
AddRef ==
  /\ control = "free"
  /\ refs' = refs + 1
  /\ IF refs = 0 THEN Start ELSE UNCHANGED <<running, srv, snd>>
  /\ UNCHANGED <<accessKey, control, holder, batch, closing, callee,
                 targets>>

\* release() by who, and the first half of a stop() that follows
ReleaseRef(who) ==
  /\ control = "free"
  /\ refs' = IF refs > 0 THEN refs - 1 ELSE 0
  /\ control' = IF refs' = 0 THEN "joinServer" ELSE "after"
  /\ running' = IF refs' = 0 THEN FALSE ELSE running
  /\ holder' = who
  /\ UNCHANGED accessKey

\* configure(): nothing to do, or stop(), then the new settings
Configure(k) ==
  /\ control = "free" /\ k # accessKey
  /\ holder' = k /\ control' = "joinServer" /\ running' = FALSE
  /\ UNCHANGED <<refs, accessKey, srvVars, sndVars, clientVars, sourceVars>>

JoinServer ==
  /\ control = "joinServer" /\ srv = "none"
  /\ control' = "joinSender"
  /\ UNCHANGED <<refs, accessKey, running, holder, srvVars, sndVars, clientVars,
                 sourceVars>>

JoinSender ==
  /\ control = "joinSender" /\ snd = "none"
  /\ control' = "clearClients"
  /\ UNCHANGED <<refs, accessKey, running, holder, srvVars, sndVars, clientVars,
                 sourceVars>>

\* What-if: stop() leaves the client list as it is
ClientsKept == listed

\* clients_ after stop()
ClientsAfterStop == {}

\* The last part of stop(): clients and stats go, OBS and audio state stay
ClearClients ==
  /\ control = "clearClients"
  /\ sock' = [c \in Sockets |-> IF c \in listed THEN "idle" ELSE sock[c]]
  /\ listed' = ClientsAfterStop
  /\ upgraded' = upgraded \cap ClientsAfterStop
  /\ authed' = authed \cap ClientsAfterStop
  /\ keyed' = [c \in Sockets |->
                 IF c \in ClientsAfterStop THEN keyed[c] ELSE Nobody]
  /\ control' = "after"
  /\ UNCHANGED <<refs, accessKey, running, holder, srvVars, sndVars, blocked,
                 sourceVars>>

\* Back in the caller, which gives ref_mutex_ up
AfterStop ==
  /\ control = "after"
  /\ control' = "free" /\ holder' = Nobody
  /\ IF holder \in Keys \cup {Nobody}
       THEN /\ accessKey' = holder
            /\ IF refs > 0 THEN Start ELSE UNCHANGED <<running, srv, snd>>
       ELSE UNCHANGED <<accessKey, running, srv, snd>>
  /\ life' = [s \in Sources |-> IF s = holder THEN "gone" ELSE life[s]]
  /\ panel' = IF holder = "panel" THEN "gone" ELSE panel
  /\ UNCHANGED <<refs, batch, closing, callee, targets, clientVars,
                 name, renamed, handlers, connectCbs>>

-----------------------------------------------------------------------------
(* The server thread                                                       *)

\* What-if: run() tries to bind again whether the server is wanted or not
NeverGivesUp == FALSE

\* run() retries to bind only while the server is wanted
GivesUpBinding == ~running

\* open_listeners() succeeds; while the address is taken nothing changes
Bind ==
  /\ srv = "bind" /\ running
  /\ srv' = "round"
  /\ UNCHANGED <<batch, closing, callee, refVars, sndVars, clientVars,
                 sourceVars>>

\* run() out of its loops, and the listeners close
Leave ==
  /\ \/ srv = "bind" /\ GivesUpBinding
     \/ srv = "round" /\ ~running
  /\ srv' = "none"
  /\ UNCHANGED <<batch, closing, callee, refVars, sndVars, clientVars,
                 sourceVars>>

\* A client out of the list; its socket is closed by CloseSockets
Unlist(c) ==
  /\ listed' = listed \ {c}
  /\ upgraded' = upgraded \ {c}
  /\ authed' = authed \ {c}
  /\ keyed' = [keyed EXCEPT ![c] = Nobody]

\* A round of select(); drop_unauthenticated_clients() may find one expired
Round ==
  /\ srv = "round" /\ running
  /\ \/ srv' = "serve" /\ UNCHANGED <<closing, listed, upgraded, authed, keyed>>
     \/ \E c \in listed \ authed :
          /\ Unlist(c)
          /\ closing' = {c} /\ srv' = "close"
  /\ UNCHANGED <<batch, callee, refVars, sndVars, sock, blocked, sourceVars>>

\* Nothing to read
Idle ==
  /\ srv = "serve"
  /\ srv' = "round"
  /\ UNCHANGED <<batch, closing, callee, refVars, sndVars, clientVars,
                 sourceVars>>

\* is_refused()
IsRefused(c) == c \notin Local /\ (accessKey = Nobody \/ c \in blocked)

\* What-if: the limit is looked at too late by one
FullLate == Cardinality(listed) > MaxClients

Full == Cardinality(listed) >= MaxClients

\* accept_client(), which may refuse the connection at once
Accept(c) ==
  /\ srv = "serve" /\ sock[c] = "idle"
  /\ srv' = "round"
  /\ IF IsRefused(c) \/ Full
       THEN UNCHANGED <<sock, listed>>
       ELSE sock' = [sock EXCEPT ![c] = "open"] /\ listed' = listed \cup {c}
  /\ UNCHANGED <<batch, closing, callee, refVars, sndVars, upgraded, authed,
                 keyed, blocked, sourceVars>>

\* recv() fails, or the client sent too much: out of the list, then closed.
\* What it sent before in the same read is still handled afterwards.
Finish(c) ==
  /\ srv = "serve" /\ c \in listed
  /\ Unlist(c)
  /\ closing' = {c} /\ srv' = "close"
  /\ \/ UNCHANGED batch
     \/ /\ sock[c] = "open" /\ c \in upgraded
        /\ \E m \in Messages : batch' = <<<<c, m>>>>
  /\ UNCHANGED <<callee, refVars, sndVars, sock, blocked, sourceVars>>

\* The HTTP request of a client is complete (its text is of no matter here)
Request(c) ==
  /\ srv = "serve" /\ c \in listed \ upgraded /\ sock[c] = "open"
  /\ upgraded' = upgraded \cup {c}
  /\ srv' = "upgrade" /\ batch' = <<<<c, "key">>>>
  /\ UNCHANGED <<closing, callee, refVars, sndVars, sock, listed, authed, keyed,
                 blocked, sourceVars>>

\* One read completes some frames of a client
Receive(c) ==
  /\ srv = "serve" /\ c \in listed \cap upgraded /\ sock[c] = "open"
  /\ \E n \in 1 .. MaxBatch, f \in [1 .. MaxBatch -> Messages] :
       batch' = [i \in 1 .. n |-> <<c, f[i]>>]
  /\ srv' = "handle"
  /\ UNCHANGED <<closing, callee, refVars, sndVars, clientVars, sourceVars>>

\* What-if: sockets close whatever the sender is doing
ClosesAnyTime == TRUE

\* close_sockets() waits for delivery_mutex_
MayClose == snd # "send"

CloseSockets ==
  /\ srv = "close" /\ MayClose
  /\ sock' = [c \in Sockets |->
                IF c \in closing /\ sock[c] \in {"open", "ended"}
                THEN "idle" ELSE sock[c]]
  /\ closing' = {}
  /\ srv' = IF batch = <<>> THEN "round" ELSE "handle"
  /\ UNCHANGED <<batch, callee, refVars, sndVars, listed, upgraded, authed,
                 keyed, blocked, sourceVars>>

\* finish_upgrade(): no key in the request; or the client is in, trusted if
\* it is of this machine and no browser.  The sources hear of it under
\* connect_cbs_mutex_: any one of them stands for all.
FinishUpgrade(c) ==
  /\ srv = "upgrade" /\ batch # <<>> /\ c = Head(batch)[1]
  /\ batch' = <<>>
  /\ \/ /\ Unlist(c)
        /\ closing' = {c} /\ srv' = "close"
        /\ UNCHANGED callee
     \/ /\ \/ authed' = authed \cup (listed \cap Local \cap {c})
           \/ authed' = authed \ {c}
        /\ LET told == {s \in Sources : \E n \in Names : connectCbs[n] = s}
           IN  IF told = {} THEN srv' = "round" /\ UNCHANGED callee
               ELSE srv' = "callback" /\ callee' \in told
        /\ UNCHANGED <<closing, listed, upgraded, keyed>>
  /\ UNCHANGED <<refVars, sndVars, sock, blocked, sourceVars>>

\* The key or, from this machine, the page token
Proves(c, m) ==
  \/ m = "key" /\ accessKey # Nobody
  \/ m = "token" /\ c \in Local \cap listed

\* After the message of a client: the next one, or the next round
Handled(rest) ==
  /\ batch' = rest
  /\ srv' = IF rest = <<>> THEN "round" ELSE "handle"

\* handle_client_message() before the client is authenticated
Authenticate(c, m) ==
  /\ srv = "handle" /\ batch # <<>> /\ Head(batch) = <<c, m>>
  /\ c \notin Audience
  /\ IF Proves(c, m)
       THEN /\ authed' = authed \cup (listed \cap {c})
            /\ keyed' = [keyed EXCEPT ![c] = IF m = "key" /\ c \in listed
                                             THEN accessKey ELSE @]
            /\ Handled(Tail(batch))
            /\ UNCHANGED <<listed, upgraded, blocked, closing>>
       ELSE /\ Unlist(c)
            /\ blocked' = IF c \in Local THEN blocked ELSE blocked \cup {c}
            /\ closing' = {c} /\ srv' = "close" /\ batch' = Tail(batch)
  /\ UNCHANGED <<callee, refVars, sndVars, sock, sourceVars>>

\* What-if: a command is called on a copy of the handler
CalledOnACopy == FALSE

\* cmd_handlers_mutex_ and connect_cbs_mutex_ are held through the calls
HeldThroughCommand == srv = "command"
HeldThroughCallback == srv = "callback"

\* handle_client_message() of an authenticated client: the key again, a
\* request that acts on OBS (without effect here), or a command to a source
Command(c, m) ==
  /\ srv = "handle" /\ batch # <<>> /\ Head(batch) = <<c, m>>
  /\ c \in Audience
  /\ keyed' = [keyed EXCEPT ![c] = IF m = "key" /\ accessKey # Nobody
                                   THEN accessKey ELSE @]
  /\ IF m \in Names /\ handlers[m] # Nobody
       THEN /\ callee' = handlers[m] /\ srv' = "command"
            /\ batch' = Tail(batch)
       ELSE Handled(Tail(batch)) /\ UNCHANGED callee
  /\ UNCHANGED <<closing, refVars, sndVars, sock, listed, upgraded, authed,
                 blocked, sourceVars>>

\* The source's handler or callback returns
Return ==
  /\ srv \in {"command", "callback"}
  /\ callee' = Nobody
  /\ Handled(batch)
  /\ UNCHANGED <<closing, refVars, sndVars, clientVars, sourceVars>>

-----------------------------------------------------------------------------
(* The sender thread                                                       *)

\* run_sender() waits no longer when the server stops
SenderWakes ==
  /\ snd = "wait" /\ ~running
  /\ snd' = "none"
  /\ UNCHANGED <<targets, refVars, srvVars, clientVars, sourceVars>>

\* A frame that is there first is still sent: deliver() locks
\* delivery_mutex_ and copies the client list
Deliver ==
  /\ snd = "wait"
  /\ targets' = Audience /\ snd' = "send"
  /\ UNCHANGED <<refVars, srvVars, clientVars, sourceVars>>

\* One target: it gets the frame, or is too slow and is shut down
Send(c) ==
  /\ snd = "send" /\ c \in targets
  /\ targets' = targets \ {c}
  /\ \/ UNCHANGED sock
     \/ sock[c] = "open" /\ sock' = [sock EXCEPT ![c] = "ended"]
  /\ UNCHANGED <<snd, refVars, srvVars, listed, upgraded, authed, keyed,
                 blocked, sourceVars>>

Delivered ==
  /\ snd = "send" /\ targets = {}
  /\ snd' = IF running THEN "wait" ELSE "none"
  /\ UNCHANGED <<targets, refVars, srvVars, clientVars, sourceVars>>

-----------------------------------------------------------------------------
(* Clients                                                                 *)

HangUp(c) ==
  /\ sock[c] = "open"
  /\ sock' = [sock EXCEPT ![c] = "ended"]
  /\ UNCHANGED <<refVars, srvVars, sndVars, listed, upgraded, authed, keyed,
                 blocked, sourceVars>>

\* AUTH_BACKOFF_MS is over
Unblock(c) ==
  /\ c \in blocked
  /\ blocked' = blocked \ {c}
  /\ UNCHANGED <<refVars, srvVars, sndVars, sock, listed, upgraded, authed,
                 keyed, sourceVars>>

-----------------------------------------------------------------------------
(* Sources and the panel                                                   *)

\* LiveStreamSource(): a reference and the two registrations
Create(s) ==
  /\ life[s] = "none" /\ ~HeldThroughCommand /\ ~HeldThroughCallback
  /\ AddRef
  /\ life' = [life EXCEPT ![s] = "alive"]
  /\ \E n \in Names \ {name[t] : t \in {t \in Sources : life[t] = "alive"}} :
       /\ name' = [name EXCEPT ![s] = n]
       /\ handlers' = [handlers EXCEPT ![n] = s]
       /\ connectCbs' = [connectCbs EXCEPT ![n] = s]
  /\ UNCHANGED <<clientVars, renamed, panel>>

\* write_stats_json() registers again, under the current name
WriteStats(s) ==
  /\ life[s] = "alive" /\ ~HeldThroughCommand
  /\ handlers' = [handlers EXCEPT ![name[s]] = s]
  /\ UNCHANGED <<refVars, srvVars, sndVars, clientVars, life, name, renamed,
                 connectCbs, panel>>

Rename(s) ==
  /\ life[s] = "alive"
  /\ \E n \in Names \ {name[t] : t \in Sources} : name' = [name EXCEPT ![s] = n]
  /\ renamed' = renamed \cup {s}
  /\ UNCHANGED <<refVars, srvVars, sndVars, clientVars, life, handlers,
                 connectCbs, panel>>

\* ~LiveStreamSource(): stop_stream() joins the worker, then the registrations
\* go, each once its mutex is free, then the reference
Destroy(s) ==
  /\ life[s] = "alive"
  /\ life' = [life EXCEPT ![s] = "joined"]
  /\ UNCHANGED <<refVars, srvVars, sndVars, clientVars, name, renamed, handlers,
                 connectCbs, panel>>

UnregisterCommand(s) ==
  /\ life[s] = "joined" /\ ~HeldThroughCommand
  /\ handlers' = [handlers EXCEPT ![name[s]] = Nobody]
  /\ life' = [life EXCEPT ![s] = "uncommanded"]
  /\ UNCHANGED <<refVars, srvVars, sndVars, clientVars, name, renamed,
                 connectCbs, panel>>

UnregisterCallback(s) ==
  /\ life[s] = "uncommanded" /\ ~HeldThroughCallback
  /\ connectCbs' = [connectCbs EXCEPT ![name[s]] = Nobody]
  /\ life' = [life EXCEPT ![s] = "unregistered"]
  /\ UNCHANGED <<refVars, srvVars, sndVars, clientVars, name, renamed, handlers,
                 panel>>

ReleaseSource(s) ==
  /\ life[s] = "unregistered"
  /\ ReleaseRef(s)
  /\ life' = [life EXCEPT ![s] = "releasing"]
  /\ UNCHANGED <<srvVars, sndVars, clientVars, name, renamed, handlers,
                 connectCbs, panel>>

\* init_obs_remote()
PanelStart ==
  /\ panel = "none"
  /\ AddRef
  /\ panel' = "on"
  /\ UNCHANGED <<clientVars, life, name, renamed, handlers, connectCbs>>

\* stop_remote(), on the thread of the OBS events
PanelStop ==
  /\ panel = "on"
  /\ ReleaseRef("panel")
  /\ panel' = "leaving"
  /\ UNCHANGED <<srvVars, sndVars, clientVars, life, name, renamed, handlers,
                 connectCbs>>

-----------------------------------------------------------------------------
Controlling == JoinServer \/ JoinSender \/ ClearClients \/ AfterStop

Serving ==
  \/ Bind \/ Leave \/ Round \/ Idle \/ CloseSockets \/ Return
  \/ \E c \in Sockets :
       \/ Accept(c) \/ Finish(c) \/ Request(c) \/ Receive(c) \/ FinishUpgrade(c)
       \/ \E m \in Messages : Authenticate(c, m) \/ Command(c, m)

Sending ==
  \/ SenderWakes \/ Deliver \/ Delivered
  \/ \E c \in Sockets : Send(c)

Clients == \E c \in Sockets : HangUp(c) \/ Unblock(c)

Owners ==
  \/ PanelStart \/ PanelStop
  \/ \E k \in Keys \cup {Nobody} : Configure(k)
  \/ \E s \in Sources :
       \/ Create(s) \/ WriteStats(s) \/ Rename(s) \/ Destroy(s)
       \/ UnregisterCommand(s) \/ UnregisterCallback(s) \/ ReleaseSource(s)

Next == Controlling \/ Serving \/ Sending \/ Clients \/ Owners

\* Threads that are started run.  Nothing makes the address free, a client
\* speak, or a user act.
Spec ==
  /\ Init /\ [][Next]_vars
  /\ WF_vars(Controlling)
  /\ WF_vars(Leave \/ Round \/ Idle \/ CloseSockets \/ Return
             \/ \E c \in Sockets : FinishUpgrade(c)
                  \/ \E m \in Messages : Authenticate(c, m) \/ Command(c, m))
  /\ WF_vars(Sending)

-----------------------------------------------------------------------------
(* Properties                                                              *)

\* Every variable keeps its shape, and clients_ stays within MAX_CLIENTS
TypeOK ==
  /\ refs \in 0 .. Cardinality(Sources) + 1 /\ running \in BOOLEAN
  /\ accessKey \in Keys \cup {Nobody}
  /\ control \in {"free", "joinServer", "joinSender", "clearClients", "after"}
  /\ holder \in Keys \cup Sources \cup {"panel", Nobody}
  /\ srv \in {"none", "bind", "round", "serve", "close", "upgrade", "handle",
              "command", "callback"}
  /\ Len(batch) <= MaxBatch /\ closing \subseteq Sockets
  /\ callee \in Sources \cup {Nobody}
  /\ snd \in {"none", "wait", "send"}
  /\ targets \subseteq Sockets
  /\ sock \in [Sockets -> {"idle", "open", "ended"}]
  /\ listed \subseteq Sockets /\ Cardinality(listed) <= MaxClients
  /\ upgraded \subseteq listed /\ authed \subseteq upgraded
  /\ keyed \in [Sockets -> Keys \cup {Nobody}]
  /\ blocked \subseteq Sockets \ Local
  /\ life \in [Sources -> {"none", "alive", "joined", "uncommanded",
                           "unregistered", "releasing", "gone"}]
  /\ name \in [Sources -> Names \cup {Nobody}]
  /\ renamed \subseteq Sources
  /\ handlers \in [Names -> Sources \cup {Nobody}]
  /\ connectCbs \in [Names -> Sources \cup {Nobody}]
  /\ panel \in {"none", "on", "leaving", "gone"}

\* The sender never sends to a socket that is closed, so never to whatever got
\* its number since: close_sockets() waits for the delivery under way, and a
\* delivery copies the list only when nothing is left to close (deliver()).
SendsToOpenSockets ==
  \A c \in targets : sock[c] \in {"open", "ended"}

\* A handler or connect callback only runs in a source that still exists: the
\* destructor unregisters and waits for the call under way.  It unregisters
\* the name it has then, so a source that was renamed is left out.
NoCallIntoTheGone ==
  srv \in {"command", "callback"} /\ callee \notin renamed
    => life[callee] \notin {"releasing", "gone"}

\* What handle_client_message() says of its lock, renamed or not: "a source
\* waits here on its way out, so a command can't run into one that's already
\* gone."
NoCommandIntoTheGone ==
  srv = "command" => life[callee] \notin {"releasing", "gone"}

\* Whoever may act on OBS has shown the key that is set now: configure() lets
\* no client of the key before into the server that starts after it.
KeyIsCurrent ==
  \A c \in Audience : keyed[c] \in {Nobody, accessKey}

\* stop() returns, whatever server, sender and clients are in the middle of,
\* and whether or not the address was ever free.
StopReturns == control # "free" ~> control = "free"
=============================================================================
