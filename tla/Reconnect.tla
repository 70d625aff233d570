------------------------------ MODULE Reconnect ------------------------------
(***************************************************************************)
(* How the phone gets, loses and regains its session                       *)
(* (AgentChannelPlugin.java), and the sidecar's end of each socket         *)
(* (sidecar/index.mjs).                                                    *)
(*                                                                         *)
(* connectWs makes a handshake and a socket together, so both carry the    *)
(* socket's number; so does the session that the handshake leads to.       *)
(* Nothing stops a second socket from being made beside the first, and     *)
(* every callback reads the fields ws and hs, not the socket it belongs    *)
(* to. Once its socket is dead a session can never be of use to anybody:   *)
(* it is renamed Stale, and the number is used again. A callback, a task   *)
(* of the worker and an answer to a dialog are one step each. `connected`  *)
(* and `derived` are set and cleared together with `channel`, and stand    *)
(* for it.                                                                 *)
(*                                                                         *)
(* There is one gateway host; the partition buffer between send and the    *)
(* socket is in Partition, the media that follow a session are left out,   *)
(* and so is the destruction of the plugin.                                *)
(***************************************************************************)
EXTENDS Integers, Sequences, FiniteSets

CONSTANTS
    MaxSockets,  \* bound on the sockets alive at once, with the current one
    MaxFaults,   \* bound on the times the network kills a socket
    MaxActs      \* bound on what the page and the user do unasked

ASSUME BoundsAssumption == {MaxSockets, MaxFaults, MaxActs} \subseteq Nat

Socket == 1 .. MaxSockets
None == 0
Stale == MaxSockets + 1  \* a session whose socket is dead
Session == Socket \cup {Stale}

\* What worker.execute is given: connectWs, or completeHandshake of a session.
ConnectTask == 0

Message(type, of) == [type |-> type, of |-> of]
Refusal == Message("error", None)

VARIABLES
    \* the plugin's fields
    consented,     \* connectConsented
    blocked,       \* identityBlocked
    pin,           \* the pinned identity: "none", the gateway's ("right") or "other"
    connectCall,   \* connectCall: a call of connect(), by its number, or None
    ws,            \* the socket made last
    hs,            \* its handshake, or None
    channel,       \* the session whose keys are installed, or None
    reconnecting,  \* reconnectPending: a thread sleeps through the backoff
    keeper,        \* a keepalive thread probes the session
    call,          \* a call of send(): where it is, and the session that sealed it
    \* what is queued or on the screen
    work,          \* tasks of the worker
    asking,        \* the calls whose consent dialogs are on the screen, from the top
    pairing,       \* the sessions of the pairing dialogs on the screen, from the top
    badge,         \* what the badge says of the last handshake begun
    \* what the page waits for
    calls,         \* the number of calls of connect() that were not refused at once
    unsettled,     \* those neither resolved nor rejected
    \* the sockets and the sidecar
    sock,          \* the life of each socket
    up, down,      \* text messages in transit on it
    gw,            \* the sidecar's conn: how far it is, and with which handshake
    allowed,       \* the sidecar's allowlist has the phone, or it has none
    faults, acts   \* counters of the bounds

user == <<consented, pin, asking, acts>>
connects == <<connectCall, calls, unsettled>>
promises == <<connects, call>>
session == <<ws, hs, channel, reconnecting, keeper>>
screen == <<pairing, badge>>
net == <<up, down, gw, allowed>>
wire == <<sock, net, faults>>
phoneVars == <<user, blocked, promises, session, work, screen, wire>>

Connected == channel # None
Idle == [stage |-> "idle", key |-> None, on |-> None]
NewConn == [stage |-> "new", of |-> None]
Sendable(k) == k # None /\ sock[k] \in {"opening", "open"}

\* The badge: "refused" until the next handshake begins or ends, or another state is
\* shown; "wiped" where resetPairing has put the plain badge in place of a refusal.
\* The last conjunct: a handshake in progress is that of the current socket.
PhoneTypeOK ==
    /\ {consented, blocked, reconnecting, keeper, allowed} \subseteq BOOLEAN
    /\ calls \in Nat /\ unsettled \subseteq 1 .. calls
    /\ connectCall \in unsettled \cup {None} /\ asking \in Seq(1 .. calls)
    /\ badge \in {"plain", "refused", "wiped"}
    /\ pin \in {"none", "right", "other"}
    /\ {ws, hs, channel} \subseteq Session \cup {None}
    /\ call.stage \in {"idle", "sealed", "waiting"}
    /\ work \in Seq(Session \cup {ConnectTask})
    /\ pairing \in Seq(Session)
    /\ sock \in [Socket -> {"dead", "opening", "open", "abandoned", "closing", "cancelled"}]
    /\ \A k \in Socket : gw[k].stage \in {"new", "starting", "offered", "mute", "live", "gone"}
    /\ \A k \in Socket : sock[k] = "dead" => up[k] = <<>> /\ down[k] = <<>>
    /\ hs \in {None, ws}

PhoneInit ==
    /\ consented = FALSE /\ blocked = FALSE
    /\ connectCall = None /\ calls = 0 /\ unsettled = {}
    /\ pin \in {"none", "right", "other"}
    /\ ws = None /\ hs = None /\ channel = None
    /\ reconnecting = FALSE /\ keeper = FALSE /\ call = Idle
    /\ work = <<>> /\ asking = <<>> /\ pairing = <<>> /\ badge = "plain"
    /\ sock = [k \in Socket |-> "dead"]
    /\ up = [k \in Socket |-> <<>>] /\ down = [k \in Socket |-> <<>>]
    /\ gw = [k \in Socket |-> NewConn]
    /\ allowed \in BOOLEAN
    /\ faults = 0 /\ acts = 0

----------------------------------------------------------------------------
(* Shared steps of the handlers *)

\* ws.send of a text: it waits for the socket to open, and is lost after close.
SendText(message) ==
    up' = IF Sendable(ws) THEN [up EXCEPT ![ws] = Append(@, message)] ELSE up

\* Mutant: the slot is emptied and nobody told.
DropConnect ==
    /\ connectCall' = None
    /\ UNCHANGED <<calls, unsettled>>

\* The call in the one slot for a call of connect() is resolved or rejected.
SettleConnect ==
    /\ connectCall' = None
    /\ unsettled' = unsettled \ {connectCall}
    /\ UNCHANGED calls

\* rejectHandshake: whichever handshake is refused, the current socket is closed.
Reject ==
    /\ badge' = "refused"
    /\ SettleConnect
    /\ sock' = [k \in Socket |->
                   CASE k = ws /\ sock[k] = "opening" -> "abandoned"
                     [] k = ws /\ sock[k] = "open" -> "closing"
                     [] OTHER -> sock[k]]

\* completeHandshake, on whichever socket is current.
Complete(s) ==
    /\ SendText(Message("confirm", s))
    /\ channel' = s
    /\ keeper' = TRUE
    /\ badge' = "plain"
    /\ SettleConnect

\* scheduleReconnect, after the session is gone.
ScheduleReconnect == reconnecting' = (reconnecting \/ (consented /\ ~blocked))

Age(s, k) == IF s = k THEN Stale ELSE s
Aged(q, k) == [i \in DOMAIN q |-> Age(q[i], k)]

\* failPending, as socket k dies.
FailPending(k) ==
    call' = IF call.stage = "waiting" THEN Idle ELSE [call EXCEPT !.key = Age(@, k)]

\* What onFailure and onClosed have in common: dropSession, the badge, which keeps
\* showing a blocked identity, and scheduleReconnect.
DropSession(k) ==
    /\ badge' = IF blocked THEN badge ELSE "plain"
    /\ channel' = None
    /\ hs' = None
    /\ keeper' = FALSE
    /\ FailPending(k)
    /\ ScheduleReconnect

\* The socket is gone, and the sidecar's conn with it.
Dies(k) ==
    /\ sock' = [sock EXCEPT ![k] = "dead"]
    /\ work' = Aged(work, k)
    /\ pairing' = Aged(pairing, k)
    /\ up' = [j \in Socket |->
                 IF j = k THEN <<>>
                 ELSE [i \in DOMAIN up[j] |-> [up[j][i] EXCEPT !.of = Age(@, k)]]]
    /\ down' = [down EXCEPT ![k] = <<>>]
    /\ gw' = [gw EXCEPT ![k] = NewConn]
    /\ UNCHANGED allowed

----------------------------------------------------------------------------
(* The page and the user *)

Act == acts < MaxActs /\ acts' = acts + 1

\* connect(): refused at once while the identity is blocked, else connected or asked.
\* A call that was in the slot is in it no more, and not settled.
Connect ==
    /\ Act
    /\ ~(blocked /\ consented)
    /\ calls' = calls + 1
    /\ connectCall' = calls + 1
    /\ unsettled' = unsettled \cup {calls + 1}
    /\ IF consented THEN work' = Append(work, ConnectTask) /\ UNCHANGED asking
                    ELSE asking' = <<calls + 1>> \o asking /\ UNCHANGED work
    /\ UNCHANGED <<consented, pin, blocked, call, session, screen, wire>>

\* The dialog of requestConnectConsent is answered.  "Deny" rejects the call it asked
\* for, and empties the slot whichever call is in it.
ConsentAnswered ==
    /\ asking # <<>>
    /\ asking' = Tail(asking)
    /\ \/ /\ consented' = TRUE /\ blocked' = FALSE
          /\ work' = Append(work, ConnectTask)
          /\ UNCHANGED connects
       \/ /\ connectCall' = None
          /\ unsettled' = unsettled \ {Head(asking)}
          /\ UNCHANGED <<calls, consented, blocked, work>>
    /\ UNCHANGED <<pin, acts, call, session, screen, wire>>

\* A pairing dialog is answered, its socket being alive or not.
PairingAnswered ==
    /\ pairing # <<>>
    /\ pairing' = Tail(pairing)
    /\ \/ /\ pin' = "right"
          /\ work' = Append(work, Head(pairing))
          /\ UNCHANGED <<connects, badge, sock>>
       \/ Reject /\ UNCHANGED <<pin, work>>
    /\ UNCHANGED <<consented, asking, acts, blocked, call, session, net, faults>>

\* resetPairing, confirmed.  It begins no handshake, and the plain badge replaces what
\* was shown.
ForgetPairing ==
    /\ Act
    /\ consented
    /\ pin' = "none"
    /\ blocked' = FALSE
    /\ badge' = IF ~Connected /\ (blocked \/ badge = "refused") THEN "wiped" ELSE "plain"
    /\ UNCHANGED <<consented, asking, promises, session, work, pairing, wire>>

\* onAppResume, which only shortens a backoff that is already running.
AppResumes ==
    /\ Act
    /\ ~Connected /\ consented /\ ~blocked /\ ~reconnecting
    /\ ScheduleReconnect
    /\ UNCHANGED <<consented, pin, asking, blocked, promises, ws, hs, channel, keeper,
                   work, screen, wire>>

----------------------------------------------------------------------------
(* send() *)

OnlyCallChanges == UNCHANGED <<user, blocked, connects, session, work, screen, wire>>

\* The channel is read and the frame sealed ...
SendSeals ==
    /\ Connected
    /\ call.stage = "idle"
    /\ call' = [stage |-> "sealed", key |-> channel, on |-> None]
    /\ OnlyCallChanges

\* ... and then the call is registered and the frame sent, whatever happened between.
SendRegisters ==
    /\ call.stage = "sealed"
    /\ call' = IF Sendable(ws) THEN [call EXCEPT !.stage = "waiting", !.on = ws]
                              ELSE [Idle EXCEPT !.stage = "waiting"]
    /\ OnlyCallChanges

\* The sidecar could open the frame, and the phone can open the answer.
CallAnswered ==
    /\ call.stage = "waiting" /\ call.on # None /\ call.key = channel
    /\ sock[call.on] = "open" /\ gw[call.on] = [stage |-> "live", of |-> channel]
    /\ call' = Idle
    /\ OnlyCallChanges

----------------------------------------------------------------------------
(* The worker, the reconnect thread and the keepalive thread *)

\* Nothing needs the socket's number any more.
Free(k) == sock[k] = "dead" /\ k # ws

\* Mutant: a handshake that is still there is used again.
NewHandshakeIfNone(k) == hs' = IF hs = None THEN k ELSE hs
NewHandshake(k) == hs' = k

ConnectWs ==
    /\ work # <<>> /\ Head(work) = ConnectTask
    /\ work' = Tail(work)
    /\ \/ /\ blocked
          /\ SettleConnect
          /\ UNCHANGED <<ws, hs, sock, badge>>
       \/ /\ ~blocked
          /\ \E k \in Socket :
              /\ Free(k) /\ \A j \in 1 .. k - 1 : ~Free(j)
              /\ NewHandshake(k)
              /\ ws' = k
              /\ sock' = [sock EXCEPT ![k] = "opening"]
          /\ badge' = "plain"
          /\ UNCHANGED connects
    /\ UNCHANGED <<user, blocked, call, channel, reconnecting, keeper, pairing, net, faults>>

CompletePairing ==
    /\ work # <<>> /\ Head(work) # ConnectTask
    /\ work' = Tail(work)
    /\ Complete(Head(work))
    /\ UNCHANGED <<user, blocked, call, ws, hs, reconnecting, pairing, sock, down, gw, allowed,
                   faults>>

\* The thread of scheduleReconnect wakes.
Reconnect ==
    /\ reconnecting
    /\ reconnecting' = FALSE
    /\ work' = IF ~Connected /\ consented /\ ~blocked THEN Append(work, ConnectTask) ELSE work
    /\ UNCHANGED <<user, blocked, promises, ws, hs, channel, keeper, screen, wire>>

\* Mutant: only the calls of the session that is there are swept.
SweepPendingOwn ==
    /\ keeper /\ Connected
    /\ call.stage = "waiting" /\ call.key = channel
    /\ call' = Idle
    /\ OnlyCallChanges

\* sweepPending: the keepalive thread fails a call that has waited for a minute.
SweepPending ==
    /\ keeper /\ Connected
    /\ call.stage = "waiting"
    /\ call' = Idle
    /\ OnlyCallChanges

\* No pong can come: the pings go to a socket whose other end does not hold the keys.
Silent ==
    \/ sock[ws] = "dead"
    \/ sock[ws] = "open" /\ up[ws] = <<>> /\ gw[ws] # [stage |-> "live", of |-> channel]

\* The link has been silent for long enough: the thread cancels the socket and returns.
KeepaliveGivesUp ==
    /\ keeper /\ Connected /\ Silent
    /\ keeper' = FALSE
    /\ sock' = IF sock[ws] = "dead" THEN sock ELSE [sock EXCEPT ![ws] = "cancelled"]
    /\ UNCHANGED <<user, blocked, promises, ws, hs, channel, reconnecting, work, screen, net,
                   faults>>

----------------------------------------------------------------------------
(* The callbacks of a socket *)

\* onOpen, with sendHello.
Opens(k) ==
    /\ sock[k] \in {"opening", "abandoned"}
    /\ sock' = [sock EXCEPT ![k] = IF @ = "opening" THEN "open" ELSE "closing"]
    /\ IF hs # None THEN SendText(Message("hello", hs)) ELSE UNCHANGED up
    /\ UNCHANGED <<user, blocked, promises, session, work, screen, down, gw, allowed, faults>>

\* handleHello: the reply is checked against the handshake that is current.
HandleHello(reply) ==
    \/ /\ reply # Refusal /\ pin = "other"
       /\ blocked' = TRUE
       /\ Reject
       /\ UNCHANGED <<channel, keeper, pairing, up>>
    \/ /\ reply = Refusal \/ (pin # "other" /\ reply.of # hs)
       /\ Reject
       /\ UNCHANGED <<blocked, channel, keeper, pairing, up>>
    \/ /\ reply # Refusal /\ pin = "right" /\ reply.of = hs
       /\ Complete(hs)
       /\ UNCHANGED <<blocked, pairing, sock>>
    \/ /\ reply # Refusal /\ pin = "none" /\ reply.of = hs
       /\ pairing' = <<hs>> \o pairing
       /\ UNCHANGED <<blocked, channel, keeper, badge, connects, sock, up>>

\* onMessage of a text, which a phone with a session or without a handshake ignores.
ReadsText(k) ==
    /\ sock[k] \in {"open", "closing"} /\ down[k] # <<>>
    /\ down' = [down EXCEPT ![k] = Tail(@)]
    /\ IF Connected \/ hs = None
       THEN UNCHANGED <<blocked, channel, keeper, screen, connects, sock, up>>
       ELSE HandleHello(Head(down[k]))
    /\ UNCHANGED <<user, call, ws, hs, reconnecting, work, gw, allowed, faults>>

\* Nothing is under way that takes less than the 15 s between two pings.
Quiet ==
    \A j \in Socket :
        sock[j] # "opening" /\ up[j] = <<>> /\ down[j] = <<>> /\ gw[j].stage # "starting"

\* The network kills the socket, or OkHttp gives up one that was cancelled or, its
\* pings unanswered, one that the sidecar has closed.
Broken(k) ==
    \/ sock[k] # "dead" /\ faults < MaxFaults /\ faults' = faults + 1
    \/ sock[k] = "cancelled" /\ UNCHANGED faults
    \/ sock[k] = "open" /\ gw[k].stage = "gone" /\ Quiet /\ UNCHANGED faults

\* onFailure, which does not ask whether k is the socket of the session.
Fails(k) ==
    /\ Broken(k)
    /\ Dies(k)
    /\ SettleConnect
    /\ DropSession(k)
    /\ UNCHANGED <<user, blocked, ws>>

\* Mutant: no reconnect after an orderly close.
ClosesQuietly(k) ==
    /\ sock[k] = "closing" /\ up[k] = <<>> /\ down[k] = <<>>
    /\ Dies(k)
    /\ \/ /\ Connected
          /\ channel' = None /\ hs' = None /\ keeper' = FALSE
          /\ badge' = IF blocked THEN badge ELSE "plain"
          /\ FailPending(k)
       \/ /\ ~Connected
          /\ call' = [call EXCEPT !.key = Age(@, k), !.on = IF @ = k THEN None ELSE @]
          /\ UNCHANGED <<channel, hs, keeper, badge>>
    /\ UNCHANGED <<user, blocked, connects, ws, reconnecting, faults>>

\* onClosed, when the sidecar has answered the close of rejectHandshake.
Closes(k) ==
    /\ sock[k] = "closing" /\ up[k] = <<>> /\ down[k] = <<>>
    /\ Dies(k)
    /\ \/ Connected /\ DropSession(k)
       \/ /\ ~Connected
          /\ call' = [call EXCEPT !.key = Age(@, k), !.on = IF @ = k THEN None ELSE @]
          /\ UNCHANGED <<channel, hs, keeper, reconnecting, badge>>
    /\ UNCHANGED <<user, blocked, connects, ws, faults>>

----------------------------------------------------------------------------
(* The sidecar *)

Becomes(k, stage, of) == gw' = [gw EXCEPT ![k] = [stage |-> stage, of |-> of]]

\* An error is sent and the socket closed.
Refuses(k) ==
    /\ Becomes(k, "gone", None)
    /\ down' = [down EXCEPT ![k] = Append(@, Refusal)]

\* A text arrives: hello first, then the confirm; what comes later is dropped.
GatewayReads(k) ==
    /\ sock[k] \in {"open", "closing"} /\ up[k] # <<>>
    /\ up' = [up EXCEPT ![k] = Tail(@)]
    /\ LET message == Head(up[k])
           conn == gw[k]
       IN  \/ /\ conn.stage = "new" /\ message.type = "hello" /\ allowed
              /\ Becomes(k, "starting", message.of)
              /\ UNCHANGED down
           \/ /\ conn.stage = "new" /\ ~(message.type = "hello" /\ allowed)
              /\ Refuses(k)
           \/ /\ conn.stage \in {"starting", "offered", "mute"}
              /\ message = Message("confirm", conn.of)
              /\ Becomes(k, "live", conn.of)
              /\ UNCHANGED down
           \/ /\ conn.stage \in {"starting", "offered", "mute"}
              /\ message # Message("confirm", conn.of)
              /\ Refuses(k)
           \/ conn.stage \in {"live", "gone"} /\ UNCHANGED <<gw, down>>
    /\ UNCHANGED <<user, blocked, promises, session, work, screen, sock, allowed, faults>>

\* The reply goes out once startMedia has a port, if the socket is still open.
GatewayReplies(k) ==
    /\ gw[k].stage = "starting" /\ sock[k] = "open"
    /\ Becomes(k, "offered", gw[k].of)
    /\ down' = [down EXCEPT ![k] = Append(@, Message("reply", gw[k].of))]
    /\ UNCHANGED <<user, blocked, promises, session, work, screen, sock, up, allowed, faults>>

\* startMedia is rejected: that is logged, and the phone hears nothing.
GatewayFailsToReply(k) ==
    /\ gw[k].stage = "starting" /\ sock[k] = "open"
    /\ Becomes(k, "mute", gw[k].of)
    /\ UNCHANGED <<user, blocked, promises, session, work, screen, sock, up, down, allowed,
                   faults>>

----------------------------------------------------------------------------

Unasked == Connect \/ ForgetPairing \/ AppResumes \/ SendSeals

Thread ==
    \/ ConsentAnswered \/ PairingAnswered
    \/ ConnectWs \/ CompletePairing \/ Reconnect

SocketStep(k) ==
    \/ Opens(k) \/ ReadsText(k) \/ Closes(k)
    \/ GatewayReads(k) \/ GatewayReplies(k) \/ GatewayFailsToReply(k)

PhoneNext ==
    \/ Unasked \/ Thread
    \/ SendRegisters \/ CallAnswered \/ SweepPending \/ KeepaliveGivesUp
    \/ \E k \in Socket : SocketStep(k) \/ Fails(k)

PhoneSpec == PhoneInit /\ [][PhoneNext]_phoneVars

(***************************************************************************)
(* Threads, callbacks and messages go on; dialogs are answered, one way or *)
(* the other; OkHttp notices a socket that is gone; a silence lasts long   *)
(* enough for the keepalive thread to act on it.  The network's faults and *)
(* what the page and the user do unasked carry no fairness.                *)
(***************************************************************************)
Fairness ==
    /\ WF_phoneVars(ConsentAnswered) /\ WF_phoneVars(PairingAnswered)
    /\ WF_phoneVars(ConnectWs) /\ WF_phoneVars(CompletePairing) /\ WF_phoneVars(Reconnect)
    /\ WF_phoneVars(SendRegisters) /\ WF_phoneVars(SweepPending) /\ WF_phoneVars(KeepaliveGivesUp)
    /\ \A k \in Socket : WF_phoneVars(SocketStep(k)) /\ WF_phoneVars(Fails(k) /\ UNCHANGED faults)

FairSpec == PhoneSpec /\ Fairness

----------------------------------------------------------------------------
(* Properties *)

\* The phone has keys, and the other end of its current socket has the same.
Live == Connected /\ sock[ws] = "open" /\ gw[ws] = [stage |-> "live", of |-> channel]

\* A session installed on a socket that was already dead: its keepalive thread has
\* given up, the cancelled socket has no onFailure left to give, and every retry sees
\* `connected`.  The code gets here when a pairing dialog is accepted late.
Unwatched == Connected /\ ~keeper /\ sock[ws] # "cancelled"

\* The sidecar has failed to open a media port and said nothing: the phone waits on a
\* socket that is in order for a reply that never comes.
Unanswered == ws # None /\ sock[ws] = "open" /\ gw[ws].stage = "mute"

\* Once the user has consented the phone is never left without a session in silence:
\* however sockets, dialogs, handshakes and retries overlap, it comes to a live session
\* or shows that the last handshake was refused.  The exceptions: the user has had the
\* pairing forgotten that was refused, Unwatched, and Unanswered.
SessionRestored ==
    consented ~> (Live \/ blocked \/ badge \in {"refused", "wiped"} \/ Unwatched \/ Unanswered)

\* Another call of connect() has taken the slot of c, or has emptied it when denied.
Displaced(c) == connectCall # c /\ calls > 1

\* No promise given to the page stays open: that of a connect(), unless another call
\* displaces it, and that of a send(), even one registered after its session was dropped,
\* at the latest by the sweep of a later session, if there is one.
PromisesSettle ==
    /\ \A c \in 1 .. MaxActs :
          (c \in unsettled) ~> (c \notin unsettled \/ Displaced(c) \/ Unwatched \/ Unanswered)
    /\ (call.stage = "waiting") ~> (call.stage # "waiting" \/ Unwatched \/ []~Connected)

============================================================================
