------------------------------- MODULE Stream -------------------------------
(***************************************************************************)
(* The WebSocket client with partition resilience                          *)
(* (transport/ws-client.mjs) and the gateway it talks to                   *)
(* (transport/ws-gateway.js), over one connection: the handshake, the      *)
(* keepalive with its two timers, the buffer that fills in trouble, and    *)
(* commands that wait for their echo.                                      *)
(*                                                                         *)
(* A WebSocket delivers in order or not at all.  A sealed frame is its     *)
(* type and, unless it is part of the keepalive, the number the app's call *)
(* has; sealing and the replay window are in ReplayWindow.  How long a     *)
(* timer runs is left out: it may fire as soon as it is armed, before or   *)
(* after an answer that is on its way.  failures counts up to MaxFailures  *)
(* and stays there: the code only compares it with 0 and with P.           *)
(***************************************************************************)
EXTENDS Handshake, Integers, Sequences, FiniteSets

CONSTANTS
    P,            \* P: failed probes that declare a partition
    MaxFailures,  \* bound on failures
    MaxFrames,    \* bound on the commands, audio frames and gap marks the app sends
    MaxInTransit  \* bound: no probe is sent over this many messages in transit

ASSUME PAssumption == P \in Nat \ {0} /\ MaxFailures \in Nat /\ P <= MaxFailures
ASSUME FrameAssumption == MaxFrames \in Nat /\ MaxInTransit \in Nat

NoKey == {}
ClientId == "client"
ClientEph == "client eph"
ServerId == "server"
ServerEph == "server eph"

Frame(type, n) == [type |-> type, n |-> n]
Ping == Frame("ping", 0)
Pong == Frame("pong", 0)
IsSealed(message) == message.type \notin {"hello", "confirm"}
Sealed == [type : {"ping", "pong", "gap", "cmd", "audio"}, n : 0 .. MaxFrames]

VARIABLES
    \* what the two ends are started with, and the user's answer
    pins,         \* expectServerIdentity, as a set
    allowed,      \* the gateway's allowlist has the client, or it has none
    \* the connection
    link,         \* the WebSocket is "up", "closing" once the client called close, "closed"
    toGateway,    \* messages in transit
    toClient,
    \* the client
    connected,    \* the promise of connect(): "pending", "resolved", "rejected"
    pairing,      \* onPair is being awaited
    channel,      \* channel: its key, or NoKey
    failures,     \* failures
    partitioned,  \* partitioned
    buffer,       \* buffer
    started,      \* startKeepalive was called and close was not
    nextTimer,    \* _nextTimer is armed
    probeTimer,   \* _probeTimer is armed
    sent,         \* commands, audio frames and gap marks the app has sent
    waiting,      \* the keys of _pending
    \* the gateway
    offered,      \* pending: the key offered to the client, or NoKey
    gwChannel,    \* channel: its key, or NoKey
    dead,         \* state.dead
    heard,        \* history: the numbered frames it took in, in order
    missed        \* history: those it dropped while it was dead

setup == <<pins, allowed>>
link3 == <<link, toGateway, toClient>>
session == <<connected, pairing, channel>>
keepalive == <<failures, partitioned, buffer, started, nextTimer, probeTimer>>
app == <<sent, waiting>>
gateway == <<offered, gwChannel, dead, heard, missed>>
vars == <<setup, link3, session, keepalive, app, gateway>>

\* The last conjunct: from the first probe to close(), one of the two timers is armed
\* and never both.  A loop that loses its timer never probes again, a second loop would
\* count the failures of the first twice.
TypeOK ==
    /\ pins \in {{}, {ServerId}, {"another server"}}
    /\ allowed \in BOOLEAN
    /\ link \in {"up", "closing", "closed"}
    /\ connected \in {"pending", "resolved", "rejected"}
    /\ pairing \in BOOLEAN
    /\ failures \in 0 .. MaxFailures
    /\ partitioned \in BOOLEAN
    /\ buffer \in Seq(Sealed)
    /\ {started, nextTimer, probeTimer, dead} \subseteq BOOLEAN
    /\ sent \in 0 .. MaxFrames
    /\ waiting \subseteq 1 .. MaxFrames
    /\ heard \in Seq(1 .. MaxFrames) /\ missed \in Seq(1 .. MaxFrames)
    /\ link = "closed" => toGateway = <<>> /\ toClient = <<>>
    /\ partitioned => failures >= P
    /\ started => nextTimer # probeTimer

Init ==
    /\ pins \in {{}, {ServerId}, {"another server"}}
    /\ allowed \in BOOLEAN
    /\ link = "up"
    /\ toGateway = <<ClientHello(ClientId, ClientEph)>>
    /\ toClient = <<>>
    /\ connected = "pending" /\ pairing = FALSE /\ channel = NoKey
    /\ failures = 0 /\ partitioned = FALSE /\ buffer = <<>>
    /\ started = FALSE /\ nextTimer = FALSE /\ probeTimer = FALSE
    /\ sent = 0 /\ waiting = {}
    /\ offered = NoKey /\ gwChannel = NoKey /\ dead = FALSE /\ heard = <<>> /\ missed = <<>>

\* ws.send: nothing happens on a socket that is closed.
SendToGateway(messages) ==
    toGateway' = IF link = "up" THEN toGateway \o messages ELSE toGateway
SendToClient(message) == toClient' = Append(toClient, message)

Closed == link' = "closed" /\ toGateway' = <<>> /\ toClient' = <<>>

----------------------------------------------------------------------------
(* connect(): the reply, the pairing question and the confirm *)

Fail ==
    /\ connected' = IF connected = "pending" THEN "rejected" ELSE connected
    /\ Closed
    /\ UNCHANGED <<pairing, channel>>

\* The rest of the handler, after the pin or the user has vouched for the server.
Establish(reply) ==
    /\ SendToGateway(<<Confirm(ClientId, ClientEph, reply)>>)
    /\ channel' = ClientKey(ClientId, ClientEph, reply)
    /\ connected' = IF connected = "pending" THEN "resolved" ELSE connected
    /\ pairing' = FALSE

TheReply == Reply(ServerId, ServerEph, ClientHello(ClientId, ClientEph))

ClientReadsReply ==
    /\ channel = NoKey /\ toClient # <<>>
    /\ LET reply == Head(toClient)
           good == reply.type = "reply" /\ Genuine(ClientId, ClientEph, reply, pins)
       IN  \/ ~good /\ Fail
           \/ /\ good /\ pins # {}
              /\ Establish(reply)
              /\ toClient' = Tail(toClient)
              /\ UNCHANGED link
           \/ /\ good /\ pins = {}
              /\ pairing' = TRUE
              /\ toClient' = Tail(toClient)
              /\ UNCHANGED <<connected, channel, link, toGateway>>
    /\ UNCHANGED <<setup, keepalive, app, gateway>>

\* onPair's answer comes when the user gives it, the socket being up or not.  A client
\* without that hook accepts at once: the acceptance is then the next step.
PairAnswered ==
    /\ pairing
    /\ \/ Establish(TheReply) /\ UNCHANGED <<link, toClient>>
       \/ pairing' = FALSE /\ Closed /\ UNCHANGED channel
          /\ connected' = IF connected = "pending" THEN "rejected" ELSE connected
    /\ UNCHANGED <<setup, keepalive, app, gateway>>

----------------------------------------------------------------------------
(* Outbound *)

StartKeepalive ==
    /\ connected = "resolved" /\ ~started /\ link = "up"
    /\ started' = TRUE
    /\ nextTimer' = TRUE
    /\ UNCHANGED <<setup, link3, session, failures, partitioned, buffer, probeTimer, app,
                   gateway>>

\* _emit: held back from the first failed probe on.
Emit(frame) ==
    \/ failures > 0 /\ buffer' = Append(buffer, frame) /\ UNCHANGED toGateway
    \/ failures = 0 /\ SendToGateway(<<frame>>) /\ UNCHANGED buffer

Cmd ==
    /\ connected = "resolved" /\ sent < MaxFrames
    /\ sent' = sent + 1
    /\ waiting' = waiting \cup {sent + 1}
    /\ Emit(Frame("cmd", sent + 1))
    /\ UNCHANGED <<setup, link, toClient, session, failures, partitioned, started, nextTimer,
                   probeTimer, gateway>>

\* sendAudio and sendGap.
SendMedia ==
    /\ connected = "resolved" /\ sent < MaxFrames
    /\ sent' = sent + 1
    /\ \E type \in {"audio", "gap"} : Emit(Frame(type, sent + 1))
    /\ UNCHANGED <<setup, link, toClient, session, failures, partitioned, started, nextTimer,
                   probeTimer, waiting, gateway>>

CmdTimesOut ==
    /\ \E n \in waiting : waiting' = waiting \ {n}
    /\ UNCHANGED <<setup, link3, session, keepalive, sent, gateway>>

----------------------------------------------------------------------------
(* Inbound and keepalive *)

\* Mutant: what is flushed stays in the buffer.
FlushIfDeclaredKeeping ==
    /\ toGateway' = IF partitioned /\ link = "up" THEN toGateway \o buffer ELSE toGateway
    /\ UNCHANGED buffer

\* _flush, of a declared partition only.
FlushIfDeclared ==
    IF partitioned
    THEN SendToGateway(buffer) /\ buffer' = <<>>
    ELSE UNCHANGED <<toGateway, buffer>>

\* Mutant: the probe that was answered is left to time out.
OnLivenessKeepingProbe ==
    /\ nextTimer' = TRUE
    /\ partitioned' = FALSE /\ failures' = 0
    /\ FlushIfDeclared
    /\ UNCHANGED <<started, probeTimer>>

OnLiveness ==
    /\ probeTimer' = FALSE
    /\ nextTimer' = TRUE
    /\ partitioned' = FALSE
    /\ failures' = 0
    /\ FlushIfDeclared
    /\ UNCHANGED started

\* _onFrame: a frame is liveness only while probes are failing.
ClientReadsFrame ==
    /\ channel # NoKey /\ toClient # <<>>
    /\ toClient' = Tail(toClient)
    /\ IF failures > 0 THEN OnLiveness ELSE UNCHANGED <<keepalive, toGateway>>
    /\ waiting' = IF Head(toClient).type = "cmd" THEN waiting \ {Head(toClient).n} ELSE waiting
    /\ UNCHANGED <<setup, link, session, sent, gateway>>

Probe ==
    /\ nextTimer
    /\ Len(toGateway) + Len(toClient) < MaxInTransit
    /\ nextTimer' = FALSE
    /\ probeTimer' = TRUE
    /\ SendToGateway(<<Ping>>)
    /\ UNCHANGED <<setup, link, toClient, session, failures, partitioned, buffer, started, app,
                   gateway>>

Counted == IF failures < MaxFailures THEN failures + 1 ELSE failures

\* Mutant: a failure that declares no partition ends the keepalive.
ProbeFailsAndStops ==
    /\ probeTimer
    /\ probeTimer' = FALSE
    /\ failures' = Counted
    /\ partitioned' = (partitioned \/ Counted >= P)
    /\ nextTimer' = ~partitioned
    /\ UNCHANGED <<setup, link3, session, buffer, started, app, gateway>>

ProbeFails ==
    /\ probeTimer
    /\ probeTimer' = FALSE
    /\ failures' = Counted
    /\ partitioned' = (partitioned \/ Counted >= P)
    /\ nextTimer' = TRUE
    /\ UNCHANGED <<setup, link3, session, buffer, started, app, gateway>>

\* Frames that were in transit are still read, and a late one arms the timer again.
Close ==
    /\ connected = "resolved" /\ link = "up"
    /\ started' = FALSE /\ nextTimer' = FALSE /\ probeTimer' = FALSE
    /\ link' = "closing"
    /\ UNCHANGED <<setup, toGateway, toClient, session, failures, partitioned, buffer, app, gateway>>

\* The connection breaks: with a channel the app is told, without one connect fails.
LinkBreaks ==
    /\ link # "closed"
    /\ IF channel = NoKey THEN Fail ELSE Closed /\ UNCHANGED session
    /\ UNCHANGED <<setup, keepalive, app, gateway>>

----------------------------------------------------------------------------
(* The gateway *)

Refusal == [type |-> "error"]

\* Mutant: the client is believed before it has confirmed.
ReadHelloTrusting(hello) ==
    /\ offered' = ServerKey(ServerId, ServerEph, hello)
    /\ gwChannel' = ServerKey(ServerId, ServerEph, hello)
    /\ SendToClient(Reply(ServerId, ServerEph, hello))

\* The gateway closes behind a refusal: the client closes on reading it.
ReadHello(hello) ==
    /\ offered' = IF allowed THEN ServerKey(ServerId, ServerEph, hello) ELSE NoKey
    /\ SendToClient(IF allowed THEN Reply(ServerId, ServerEph, hello) ELSE Refusal)
    /\ UNCHANGED gwChannel

ReadConfirm(confirm) ==
    IF VerifyConfirm(ExpectedConfirm(ServerId, ServerEph, ClientHello(ClientId, ClientEph)), confirm)
    THEN gwChannel' = offered /\ offered' = NoKey /\ UNCHANGED toClient
    ELSE SendToClient(Refusal) /\ UNCHANGED <<offered, gwChannel>>

\* A ping is answered, a command echoed, and audio looped back if that is on.
Answer(frame) ==
    \/ frame.type = "ping" /\ SendToClient(Pong)
    \/ frame.type \in {"cmd", "audio"} /\ SendToClient(frame)
    \/ frame.type \in {"audio", "gap"} /\ UNCHANGED toClient

\* A sealed frame is dropped before the confirm, and while the gateway plays dead.
ReadSealed(frame) ==
    LET Noted(list) == IF frame.n = 0 THEN list ELSE Append(list, frame.n)
    IN  IF gwChannel = NoKey \/ dead
        THEN missed' = Noted(missed) /\ UNCHANGED <<toClient, heard>>
        ELSE heard' = Noted(heard) /\ Answer(frame) /\ UNCHANGED missed

GatewayReads ==
    /\ toGateway # <<>>
    /\ toGateway' = Tail(toGateway)
    /\ LET m == Head(toGateway)
       IN  \/ m.type = "hello" /\ ReadHello(m) /\ UNCHANGED <<heard, missed>>
           \/ m.type = "confirm" /\ ReadConfirm(m) /\ UNCHANGED <<heard, missed>>
           \/ IsSealed(m) /\ ReadSealed(m) /\ UNCHANGED <<offered, gwChannel>>
    /\ UNCHANGED <<setup, link, session, keepalive, app, dead>>

SetDead ==
    /\ gwChannel # NoKey
    /\ dead' = ~dead
    /\ UNCHANGED <<setup, link3, session, keepalive, app, offered, gwChannel, heard, missed>>

Next ==
    \/ ClientReadsReply \/ PairAnswered
    \/ StartKeepalive \/ Cmd \/ SendMedia \/ CmdTimesOut
    \/ ClientReadsFrame \/ Probe \/ ProbeFails \/ Close \/ LinkBreaks
    \/ GatewayReads \/ SetDead

Spec == Init /\ [][Next]_vars

\* Timers fire and messages that are in transit are read.  Nothing obliges the
\* app to send, the user to answer or the gateway to come alive.
FairSpec ==
    /\ Spec
    /\ WF_vars(ClientReadsFrame) /\ WF_vars(GatewayReads)
    /\ WF_vars(Probe) /\ WF_vars(ProbeFails)

----------------------------------------------------------------------------
(* Properties *)

\* Both ends use one key and the gateway uses none before the client has vouched
\* for it: a sealed frame never reaches the gateway ahead of the confirm that
\* opens it, however long the user took to answer.
SessionAgreed ==
    /\ connected = "resolved" => pins \subseteq {ServerId}
    /\ gwChannel # NoKey => gwChannel = channel
    /\ \A i \in DOMAIN toGateway :
          IsSealed(toGateway[i]) =>
              gwChannel # NoKey \/ \E j \in 1 .. i - 1 : toGateway[j].type = "confirm"

\* While the connection lasts, every frame the app sent is in one place and in only
\* one: held back, in transit, taken in, or dropped by a gateway that plays dead.  A
\* flush that races the keepalive may neither send a frame twice nor lose it.
Places(n) ==
    LET At(list) == Cardinality({i \in DOMAIN list : list[i] = n})
        Carrying(list) == Cardinality({i \in DOMAIN list : IsSealed(list[i]) /\ list[i].n = n})
    IN  Carrying(buffer) + Carrying(toGateway) + At(heard) + At(missed)
FrameHasOnePlace == link = "up" => \A n \in 1 .. sent : Places(n) = 1

\* A declared partition ends, with its buffer flushed, once the gateway stays
\* reachable ("On any liveness the partition clears and the whole buffer flushes",
\* ws-client.mjs:13).
PartitionHeals ==
    <>[](link = "up" /\ ~dead) => (partitioned ~> (~partitioned /\ buffer = <<>>))

============================================================================
