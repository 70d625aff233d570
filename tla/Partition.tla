------------------------------ MODULE Partition ------------------------------
(***************************************************************************)
(* The phone's uplink over a flaky link (AgentChannelPlugin.java): frames  *)
(* are sealed by several threads, buffered from the first failed keepalive *)
(* probe on, and flushed when an authenticated frame proves the peer       *)
(* alive.  Sessions end with their socket and are replaced by new ones,    *)
(* each starting a keepalive thread of its own.                            *)
(*                                                                         *)
(* outbound, flush and onFrame exclude each other (synchronized); sealing, *)
(* the keepalive threads and the socket's callbacks run beside them, so    *)
(* they are steps of their own.  A ping goes straight to the socket; it is *)
(* not in `wire`, which holds the frames given to outbound.                *)
(***************************************************************************)
EXTENDS Naturals, Sequences, FiniteSets

CONSTANTS
    LastFrame,    \* bound on the frames sealed in a behaviour
    Audio,        \* the frames that carry audio; the others carry commands
    Senders,      \* threads that may be between sealing and outbound
    MaxBuffered,  \* MAX_BUFFER_FRAMES (and bytes: frames have one size)
    Threshold,    \* partitionThreshold
    MaxFailures,  \* where the count of failures saturates in the model
    MaxSessions   \* bound on the sessions of a behaviour

Frame == 1 .. LastFrame
Session == 1 .. MaxSessions

ASSUME UplinkBounds ==
    /\ LastFrame \in Nat
    /\ Audio \subseteq Frame
    /\ Senders \in Nat
    /\ MaxBuffered \in Nat \ {0}
    /\ MaxSessions \in Nat \ {0}
    /\ Threshold \in Nat \ {0}
    /\ MaxFailures \in Nat /\ MaxFailures >= Threshold

VARIABLES
    sessions,  \* sessions established so far; the latest is that of `ws`
    channel,   \* the session whose keys are installed, 0 for none
    failures,  \* consecutive failed probes
    buffer,    \* frames held back
    keeper,    \* what each session's keepalive thread is doing
    heard,     \* keepalive threads whose probe lastRx has moved since
    seen,      \* the value of failures a keepalive thread is incrementing
    pinged,    \* a ping of the current session is still to be answered
    sealed,    \* frames sealed so far
    held,      \* frames sealed and not yet given to outbound
    queued,    \* every frame given to outbound, in order
    wire,      \* <<frame, session of the socket>>: the frames sent, in order
    trimmed    \* frames dropped from the buffer

linkVars == <<sessions, channel>>
probeVars == <<keeper, heard, seen, pinged>>
frameVars == <<buffer, sealed, held, queued, wire, trimmed>>
vars == <<linkVars, failures, probeVars, frameVars>>

Activities == {"none", "asleep", "waiting", "counting", "ended"}

TypeOK ==
    /\ sessions \in 0 .. MaxSessions
    /\ channel \in {0, sessions}
    /\ failures \in 0 .. MaxFailures
    /\ buffer \in Seq(Frame) /\ Len(buffer) <= MaxBuffered
    /\ keeper \in [Session -> Activities]
    /\ heard \in SUBSET Session
    /\ seen \in [Session -> 0 .. MaxFailures]
    /\ pinged \in BOOLEAN
    /\ sealed \in 0 .. LastFrame
    /\ held \in SUBSET Frame
    /\ queued \in Seq(Frame)
    /\ wire \in Seq(Frame \X Session)
    /\ trimmed \in SUBSET Frame

Init ==
    /\ sessions = 0
    /\ channel = 0
    /\ failures = 0
    /\ buffer = <<>>
    /\ keeper = [s \in Session |-> "none"]
    /\ heard = {}
    /\ seen = [s \in Session |-> 0]
    /\ pinged = FALSE
    /\ sealed = 0
    /\ held = {}
    /\ queued = <<>>
    /\ wire = <<>>
    /\ trimmed = {}

-----------------------------------------------------------------------------
(* The session under the uplink.                                           *)

\* Mutant: a session is established beside a live one, whose keys stay.
EstablishBeside ==
    /\ sessions < MaxSessions
    /\ sessions' = sessions + 1
    /\ channel' = IF channel = 0 THEN sessions' ELSE channel
    /\ keeper' = [keeper EXCEPT ![sessions'] = "asleep"]
    /\ pinged' = FALSE
    /\ UNCHANGED <<heard, seen, failures, frameVars>>

\* completeHandshake: new keys on a new socket, and a new keepalive thread.
\* The failures counted and the frames buffered before stay.
Establish ==
    /\ channel = 0
    /\ sessions < MaxSessions
    /\ sessions' = sessions + 1
    /\ channel' = sessions'
    /\ keeper' = [keeper EXCEPT ![sessions'] = "asleep"]
    /\ pinged' = FALSE
    /\ UNCHANGED <<heard, seen, failures, frameVars>>

\* onFailure, onClosed: the session's keys are forgotten.
SocketDies ==
    /\ channel # 0
    /\ sessions < MaxSessions
    /\ channel' = 0
    /\ UNCHANGED <<sessions, failures, probeVars, frameVars>>

-----------------------------------------------------------------------------
(* Sending.                                                                *)

\* send, sendSignal, encodeLoop: a frame is sealed under the current keys.
Seal ==
    /\ channel # 0
    /\ sealed < LastFrame
    /\ Cardinality(held) < Senders
    /\ sealed' = sealed + 1
    /\ held' = held \cup {sealed'}
    /\ UNCHANGED <<linkVars, failures, probeVars, buffer, queued, wire, trimmed>>

Frames(q) == {q[i] : i \in DOMAIN q}
Over(q) == Len(q) > MaxBuffered
Without(q, v) == [i \in 1 .. Len(q) - 1 |-> q[IF i < v THEN i ELSE i + 1]]

\* The frame to drop from q: the oldest audio, or the oldest when there is none.
Victim(q) ==
    CHOOSE v \in 1 .. Len(q) :
        IF Frames(q) \cap Audio = {} THEN v = 1
        ELSE q[v] \in Audio /\ \A i \in 1 .. v - 1 : q[i] \notin Audio

\* Mutant: the oldest frame is dropped, whatever it carries.
TrimOldest(q) == IF Over(q) THEN Tail(q) ELSE q

\* trimBuffer: every frame added is followed by a trim and frames have one
\* size, so its loops drop one frame at most.
Trim(q) == IF Over(q) THEN Without(q, Victim(q)) ELSE q

\* Frames sent on the current socket, whether or not it is still alive.
OnSocket(q) == [i \in DOMAIN q |-> <<q[i], sessions>>]

\* Mutant: frames are held back only once the partition is declared.
OutboundUntilDeclared(n) ==
    /\ n \in held
    /\ held' = held \ {n}
    /\ queued' = Append(queued, n)
    /\ IF failures >= Threshold
       THEN LET q == Append(buffer, n) IN
            /\ buffer' = Trim(q)
            /\ trimmed' = trimmed \cup (Frames(q) \ Frames(buffer'))
            /\ wire' = wire
       ELSE /\ wire' = Append(wire, <<n, sessions>>)
            /\ UNCHANGED <<buffer, trimmed>>
    /\ UNCHANGED <<linkVars, failures, probeVars, sealed>>

\* outbound: held back while there is trouble, sent otherwise.
Outbound(n) ==
    /\ n \in held
    /\ held' = held \ {n}
    /\ queued' = Append(queued, n)
    /\ IF failures > 0
       THEN LET q == Append(buffer, n) IN
            /\ buffer' = Trim(q)
            /\ trimmed' = trimmed \cup (Frames(q) \ Frames(buffer'))
            /\ wire' = wire
       ELSE /\ wire' = Append(wire, <<n, sessions>>)
            /\ UNCHANGED <<buffer, trimmed>>
    /\ UNCHANGED <<linkVars, failures, probeVars, sealed>>

-----------------------------------------------------------------------------
(* Receiving.                                                              *)

\* The keepalive threads that compare lastRx with what it was at their probe.
Listening == {s \in Session : keeper[s] \in {"waiting", "counting"}}

\* onFrame of an authenticated frame: it resets the failures, flushes the
\* buffer if there were any, and moves lastRx.
Hear ==
    /\ channel # 0
    /\ failures' = 0
    /\ heard' = heard \cup Listening
    /\ IF failures > 0
       THEN buffer' = <<>> /\ wire' = wire \o OnSocket(buffer)
       ELSE UNCHANGED <<buffer, wire>>
    /\ UNCHANGED <<linkVars, keeper, seen, sealed, held, queued, trimmed>>

\* The peer answers a ping ...
Pong == pinged /\ pinged' = FALSE /\ Hear

\* ... and sends frames of its own accord, which nothing obliges it to.
PeerSpeaks == pinged' = pinged /\ Hear

-----------------------------------------------------------------------------
(* The keepalive threads.  One that sleeps over the end of its session and  *)
(* the start of the next goes on beside the new session's own.             *)

Becomes(s, activity) == keeper' = [keeper EXCEPT ![s] = activity]

\* The thread wakes with no session, and returns.
WakeToNothing(s) ==
    /\ keeper[s] = "asleep"
    /\ channel = 0
    /\ Becomes(s, "ended")
    /\ UNCHANGED <<linkVars, failures, heard, seen, pinged, frameVars>>

\* The thread wakes and sends a probe.
Probe(s) ==
    /\ keeper[s] = "asleep"
    /\ channel # 0
    /\ Becomes(s, "waiting")
    /\ pinged' = TRUE
    /\ UNCHANGED <<linkVars, failures, heard, seen, frameVars>>

\* lastRx moved before the deadline.
ProbeAcked(s) ==
    /\ keeper[s] = "waiting"
    /\ s \in heard
    /\ Becomes(s, "asleep")
    /\ heard' = heard \ {s}
    /\ UNCHANGED <<linkVars, failures, seen, pinged, frameVars>>

\* The deadline passes: `failures++` reads ...
ProbeTimesOut(s) ==
    /\ keeper[s] = "waiting"
    /\ s \notin heard
    /\ Becomes(s, "counting")
    /\ seen' = [seen EXCEPT ![s] = failures]
    /\ UNCHANGED <<linkVars, failures, heard, pinged, frameVars>>

Incremented(s) == IF seen[s] < MaxFailures THEN seen[s] + 1 ELSE MaxFailures

\* Mutant: the thread ends when the partition is declared.
CountFailureAndStop(s) ==
    /\ keeper[s] = "counting"
    /\ failures' = Incremented(s)
    /\ Becomes(s, IF failures' >= Threshold THEN "ended" ELSE "asleep")
    /\ seen' = [seen EXCEPT ![s] = 0]
    /\ heard' = heard \ {s}
    /\ UNCHANGED <<linkVars, pinged, frameVars>>

\* ... and writes, and the thread backs off.
CountFailure(s) ==
    /\ keeper[s] = "counting"
    /\ failures' = Incremented(s)
    /\ Becomes(s, "asleep")
    /\ seen' = [seen EXCEPT ![s] = 0]
    /\ heard' = heard \ {s}
    /\ UNCHANGED <<linkVars, pinged, frameVars>>

\* The link has been silent for twice the longest interval: the thread
\* cancels the socket, whose onFailure ends the session, and returns.
GiveUpSocket(s) ==
    /\ keeper[s] = "counting"
    /\ failures' = Incremented(s)
    /\ failures' >= Threshold
    /\ s \notin heard
    /\ channel = 0 \/ sessions < MaxSessions
    /\ Becomes(s, "ended")
    /\ channel' = 0
    /\ seen' = [seen EXCEPT ![s] = 0]
    /\ heard' = heard \ {s}
    /\ UNCHANGED <<sessions, pinged, frameVars>>

-----------------------------------------------------------------------------
Keepalive(s) ==
    \/ WakeToNothing(s) \/ Probe(s) \/ ProbeAcked(s) \/ ProbeTimesOut(s)
    \/ CountFailure(s)

Next ==
    \/ Establish \/ SocketDies
    \/ Seal \/ \E n \in Frame : Outbound(n)
    \/ Pong \/ PeerSpeaks
    \/ \E s \in Session : Keepalive(s) \/ GiveUpSocket(s)

Spec == Init /\ [][Next]_vars

(***************************************************************************)
(* The keepalive thread is scheduled, the phone reconnects, and the link   *)
(* recovers in the end: a ping is answered sooner or later, though perhaps *)
(* long after its probe has timed out.                                     *)
(***************************************************************************)
Fairness ==
    /\ \A s \in Session : WF_vars(Keepalive(s))
    /\ WF_vars(Establish)
    /\ WF_vars(Pong)

FairSpec == Spec /\ Fairness

-----------------------------------------------------------------------------
(* Properties.                                                             *)

\* Frames are held back only while there is trouble: once the count of
\* failures is back to zero nothing is stranded in the buffer, whatever the
\* keepalive threads, the senders and the reader did in between.
HeldBackOnlyInTrouble == failures = 0 => buffer = <<>>

\* a was given to outbound before b.
Before(a, b) == \E i, j \in DOMAIN queued : i < j /\ queued[i] = a /\ queued[j] = b

Out == [i \in DOMAIN wire |-> wire[i][1]] \o buffer

\* What has been sent, followed by what is held back, is what was given to
\* outbound in that order, without what was trimmed: no frame overtakes
\* another, none is lost otherwise and none is sent twice.
SentInOrder ==
    /\ Frames(Out) = Frames(queued) \ trimmed
    /\ \A i, j \in DOMAIN Out : i < j => Before(Out[i], Out[j]) /\ Out[i] # Out[j]

\* No frame is stranded, lost, doubled or overtaken.
UplinkKept == HeldBackOnlyInTrouble /\ SentInOrder

\* "the OLDEST AUDIO frames are dropped first ..., commands are kept": no
\* command is dropped while there is still audio to drop.
CommandsOutliveAudio ==
    [][trimmed' \ trimmed \subseteq Audio
       \/ Frames(buffer') \cap Audio = {}]_vars

\* Under FairSpec the buffer is flushed: whatever probes time out, one
\* keepalive thread of the last session goes on probing.
BufferDrains == buffer # <<>> ~> buffer = <<>>

=============================================================================
