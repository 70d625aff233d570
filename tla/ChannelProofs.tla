---------------------------- MODULE ChannelProofs ----------------------------
(***************************************************************************)
(* The secure channel between the phone and its gateway.  For every window *)
(* size and every counter limit, ReplayWindow keeps its slots in step with *)
(* what it accepted, and implements ReplayFilter.  For any number of       *)
(* sockets, faults and taps, the phone (Reconnect) works on no handshake   *)
(* but that of its current socket, does nothing unasked, and gives no keys *)
(* to a gateway with another identity than the pinned one.                 *)
(***************************************************************************)
EXTENDS ReplayWindow, Reconnect, SequenceTheorems, TLAPS

-----------------------------------------------------------------------------
(* Two counters less than a window apart never share a slot.               *)

\* A counter has a slot in the ring.
LEMMA ModIsSlot ==
    ASSUME NEW c \in Nat
    PROVE  c % Size \in Slot
BY SizeAssumption DEF Slot

\* Two different counters of one window have different slots.
LEMMA SlotsDiffer ==
    ASSUME NEW a \in Nat, NEW b \in Nat, a < b, b - a < Size
    PROVE  a % Size # b % Size
<1> DEFINE qa == a \div Size
           qb == b \div Size
<1>1. /\ qa \in Int /\ qb \in Int
      /\ a = Size * qa + (a % Size)
      /\ b = Size * qb + (b % Size)
  BY SizeAssumption
<1>2. SUFFICES ASSUME a % Size = b % Size PROVE FALSE
  OBVIOUS
<1>3. b - a = Size * (qb - qa)
  BY <1>1, <1>2, SizeAssumption
<1>4. CASE qb - qa <= 0
  <2>1. Size * (qb - qa) <= 0
    BY <1>1, <1>4, SizeAssumption
  <2> QED BY <2>1, <1>1, <1>3, SizeAssumption
<1>5. CASE qb - qa >= 1
  <2>1. Size * (qb - qa) >= Size
    BY <1>1, <1>5, SizeAssumption
  <2> QED BY <2>1, <1>1, <1>3, SizeAssumption
<1> QED BY <1>1, <1>4, <1>5

-----------------------------------------------------------------------------
(* Typing.                                                                 *)

\* mark() keeps the highest counter below the sender's and the slots bits.
LEMMA MarkTyped ==
    ASSUME TypeOK, NEW c \in 0 .. next - 1, Mark(c)
    PROVE  /\ max' \in -1 .. next - 1
           /\ seen' \in [Slot -> {0, 1}]
BY DEF TypeOK, Mark

\* Every reachable state is well typed: in particular the highest counter
\* accepted is one that was sealed.
THEOREM TypeCorrect == Spec => []TypeOK
<1>1. Init => TypeOK
  BY CounterAssumption DEF Init, TypeOK, Verdicts
<1>2. TypeOK /\ [Next]_vars => TypeOK'
  <2> SUFFICES ASSUME TypeOK, [Next]_vars PROVE TypeOK'
    OBVIOUS
  <2> USE CounterAssumption DEF TypeOK, Verdicts
  <2>1. CASE Seal
    BY <2>1 DEF Seal
  <2>2. ASSUME NEW c \in 0 .. next - 1, Receive(c) PROVE TypeOK'
    <3>1. CASE Mark(c) /\ accepted' = accepted \cup {c} /\ verdict' = "opened"
      BY <2>2, <3>1, MarkTyped DEF Receive
    <3>2. CASE verdict' = "replay" /\ UNCHANGED <<max, seen, accepted>>
      BY <2>2, <3>2 DEF Receive
    <3> QED BY <2>2, <3>1, <3>2 DEF Receive
  <2>3. ASSUME NEW c \in 0 .. MaxCounter, ReceiveDamaged(c) PROVE TypeOK'
    BY <2>3 DEF ReceiveDamaged
  <2>4. CASE UNCHANGED vars
    BY <2>4 DEF vars
  <2> QED BY <2>1, <2>2, <2>3, <2>4 DEF Next
<1> QED BY <1>1, <1>2, PTL DEF Spec

-----------------------------------------------------------------------------
(* The window invariant.                                                   *)

\* A counter above max: the slots it jumps over are emptied, and no slot of
\* a counter that stays in the window is among them.
LEMMA MarkAhead ==
    ASSUME TypeOK, WindowTracksAccepted, NEW c \in 0 .. next - 1, c > max,
           Mark(c), accepted' = accepted \cup {c}
    PROVE  WindowTracksAccepted'
<1> USE SizeAssumption DEF TypeOK
<1>1. max' = c
  BY DEF Mark
<1>2. \A a \in accepted' : a <= max'
  BY <1>1 DEF WindowTracksAccepted
<1>3. ASSUME NEW x \in 0 .. c, c - x < Size
      PROVE  seen'[x % Size] = 1 <=> x \in accepted'
  <2>1. x % Size \in Slot
    BY ModIsSlot
  <2>2. CASE x = c
    BY <2>1, <2>2 DEF Mark
  <2>3. CASE x > max /\ x < c
    <3>1. x % Size # c % Size
      <4>1. x \in Nat /\ c \in Nat /\ x < c /\ c - x < Size
        BY <1>3, <2>3
      <4> QED BY <4>1, SlotsDiffer
    <3>2. x % Size \in Emptied(c)
      <4>1. x \in max + 1 .. c - 1
        BY <2>3
      <4> QED BY <2>1, <4>1, Zenon DEF Emptied
    <3>3. seen'[x % Size] = 0
      BY <2>1, <3>1, <3>2 DEF Mark
    <3> QED BY <3>3, <2>3 DEF WindowTracksAccepted
  <2>4. CASE x <= max
    <3>1. x % Size # c % Size
      <4>1. x \in Nat /\ c \in Nat /\ x < c /\ c - x < Size
        BY <1>3, <2>4
      <4> QED BY <4>1, SlotsDiffer
    <3>2. ASSUME NEW y \in max + 1 .. c - 1 PROVE x % Size # y % Size
      <4>1. x \in Nat /\ y \in Nat /\ x < y /\ y - x < Size
        BY <1>3, <2>4
      <4> QED BY <4>1, SlotsDiffer
    <3>3. x % Size \notin Emptied(c)
      <4>1. ~(c - max >= Size)
        BY <1>3, <2>4
      <4> QED BY <3>2, <4>1, Zenon DEF Emptied
    <3>4. seen'[x % Size] = seen[x % Size]
      BY <2>1, <3>1, <3>3 DEF Mark
    <3>5. seen[x % Size] = 1 <=> x \in accepted
      BY <1>3, <2>4 DEF WindowTracksAccepted
    <3> QED BY <3>4, <3>5, <2>4
  <2> QED BY <2>2, <2>3, <2>4
<1> QED BY <1>1, <1>2, <1>3 DEF WindowTracksAccepted

\* A late counter inside the window only sets its own slot.
LEMMA MarkBehind ==
    ASSUME TypeOK, WindowTracksAccepted, NEW c \in 0 .. next - 1, c <= max,
           Accepts(c), Mark(c), accepted' = accepted \cup {c}
    PROVE  WindowTracksAccepted'
<1> USE SizeAssumption DEF TypeOK
<1>1. max' = max /\ max - c < Size
  BY DEF Mark, Accepts
<1>2. ASSUME NEW x \in 0 .. max, max - x < Size
      PROVE  seen'[x % Size] = 1 <=> x \in accepted'
  <2>1. x % Size \in Slot
    BY ModIsSlot
  <2>2. CASE x = c
    BY <2>1, <2>2 DEF Mark
  <2>3. CASE x # c
    <3>1. x % Size # c % Size
      <4>1. x \in Nat /\ c \in Nat /\ (x < c \/ c < x)
        BY <2>3
      <4>2. CASE x < c
        <5>1. c - x < Size
          BY <1>1, <1>2, <4>2
        <5> QED BY <4>1, <4>2, <5>1, SlotsDiffer
      <4>3. CASE c < x
        <5>1. x - c < Size
          BY <1>1, <1>2, <4>3
        <5> QED BY <4>1, <4>3, <5>1, SlotsDiffer
      <4> QED BY <4>1, <4>2, <4>3
    <3>2. seen'[x % Size] = seen[x % Size]
      BY <2>1, <3>1 DEF Mark
    <3>3. seen[x % Size] = 1 <=> x \in accepted
      BY <1>2 DEF WindowTracksAccepted
    <3> QED BY <2>3, <3>2, <3>3
  <2> QED BY <2>2, <2>3
<1> QED BY <1>1, <1>2 DEF WindowTracksAccepted

\* Every step keeps each slot truthful; only an accepted frame moves one.
LEMMA WindowStep ==
    TypeOK /\ WindowTracksAccepted /\ [Next]_vars => WindowTracksAccepted'
<1> SUFFICES ASSUME TypeOK, WindowTracksAccepted, [Next]_vars
             PROVE  WindowTracksAccepted'
  OBVIOUS
<1>1. CASE Seal
  BY <1>1 DEF Seal, WindowTracksAccepted
<1>2. ASSUME NEW c \in 0 .. next - 1, Receive(c) PROVE WindowTracksAccepted'
  <2>1. CASE Accepts(c) /\ Mark(c) /\ accepted' = accepted \cup {c}
    <3>1. c > max \/ c <= max
      BY DEF TypeOK
    <3> QED BY <2>1, <3>1, MarkAhead, MarkBehind
  <2>2. CASE UNCHANGED <<max, seen, accepted>>
    BY <2>2 DEF WindowTracksAccepted
  <2> QED BY <1>2, <2>1, <2>2 DEF Receive
<1>3. ASSUME NEW c \in 0 .. MaxCounter, ReceiveDamaged(c)
      PROVE  WindowTracksAccepted'
  BY <1>3 DEF ReceiveDamaged, WindowTracksAccepted
<1>4. CASE UNCHANGED vars
  BY <1>4 DEF vars, WindowTracksAccepted
<1> QED BY <1>1, <1>2, <1>3, <1>4 DEF Next

\* For every window size, each slot tells the truth about its counter.
THEOREM WindowCorrect == Spec => []WindowTracksAccepted
<1>1. Init => WindowTracksAccepted
  BY DEF Init, WindowTracksAccepted
<1> QED BY <1>1, WindowStep, TypeCorrect, PTL DEF Spec

-----------------------------------------------------------------------------
(* The refinement.                                                         *)

\* Asking the window is asking the unbounded memory.
LEMMA AcceptsIsFresh ==
    ASSUME TypeOK, WindowTracksAccepted, NEW c \in Nat
    PROVE  Accepts(c) <=> Filter!Fresh(c)
<1> USE SizeAssumption DEF TypeOK
<1>1. CASE c > max
  BY <1>1 DEF Accepts, Filter!Fresh, WindowTracksAccepted
<1>2. CASE c <= max
  <2>1. max \in accepted
    BY <1>2 DEF WindowTracksAccepted
  <2>2. CASE max - c >= Size
    BY <1>2, <2>1, <2>2 DEF Accepts, Filter!Fresh
  <2>3. CASE max - c < Size
    <3>1. \A a \in accepted : a - c < Size
      BY <2>3 DEF WindowTracksAccepted
    <3>2. seen[c % Size] = 1 <=> c \in accepted
      BY <1>2, <2>3 DEF WindowTracksAccepted
    <3>3. seen[c % Size] \in {0, 1}
      BY ModIsSlot
    <3> QED BY <1>2, <2>3, <3>1, <3>2, <3>3 DEF Accepts, Filter!Fresh
  <2> QED BY <2>2, <2>3
<1> QED BY <1>1, <1>2

\* Every step of the ring is a step of the filter, or changes nothing of it.
LEMMA StepRefines ==
    TypeOK /\ WindowTracksAccepted /\ [Next]_vars => [Filter!Next]_Filter!vars
<1> SUFFICES ASSUME TypeOK, WindowTracksAccepted, [Next]_vars
             PROVE  [Filter!Next]_Filter!vars
  OBVIOUS
<1>1. CASE Seal
  BY <1>1 DEF Seal, Filter!Next, Filter!Seal
<1>2. ASSUME NEW c \in 0 .. next - 1, Receive(c) PROVE Filter!Next
  <2>1. Accepts(c) <=> Filter!Fresh(c)
    BY AcceptsIsFresh DEF TypeOK
  <2>2. Filter!Receive(c)
    BY <1>2, <2>1 DEF Receive, Filter!Receive
  <2> QED BY <2>2 DEF Filter!Next
<1>3. ASSUME NEW c \in 0 .. MaxCounter, ReceiveDamaged(c) PROVE Filter!Next
  <2>1. Accepts(c) <=> Filter!Fresh(c)
    BY AcceptsIsFresh, CounterAssumption
  <2>2. Filter!ReceiveDamaged(c)
    BY <1>3, <2>1 DEF ReceiveDamaged, Filter!ReceiveDamaged
  <2> QED BY <2>2 DEF Filter!Next
<1>4. CASE UNCHANGED vars
  BY <1>4 DEF vars, Filter!vars
<1> QED BY <1>1, <1>2, <1>3, <1>4 DEF Next

\* For every window size and counter limit: no frame is opened twice, none is
\* refused that an unbounded memory would open, and a damaged frame changes
\* nothing.
THEOREM WindowImplementsFilter == Spec => ImplementsFilter
<1>1. Init => Filter!Init
  BY DEF Init, Filter!Init
<1> QED
  BY <1>1, StepRefines, TypeCorrect, WindowCorrect, PTL
  DEF Spec, ImplementsFilter, Filter!Spec

-----------------------------------------------------------------------------
(* How the phone gets and loses its session (Reconnect).                   *)

CallsOfSend ==
    [stage : {"idle", "sealed", "waiting"}, key : Session \cup {None}, on : Socket \cup {None}]

Lives == {"dead", "opening", "open", "abandoned", "closing", "cancelled"}
Stages == {"new", "starting", "offered", "mute", "live", "gone"}

FieldsTyped ==
    /\ consented \in BOOLEAN /\ blocked \in BOOLEAN /\ allowed \in BOOLEAN
    /\ reconnecting \in BOOLEAN /\ keeper \in BOOLEAN
    /\ badge \in {"plain", "refused", "wiped"}
    /\ pin \in {"none", "right", "other"}
    /\ ws \in Socket \cup {None} /\ hs \in {None, ws} /\ channel \in Session \cup {None}
    /\ call \in CallsOfSend

\* A call of connect() that is in the slot has not been settled.
CallsTyped ==
    /\ calls \in Nat /\ unsettled \in SUBSET (1 .. calls)
    /\ connectCall \in unsettled \cup {None} /\ asking \in Seq(1 .. calls)

QueuesTyped == work \in Seq(Session \cup {ConnectTask}) /\ pairing \in Seq(Session)

WireTyped ==
    /\ sock \in [Socket -> Lives]
    /\ DOMAIN up = Socket /\ DOMAIN down = Socket /\ DOMAIN gw = Socket
    /\ \A k \in Socket : gw[k].stage \in Stages
    /\ \A k \in Socket : sock[k] = "dead" => up[k] = <<>> /\ down[k] = <<>>

\* The user has been asked before the phone does anything on the network.
ConsentFirst ==
    ws # None \/ Connected \/ reconnecting \/ work # <<>> \/ pairing # <<>> => consented

OnlyConnects(q) == \A i \in DOMAIN q : q[i] = ConnectTask

\* While the pinned identity is another gateway's, no keys are installed, and none
\* are on their way through a pairing dialog or the worker.
PinIsHeld ==
    pin = "other" => /\ ~Connected /\ pairing = <<>>
                     /\ OnlyConnects(work)

PhoneIInv == FieldsTyped /\ CallsTyped /\ QueuesTyped /\ WireTyped /\ ConsentFirst /\ PinIsHeld

\* Sockets are numbered from 1, so that no session is None or the task of connecting.
LEMMA NumbersApart ==
    /\ None = 0 /\ ConnectTask = 0 /\ None \notin Session
    /\ Socket \subseteq Session /\ Stale \in Session /\ Stale \notin Socket
BY BoundsAssumption DEF None, ConnectTask, Session, Socket, Stale

\* A session is renamed to a session.
LEMMA AgeIs ==
    ASSUME NEW k \in Socket
    PROVE  /\ \A s \in Session : Age(s, k) \in Session
           /\ Age(None, k) = None /\ Age(ConnectTask, k) = ConnectTask
BY NumbersApart DEF Age

\* What is queued is renamed in place.
LEMMA AgedIs ==
    ASSUME NEW k \in Socket
    PROVE  /\ \A q \in Seq(Session) : Aged(q, k) \in Seq(Session)
           /\ \A q \in Seq(Session \cup {ConnectTask}) :
                 /\ Aged(q, k) \in Seq(Session \cup {ConnectTask})
                 /\ DOMAIN Aged(q, k) = DOMAIN q
                 /\ \A i \in DOMAIN q : q[i] = ConnectTask => Aged(q, k)[i] = ConnectTask
<1>1. ASSUME NEW S, NEW q \in Seq(S), \A s \in S : Age(s, k) \in S
      PROVE  Aged(q, k) \in Seq(S) /\ DOMAIN Aged(q, k) = DOMAIN q
  <2>1. DOMAIN q = 1 .. Len(q) /\ Len(q) \in Nat /\ \A i \in 1 .. Len(q) : q[i] \in S
    OBVIOUS
  <2>2. Aged(q, k) = [i \in 1 .. Len(q) |-> Age(q[i], k)]
    BY <2>1 DEF Aged
  <2>3. \A i \in 1 .. Len(q) : Age(q[i], k) \in S
    BY <1>1, <2>1
  <2> QED BY <2>1, <2>2, <2>3
<1>2. ASSUME NEW q, NEW i \in DOMAIN q, q[i] = ConnectTask
      PROVE  Aged(q, k)[i] = ConnectTask
  BY <1>2, AgeIs DEF Aged
<1>3. \A s \in Session \cup {ConnectTask} : Age(s, k) \in Session \cup {ConnectTask}
  BY AgeIs
<1>4. \A q \in Seq(Session) : Aged(q, k) \in Seq(Session)
  BY <1>1, AgeIs
<1> QED BY <1>1, <1>2, <1>3, <1>4

\* The fields of the plugin keep their types, and a handshake that of its socket.
LEMMA FieldsStep ==
    ASSUME FieldsTyped, QueuesTyped, [PhoneNext]_phoneVars
    PROVE  FieldsTyped'
<1> USE NumbersApart DEF FieldsTyped, QueuesTyped
<1>1. CASE Unasked
  <2>1. CASE Connect
    BY <2>1 DEF Connect, session, screen, wire, net
  <2>2. CASE ForgetPairing
    BY <2>2 DEF ForgetPairing, promises, session, screen, wire, net
  <2>3. CASE AppResumes
    BY <2>3 DEF AppResumes, ScheduleReconnect, promises, screen, wire, net
  <2>4. CASE SendSeals
    BY <2>4 DEF SendSeals, OnlyCallChanges, Connected, CallsOfSend, user, session, screen, wire, net
  <2> QED BY <1>1, <2>1, <2>2, <2>3, <2>4 DEF Unasked
<1>2. CASE ConsentAnswered
  BY <1>2 DEF ConsentAnswered, session, screen, wire, net
<1>3. CASE PairingAnswered
  BY <1>3 DEF PairingAnswered, Reject, session, net
<1>4. CASE ConnectWs
  BY <1>4 DEF ConnectWs, NewHandshake, user, net
<1>5. CASE CompletePairing
  <2>1. Head(work) \in Session
    BY <1>5 DEF CompletePairing
  <2> QED BY <1>5, <2>1 DEF CompletePairing, Complete, user
<1>6. CASE Reconnect
  BY <1>6 DEF Reconnect, user, promises, screen, wire, net
<1>7. CASE SendRegisters \/ CallAnswered \/ SweepPending
  <2>1. call' \in CallsOfSend
    <3>1. CASE SendRegisters
      <4>1. Sendable(ws) => ws \in Socket
        BY DEF Sendable
      <4> QED BY <3>1, <4>1 DEF SendRegisters, CallsOfSend, Idle
    <3>2. CASE CallAnswered \/ SweepPending
      BY <3>2 DEF CallAnswered, SweepPending, CallsOfSend, Idle
    <3> QED BY <1>7, <3>1, <3>2
  <2> QED BY <1>7, <2>1 DEF SendRegisters, CallAnswered, SweepPending, OnlyCallChanges, user, session,
                            screen, wire, net
<1>8. CASE KeepaliveGivesUp
  BY <1>8 DEF KeepaliveGivesUp, user, promises, screen, net
<1>9. ASSUME NEW k \in Socket, Opens(k) PROVE FieldsTyped'
  BY <1>9 DEF Opens, user, promises, session, screen
<1>10. ASSUME NEW k \in Socket, ReadsText(k) PROVE FieldsTyped'
  BY <1>10 DEF ReadsText, HandleHello, Complete, Reject, user, screen
<1>11. ASSUME NEW k \in Socket, Fails(k) \/ Closes(k) PROVE FieldsTyped'
  <2>1. call' \in CallsOfSend
    <3>1. Age(call.key, k) \in Session \cup {None}
      BY AgeIs DEF CallsOfSend
    <3>2. \/ call' = Idle
          \/ call' = [call EXCEPT !.key = Age(@, k)]
          \/ call' = [call EXCEPT !.key = Age(@, k), !.on = IF @ = k THEN None ELSE @]
      BY <1>11 DEF Fails, Closes, DropSession, FailPending
    <3>3. CASE call' = Idle
      BY <3>3 DEF CallsOfSend, Idle
    <3>4. CASE call' = [call EXCEPT !.key = Age(@, k)]
      BY <3>1, <3>4 DEF CallsOfSend
    <3>5. CASE call' = [call EXCEPT !.key = Age(@, k), !.on = IF @ = k THEN None ELSE @]
      BY <3>1, <3>5 DEF CallsOfSend
    <3> QED BY <3>2, <3>3, <3>4, <3>5
  <2>2. reconnecting' \in BOOLEAN
    BY <1>11 DEF Fails, Closes, DropSession, ScheduleReconnect
  <2>3. UNCHANGED <<consented, pin, blocked, ws, allowed>>
    BY <1>11 DEF Fails, Closes, DropSession, Dies, user
  <2>4. keeper' \in BOOLEAN /\ badge' \in {badge, "plain"}
    BY <1>11 DEF Fails, Closes, DropSession
  <2>5. channel' \in Session \cup {None} /\ hs' \in {None, ws}
    BY <1>11 DEF Fails, Closes, DropSession
  <2> QED BY <2>1, <2>2, <2>3, <2>4, <2>5
<1>12. ASSUME NEW k \in Socket, GatewayReads(k) \/ GatewayReplies(k) \/ GatewayFailsToReply(k)
       PROVE  FieldsTyped'
  <2>1. UNCHANGED <<user, blocked, promises, session, screen, allowed>>
    BY <1>12 DEF GatewayReads, GatewayReplies, GatewayFailsToReply
  <2> QED BY <2>1 DEF user, promises, session, screen
<1>13. CASE UNCHANGED phoneVars
  BY <1>13 DEF phoneVars, user, promises, session, screen, wire, net
<1> QED
  BY <1>1, <1>2, <1>3, <1>4, <1>5, <1>6, <1>7, <1>8, <1>9, <1>10, <1>11, <1>12, <1>13
  DEF PhoneNext, Thread, SocketStep

\* A call of connect() leaves the slot when it is settled, or unsettled when another
\* takes its place; none is in the slot that has been settled.
LEMMA CallsStep ==
    ASSUME CallsTyped, [PhoneNext]_phoneVars
    PROVE  CallsTyped'
<1>1. CASE Connect
  <2>1. /\ calls' = calls + 1 /\ connectCall' = calls' /\ unsettled' = unsettled \cup {calls'}
        /\ asking' = asking \/ asking' = <<calls'>> \o asking
    BY <1>1 DEF Connect
  <2>2. 1 .. calls \subseteq 1 .. calls' /\ calls' \in 1 .. calls' /\ calls' \in Nat
    BY <2>1 DEF CallsTyped
  <2>3. asking \in Seq(1 .. calls')
    BY <2>2, SeqMonotonic, Zenon DEF CallsTyped
  <2>5. <<calls'>> \in Seq(1 .. calls')
    BY <2>2
  <2>4. asking' \in Seq(1 .. calls')
    BY <2>1, <2>3, <2>5, ConcatProperties
  <2> QED BY <2>1, <2>2, <2>4 DEF CallsTyped
<1>2. CASE ConsentAnswered
  <2>1. asking # <<>> /\ asking' = Tail(asking) /\ calls' = calls
        /\ \/ UNCHANGED <<connectCall, unsettled>>
           \/ connectCall' = None /\ unsettled' = unsettled \ {Head(asking)}
    BY <1>2 DEF ConsentAnswered, connects
  <2>2. Tail(asking) \in Seq(1 .. calls)
    BY <2>1 DEF CallsTyped
  <2> QED BY <2>1, <2>2 DEF CallsTyped
<1>3. ASSUME UNCHANGED asking, SettleConnect \/ UNCHANGED connects
      PROVE  CallsTyped'
  BY <1>3 DEF CallsTyped, SettleConnect, connects
<1>4. CASE ForgetPairing \/ AppResumes \/ SendSeals
  BY <1>3, <1>4 DEF ForgetPairing, AppResumes, SendSeals, OnlyCallChanges, promises, user
<1>5. CASE PairingAnswered \/ ConnectWs \/ CompletePairing \/ Reconnect
  BY <1>3, <1>5 DEF PairingAnswered, ConnectWs, CompletePairing, Reconnect, Reject, Complete,
                    promises, user
<1>6. CASE SendRegisters \/ CallAnswered \/ SweepPending \/ KeepaliveGivesUp
  BY <1>3, <1>6 DEF SendRegisters, CallAnswered, SweepPending, KeepaliveGivesUp, OnlyCallChanges,
                    promises, user
<1>7. ASSUME NEW k \in Socket, SocketStep(k) \/ Fails(k) PROVE CallsTyped'
  BY <1>3, <1>7 DEF SocketStep, Opens, ReadsText, HandleHello, Reject, Complete, Closes, Fails,
                    GatewayReads, GatewayReplies, GatewayFailsToReply, promises, user
<1>8. CASE UNCHANGED phoneVars
  BY <1>3, <1>8 DEF phoneVars, promises, user
<1> QED
  BY <1>1, <1>2, <1>4, <1>5, <1>6, <1>7, <1>8 DEF PhoneNext, Unasked, Thread

\* What the worker and the screen hold are sessions and tasks.
LEMMA QueuesStep ==
    ASSUME FieldsTyped, QueuesTyped, [PhoneNext]_phoneVars
    PROVE  QueuesTyped'
<1> USE NumbersApart DEF QueuesTyped
<1>1. CASE Connect
  <2>1. work' \in {work, Append(work, ConnectTask)} /\ pairing' = pairing
    BY <1>1 DEF Connect, screen
  <2> QED BY <2>1
<1>2. CASE ConsentAnswered
  <2>1. work' \in {work, Append(work, ConnectTask)} /\ pairing' = pairing
    BY <1>2 DEF ConsentAnswered, screen
  <2> QED BY <2>1
<1>3. CASE PairingAnswered
  <2>1. Head(pairing) \in Session /\ Tail(pairing) \in Seq(Session)
    BY <1>3 DEF PairingAnswered
  <2>2. /\ pairing' = Tail(pairing)
        /\ work' \in {work, Append(work, Head(pairing))}
    BY <1>3 DEF PairingAnswered
  <2>3. Append(work, Head(pairing)) \in Seq(Session \cup {ConnectTask})
    BY <2>1
  <2> QED BY <2>1, <2>2, <2>3, Zenon
<1>4. CASE ConnectWs \/ CompletePairing
  <2>1. work # <<>> /\ work' = Tail(work) /\ pairing' = pairing
    BY <1>4 DEF ConnectWs, CompletePairing
  <2> QED BY <2>1
<1>5. CASE Reconnect
  <2>1. work' \in {work, Append(work, ConnectTask)} /\ pairing' = pairing
    BY <1>5 DEF Reconnect, screen
  <2> QED BY <2>1
<1>6. ASSUME NEW k \in Socket, ReadsText(k) PROVE QueuesTyped'
  <2>1. work' = work /\ (pairing' = pairing \/ (hs # None /\ pairing' = <<hs>> \o pairing))
    BY <1>6 DEF ReadsText, HandleHello, screen
  <2>2. hs # None => hs \in Session
    BY DEF FieldsTyped
  <2>3. hs # None => <<hs>> \o pairing \in Seq(Session)
    BY <2>2
  <2> QED BY <2>1, <2>3, Zenon
<1>7. ASSUME NEW k \in Socket, Fails(k) \/ Closes(k) PROVE QueuesTyped'
  <2>1. work' = Aged(work, k) /\ pairing' = Aged(pairing, k)
    BY <1>7 DEF Fails, Closes, Dies
  <2> QED BY <2>1, AgedIs
<1>8. ASSUME \/ ForgetPairing \/ AppResumes \/ SendSeals
             \/ SendRegisters \/ CallAnswered \/ SweepPending \/ KeepaliveGivesUp
             \/ \E k \in Socket :
                   Opens(k) \/ GatewayReads(k) \/ GatewayReplies(k) \/ GatewayFailsToReply(k)
             \/ UNCHANGED phoneVars
      PROVE  QueuesTyped'
  <2>1. UNCHANGED <<work, pairing>>
    BY <1>8 DEF ForgetPairing, AppResumes, SendSeals, SendRegisters, CallAnswered, SweepPending,
                OnlyCallChanges, KeepaliveGivesUp, Opens, GatewayReads, GatewayReplies,
                 GatewayFailsToReply, phoneVars,
                screen
  <2> QED BY <2>1
<1> QED
  BY <1>1, <1>2, <1>3, <1>4, <1>5, <1>6, <1>7, <1>8 DEF PhoneNext, Unasked, Thread, SocketStep

\* A rejected socket lives on until it is closed, every other one is as it was.
LEMMA RejectKeeps ==
    ASSUME WireTyped, Reject
    PROVE  /\ sock' \in [Socket -> Lives]
           /\ \A k \in Socket : sock'[k] = "dead" => sock[k] = "dead"
BY DEF WireTyped, Reject, Lives

\* The phone sends a text on no dead socket.
LEMMA SendTextKeeps ==
    ASSUME WireTyped, ws \in Socket \cup {None}, NEW m, SendText(m)
    PROVE  /\ DOMAIN up' = Socket
           /\ \A k \in Socket : sock[k] = "dead" => up'[k] = up[k]
<1>1. CASE Sendable(ws)
  <2>1. ws \in Socket /\ sock[ws] # "dead"
    BY <1>1 DEF Sendable
  <2> QED BY <1>1, <2>1 DEF WireTyped, SendText
<1>2. CASE ~Sendable(ws)
  BY <1>2 DEF WireTyped, SendText
<1> QED BY <1>1, <1>2

\* A dead socket carries nothing, whatever is sent, refused or answered on the others.
LEMMA WireStep ==
    ASSUME FieldsTyped, QueuesTyped, WireTyped, [PhoneNext]_phoneVars
    PROVE  WireTyped'
<1>1. ws \in Socket \cup {None}
  BY DEF FieldsTyped
<1>2. CASE PairingAnswered
  <2>1. UNCHANGED <<up, down, gw>> /\ (sock' = sock \/ Reject)
    BY <1>2 DEF PairingAnswered, net
  <2> QED BY <2>1, RejectKeeps DEF WireTyped
<1>3. CASE ConnectWs
  <2>1. UNCHANGED <<up, down, gw>>
    BY <1>3 DEF ConnectWs, net
  <2>2. sock' = sock \/ \E k \in Socket : sock' = [sock EXCEPT ![k] = "opening"]
    BY <1>3 DEF ConnectWs
  <2> QED BY <2>1, <2>2 DEF WireTyped, Lives
<1>4. CASE CompletePairing
  <2>1. UNCHANGED <<sock, down, gw>> /\ SendText(Message("confirm", Head(work)))
    BY <1>4 DEF CompletePairing, Complete
  <2> QED BY <1>1, <2>1, SendTextKeeps DEF WireTyped
<1>5. CASE KeepaliveGivesUp
  <2>1. UNCHANGED <<up, down, gw>>
    BY <1>5 DEF KeepaliveGivesUp, net
  <2>2. sock' = sock \/ sock' = [sock EXCEPT ![ws] = "cancelled"]
    BY <1>5 DEF KeepaliveGivesUp
  <2> QED BY <2>1, <2>2 DEF WireTyped, Lives
<1>6. ASSUME NEW k \in Socket, Opens(k) PROVE WireTyped'
  <2>1. /\ sock' = [sock EXCEPT ![k] = IF @ = "opening" THEN "open" ELSE "closing"]
        /\ sock[k] # "dead" /\ UNCHANGED <<down, gw>>
        /\ up' = up \/ SendText(Message("hello", hs))
    BY <1>6 DEF Opens
  <2>2. /\ DOMAIN up' = Socket
        /\ \A j \in Socket : sock[j] = "dead" => up'[j] = up[j]
    BY <1>1, <2>1, SendTextKeeps DEF WireTyped
  <2> QED BY <2>1, <2>2 DEF WireTyped, Lives
<1>7. ASSUME NEW k \in Socket, ReadsText(k) PROVE WireTyped'
  <2>1. /\ gw' = gw /\ down' = [down EXCEPT ![k] = Tail(@)] /\ sock[k] # "dead"
        /\ sock' = sock \/ Reject
        /\ up' = up \/ SendText(Message("confirm", hs))
    BY <1>7 DEF ReadsText, HandleHello, Complete
  <2>2. /\ sock' \in [Socket -> Lives]
        /\ \A j \in Socket : sock'[j] = "dead" => sock[j] = "dead"
    BY <2>1, RejectKeeps DEF WireTyped
  <2>3. /\ DOMAIN up' = Socket
        /\ \A j \in Socket : sock[j] = "dead" => up'[j] = up[j]
    BY <1>1, <2>1, SendTextKeeps DEF WireTyped
  <2> QED BY <2>1, <2>2, <2>3 DEF WireTyped
<1>8. ASSUME NEW k \in Socket, Fails(k) \/ Closes(k) PROVE WireTyped'
  <2>1. Dies(k)
    BY <1>8 DEF Fails, Closes
  <2>2. /\ sock' = [sock EXCEPT ![k] = "dead"] /\ down' = [down EXCEPT ![k] = <<>>]
        /\ gw' = [gw EXCEPT ![k] = NewConn]
        /\ up' = [j \in Socket |->
                     IF j = k THEN <<>>
                     ELSE [i \in DOMAIN up[j] |-> [up[j][i] EXCEPT !.of = Age(@, k)]]]
    BY <2>1 DEF Dies
  <2>3. DOMAIN up' = Socket /\ up'[k] = <<>>
    BY <2>2
  <2>4. ASSUME NEW j \in Socket, j # k, up[j] = <<>> PROVE up'[j] = <<>>
    <3>1. up'[j] = [i \in DOMAIN up[j] |-> [up[j][i] EXCEPT !.of = Age(@, k)]]
      BY <2>2, <2>4
    <3>2. DOMAIN up[j] = {}
      BY <2>4
    <3> QED BY <3>1, <3>2
  <2> QED BY <2>2, <2>3, <2>4 DEF WireTyped, Lives, Stages, NewConn
<1>9. ASSUME NEW k \in Socket, GatewayReads(k) \/ GatewayReplies(k) \/ GatewayFailsToReply(k)
      PROVE  WireTyped'
  <2>1. /\ sock' = sock /\ sock[k] # "dead"
        /\ up' = up \/ up' = [up EXCEPT ![k] = Tail(@)]
    BY <1>9 DEF GatewayReads, GatewayReplies, GatewayFailsToReply
  <2>2. down' = down \/ \E m : down' = [down EXCEPT ![k] = Append(@, m)]
    BY <1>9 DEF GatewayReads, GatewayReplies, GatewayFailsToReply, Refuses
  <2>3. gw' = gw \/ \E stage \in Stages : \E of : gw' = [gw EXCEPT ![k] = [stage |-> stage, of |-> of]]
    BY <1>9 DEF GatewayReads, GatewayReplies, GatewayFailsToReply, Refuses, Becomes, Stages
  <2> QED BY <2>1, <2>2, <2>3 DEF WireTyped
<1>10. ASSUME \/ Unasked \/ ConsentAnswered \/ Reconnect
              \/ SendRegisters \/ CallAnswered \/ SweepPending \/ UNCHANGED phoneVars
       PROVE  WireTyped'
  <2>1. UNCHANGED wire
    BY <1>10 DEF Unasked, Connect, ForgetPairing, AppResumes, SendSeals, ConsentAnswered, Reconnect,
                 SendRegisters, CallAnswered, SweepPending, OnlyCallChanges, phoneVars
  <2> QED BY <2>1 DEF wire, net, WireTyped
<1> QED
  BY <1>2, <1>3, <1>4, <1>5, <1>6, <1>7, <1>8, <1>9, <1>10 DEF PhoneNext, Thread, SocketStep

\* Whatever makes a socket, installs keys or queues work comes of a consent.
LEMMA ConsentStep ==
    ASSUME FieldsTyped, QueuesTyped, ConsentFirst, [PhoneNext]_phoneVars
    PROVE  ConsentFirst'
<1>1. SUFFICES ASSUME ~consented, ~consented'
               PROVE  /\ ws' = None /\ channel' = None /\ ~reconnecting'
                      /\ work' = <<>> /\ pairing' = <<>>
  <2>1. consented => consented'
    BY DEF PhoneNext, Unasked, Thread, SocketStep, Connect, ConsentAnswered, PairingAnswered,
           ForgetPairing, AppResumes, SendSeals, SendRegisters, CallAnswered, OnlyCallChanges,
           ConnectWs, CompletePairing, Reconnect, SweepPending, KeepaliveGivesUp, Opens, ReadsText,
           Fails, Closes, GatewayReads, GatewayReplies, GatewayFailsToReply, phoneVars, user
  <2> QED BY <2>1 DEF ConsentFirst, Connected
<1>2. /\ ws = None /\ hs = None /\ channel = None /\ ~reconnecting
      /\ work = <<>> /\ pairing = <<>>
  BY <1>1 DEF ConsentFirst, FieldsTyped, Connected
<1>3. CASE Unasked \/ Thread
  BY <1>1, <1>2, <1>3 DEF Unasked, Thread, Connect, ForgetPairing, AppResumes, SendSeals, Connected,
                          ConsentAnswered, PairingAnswered, ConnectWs, CompletePairing, Reconnect,
                          session, screen
<1>4. ASSUME NEW k \in Socket, Fails(k) \/ Closes(k)
      PROVE  /\ ws' = None /\ channel' = None /\ ~reconnecting'
             /\ work' = <<>> /\ pairing' = <<>>
  <2>1. work' = Aged(work, k) /\ pairing' = Aged(pairing, k)
    BY <1>4 DEF Fails, Closes, Dies
  <2>2. Aged(<<>>, k) = <<>>
    BY DEF Aged
  <2>3. ws' = None /\ channel' = None
    BY <1>2, <1>4 DEF Fails, Closes, DropSession
  <2>4. ~reconnecting'
    <3>1. reconnecting' = (reconnecting \/ (consented /\ ~blocked)) \/ reconnecting' = reconnecting
      BY <1>4 DEF Fails, Closes, DropSession, ScheduleReconnect
    <3> QED BY <1>1, <1>2, <3>1, Zenon
  <2> QED BY <1>2, <2>1, <2>2, <2>3, <2>4
<1>5. ASSUME \/ SendRegisters \/ CallAnswered \/ SweepPending \/ KeepaliveGivesUp
             \/ \E k \in Socket :
                   \/ Opens(k) \/ ReadsText(k)
                   \/ GatewayReads(k) \/ GatewayReplies(k) \/ GatewayFailsToReply(k)
             \/ UNCHANGED phoneVars
      PROVE  UNCHANGED <<ws, channel, reconnecting, work, pairing>>
  BY <1>2, <1>5 DEF SendRegisters, CallAnswered, SweepPending, OnlyCallChanges, KeepaliveGivesUp,
                    Connected, Opens, ReadsText, GatewayReads, GatewayReplies,
                     GatewayFailsToReply, phoneVars, session,
                    screen
<1> QED BY <1>2, <1>3, <1>4, <1>5 DEF PhoneNext, SocketStep

\* The reply of a gateway with another identity than the pinned one installs nothing.
LEMMA PinStep ==
    ASSUME FieldsTyped, QueuesTyped, PinIsHeld, [PhoneNext]_phoneVars
    PROVE  PinIsHeld'
<1>1. SUFFICES ASSUME pin = "other", pin' = "other"
               PROVE  channel' = None /\ pairing' = <<>> /\ OnlyConnects(work')
  <2>1. pin' = "other" => pin = "other"
    BY DEF PhoneNext, Unasked, Thread, SocketStep, Connect, ConsentAnswered, PairingAnswered,
           ForgetPairing, AppResumes, SendSeals, SendRegisters, CallAnswered, OnlyCallChanges,
           ConnectWs, CompletePairing, Reconnect, SweepPending, KeepaliveGivesUp, Opens, ReadsText,
           Fails, Closes, GatewayReads, GatewayReplies, GatewayFailsToReply, phoneVars, user
  <2> QED BY <2>1 DEF PinIsHeld, Connected, OnlyConnects
<1>2. /\ channel = None /\ pairing = <<>> /\ OnlyConnects(work)
      /\ work \in Seq(Session \cup {ConnectTask})
  BY <1>1 DEF PinIsHeld, Connected, QueuesTyped
<1>3. OnlyConnects(Append(work, ConnectTask))
  BY <1>2 DEF OnlyConnects
<1>4. work # <<>> => Head(work) = ConnectTask /\ OnlyConnects(Tail(work))
  BY <1>2 DEF OnlyConnects
<1>5. CASE Unasked \/ Thread
  <2>1. work' \in {work, Append(work, ConnectTask)} \/ (work # <<>> /\ work' = Tail(work))
    BY <1>2, <1>5 DEF Unasked, Thread, Connect, ForgetPairing, AppResumes, SendSeals, OnlyCallChanges,
                      ConsentAnswered, PairingAnswered, ConnectWs, CompletePairing, Reconnect
  <2>2. channel' = None /\ pairing' = <<>>
    BY <1>1, <1>2, <1>4, <1>5
    DEF Unasked, Thread, Connect, ForgetPairing, AppResumes, SendSeals, OnlyCallChanges,
        ConsentAnswered, PairingAnswered, ConnectWs, CompletePairing, Reconnect, session, screen
  <2> QED BY <1>2, <1>3, <1>4, <2>1, <2>2
<1>6. ASSUME NEW k \in Socket, ReadsText(k)
      PROVE  channel' = None /\ pairing' = <<>> /\ work' = work
  BY <1>1, <1>2, <1>6 DEF ReadsText, HandleHello, screen
<1>7. ASSUME NEW k \in Socket, Fails(k) \/ Closes(k)
      PROVE  channel' = None /\ pairing' = <<>> /\ OnlyConnects(work')
  <2>1. work' = Aged(work, k) /\ pairing' = Aged(pairing, k)
    BY <1>7 DEF Fails, Closes, Dies
  <2>2. Aged(<<>>, k) = <<>>
    BY DEF Aged
  <2>3. OnlyConnects(Aged(work, k))
    BY <1>2, AgedIs DEF OnlyConnects
  <2>4. channel' = None
    BY <1>2, <1>7 DEF Fails, Closes, DropSession
  <2> QED BY <1>2, <2>1, <2>2, <2>3, <2>4
<1>8. ASSUME \/ SendRegisters \/ CallAnswered \/ SweepPending \/ KeepaliveGivesUp
             \/ \E k \in Socket :
                   Opens(k) \/ GatewayReads(k) \/ GatewayReplies(k) \/ GatewayFailsToReply(k)
             \/ UNCHANGED phoneVars
      PROVE  UNCHANGED <<channel, work, pairing>>
  BY <1>8 DEF SendRegisters, CallAnswered, SweepPending, OnlyCallChanges, KeepaliveGivesUp,
              Opens, GatewayReads, GatewayReplies, GatewayFailsToReply, phoneVars, session, screen
<1> QED BY <1>2, <1>5, <1>6, <1>7, <1>8 DEF PhoneNext, SocketStep

\* The invariant of the phone's connection: types, silence of dead sockets, consent and pin.
THEOREM PhoneInductive == PhoneSpec => []PhoneIInv
<1>1. PhoneInit => PhoneIInv
  <2> SUFFICES ASSUME PhoneInit PROVE PhoneIInv
    OBVIOUS
  <2>1. FieldsTyped
    BY NumbersApart DEF PhoneInit, FieldsTyped, CallsOfSend, Idle
  <2>2. CallsTyped /\ QueuesTyped /\ ConsentFirst /\ PinIsHeld
    BY DEF PhoneInit, CallsTyped, QueuesTyped, ConsentFirst, PinIsHeld, Connected, OnlyConnects
  <2>3. WireTyped
    BY DEF PhoneInit, WireTyped, Lives, Stages, NewConn
  <2> QED BY <2>1, <2>2, <2>3 DEF PhoneIInv
<1>2. PhoneIInv /\ [PhoneNext]_phoneVars => PhoneIInv'
  BY FieldsStep, CallsStep, QueuesStep, WireStep, ConsentStep, PinStep DEF PhoneIInv
<1> QED BY <1>1, <1>2, PTL DEF PhoneSpec

\* The phone's state is well typed for any number of sockets, faults and taps: whichever
\* callbacks overlap, a handshake in progress is that of the socket made last, and nothing
\* is in transit on a dead socket.
THEOREM PhoneTypeCorrect == PhoneSpec => []PhoneTypeOK
<1>1. PhoneIInv => PhoneTypeOK
  BY NumbersApart DEF PhoneIInv, FieldsTyped, CallsTyped, QueuesTyped, WireTyped, PhoneTypeOK, CallsOfSend,
                      Lives, Stages
<1> QED BY <1>1, PhoneInductive, PTL

\* No socket is made, no retry is scheduled and no keys are installed before the user has
\* consented to connect, through whatever timer, dialog or callback.
THEOREM ConsentComesFirst == PhoneSpec => []ConsentFirst
<1>1. PhoneIInv => ConsentFirst
  BY DEF PhoneIInv
<1> QED BY <1>1, PhoneInductive, PTL

\* A phone whose pin is of another identity has no session with the gateway, nor one on
\* its way through a pairing dialog or the worker, until the pairing is forgotten.
THEOREM AnotherIdentityGetsNoKeys == PhoneSpec => []PinIsHeld
<1>1. PhoneIInv => PinIsHeld
  BY DEF PhoneIInv
<1> QED BY <1>1, PhoneInductive, PTL

=============================================================================
