---------------------------- MODULE StreamProofs ----------------------------
(***************************************************************************)
(* For every number of frames, of probes that may fail and of messages in  *)
(* transit: both ends agree on the session's key and the gateway opens no  *)
(* frame before the confirm; the keepalive has one timer; and while the    *)
(* connection lasts every frame the app sent is in one place.              *)
(***************************************************************************)
EXTENDS Stream, FiniteSetTheorems, SequenceTheorems, TLAPS

-----------------------------------------------------------------------------
(* The inductive invariant.                                                *)

Hello == ClientHello(ClientId, ClientEph)
TheConfirm == Confirm(ClientId, ClientEph, TheReply)
Key == ClientKey(ClientId, ClientEph, TheReply)
SealedUp == [type : {"ping", "gap", "cmd", "audio"}, n : 0 .. MaxFrames]
SealedDown == [type : {"pong", "cmd", "audio"}, n : 0 .. MaxFrames]
UpMessage == {Hello, TheConfirm} \cup SealedUp
DownMessage == {TheReply, Refusal} \cup SealedDown

\* How far the session is, as both ends and the messages in transit have it.
Greeting ==
    /\ link = "up" /\ toGateway = <<Hello>> /\ toClient = <<>>
    /\ channel = NoKey /\ gwChannel = NoKey /\ ~pairing
Answered ==
    /\ link = "up" /\ toGateway = <<>>
    /\ toClient = <<Refusal>> \/ (toClient = <<TheReply>> /\ offered = Key)
    /\ channel = NoKey /\ gwChannel = NoKey /\ ~pairing
Asking ==
    /\ link = "up" /\ toGateway = <<>> /\ toClient = <<>>
    /\ channel = NoKey /\ gwChannel = NoKey /\ pairing /\ pins = {} /\ offered = Key
Confirming ==
    /\ link # "closed" /\ toClient = <<>> /\ toGateway \in Seq(UpMessage)
    /\ toGateway # <<>> /\ Head(toGateway) = TheConfirm /\ Tail(toGateway) \in Seq(SealedUp)
    /\ channel = Key /\ gwChannel = NoKey /\ ~pairing /\ offered = Key
Open ==
    /\ link # "closed" /\ toGateway \in Seq(SealedUp) /\ toClient \in Seq(SealedDown)
    /\ channel = Key /\ gwChannel = Key /\ ~pairing
Over ==
    /\ link = "closed" /\ toGateway = <<>> /\ toClient = <<>>
    /\ channel = Key \/ (channel = NoKey /\ gwChannel = NoKey)
    /\ gwChannel \in {NoKey, Key}
    /\ pairing => pins = {} /\ channel = NoKey
Phase == Greeting \/ Answered \/ Asking \/ Confirming \/ Open \/ Over

\* What the client may do follows from what it has: no timer before connect
\* resolved, no failure counted before the keepalive runs.
ClientInv ==
    /\ buffer \in Seq(SealedUp)
    /\ connected = "resolved" => channel = Key /\ pins \subseteq {ServerId}
    /\ started => connected = "resolved"
    /\ link = "up" /\ ~started => ~nextTimer /\ ~probeTimer /\ failures = 0

\* FrameHasOnePlace for the numbers not used yet as well.
Count(list, X) == Cardinality({i \in DOMAIN list : list[i] \in X})
Numbered(n) == {m \in SealedUp : m.n = n}
Total(n) == Count(buffer, Numbered(n)) + Count(toGateway, Numbered(n))
            + Count(heard, {n}) + Count(missed, {n})
OnePlaceEach == link = "up" => \A n \in 1 .. MaxFrames : Total(n) = IF n <= sent THEN 1 ELSE 0

IInv == TypeOK /\ Phase /\ ClientInv /\ OnePlaceEach

-----------------------------------------------------------------------------
(* The handshake: what the two ends compute from genuine messages.         *)

\* Both ends derive one key.
LEMMA KeysMeet == ServerKey(ServerId, ServerEph, Hello) = Key
BY DEF ServerKey, Key, ClientKey, SessionKey, Hello, ClientHello, TheReply, Reply

\* A key is something.
LEMMA KeyIsSome == Key # NoKey
BY DEF Key, ClientKey, SessionKey, NoKey

\* The gateway's reply is genuine for a client that has pinned no one else, and
\* the client's confirm is what the gateway expects.
LEMMA HandshakeMeets ==
    /\ Reply(ServerId, ServerEph, Hello) = TheReply
    /\ Genuine(ClientId, ClientEph, TheReply, pins) <=> (pins # {} => ServerId \in pins)
    /\ VerifyConfirm(ExpectedConfirm(ServerId, ServerEph, Hello), TheConfirm)
<1>1. Reply(ServerId, ServerEph, Hello) = TheReply
  BY DEF TheReply, Hello
<1>2. /\ TheReply.identity = ServerId
      /\ TheReply.mac = HandshakeMac(Key, "server",
                                     <<ClientId, ClientEph, ServerId, ServerEph>>)
  BY KeysMeet DEF TheReply, Reply, Hello, ClientHello, ServerTranscript, Transcript
<1>3. ClientTranscript(ClientId, ClientEph, TheReply) = <<ClientId, ClientEph, ServerId, ServerEph>>
  BY DEF ClientTranscript, Transcript, TheReply, Reply
<1>4. Genuine(ClientId, ClientEph, TheReply, pins) <=> (pins # {} => ServerId \in pins)
  BY <1>2, <1>3 DEF Genuine, Key
<1>5. ServerTranscript(ServerId, ServerEph, Hello) = <<ClientId, ClientEph, ServerId, ServerEph>>
  BY DEF ServerTranscript, Transcript, Hello, ClientHello
<1>6. TheConfirm.mac = HandshakeMac(Key, "client", <<ClientId, ClientEph, ServerId, ServerEph>>)
  BY <1>3 DEF TheConfirm, Confirm, Key
<1>7. VerifyConfirm(ExpectedConfirm(ServerId, ServerEph, Hello), TheConfirm)
  BY <1>5, <1>6, KeysMeet DEF VerifyConfirm, ExpectedConfirm
<1> QED BY <1>1, <1>4, <1>7

\* What a message is can be told from its type.
LEMMA Kinds ==
    /\ Hello.type = "hello" /\ TheConfirm.type = "confirm"
    /\ TheReply.type = "reply" /\ Refusal.type = "error"
    /\ \A m \in SealedUp : /\ m.type \in {"ping", "gap", "cmd", "audio"} /\ m.n \in 0 .. MaxFrames
                           /\ IsSealed(m) /\ m \in Sealed
    /\ \A m \in SealedDown : m.type \in {"pong", "cmd", "audio"} /\ m.n \in 0 .. MaxFrames
    /\ Ping \in SealedUp /\ Ping.n = 0 /\ Pong \in SealedDown
<1>1. /\ Hello.type = "hello" /\ TheConfirm.type = "confirm"
      /\ TheReply.type = "reply" /\ Refusal.type = "error"
  BY DEF Hello, ClientHello, TheConfirm, Confirm, TheReply, Reply, Refusal
<1>2. \A m \in SealedUp : /\ m.type \in {"ping", "gap", "cmd", "audio"} /\ m.n \in 0 .. MaxFrames
                          /\ IsSealed(m) /\ m \in Sealed
  BY DEF SealedUp, IsSealed, Sealed
<1>3. \A m \in SealedDown : m.type \in {"pong", "cmd", "audio"} /\ m.n \in 0 .. MaxFrames
  BY DEF SealedDown
<1>4. Ping \in SealedUp /\ Ping.n = 0 /\ Pong \in SealedDown
  BY FrameAssumption DEF Ping, Pong, Frame, SealedUp, SealedDown
<1> QED BY <1>1, <1>2, <1>3, <1>4

\* A frame of the app is a sealed frame of its number, one that is echoed another.
LEMMA FramesAreSealed ==
    ASSUME NEW n \in 0 .. MaxFrames
    PROVE  /\ \A type \in {"cmd", "audio", "gap"} :
                 Frame(type, n) \in SealedUp /\ Frame(type, n).n = n
           /\ \A m \in SealedUp : m.type \in {"cmd", "audio"} => m \in SealedDown
BY DEF Frame, SealedUp, SealedDown

-----------------------------------------------------------------------------
(* Counting in a sequence.                                                 *)

\* A set moved up by k has as many elements.
LEMMA ShiftedCardinality ==
    ASSUME NEW n \in Nat, NEW k \in Nat, NEW A \in SUBSET (1 .. n)
    PROVE  LET B == {j \in k + 1 .. k + n : j - k \in A}
           IN  IsFiniteSet(A) /\ IsFiniteSet(B) /\ Cardinality(B) = Cardinality(A)
<1> DEFINE B == {j \in k + 1 .. k + n : j - k \in A}
           f == [i \in A |-> i + k]
<1>1. IsFiniteSet(A)
  <2>1. IsFiniteSet(1 .. n)
    BY FS_Interval
  <2> QED BY <2>1, FS_Subset
<1>2. f \in [A -> B]
  OBVIOUS
<1>3. \A a, b \in A : f[a] = f[b] => a = b
  OBVIOUS
<1>4. \A j \in B : \E a \in A : f[a] = j
  <2> SUFFICES ASSUME NEW j \in B PROVE \E a \in A : f[a] = j
    OBVIOUS
  <2>1. j - k \in A /\ j - k + k = j
    OBVIOUS
  <2> QED BY <2>1
<1>5. f \in Bijection(A, B)
  BY <1>2, <1>3, <1>4 DEF Bijection, Injection, Surjection, IsInjective
<1>6. ExistsBijection(A, B)
  BY <1>5 DEF ExistsBijection
<1> HIDE DEF B, f
<1>7. IsFiniteSet(B) /\ Cardinality(B) = Cardinality(A)
  BY <1>1, <1>6, FS_Bijection
<1> QED BY <1>1, <1>7 DEF B

\* A count is a number, that of a concatenation the sum of the two counts.
LEMMA CountConcat ==
    ASSUME NEW S, NEW p \in Seq(S), NEW q \in Seq(S), NEW X
    PROVE  /\ Count(p, X) \in Nat /\ Count(q, X) \in Nat
           /\ Count(p \o q, X) = Count(p, X) + Count(q, X)
<1> DEFINE n == Len(p)
           l == Len(q)
           A == {i \in 1 .. n : p[i] \in X}
           C == {i \in 1 .. l : q[i] \in X}
           B == {j \in n + 1 .. n + l : j - n \in C}
           D == {i \in 1 .. n + l : (p \o q)[i] \in X}
<1>1. n \in Nat /\ l \in Nat /\ DOMAIN p = 1 .. n /\ DOMAIN q = 1 .. l
  OBVIOUS
<1>2. p \o q \in Seq(S) /\ Len(p \o q) = n + l
  OBVIOUS
<1>3. DOMAIN (p \o q) = 1 .. n + l
  BY <1>2, <1>1, LenProperties
<1>4. \A i \in 1 .. n : (p \o q)[i] = p[i]
  OBVIOUS
<1>5. \A i \in n + 1 .. n + l : (p \o q)[i] = q[i - n]
  OBVIOUS
<1>6. Count(p, X) = Cardinality(A) /\ Count(q, X) = Cardinality(C)
      /\ Count(p \o q, X) = Cardinality(D)
  BY <1>1, <1>3, Zenon DEF Count
<1>7. A \subseteq 1 .. n /\ C \subseteq 1 .. l
  OBVIOUS
<1> HIDE DEF n, l
<1>8. D = A \cup B
  <2>1. \A i \in 1 .. n + l : i \in 1 .. n \/ i \in n + 1 .. n + l
    BY <1>1
  <2>2. \A i \in n + 1 .. n + l : i \in 1 .. n + l /\ i - n \in 1 .. l
    BY <1>1
  <2>3. \A i \in 1 .. n : i \in 1 .. n + l
    BY <1>1
  <2>4. ASSUME NEW i \in D PROVE i \in A \cup B
    BY <2>1, <2>2, <1>4, <1>5
  <2>5. ASSUME NEW i \in A PROVE i \in D
    BY <2>3, <1>4
  <2>6. ASSUME NEW i \in B PROVE i \in D
    BY <2>2, <1>5
  <2> QED BY <2>4, <2>5, <2>6
<1>9. A \cap B = {}
  BY <1>1
<1>10. IsFiniteSet(A)
  BY <1>1, <1>7, FS_Interval, FS_Subset
<1>11. C \in SUBSET (1 .. l)
  BY <1>7
<1> HIDE DEF C
<1>12. IsFiniteSet(C) /\ IsFiniteSet(B) /\ Cardinality(B) = Cardinality(C)
  BY <1>1, <1>11, ShiftedCardinality
<1> HIDE DEF A, B, D
<1>13. Cardinality(D) = Cardinality(A) + Cardinality(B) - Cardinality(A \cap B)
  BY <1>8, <1>10, <1>12, FS_Union
<1>14. Cardinality(A) \in Nat /\ Cardinality(B) \in Nat
  BY <1>10, <1>12, FS_CardinalityType
<1>15. Cardinality(A \cap B) = 0
  BY <1>9, FS_EmptySet
<1>16. Cardinality(D) = Cardinality(A) + Cardinality(B)
  BY <1>13, <1>14, <1>15
<1> QED BY <1>6, <1>12, <1>14, <1>16

\* The counts of the empty sequence and of a single element.
LEMMA CountSmall ==
    ASSUME NEW X, NEW e
    PROVE  /\ Count(<<>>, X) = 0
           /\ Count(<<e>>, X) = IF e \in X THEN 1 ELSE 0
<1>1. {i \in DOMAIN <<>> : <<>>[i] \in X} = {}
  OBVIOUS
<1>2. Count(<<>>, X) = 0
  BY <1>1, FS_EmptySet DEF Count
<1>3. {i \in DOMAIN <<e>> : <<e>>[i] \in X} = IF e \in X THEN {1} ELSE {}
  OBVIOUS
<1>4. Count(<<e>>, X) = IF e \in X THEN 1 ELSE 0
  BY <1>3, FS_EmptySet, FS_Singleton DEF Count
<1> QED BY <1>2, <1>4

\* One more element at the end, one less at the head.
LEMMA CountAppend ==
    ASSUME NEW S, NEW q \in Seq(S), NEW e \in S, NEW X
    PROVE  /\ Count(q, X) \in Nat
           /\ Count(q \o <<e>>, X) = Count(q, X) + IF e \in X THEN 1 ELSE 0
<1>1. <<e>> \in Seq(S)
  OBVIOUS
<1>2. /\ Count(q, X) \in Nat
      /\ Count(q \o <<e>>, X) = Count(q, X) + Count(<<e>>, X)
  BY <1>1, CountConcat
<1>3. Count(<<e>>, X) = IF e \in X THEN 1 ELSE 0
  BY CountSmall
<1> QED BY <1>2, <1>3, Zenon

\* Taking the head off takes it from the count.
LEMMA CountTail ==
    ASSUME NEW S, NEW q \in Seq(S), q # <<>>, NEW X
    PROVE  /\ Count(Tail(q), X) \in Nat
           /\ Count(q, X) = (IF Head(q) \in X THEN 1 ELSE 0) + Count(Tail(q), X)
<1>1. <<Head(q)>> \in Seq(S) /\ Tail(q) \in Seq(S)
  OBVIOUS
<1>2. q = <<Head(q)>> \o Tail(q)
  OBVIOUS
<1>3. /\ Count(Tail(q), X) \in Nat
      /\ Count(<<Head(q)>> \o Tail(q), X) = Count(<<Head(q)>>, X) + Count(Tail(q), X)
  BY <1>1, CountConcat
<1>4. Count(<<Head(q)>>, X) = IF Head(q) \in X THEN 1 ELSE 0
  BY CountSmall
<1> QED BY <1>2, <1>3, <1>4, Zenon

-----------------------------------------------------------------------------
(* What is in transit, and the steps.                                      *)

\* Only messages of the two protocols are in transit.
LEMMA TransitTyped ==
    ASSUME Phase
    PROVE  /\ toGateway \in Seq(UpMessage) /\ toClient \in Seq(DownMessage)
           /\ \A i \in DOMAIN toGateway : toGateway[i] \in UpMessage
           /\ channel \in {NoKey, Key} /\ gwChannel \in {NoKey, Key}
<1>1. toGateway \in Seq(UpMessage)
  <2>1. <<Hello>> \in Seq(UpMessage)
    BY DEF UpMessage
  <2>2. \A s \in Seq(SealedUp) : s \in Seq(UpMessage)
    <3>1. SealedUp \subseteq UpMessage
      BY DEF UpMessage
    <3> QED BY <3>1, SeqMonotonic, Zenon
  <2>3. <<>> \in Seq(UpMessage)
    OBVIOUS
  <2> QED BY <2>1, <2>2, <2>3, Zenon DEF Phase, Greeting, Answered, Asking, Confirming, Open, Over
<1>2. toClient \in Seq(DownMessage)
  <2>1. <<TheReply>> \in Seq(DownMessage) /\ <<Refusal>> \in Seq(DownMessage)
    BY DEF DownMessage
  <2>2. \A s \in Seq(SealedDown) : s \in Seq(DownMessage)
    <3>1. SealedDown \subseteq DownMessage
      BY DEF DownMessage
    <3> QED BY <3>1, SeqMonotonic, Zenon
  <2>3. <<>> \in Seq(DownMessage)
    OBVIOUS
  <2> QED BY <2>1, <2>2, <2>3, Zenon DEF Phase, Greeting, Answered, Asking, Confirming, Open, Over
<1>3. channel \in {NoKey, Key} /\ gwChannel \in {NoKey, Key}
  BY DEF Phase, Greeting, Answered, Asking, Confirming, Open, Over
<1> QED BY <1>1, <1>2, <1>3

\* What a message at the head of the queue is, by its type.
LEMMA HeadIsKnown ==
    ASSUME Phase, toGateway # <<>>
    PROVE  /\ Head(toGateway) \in UpMessage
           /\ IsSealed(Head(toGateway)) => Head(toGateway) \in SealedUp
           /\ Head(toGateway).type = "hello" => Head(toGateway) = Hello
           /\ Head(toGateway).type = "confirm" => Head(toGateway) = TheConfirm
<1>1. Head(toGateway) \in UpMessage
  BY TransitTyped
<1> QED BY <1>1, Kinds DEF UpMessage, IsSealed

\* Init is a greeting.
LEMMA InitPhase == Init => TypeOK /\ Phase /\ ClientInv
<1> SUFFICES ASSUME Init PROVE TypeOK /\ Phase /\ ClientInv
  OBVIOUS
<1>1. TypeOK
  <2>1. 0 \in 0 .. MaxFailures /\ 0 \in 0 .. MaxFrames
    BY PAssumption, FrameAssumption
  <2>2. \A S : <<>> \in Seq(S)
    OBVIOUS
  <2> QED BY <2>1, <2>2, Zenon DEF Init, TypeOK
<1>2. Phase
  BY DEF Init, Phase, Greeting, Hello
<1>3. ClientInv
  <2>1. <<>> \in Seq(SealedUp)
    OBVIOUS
  <2> QED BY <2>1, Zenon DEF Init, ClientInv
<1> QED BY <1>1, <1>2, <1>3

\* Typing is kept.
LEMMA TypeStep ==
    ASSUME TypeOK, Phase, ClientInv, [Next]_vars
    PROVE  TypeOK'
<1> USE PAssumption, FrameAssumption
<1>a. /\ failures \in 0 .. MaxFailures /\ sent \in 0 .. MaxFrames
      /\ (partitioned => failures >= P)
  BY Zenon DEF TypeOK
<1>b. buffer \in Seq(Sealed) /\ heard \in Seq(1 .. MaxFrames) /\ missed \in Seq(1 .. MaxFrames)
  BY Zenon DEF TypeOK
<1>c. /\ started \in BOOLEAN /\ nextTimer \in BOOLEAN /\ probeTimer \in BOOLEAN
      /\ partitioned \in BOOLEAN /\ (started => nextTimer # probeTimer)
  BY Zenon DEF TypeOK
<1>1. CASE ClientReadsReply
  BY <1>1 DEF TypeOK, ClientReadsReply, Fail, Closed, Establish, SendToGateway, setup, keepalive,
         app, gateway
<1>2. CASE PairAnswered
  BY <1>2 DEF TypeOK, PairAnswered, Closed, Establish, SendToGateway, setup, keepalive, app, gateway
<1>3. CASE StartKeepalive
  BY <1>3 DEF TypeOK, ClientInv, StartKeepalive, setup, link3, session, app, gateway
<1>4. CASE Cmd
  <2>1. sent + 1 \in 1 .. MaxFrames /\ sent + 1 \in 0 .. MaxFrames
    BY <1>4, <1>a DEF Cmd
  <2>2. Frame("cmd", sent + 1) \in Sealed
    BY <2>1, FramesAreSealed, Kinds
  <2>3. buffer' \in Seq(Sealed)
    <3>1. buffer' = buffer \/ buffer' = Append(buffer, Frame("cmd", sent + 1))
      BY <1>4 DEF Cmd, Emit
    <3>2. buffer \in Seq(Sealed)
      BY <1>b
    <3>3. Append(buffer, Frame("cmd", sent + 1)) \in Seq(Sealed)
      BY <2>2, <3>2, AppendProperties
    <3> QED BY <3>1, <3>2, <3>3, Zenon
  <2>4. sent' \in 0 .. MaxFrames /\ waiting' \subseteq 1 .. MaxFrames
    BY <1>4, <2>1 DEF TypeOK, Cmd
  <2>5. toGateway' = toGateway \/ link = "up"
    BY <1>4 DEF Cmd, Emit, SendToGateway
  <2> QED BY <1>4, <2>3, <2>4, <2>5 DEF TypeOK, Cmd, setup, session, gateway
<1>5. CASE SendMedia
  <2>1. sent + 1 \in 1 .. MaxFrames /\ sent + 1 \in 0 .. MaxFrames
    BY <1>5, <1>a DEF SendMedia
  <2>2. \A type \in {"audio", "gap"} : Frame(type, sent + 1) \in Sealed
    BY <2>1, FramesAreSealed, Kinds
  <2>3. buffer' \in Seq(Sealed)
    <3>1. \/ buffer' = buffer
          \/ \E type \in {"audio", "gap"} : buffer' = Append(buffer, Frame(type, sent + 1))
      BY <1>5 DEF SendMedia, Emit
    <3>2. buffer \in Seq(Sealed)
      BY <1>b
    <3>3. \A type \in {"audio", "gap"} : Append(buffer, Frame(type, sent + 1)) \in Seq(Sealed)
      BY <2>2, <3>2, AppendProperties
    <3> QED BY <3>1, <3>2, <3>3, Zenon
  <2>4. sent' \in 0 .. MaxFrames
    BY <1>5, <2>1 DEF TypeOK, SendMedia
  <2>5. toGateway' = toGateway \/ link = "up"
    BY <1>5 DEF SendMedia, Emit, SendToGateway
  <2> QED BY <1>5, <2>3, <2>4, <2>5 DEF TypeOK, SendMedia, setup, session, gateway
<1>6. CASE CmdTimesOut
  BY <1>6 DEF TypeOK, CmdTimesOut, setup, link3, session, keepalive, gateway
<1>7. CASE ClientReadsFrame
  <2>1. link # "closed"
    BY <1>7 DEF TypeOK, ClientReadsFrame
  <2>2. buffer' \in Seq(Sealed)
    <3>1. buffer' = buffer \/ buffer' = <<>>
      BY <1>7 DEF ClientReadsFrame, OnLiveness, FlushIfDeclared, keepalive
    <3> QED BY <1>b, <3>1, EmptySeq, Zenon
  <2>3. /\ failures' \in 0 .. MaxFailures /\ partitioned' \in BOOLEAN
        /\ partitioned' => failures' >= P
    <3>1. \/ failures' = failures /\ partitioned' = partitioned
          \/ failures' = 0 /\ partitioned' = FALSE
      BY <1>7 DEF ClientReadsFrame, OnLiveness, keepalive
    <3>2. 0 \in 0 .. MaxFailures
      OBVIOUS
    <3>3. failures' \in 0 .. MaxFailures
      BY <1>a, <3>1, <3>2, Zenon
    <3>4. partitioned' \in BOOLEAN
      BY <1>c, <3>1, Zenon
    <3>5. partitioned' => failures' >= P
      BY <1>a, <3>1, Zenon
    <3> QED BY <3>3, <3>4, <3>5
  <2>4. /\ {started', nextTimer', probeTimer'} \subseteq BOOLEAN
        /\ started' => nextTimer' # probeTimer'
    BY <1>7, <1>c, Zenon DEF ClientReadsFrame, OnLiveness, keepalive
  <2>5. waiting' \subseteq waiting
    BY <1>7 DEF ClientReadsFrame
  <2> QED BY <1>7, <2>1, <2>2, <2>3, <2>4, <2>5
          DEF TypeOK, ClientReadsFrame, setup, session, gateway
<1>8. CASE Probe
  BY <1>8 DEF TypeOK, Probe, SendToGateway, setup, session, app, gateway
<1>9. CASE ProbeFails
  <2>1. Counted \in 0 .. MaxFailures /\ Counted >= failures
    BY <1>a DEF Counted
  <2>2. partitioned' \in BOOLEAN /\ (partitioned' => Counted >= P)
    <3>1. partitioned' = (partitioned \/ Counted >= P)
      BY <1>9 DEF ProbeFails
    <3>2. partitioned => Counted >= P
      BY <1>a, <2>1
    <3> QED BY <3>1, <3>2
  <2>3. failures' = Counted
    BY <1>9 DEF ProbeFails
  <2> QED BY <1>9, <2>1, <2>2, <2>3 DEF TypeOK, ProbeFails, setup, link3, session, app, gateway
<1>10. CASE Close
  BY <1>10 DEF TypeOK, Close, setup, session, app, gateway
<1>11. CASE LinkBreaks
  BY <1>11 DEF TypeOK, LinkBreaks, Fail, Closed, setup, session, keepalive, app, gateway
<1>12. CASE GatewayReads
  <2>1. link # "closed"
    BY <1>12 DEF TypeOK, GatewayReads
  <2>2. heard' \in Seq(1 .. MaxFrames) /\ missed' \in Seq(1 .. MaxFrames)
    <3>1. ASSUME IsSealed(Head(toGateway)), Head(toGateway).n # 0
          PROVE  Head(toGateway).n \in 1 .. MaxFrames
      BY <1>12, <3>1, HeadIsKnown, Kinds DEF GatewayReads
    <3>2. \/ heard' = heard /\ missed' = missed
          \/ /\ IsSealed(Head(toGateway))
             /\ \/ heard' = heard /\ missed' = missed
                \/ /\ Head(toGateway).n # 0
                   /\ \/ heard' = Append(heard, Head(toGateway).n) /\ missed' = missed
                      \/ heard' = heard /\ missed' = Append(missed, Head(toGateway).n)
      BY <1>12, Zenon DEF GatewayReads, ReadSealed
    <3>3. /\ heard \in Seq(1 .. MaxFrames) /\ missed \in Seq(1 .. MaxFrames)
          /\ \A k \in 1 .. MaxFrames : /\ Append(heard, k) \in Seq(1 .. MaxFrames)
                                       /\ Append(missed, k) \in Seq(1 .. MaxFrames)
      BY <1>b, AppendProperties
    <3> QED BY <3>1, <3>2, <3>3, Zenon
  <2> QED BY <1>12, <2>1, <2>2 DEF TypeOK, GatewayReads, setup, session, keepalive, app
<1>13. CASE SetDead
  BY <1>13 DEF TypeOK, SetDead, setup, link3, session, keepalive, app
<1>14. CASE UNCHANGED vars
  BY <1>14 DEF TypeOK, vars, setup, link3, session, keepalive, app, gateway
<1> QED BY <1>1, <1>2, <1>3, <1>4, <1>5, <1>6, <1>7, <1>8, <1>9, <1>10, <1>11, <1>12, <1>13,
           <1>14 DEF Next

-----------------------------------------------------------------------------
(* The phases.                                                             *)

\* What is put behind a queue leaves its head alone.
LEMMA HeadTailOfConcat ==
    ASSUME NEW S, NEW s \in Seq(S), s # <<>>, NEW t \in Seq(S)
    PROVE  s \o t # <<>> /\ Head(s \o t) = Head(s) /\ Tail(s \o t) = Tail(s) \o t
OBVIOUS

\* What touches none of this keeps the phase.
LEMMA PhaseKept ==
    ASSUME Phase,
           UNCHANGED <<pins, link, toGateway, toClient, pairing, channel, offered, gwChannel>>
    PROVE  Phase'
BY DEF Phase, Greeting, Answered, Asking, Confirming, Open, Over

\* An established client may send sealed frames at any time.
LEMMA SendingKeepsPhase ==
    ASSUME Phase, channel = Key, NEW frames \in Seq(SealedUp),
           toGateway' = toGateway \/ SendToGateway(frames),
           toClient' = toClient \/ (toClient # <<>> /\ toClient' = Tail(toClient)),
           link' = link \/ (link = "up" /\ link' = "closing"),
           UNCHANGED <<pins, pairing, channel, offered, gwChannel>>
    PROVE  Phase'
<1>1. CASE Confirming
  <2>1. frames \in Seq(UpMessage)
    <3>1. SealedUp \subseteq UpMessage
      BY DEF UpMessage
    <3> QED BY <3>1, SeqMonotonic
  <2>2. CASE toGateway' = toGateway
    BY <1>1, <2>2 DEF Phase, Confirming
  <2>3. CASE toGateway' = toGateway \o frames
    <3>1. toGateway \in Seq(UpMessage) /\ toGateway # <<>> /\ Tail(toGateway) \in Seq(SealedUp)
      BY <1>1 DEF Confirming
    <3>2. toGateway' \in Seq(UpMessage)
      BY <2>1, <2>3, <3>1, ConcatProperties
    <3>3. /\ toGateway' # <<>> /\ Head(toGateway') = Head(toGateway)
          /\ Tail(toGateway') = Tail(toGateway) \o frames
      BY <2>1, <2>3, <3>1, HeadTailOfConcat
    <3>4. Tail(toGateway') \in Seq(SealedUp)
      BY <3>1, <3>3, ConcatProperties
    <3> QED BY <1>1, <3>2, <3>3, <3>4 DEF Phase, Confirming
  <2> QED BY <2>2, <2>3 DEF SendToGateway
<1>2. CASE Open
  <2>1. toGateway' \in Seq(SealedUp)
    <3>1. toGateway' = toGateway \/ toGateway' = toGateway \o frames
      BY DEF SendToGateway
    <3>2. toGateway \in Seq(SealedUp)
      BY <1>2 DEF Open
    <3>3. toGateway \o frames \in Seq(SealedUp)
      BY <3>2, ConcatProperties
    <3> QED BY <3>1, <3>2, <3>3
  <2>2. toClient' \in Seq(SealedDown)
    <3>1. toClient \in Seq(SealedDown)
      BY <1>2 DEF Open
    <3> QED BY <3>1, HeadTailProperties
  <2> QED BY <1>2, <2>1, <2>2 DEF Phase, Open
<1>3. CASE Over
  BY <1>3 DEF Phase, Over, SendToGateway
<1>4. ~Greeting /\ ~Answered /\ ~Asking
  BY KeyIsSome DEF Greeting, Answered, Asking
<1> QED BY <1>1, <1>2, <1>3, <1>4 DEF Phase

\* A broken connection.
LEMMA ClosingEndsPhase ==
    ASSUME Phase, Closed, UNCHANGED <<pins, gwChannel, channel>>,
           pairing' = pairing \/ pairing' = FALSE
    PROVE  Phase'
<1>1. /\ channel = Key \/ (channel = NoKey /\ gwChannel = NoKey)
      /\ gwChannel \in {NoKey, Key}
      /\ pairing => pins = {} /\ channel = NoKey
  BY DEF Phase, Greeting, Answered, Asking, Confirming, Open, Over
<1> QED BY <1>1 DEF Closed, Phase, Over

\* The client's half of the handshake.
LEMMA ReplyKeepsPhase ==
    ASSUME TypeOK, Phase, ClientReadsReply
    PROVE  Phase' /\ (connected' = "resolved" /\ connected # "resolved" =>
                         channel' = Key /\ pins \subseteq {ServerId})
<1> USE DEF setup, keepalive, app, gateway
<1>1. Answered
  BY KeyIsSome DEF ClientReadsReply, Phase, Greeting, Answered, Asking, Confirming, Open, Over
<1>2. Head(toClient) \in {Refusal, TheReply} /\ Tail(toClient) = <<>>
      /\ (Head(toClient) = TheReply => offered = Key)
  <2>1. Head(<<Refusal>>) = Refusal /\ Head(<<TheReply>>) = TheReply
        /\ Tail(<<Refusal>>) = <<>> /\ Tail(<<TheReply>>) = <<>>
    OBVIOUS
  <2>2. Refusal # TheReply
    BY Kinds
  <2> QED BY <1>1, <2>1, <2>2, Zenon DEF Answered
<1>3. CASE Fail /\ UNCHANGED <<pins, gwChannel>>
  <2>1. Phase'
    BY <1>3, ClosingEndsPhase DEF Fail
  <2> QED BY <1>3, <2>1 DEF Fail
<1>4. ASSUME Head(toClient).type = "reply", Genuine(ClientId, ClientEph, Head(toClient), pins)
      PROVE  /\ Head(toClient) = TheReply /\ offered = Key
             /\ pins # {} => ServerId \in pins
  BY <1>2, <1>4, Kinds, HandshakeMeets
<1>5. CASE /\ Head(toClient).type = "reply"
           /\ Genuine(ClientId, ClientEph, Head(toClient), pins)
           /\ pins # {}
           /\ Establish(Head(toClient))
           /\ toClient' = Tail(toClient)
           /\ UNCHANGED <<link, pins, gwChannel, offered>>
  <2>1. Head(toClient) = TheReply /\ offered = Key /\ ServerId \in pins
    BY <1>4, <1>5
  <2>2. toGateway' = <<TheConfirm>> /\ channel' = Key /\ pairing' = FALSE
    BY <1>1, <1>5, <2>1 DEF Establish, SendToGateway, TheConfirm, Key, Answered
  <2>3. Confirming'
    <3>1. <<TheConfirm>> \in Seq(UpMessage)
      BY DEF UpMessage
    <3>2. <<TheConfirm>> # <<>> /\ Head(<<TheConfirm>>) = TheConfirm
          /\ Tail(<<TheConfirm>>) = <<>>
      OBVIOUS
    <3>3. <<>> \in Seq(SealedUp)
      OBVIOUS
    <3> QED BY <1>1, <1>2, <1>5, <2>1, <2>2, <3>1, <3>2, <3>3 DEF Confirming, Answered
  <2>4. pins \subseteq {ServerId}
    BY <2>1 DEF TypeOK, ServerId
  <2> QED BY <2>2, <2>3, <2>4 DEF Phase
<1>6. CASE /\ Head(toClient).type = "reply"
           /\ Genuine(ClientId, ClientEph, Head(toClient), pins)
           /\ pins = {}
           /\ pairing' = TRUE
           /\ toClient' = Tail(toClient)
           /\ UNCHANGED <<connected, channel, link, toGateway, pins, gwChannel, offered>>
  BY <1>1, <1>2, <1>4, <1>6 DEF Answered, Asking, Phase
<1> QED BY <1>3, <1>5, <1>6 DEF ClientReadsReply

\* The answer to the pairing question, the socket being up or not.
LEMMA PairKeepsPhase ==
    ASSUME Phase, PairAnswered
    PROVE  Phase' /\ (connected' = "resolved" /\ connected # "resolved" =>
                         channel' = Key /\ pins \subseteq {ServerId})
<1> USE DEF setup, keepalive, app, gateway
<1>1. pairing /\ (Asking \/ (Over /\ channel = NoKey)) /\ pins = {}
  BY DEF PairAnswered, Phase, Greeting, Answered, Asking, Confirming, Open, Over
<1>2. CASE Establish(TheReply) /\ UNCHANGED <<link, toClient, pins, gwChannel, offered>>
  <2>1. channel' = Key /\ pairing' = FALSE
    BY <1>2 DEF Establish, Key
  <2>2. CASE Asking
    <3>1. toGateway' = <<TheConfirm>>
      BY <1>2, <2>2 DEF Establish, SendToGateway, TheConfirm, Asking
    <3>2. <<TheConfirm>> \in Seq(UpMessage)
      BY DEF UpMessage
    <3>3. <<TheConfirm>> # <<>> /\ Head(<<TheConfirm>>) = TheConfirm
          /\ Tail(<<TheConfirm>>) = <<>>
      OBVIOUS
    <3>4. <<>> \in Seq(SealedUp)
      OBVIOUS
    <3>5. Confirming'
      BY <1>2, <2>1, <2>2, <3>1, <3>2, <3>3, <3>4 DEF Confirming, Asking
    <3> QED BY <1>1, <2>1, <3>5 DEF Phase
  <2>3. CASE Over /\ channel = NoKey
    <3>1. Over'
      BY <1>2, <2>1, <2>3, KeyIsSome DEF Over, Establish, SendToGateway
    <3> QED BY <1>1, <2>1, <3>1 DEF Phase
  <2> QED BY <1>1, <2>2, <2>3
<1>3. CASE /\ pairing' = FALSE /\ Closed /\ UNCHANGED <<channel, pins, gwChannel>>
           /\ connected' = IF connected = "pending" THEN "rejected" ELSE connected
  <2>1. Phase'
    BY <1>3, ClosingEndsPhase
  <2> QED BY <1>3, <2>1
<1> QED BY <1>2, <1>3 DEF PairAnswered

\* The gateway's half, and its echo.
LEMMA ReadingKeepsPhase ==
    ASSUME Phase, GatewayReads
    PROVE  Phase'
<1> USE DEF setup, session, keepalive, app
<1> DEFINE m == Head(toGateway)
<1>0. toGateway # <<>> /\ toGateway' = Tail(toGateway)
      /\ UNCHANGED <<pins, link, pairing, channel>>
  BY DEF GatewayReads
<1>1. CASE Greeting
  <2>1. m = Hello /\ Tail(toGateway) = <<>> /\ toClient = <<>>
    BY <1>1 DEF Greeting
  <2>2. ReadHello(Hello)
    BY <2>1, Kinds DEF GatewayReads, IsSealed
  <2>3. toClient' = <<IF allowed THEN TheReply ELSE Refusal>> /\ (allowed => offered' = Key)
        /\ gwChannel' = gwChannel
    BY <2>1, <2>2, HandshakeMeets, KeysMeet DEF ReadHello, SendToClient
  <2>4. Answered'
    BY <1>0, <1>1, <2>1, <2>3 DEF Greeting, Answered
  <2> QED BY <2>4 DEF Phase
<1>2. CASE Confirming
  <2>1. m = TheConfirm
    BY <1>2 DEF Confirming
  <2>2. ReadConfirm(TheConfirm)
    BY <2>1, Kinds DEF GatewayReads, IsSealed
  <2>3. gwChannel' = Key /\ toClient' = <<>>
    BY <1>2, <2>2, HandshakeMeets DEF ReadConfirm, Hello, Confirming
  <2>4. Open'
    BY <1>0, <1>2, <2>3 DEF Confirming, Open
  <2> QED BY <2>4 DEF Phase
<1>3. CASE Open
  <2>1. m \in SealedUp /\ Tail(toGateway) \in Seq(SealedUp) /\ toClient \in Seq(SealedDown)
    BY <1>0, <1>3 DEF Open
  <2>2. ReadSealed(m) /\ UNCHANGED <<offered, gwChannel>>
    BY <2>1, Kinds DEF GatewayReads
  <2>3. \/ toClient' = toClient
        \/ \E e \in SealedDown : toClient' = Append(toClient, e)
    BY <2>1, <2>2, FramesAreSealed, Kinds DEF ReadSealed, Answer, SendToClient
  <2>4. toClient' \in Seq(SealedDown)
    BY <2>1, <2>3, AppendProperties
  <2>5. Open'
    BY <1>0, <1>3, <2>1, <2>2, <2>4 DEF Open
  <2> QED BY <2>5 DEF Phase
<1>4. ~Answered /\ ~Asking /\ ~Over
  BY <1>0 DEF Answered, Asking, Over
<1> QED BY <1>1, <1>2, <1>3, <1>4 DEF Phase

\* The phase is kept, and what the client has, it has for a reason.
LEMMA PhaseStep ==
    ASSUME TypeOK, Phase, ClientInv, [Next]_vars
    PROVE  Phase' /\ ClientInv'
<1>a. /\ buffer \in Seq(SealedUp)
      /\ connected = "resolved" => channel = Key /\ pins \subseteq {ServerId}
      /\ started => connected = "resolved"
      /\ link = "up" /\ ~started => ~nextTimer /\ ~probeTimer /\ failures = 0
  BY DEF ClientInv
<1>b. sent \in 0 .. MaxFrames
  BY Zenon DEF TypeOK
<1>c. channel = Key => ~pairing
  BY KeyIsSome DEF Phase, Greeting, Answered, Asking, Confirming, Open, Over
<1>1. CASE ClientReadsReply
  <2>1. Phase' /\ (connected' = "resolved" /\ connected # "resolved" =>
                      channel' = Key /\ pins \subseteq {ServerId})
    BY <1>1, ReplyKeepsPhase
  <2>2. connected # "resolved"
    BY <1>1, <1>a, KeyIsSome DEF ClientReadsReply
  <2>3. /\ UNCHANGED <<pins, buffer, started, nextTimer, probeTimer, failures>>
        /\ link' = link \/ link' = "closed"
    BY <1>1 DEF ClientReadsReply, Fail, Closed, setup, keepalive
  <2> QED BY <1>a, <2>1, <2>2, <2>3, Zenon DEF ClientInv
<1>2. CASE PairAnswered
  <2>1. Phase' /\ (connected' = "resolved" /\ connected # "resolved" =>
                      channel' = Key /\ pins \subseteq {ServerId})
    BY <1>2, PairKeepsPhase
  <2>2. connected # "resolved"
    BY <1>2, <1>a, <1>c DEF PairAnswered
  <2>3. /\ UNCHANGED <<pins, buffer, started, nextTimer, probeTimer, failures>>
        /\ link' = link \/ link' = "closed"
    BY <1>2 DEF PairAnswered, Closed, setup, keepalive
  <2> QED BY <1>a, <2>1, <2>2, <2>3, Zenon DEF ClientInv
<1>3. CASE StartKeepalive
  <2>1. Phase'
    BY <1>3, PhaseKept DEF StartKeepalive, setup, link3, session, gateway
  <2> QED BY <1>3, <1>a, <2>1 DEF ClientInv, StartKeepalive, setup, link3, session
<1>4. CASE Cmd
  <2>1. sent + 1 \in 0 .. MaxFrames
    BY <1>4, <1>b, FrameAssumption DEF Cmd
  <2>2. Frame("cmd", sent + 1) \in SealedUp
    BY <2>1, FramesAreSealed
  <2>3. <<Frame("cmd", sent + 1)>> \in Seq(SealedUp)
        /\ Append(buffer, Frame("cmd", sent + 1)) \in Seq(SealedUp)
    BY <2>2, <1>a
  <2>4. channel = Key
    BY <1>4, <1>a DEF Cmd
  <2>5. Phase'
    BY <1>4, <2>3, <2>4, SendingKeepsPhase DEF Cmd, Emit, setup, session, gateway
  <2>6. buffer' \in Seq(SealedUp)
    BY <1>4, <1>a, <2>3, Zenon DEF Cmd, Emit
  <2> QED BY <1>4, <1>a, <2>5, <2>6 DEF ClientInv, Cmd, setup, session
<1>5. CASE SendMedia
  <2>1. sent + 1 \in 0 .. MaxFrames
    BY <1>5, <1>b, FrameAssumption DEF SendMedia
  <2>2. PICK type \in {"audio", "gap"} : Emit(Frame(type, sent + 1))
    BY <1>5 DEF SendMedia
  <2>3. Frame(type, sent + 1) \in SealedUp
    BY <2>1, FramesAreSealed
  <2>4. <<Frame(type, sent + 1)>> \in Seq(SealedUp)
        /\ Append(buffer, Frame(type, sent + 1)) \in Seq(SealedUp)
    BY <2>3, <1>a
  <2>5. channel = Key
    BY <1>5, <1>a DEF SendMedia
  <2>6. Phase'
    BY <1>5, <2>2, <2>4, <2>5, SendingKeepsPhase DEF SendMedia, Emit, setup, session, gateway
  <2>7. buffer' \in Seq(SealedUp)
    BY <2>2, <1>a, <2>4, Zenon DEF Emit
  <2> QED BY <1>5, <1>a, <2>6, <2>7 DEF ClientInv, SendMedia, setup, session
<1>6. CASE CmdTimesOut
  <2>1. Phase'
    BY <1>6, PhaseKept DEF CmdTimesOut, setup, link3, session, gateway
  <2> QED BY <1>6, <1>a, <2>1 DEF ClientInv, CmdTimesOut, setup, link3, session, keepalive
<1>7. CASE ClientReadsFrame
  <2>1. channel = Key
    BY <1>7, TransitTyped DEF ClientReadsFrame
  <2>2. toGateway' = toGateway \/ SendToGateway(buffer)
    BY <1>7 DEF ClientReadsFrame, OnLiveness, FlushIfDeclared
  <2>3. Phase'
    BY <1>7, <1>a, <2>1, <2>2, SendingKeepsPhase DEF ClientReadsFrame, setup, session, gateway
  <2>4. buffer' = buffer \/ buffer' = <<>>
    BY <1>7 DEF ClientReadsFrame, OnLiveness, FlushIfDeclared, keepalive
  <2>5. buffer' \in Seq(SealedUp)
    BY <1>a, <2>4, EmptySeq
  <2>6. CASE failures > 0
    BY <1>7, <1>a, <2>3, <2>5, <2>6
       DEF ClientInv, ClientReadsFrame, OnLiveness, setup, session
  <2>7. CASE ~(failures > 0)
    BY <1>7, <1>a, <2>3, <2>5, <2>7
       DEF ClientInv, ClientReadsFrame, keepalive, setup, session
  <2> QED BY <2>6, <2>7
<1>8. CASE Probe
  <2>1. Phase'
    <3>1. CASE link = "up"
      <4>1. channel = Key
        BY <1>8, <1>a, <3>1 DEF Probe
      <4>2. <<Ping>> \in Seq(SealedUp)
        BY Kinds
      <4> QED BY <1>8, <4>1, <4>2, SendingKeepsPhase DEF Probe, setup, session, gateway
    <3>2. CASE link # "up"
      BY <1>8, <3>2, PhaseKept DEF Probe, SendToGateway, setup, session, gateway
    <3> QED BY <3>1, <3>2
  <2> QED BY <1>8, <1>a, <2>1 DEF ClientInv, Probe, setup, session
<1>9. CASE ProbeFails
  <2>1. Phase'
    BY <1>9, PhaseKept DEF ProbeFails, setup, link3, session, gateway
  <2> QED BY <1>9, <1>a, <2>1 DEF ClientInv, ProbeFails, setup, link3, session
<1>10. CASE Close
  <2>1. channel = Key
    BY <1>10, <1>a DEF Close
  <2>2. <<>> \in Seq(SealedUp)
    OBVIOUS
  <2>3. Phase'
    BY <1>10, <2>1, <2>2, SendingKeepsPhase DEF Close, setup, session, gateway
  <2> QED BY <1>10, <1>a, <2>3 DEF ClientInv, Close, setup, session
<1>11. CASE LinkBreaks
  <2>1. Phase'
    BY <1>11, ClosingEndsPhase DEF LinkBreaks, Fail, setup, session, gateway
  <2>2. /\ UNCHANGED <<pins, channel, buffer, started, nextTimer, probeTimer, failures>>
        /\ link' = "closed"
        /\ connected' = connected \/ (connected' = "rejected" /\ connected = "pending")
    BY <1>11 DEF LinkBreaks, Fail, Closed, setup, session, keepalive
  <2> QED BY <1>a, <2>1, <2>2 DEF ClientInv
<1>12. CASE GatewayReads
  <2>1. Phase'
    BY <1>12, ReadingKeepsPhase
  <2> QED BY <1>12, <1>a, <2>1 DEF ClientInv, GatewayReads, setup, session, keepalive
<1>13. CASE SetDead
  <2>1. Phase'
    BY <1>13, PhaseKept DEF SetDead, setup, link3, session
  <2> QED BY <1>13, <1>a, <2>1 DEF ClientInv, SetDead, setup, link3, session, keepalive
<1>14. CASE UNCHANGED vars
  <2>1. Phase'
    BY <1>14, PhaseKept DEF vars, setup, link3, session, gateway
  <2> QED BY <1>14, <1>a, <2>1 DEF ClientInv, vars, setup, link3, session, keepalive
<1> QED BY <1>1, <1>2, <1>3, <1>4, <1>5, <1>6, <1>7, <1>8, <1>9, <1>10, <1>11, <1>12, <1>13,
           <1>14 DEF Next

-----------------------------------------------------------------------------
(* Every frame in one place.                                               *)

\* The four counts are numbers.
LEMMA CountsTyped ==
    ASSUME TypeOK, Phase, ClientInv, NEW n \in 1 .. MaxFrames
    PROVE  /\ Count(buffer, Numbered(n)) \in Nat /\ Count(toGateway, Numbered(n)) \in Nat
           /\ Count(heard, {n}) \in Nat /\ Count(missed, {n}) \in Nat
<1>1. /\ buffer \in Seq(SealedUp) /\ toGateway \in Seq(UpMessage)
      /\ heard \in Seq(1 .. MaxFrames) /\ missed \in Seq(1 .. MaxFrames)
  BY TransitTyped, Zenon DEF TypeOK, ClientInv
<1> QED BY <1>1, CountConcat

\* Total counts what Places counts.
LEMMA TotalIsPlaces ==
    ASSUME TypeOK, Phase, ClientInv, NEW n \in 1 .. MaxFrames
    PROVE  Places(n) = Total(n)
<1>1. \A i \in DOMAIN buffer : buffer[i] \in SealedUp
  BY DEF ClientInv
<1>2. \A i \in DOMAIN toGateway : toGateway[i] \in UpMessage
  BY TransitTyped
<1>3. \A m \in UpMessage : IsSealed(m) /\ m.n = n <=> m \in Numbered(n)
  BY Kinds DEF UpMessage, Numbered, IsSealed
<1>4. \A m \in SealedUp : m \in UpMessage
  BY DEF UpMessage
<1>5. {i \in DOMAIN buffer : IsSealed(buffer[i]) /\ buffer[i].n = n}
        = {i \in DOMAIN buffer : buffer[i] \in Numbered(n)}
  BY <1>1, <1>3, <1>4
<1>6. {i \in DOMAIN toGateway : IsSealed(toGateway[i]) /\ toGateway[i].n = n}
        = {i \in DOMAIN toGateway : toGateway[i] \in Numbered(n)}
  BY <1>2, <1>3
<1>7. /\ {i \in DOMAIN heard : heard[i] = n} = {i \in DOMAIN heard : heard[i] \in {n}}
      /\ {i \in DOMAIN missed : missed[i] = n} = {i \in DOMAIN missed : missed[i] \in {n}}
  OBVIOUS
<1> QED BY <1>5, <1>6, <1>7, Zenon DEF Places, Total, Count

\* A step that leaves the lists alone, and one after which the link is not up.
LEMMA PlacesKept ==
    ASSUME OnePlaceEach,
           link' # "up" \/ UNCHANGED <<link, buffer, toGateway, heard, missed, sent>>
    PROVE  OnePlaceEach'
BY DEF OnePlaceEach, Total

\* The confirm and a probe carry no number.
LEMMA SendingNoNumber ==
    ASSUME TypeOK, Phase, ClientInv, OnePlaceEach, NEW m \in {TheConfirm, Ping},
           toGateway' = toGateway \o <<m>>, UNCHANGED <<link, buffer, heard, missed, sent>>
    PROVE  OnePlaceEach'
<1> SUFFICES ASSUME link = "up", NEW n \in 1 .. MaxFrames
             PROVE  Total(n)' = Total(n)
  BY DEF OnePlaceEach
<1>1. m \in UpMessage /\ m \notin Numbered(n)
  BY Kinds DEF UpMessage, Numbered
<1>2. /\ Count(toGateway, Numbered(n)) \in Nat
      /\ Count(toGateway', Numbered(n)) = Count(toGateway, Numbered(n)) + 0
  BY <1>1, TransitTyped, CountAppend
<1> QED BY <1>2 DEF Total

\* A new frame goes to one place and takes the next number.
LEMMA NewFrameHasOnePlace ==
    ASSUME TypeOK, Phase, ClientInv, OnePlaceEach,
           NEW type \in {"cmd", "audio", "gap"}, Emit(Frame(type, sent + 1)),
           sent < MaxFrames, sent' = sent + 1, UNCHANGED <<link, heard, missed>>
    PROVE  OnePlaceEach'
<1> SUFFICES ASSUME link = "up", NEW n \in 1 .. MaxFrames
             PROVE  Total(n)' = IF n <= sent + 1 THEN 1 ELSE 0
  BY DEF OnePlaceEach
<1> DEFINE f == Frame(type, sent + 1)
           new == IF n = sent + 1 THEN 1 ELSE 0
<1>1. sent \in 0 .. MaxFrames
  BY Zenon DEF TypeOK
<1>2. sent + 1 \in 0 .. MaxFrames
  BY <1>1, FrameAssumption
<1>3. f \in SealedUp /\ f.n = sent + 1
  BY <1>2, FramesAreSealed
<1>4. f \in UpMessage /\ (f \in Numbered(n) <=> n = sent + 1)
  BY <1>3 DEF UpMessage, Numbered
<1>5. Total(n) = IF n <= sent THEN 1 ELSE 0
  BY DEF OnePlaceEach
<1> HIDE DEF f
<1>6. \/ /\ Count(buffer', Numbered(n)) = Count(buffer, Numbered(n)) + new
         /\ toGateway' = toGateway
      \/ /\ Count(toGateway', Numbered(n)) = Count(toGateway, Numbered(n)) + new
         /\ buffer' = buffer
  <2>1. CASE buffer' = Append(buffer, f) /\ toGateway' = toGateway
    <3>1. buffer \in Seq(SealedUp)
      BY DEF ClientInv
    <3>2. buffer' = buffer \o <<f>>
      BY <1>3, <2>1, <3>1, AppendIsConcat
    <3>3. Count(buffer \o <<f>>, Numbered(n))
            = Count(buffer, Numbered(n)) + IF f \in Numbered(n) THEN 1 ELSE 0
      BY <1>3, <3>1, CountAppend
    <3> QED BY <1>4, <2>1, <3>2, <3>3
  <2>2. CASE toGateway' = toGateway \o <<f>> /\ buffer' = buffer
    BY <1>4, <2>2, TransitTyped, CountAppend
  <2> QED BY <2>1, <2>2, Zenon DEF Emit, SendToGateway, f
<1>7. Total(n)' = Total(n) + new
  BY <1>6, CountsTyped DEF Total
<1> QED BY <1>1, <1>5, <1>7

\* A flush moves the buffer into transit.
LEMMA FlushKeepsPlaces ==
    ASSUME TypeOK, Phase, ClientInv, OnePlaceEach,
           FlushIfDeclared, UNCHANGED <<link, heard, missed, sent>>
    PROVE  OnePlaceEach'
<1> SUFFICES ASSUME link = "up", NEW n \in 1 .. MaxFrames
             PROVE  Total(n)' = Total(n)
  BY DEF OnePlaceEach
<1>1. CASE toGateway' = toGateway \o buffer /\ buffer' = <<>>
  <2>1. buffer \in Seq(UpMessage)
    <3>1. SealedUp \subseteq UpMessage /\ buffer \in Seq(SealedUp)
      BY DEF UpMessage, ClientInv
    <3> QED BY <3>1, SeqMonotonic
  <2>2. Count(toGateway', Numbered(n))
          = Count(toGateway, Numbered(n)) + Count(buffer, Numbered(n))
    BY <1>1, <2>1, TransitTyped, CountConcat
  <2>3. Count(buffer', Numbered(n)) = 0
    BY <1>1, CountSmall
  <2> QED BY <2>2, <2>3, CountsTyped DEF Total
<1>2. CASE UNCHANGED <<toGateway, buffer>>
  BY <1>2 DEF Total
<1> QED BY <1>1, <1>2 DEF FlushIfDeclared, SendToGateway

\* What the gateway reads it takes in or drops, once.
LEMMA ReadingKeepsPlaces ==
    ASSUME TypeOK, Phase, ClientInv, OnePlaceEach, GatewayReads
    PROVE  OnePlaceEach'
<1> USE DEF setup, session, keepalive, app
<1> DEFINE m == Head(toGateway)
<1>0. /\ toGateway # <<>> /\ toGateway' = Tail(toGateway)
      /\ UNCHANGED <<link, buffer, sent>>
  BY DEF GatewayReads
<1> SUFFICES ASSUME link = "up", NEW n \in 1 .. MaxFrames
             PROVE  Total(n)' = Total(n)
  BY <1>0 DEF OnePlaceEach
<1>1. /\ Count(toGateway', Numbered(n)) \in Nat
      /\ Count(toGateway, Numbered(n))
           = (IF m \in Numbered(n) THEN 1 ELSE 0) + Count(toGateway', Numbered(n))
  BY <1>0, TransitTyped, CountTail
<1>2. m \in UpMessage
  BY <1>0, HeadIsKnown
<1>3. CASE m \in {Hello, TheConfirm}
  <2>1. UNCHANGED <<heard, missed>>
    BY <1>3, Kinds DEF GatewayReads, IsSealed
  <2>2. m \notin Numbered(n)
    BY <1>3, Kinds DEF Numbered
  <2> QED BY <1>0, <1>1, <2>1, <2>2, CountsTyped DEF Total
<1>4. CASE m \in SealedUp
  <2> DEFINE k == m.n
             one == IF k = n THEN 1 ELSE 0
             N == 1 .. MaxFrames
  <2>1. k \in 0 .. MaxFrames /\ (m \in Numbered(n) <=> k = n)
    BY <1>4, Kinds DEF Numbered
  <2>2. ReadSealed(m)
    BY <1>4, Kinds DEF GatewayReads
  <2>3. heard \in Seq(1 .. MaxFrames) /\ missed \in Seq(1 .. MaxFrames)
    BY Zenon DEF TypeOK
  <2>4. \/ k = 0 /\ UNCHANGED <<heard, missed>>
        \/ k # 0 /\ heard' = Append(heard, k) /\ missed' = missed
        \/ k # 0 /\ missed' = Append(missed, k) /\ heard' = heard
    BY <2>2, Zenon DEF ReadSealed
  <2> HIDE DEF k, N
  <2>5. Count(heard', {n}) + Count(missed', {n}) = Count(heard, {n}) + Count(missed, {n}) + one
    <3>1. CASE k = 0 /\ UNCHANGED <<heard, missed>>
      BY <3>1, CountsTyped
    <3>2. CASE k # 0 /\ heard' = Append(heard, k) /\ missed' = missed
      <4>1. k \in 1 .. MaxFrames
        BY <2>1, <3>2
      <4>2. heard' = heard \o <<k>>
        BY <2>3, <3>2, <4>1, AppendIsConcat
      <4>3. heard \in Seq(N) /\ k \in N
        BY <2>3, <4>1 DEF N
      <4>4. Count(heard \o <<k>>, {n}) = Count(heard, {n}) + IF k \in {n} THEN 1 ELSE 0
        BY <4>3, CountAppend
      <4> QED BY <3>2, <4>2, <4>4, CountsTyped
    <3>3. CASE k # 0 /\ missed' = Append(missed, k) /\ heard' = heard
      <4>1. k \in 1 .. MaxFrames
        BY <2>1, <3>3
      <4>2. missed' = missed \o <<k>>
        BY <2>3, <3>3, <4>1, AppendIsConcat
      <4>3. missed \in Seq(N) /\ k \in N
        BY <2>3, <4>1 DEF N
      <4>4. Count(missed \o <<k>>, {n}) = Count(missed, {n}) + IF k \in {n} THEN 1 ELSE 0
        BY <4>3, CountAppend
      <4> QED BY <3>3, <4>2, <4>4, CountsTyped
    <3> QED BY <2>4, <3>1, <3>2, <3>3
  <2>6. Count(heard', {n}) \in Nat /\ Count(missed', {n}) \in Nat
    <3>1. heard' \in Seq(1 .. MaxFrames) /\ missed' \in Seq(1 .. MaxFrames)
      <4>1. k # 0 => k \in 1 .. MaxFrames
        BY <2>1
      <4>2. k # 0 => /\ Append(heard, k) \in Seq(1 .. MaxFrames)
                     /\ Append(missed, k) \in Seq(1 .. MaxFrames)
        BY <2>3, <4>1, AppendProperties
      <4> QED BY <2>3, <2>4, <4>2, Zenon
    <3> QED BY <3>1, CountConcat
  <2>7. /\ Count(toGateway, Numbered(n)) = one + Count(toGateway', Numbered(n))
        /\ Count(buffer', Numbered(n)) = Count(buffer, Numbered(n))
    BY <1>0, <1>1, <2>1
  <2>8. /\ Count(buffer, Numbered(n)) \in Nat /\ Count(toGateway', Numbered(n)) \in Nat
        /\ Count(heard, {n}) \in Nat /\ Count(missed, {n}) \in Nat /\ one \in Nat
    BY <1>1, CountsTyped
  <2> HIDE DEF one
  <2>9. Total(n)' = Count(buffer', Numbered(n)) + Count(toGateway', Numbered(n))
                    + Count(heard', {n}) + Count(missed', {n})
    BY Zenon DEF Total
  <2> QED BY ONLY <2>5, <2>6, <2>7, <2>8, <2>9 DEF Total
<1> QED BY <1>2, <1>3, <1>4 DEF UpMessage

\* So no step loses a frame or has it twice.
LEMMA OnePlaceStep ==
    ASSUME TypeOK, Phase, ClientInv, OnePlaceEach, [Next]_vars
    PROVE  OnePlaceEach'
<1> USE DEF setup, link3, session, keepalive, app, gateway
<1>1. ASSUME NEW reply, Establish(reply), reply = TheReply,
             UNCHANGED <<link, buffer, heard, missed, sent>>
      PROVE  OnePlaceEach'
  <2>1. CASE link = "up"
    <3>1. toGateway' = toGateway \o <<TheConfirm>>
      BY <1>1, <2>1 DEF Establish, SendToGateway, TheConfirm
    <3> QED BY <1>1, <3>1, SendingNoNumber
  <2>2. CASE link # "up"
    BY <1>1, <2>2, PlacesKept
  <2> QED BY <2>1, <2>2
<1>2. CASE ClientReadsReply
  <2>1. UNCHANGED <<buffer, heard, missed, sent>>
    BY <1>2 DEF ClientReadsReply
  <2>2. CASE Fail
    BY <2>2, PlacesKept DEF Fail, Closed
  <2>3. CASE /\ Head(toClient).type = "reply" /\ Establish(Head(toClient)) /\ UNCHANGED link
    <3>1. Head(toClient) = TheReply
      <4>1. Head(toClient) \in DownMessage
        BY <1>2, TransitTyped DEF ClientReadsReply
      <4> QED BY <2>3, <4>1, Kinds DEF DownMessage
    <3> QED BY <1>1, <2>1, <2>3, <3>1
  <2>4. CASE UNCHANGED <<link, toGateway>>
    BY <2>1, <2>4, PlacesKept
  <2> QED BY <1>2, <2>2, <2>3, <2>4 DEF ClientReadsReply
<1>3. CASE PairAnswered
  <2>1. UNCHANGED <<buffer, heard, missed, sent>>
    BY <1>3 DEF PairAnswered
  <2>2. CASE Establish(TheReply) /\ UNCHANGED link
    BY <1>1, <2>1, <2>2
  <2>3. CASE Closed
    BY <2>3, PlacesKept DEF Closed
  <2> QED BY <1>3, <2>2, <2>3 DEF PairAnswered
<1>4. CASE Cmd
  BY <1>4, NewFrameHasOnePlace DEF Cmd
<1>5. CASE SendMedia
  BY <1>5, NewFrameHasOnePlace DEF SendMedia
<1>6. CASE ClientReadsFrame
  <2>1. CASE failures > 0
    BY <1>6, <2>1, FlushKeepsPlaces DEF ClientReadsFrame, OnLiveness
  <2>2. CASE ~(failures > 0)
    BY <1>6, <2>2, PlacesKept DEF ClientReadsFrame
  <2> QED BY <2>1, <2>2
<1>7. CASE Probe
  <2>1. CASE link = "up"
    <3>1. toGateway' = toGateway \o <<Ping>>
      BY <1>7, <2>1 DEF Probe, SendToGateway
    <3> QED BY <1>7, <3>1, SendingNoNumber DEF Probe
  <2>2. CASE link # "up"
    BY <1>7, <2>2, PlacesKept DEF Probe
  <2> QED BY <2>1, <2>2
<1>8. CASE Close \/ LinkBreaks
  BY <1>8, PlacesKept DEF Close, LinkBreaks, Fail, Closed
<1>9. CASE GatewayReads
  BY <1>9, ReadingKeepsPlaces
<1>10. CASE StartKeepalive \/ CmdTimesOut \/ ProbeFails \/ SetDead \/ UNCHANGED vars
  BY <1>10, PlacesKept DEF StartKeepalive, CmdTimesOut, ProbeFails, SetDead, vars
<1> QED BY <1>2, <1>3, <1>4, <1>5, <1>6, <1>7, <1>8, <1>9, <1>10 DEF Next

-----------------------------------------------------------------------------
(* The theorems.                                                           *)

\* The invariant of the connection: phase, client and places together.
LEMMA Inductive == Spec => []IInv
<1>1. Init => IInv
  <2> SUFFICES ASSUME Init PROVE IInv
    OBVIOUS
  <2>1. TypeOK /\ Phase /\ ClientInv
    BY InitPhase
  <2>2. ASSUME NEW n \in 1 .. MaxFrames PROVE Total(n) = 0
    <3>1. /\ buffer = <<>> /\ heard = <<>> /\ missed = <<>> /\ toGateway = <<Hello>>
      BY Zenon DEF Init, Hello
    <3>2. Hello \notin Numbered(n)
      BY Kinds DEF Numbered
    <3>3. Count(toGateway, Numbered(n)) = 0
      BY <3>1, <3>2, CountSmall
    <3> QED BY <3>1, <3>3, CountSmall DEF Total
  <2>3. sent = 0
    BY Zenon DEF Init
  <2> QED BY <2>1, <2>2, <2>3 DEF IInv, OnePlaceEach
<1>2. IInv /\ [Next]_vars => IInv'
  BY TypeStep, PhaseStep, OnePlaceStep DEF IInv
<1> QED BY <1>1, <1>2, PTL DEF Spec

\* The state of the client, of the gateway and of the connection is well typed: among
\* the rest, a running keepalive has one timer armed and never two, and a partition is
\* declared only over P failures.
THEOREM TypeCorrect == Spec => []TypeOK
<1>1. IInv => TypeOK
  BY DEF IInv
<1> QED BY <1>1, Inductive, PTL

\* Whatever the user, the timers and the connection do in between, both ends hold one
\* key, connect resolves only for a server that is pinned or was accepted, and no
\* sealed frame reaches the gateway ahead of the confirm.
THEOREM KeysAgree == Spec => []SessionAgreed
<1>1. IInv => SessionAgreed
  <2> SUFFICES ASSUME TypeOK, Phase, ClientInv PROVE SessionAgreed
    BY DEF IInv
  <2>1. connected = "resolved" => pins \subseteq {ServerId}
    BY DEF ClientInv
  <2>2. gwChannel # NoKey => gwChannel = channel
    BY DEF Phase, Greeting, Answered, Asking, Confirming, Open, Over
  <2>3. ASSUME NEW i \in DOMAIN toGateway, IsSealed(toGateway[i]), gwChannel = NoKey
        PROVE  \E j \in 1 .. i - 1 : toGateway[j].type = "confirm"
    <3>1. CASE Greeting
      <4>1. toGateway[i] = Hello
        BY <2>3, <3>1 DEF Greeting
      <4> QED BY <2>3, <4>1, Kinds DEF IsSealed
    <3>2. CASE Confirming
      <4>1. toGateway[1] = TheConfirm /\ i \in Nat \ {0}
        BY <2>3, <3>2 DEF Confirming
      <4>2. i # 1
        BY <2>3, <4>1, Kinds DEF IsSealed
      <4>3. 1 \in 1 .. i - 1
        BY <4>1, <4>2
      <4> QED BY <4>1, <4>3, Kinds
    <3>3. toGateway # <<>>
      BY <2>3
    <3>4. ~Answered /\ ~Asking /\ ~Open /\ ~Over
      BY <2>3, <3>3, KeyIsSome DEF Answered, Asking, Open, Over
    <3> QED BY <3>1, <3>2, <3>4 DEF Phase
  <2> QED BY <2>1, <2>2, <2>3 DEF SessionAgreed
<1> QED BY <1>1, Inductive, PTL

\* However a flush, the probes, their late answers and the app's calls interleave, a
\* frame the app sent is in one place while the connection lasts: not lost, not twice.
THEOREM OnePlace == Spec => []FrameHasOnePlace
<1>1. IInv => FrameHasOnePlace
  <2> SUFFICES ASSUME IInv, link = "up", NEW n \in 1 .. sent
               PROVE  Places(n) = 1
    BY DEF FrameHasOnePlace
  <2>1. sent \in 0 .. MaxFrames
    BY Zenon DEF IInv, TypeOK
  <2>2. n \in 1 .. MaxFrames /\ n <= sent
    BY <2>1, FrameAssumption
  <2>3. Total(n) = 1
    BY <2>2 DEF IInv, OnePlaceEach
  <2> QED BY <2>2, <2>3, TotalIsPlaces DEF IInv
<1> QED BY <1>1, Inductive, PTL

=============================================================================
