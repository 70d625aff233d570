---------------------------- MODULE BridgeProofs ----------------------------
(***************************************************************************)
(* For every number of messages, sidecars and places in the queue: each    *)
(* durable message is accounted for in one place, what is read is in the   *)
(* order it was sent but for messages whose own write raised, only those   *)
(* wait beside a bridge believed to be up, and a full queue keeps the      *)
(* newest.                                                                 *)
(***************************************************************************)
EXTENDS Bridge, SequenceTheorems, TLAPS

-----------------------------------------------------------------------------
(* Sequences of held messages.                                             *)

IdsOf(list) == {list[i].id : i \in 1..Len(list)}

Ordered(list) == \A i, j \in 1..Len(list) : i < j => list[i].id < list[j].id

\* A held message has the number it was offered under, and an age.
LEMMA HeldIds ==
    ASSUME NEW list \in Seq(Held), NEW i \in 1..Len(list)
    PROVE  list[i].id \in 1..MaxMessages /\ list[i].id \in Int /\ list[i].aged \in BOOLEAN
<1>1. list[i] \in Held
  OBVIOUS
<1> QED BY <1>1, BoundsAreCounts DEF Held

\* The ids of some held messages are those at its positions.
LEMMA IdsAreIds ==
    ASSUME NEW list \in Seq(Held)
    PROVE  /\ Ids(list) \in Seq(1..MaxMessages)
           /\ Len(Ids(list)) = Len(list)
           /\ \A i \in 1..Len(list) : Ids(list)[i] = list[i].id
           /\ Range(Ids(list)) = IdsOf(list)
<1>1. \A i \in 1..Len(list) : list[i].id \in 1..MaxMessages
  BY HeldIds
<1>2. Ids(list) = [i \in 1..Len(list) |-> list[i].id]
  BY DEF Ids
<1>3. Ids(list) \in Seq(1..MaxMessages) /\ Len(Ids(list)) = Len(list)
  BY <1>1, <1>2, LenProperties
<1> QED BY <1>2, <1>3 DEF Range, IdsOf

\* Messages in the order of their ids are all different.
LEMMA OrderedIsInjective ==
    ASSUME NEW list \in Seq(Held), Ordered(list)
    PROVE  IsInjective(Ids(list))
<1>1. \A i \in 1..Len(list) : list[i].id \in Int
  BY HeldIds
<1>2. \A i, j \in 1..Len(list) : list[i].id = list[j].id => i = j
  BY <1>1 DEF Ordered
<1> QED BY <1>2 DEF IsInjective, Ids

\* Two injective lists with nothing in common make one.
LEMMA ConcatInjective ==
    ASSUME NEW S, NEW s \in Seq(S), NEW t \in Seq(S), IsInjective(s), IsInjective(t),
           Range(s) \cap Range(t) = {}
    PROVE  /\ s \o t \in Seq(S)
           /\ IsInjective(s \o t)
           /\ Range(s \o t) = Range(s) \cup Range(t)
<1> DEFINE u == s \o t
<1>1. /\ u \in Seq(S)
      /\ Len(u) = Len(s) + Len(t)
      /\ \A i \in 1..Len(s) + Len(t) : u[i] = IF i <= Len(s) THEN s[i] ELSE t[i - Len(s)]
  BY ConcatProperties, Zenon
<1>2. Len(s) \in Nat /\ Len(t) \in Nat /\ DOMAIN s = 1..Len(s) /\ DOMAIN t = 1..Len(t)
  OBVIOUS
<1>3. Range(u) = Range(s) \cup Range(t)
  BY RangeConcatenation
<1>4. DOMAIN u = 1..Len(u)
  BY <1>1
<1> HIDE DEF u
<1>5. \A i \in 1..Len(u) : \/ i \in DOMAIN s /\ u[i] = s[i] /\ u[i] \in Range(s)
                           \/ /\ ~(i \in DOMAIN s) /\ i - Len(s) \in DOMAIN t
                              /\ u[i] = t[i - Len(s)] /\ u[i] \in Range(t)
  BY <1>1, <1>2 DEF Range
<1>6. ASSUME NEW i \in 1..Len(u), NEW j \in 1..Len(u), u[i] = u[j]
      PROVE  i = j
  <2>1. CASE i \in DOMAIN s
    BY <1>5, <1>6, <2>1 DEF IsInjective
  <2>2. CASE ~(i \in DOMAIN s)
    <3>1. ~(j \in DOMAIN s)
      BY <1>5, <1>6, <2>2
    <3>2. i - Len(s) = j - Len(s)
      BY <1>5, <1>6, <2>2, <3>1 DEF IsInjective
    <3> QED BY <1>2, <1>1, <3>2
  <2> QED BY <2>1, <2>2
<1> QED BY <1>1, <1>3, <1>4, <1>6 DEF u, IsInjective

\* One more number at the end of an injective list of them.
LEMMA AppendNew ==
    ASSUME NEW s \in Seq(1..MaxMessages), NEW x \in 1..MaxMessages,
           IsInjective(s), x \notin Range(s),
           NEW u, u = Append(s, x)
    PROVE  u \in Seq(1..MaxMessages) /\ IsInjective(u) /\ Range(u) = Range(s) \cup {x}
<1> DEFINE t == <<x>>
           S == 1..MaxMessages
<1>1. t \in Seq(S) /\ IsInjective(t) /\ Range(t) = {x}
  BY DEF IsInjective, Range
<1>2. u = s \o t
  OBVIOUS
<1> HIDE DEF t, S
<1>3. Range(s) \cap Range(t) = {}
  BY <1>1
<1>4. s \o t \in Seq(S) /\ IsInjective(s \o t) /\ Range(s \o t) = Range(s) \cup Range(t)
  <2>1. s \in Seq(S)
    BY DEF S
  <2> QED BY <1>1, <1>3, <2>1, ConcatInjective
<1> QED BY <1>1, <1>2, <1>4, Zenon DEF S

\* The oldest message of an ordered list, and the others.
LEMMA HeadAndTail ==
    ASSUME NEW list \in Seq(Held), list # <<>>, Ordered(list)
    PROVE  /\ Head(list) \in Held /\ Head(list).id \in 1..MaxMessages
           /\ Tail(list) \in Seq(Held) /\ Len(Tail(list)) = Len(list) - 1
           /\ Ordered(Tail(list))
           /\ IdsOf(list) = IdsOf(Tail(list)) \cup {Head(list).id}
           /\ \A m \in IdsOf(Tail(list)) : Head(list).id < m
           /\ Head(list).id \notin IdsOf(Tail(list))
<1> DEFINE t == Tail(list)
<1>1. /\ t \in Seq(Held) /\ Len(list) \in Nat /\ Len(list) >= 1 /\ Len(t) = Len(list) - 1
      /\ Head(list) = list[1]
      /\ \A i \in 1..Len(t) : t[i] = list[i + 1]
  OBVIOUS
<1> HIDE DEF t
<1>2. list[1].id \in 1..MaxMessages /\ list[1] \in Held
  BY <1>1, HeldIds
<1>3. \A i \in 1..Len(t) : i + 1 \in 1..Len(list) /\ 1 < i + 1 /\ 1 \in 1..Len(list)
  BY <1>1
<1>4. Ordered(t)
  <2> SUFFICES ASSUME NEW i \in 1..Len(t), NEW j \in 1..Len(t), i < j
               PROVE  t[i].id < t[j].id
    BY DEF Ordered
  <2>1. i + 1 < j + 1
    BY <1>1
  <2> QED BY <1>1, <1>3, <2>1 DEF Ordered
<1>5. \A i \in 1..Len(t) : list[1].id < t[i].id
  BY <1>1, <1>3 DEF Ordered
<1>6. \A i \in 1..Len(t) : t[i].id # list[1].id
  BY <1>2, <1>5
<1>7. IdsOf(list) = IdsOf(t) \cup {list[1].id}
  <2>1. \A i \in 1..Len(list) : i = 1 \/ (i - 1 \in 1..Len(t) /\ (i - 1) + 1 = i)
    BY <1>1
  <2>2. \A i \in 1..Len(list) : i = 1 \/ (i - 1 \in 1..Len(t) /\ list[i] = t[i - 1])
    BY <1>1, <2>1
  <2>3. 1 \in 1..Len(list)
    BY <1>1
  <2> QED BY <1>1, <1>3, <2>2, <2>3 DEF IdsOf
<1> QED BY <1>1, <1>2, <1>4, <1>5, <1>6, <1>7 DEF IdsOf, t

\* A younger message at the end of an ordered list.
LEMMA AppendYounger ==
    ASSUME NEW list \in Seq(Held), Ordered(list), NEW x \in Held,
           \A m \in IdsOf(list) : m < x.id
    PROVE  /\ Append(list, x) \in Seq(Held)
           /\ Append(list, x) # <<>>
           /\ Len(Append(list, x)) = Len(list) + 1
           /\ Ordered(Append(list, x))
           /\ IdsOf(Append(list, x)) = IdsOf(list) \cup {x.id}
<1> DEFINE u == Append(list, x)
<1>1. /\ u \in Seq(Held) /\ Len(list) \in Nat /\ Len(u) = Len(list) + 1
      /\ \A i \in 1..Len(list) : u[i] = list[i]
      /\ u[Len(list) + 1] = x
  OBVIOUS
<1> HIDE DEF u
<1>2. \A i \in 1..Len(u) : i \in 1..Len(list) \/ i = Len(list) + 1
  BY <1>1
<1>3. \A i \in 1..Len(list) : i \in 1..Len(u) /\ list[i].id < x.id
  BY <1>1 DEF IdsOf
<1>4. Ordered(u)
  <2> SUFFICES ASSUME NEW i \in 1..Len(u), NEW j \in 1..Len(u), i < j
               PROVE  u[i].id < u[j].id
    BY DEF Ordered
  <2>1. i \in 1..Len(list)
    BY <1>1
  <2>2. CASE j \in 1..Len(list)
    BY <1>1, <2>1, <2>2 DEF Ordered
  <2>3. CASE j = Len(list) + 1
    BY <1>1, <1>3, <2>1, <2>3
  <2> QED BY <1>2, <2>2, <2>3
<1>5. Len(list) + 1 \in 1..Len(u) /\ u # <<>>
  BY <1>1
<1>6. IdsOf(u) = IdsOf(list) \cup {x.id}
  BY <1>1, <1>2, <1>3, <1>5 DEF IdsOf
<1> QED BY <1>1, <1>4, <1>5, <1>6 DEF u

\* The ids of held messages are message numbers.
LEMMA IdsAreNumbers ==
    ASSUME NEW list \in Seq(Held)
    PROVE  IdsOf(list) \subseteq 1..MaxMessages /\ IdsOf(list) \subseteq Int
BY HeldIds DEF IdsOf

-----------------------------------------------------------------------------
(* The inductive invariant.                                                *)

BridgeTyped ==
  /\ proc \in {"none", "running", "exited"}
  /\ spawns \in 0..MaxSpawns
  /\ phase \in [Tasks -> {"unborn", "asleep", "connecting", "reading", "done"}]
  /\ sock \in [Tasks -> {"none", "live", "dead", "closing"}]
  /\ writer \in Tasks \cup {NoTask}
  /\ connected \in BOOLEAN

MessagesTyped ==
  /\ queue \in Seq(Held) /\ held \in Seq(Held)
  /\ Len(queue) + Len(held) <= QueueMax
  /\ notes \in Seq(1..MaxMessages)
  /\ offered \in 0..MaxMessages
  /\ delivered \in Seq(1..MaxMessages)
  /\ vanished \subseteq 1..MaxMessages
  /\ evicted \subseteq 1..MaxMessages
  /\ told \in Seq(1..MaxMessages)
  /\ raised \subseteq 1..MaxMessages

\* The types, in the two halves the proof treats separately.
LEMMA TypeSplits == TypeOK <=> BridgeTyped /\ MessagesTyped
BY Zenon DEF TypeOK, BridgeTyped, MessagesTyped

\* What was put back is in order, what is left of the flush too, and younger.
WaitingOrdered ==
  /\ Ordered(queue) /\ Ordered(held)
  /\ \A m \in IdsOf(queue), n \in IdsOf(held) : m < n

WaitingIds == IdsOf(queue) \cup IdsOf(held)

\* What waits for no failure of its own is younger than all that was read, ...
YoungerThanRead ==
  \A i \in 1..Len(delivered), m \in WaitingIds \ raised : delivered[i] < m

\* ... and what waits at all is younger than what was pushed out.
YoungerThanLost == \A lost \in evicted, m \in WaitingIds : lost < m

\* Seven sets of which no two meet.
Apart(Q, H, D, V, E, N, T) ==
  /\ Q \cap H = {} /\ Q \cap D = {} /\ Q \cap V = {} /\ Q \cap E = {} /\ Q \cap N = {} /\ Q \cap T = {}
  /\ H \cap D = {} /\ H \cap V = {} /\ H \cap E = {} /\ H \cap N = {} /\ H \cap T = {}
  /\ D \cap V = {} /\ D \cap E = {} /\ D \cap N = {} /\ D \cap T = {}
  /\ V \cap E = {} /\ V \cap N = {} /\ V \cap T = {}
  /\ E \cap N = {} /\ E \cap T = {} /\ N \cap T = {}

\* What OneFate says, place by place.
FatesApart ==
  /\ IsInjective(delivered) /\ IsInjective(notes) /\ IsInjective(told)
  /\ Apart(IdsOf(queue), IdsOf(held), Range(delivered), vanished, evicted, Range(notes), Range(told))
  /\ IdsOf(queue) \cup IdsOf(held) \cup Range(delivered) \cup vanished \cup evicted
       \cup Range(notes) \cup Range(told) = 1..offered

MessagesInv ==
  /\ MessagesTyped /\ WaitingOrdered /\ YoungerThanRead /\ YoungerThanLost
  /\ FatesApart /\ OvertakenOnlyIfRaised

\* A flush runs on a bridge just adopted; beside a bridge believed up only
\* messages whose write raised are queued.
BesideInv ==
  /\ held # <<>> => connected /\ writer # NoTask
  /\ BridgeBelievedUp => IdsOf(queue) \subseteq raised

IInv == BridgeTyped /\ MessagesInv /\ BesideInv

\* Seven sets in a tuple are pairwise disjoint when no two of them meet.
LEMMA SevenApart ==
    ASSUME NEW Q, NEW H, NEW D, NEW V, NEW E, NEW N, NEW T, NEW P, P = <<Q, H, D, V, E, N, T>>,
           Apart(Q, H, D, V, E, N, T)
    PROVE  /\ \A i, j \in DOMAIN P : i # j => P[i] \cap P[j] = {}
           /\ UNION Range(P) = Q \cup H \cup D \cup V \cup E \cup N \cup T
<1>1. /\ DOMAIN P = {1, 2, 3, 4, 5, 6, 7}
      /\ P[1] = Q /\ P[2] = H /\ P[3] = D /\ P[4] = V /\ P[5] = E /\ P[6] = N /\ P[7] = T
  OBVIOUS
<1>2. Range(P) = {Q, H, D, V, E, N, T}
  BY <1>1 DEF Range
<1>3. UNION Range(P) = Q \cup H \cup D \cup V \cup E \cup N \cup T
  BY <1>2
<1>4. ASSUME NEW i \in DOMAIN P, NEW j \in DOMAIN P, i # j
      PROVE  P[i] \cap P[j] = {}
  <2>1. \A X, Y : X \cap Y = {} => Y \cap X = {}
    OBVIOUS
  <2> QED BY <1>1, <1>4, <2>1, Zenon DEF Apart
<1> QED BY <1>3, <1>4

\* Places that do not meet are what OneFate asks for.
LEMMA OneFateHolds == MessagesInv => OneFate
<1> SUFFICES ASSUME MessagesInv PROVE OneFate
  OBVIOUS
<1>1. queue \in Seq(Held) /\ held \in Seq(Held) /\ Ordered(queue) /\ Ordered(held) /\ FatesApart
  BY DEF MessagesInv, MessagesTyped, WaitingOrdered
<1>2. IsInjective(Ids(queue)) /\ IsInjective(Ids(held))
  BY <1>1, OrderedIsInjective
<1>3. Range(Ids(queue)) = IdsOf(queue) /\ Range(Ids(held)) = IdsOf(held)
  BY <1>1, IdsAreIds
<1> DEFINE Q == IdsOf(queue)
           H == IdsOf(held)
           D == Range(delivered)
           N == Range(notes)
           T == Range(told)
<1>4. Fates = <<Q, H, D, vanished, evicted, N, T>>
  BY <1>3 DEF Fates
<1>5. Apart(Q, H, D, vanished, evicted, N, T)
      /\ Q \cup H \cup D \cup vanished \cup evicted \cup N \cup T = 1..offered
  BY <1>1 DEF FatesApart
<1> HIDE DEF Q, H, D, N, T
<1>6. /\ \A i, j \in DOMAIN Fates : i # j => Fates[i] \cap Fates[j] = {}
      /\ UNION Range(Fates) = Q \cup H \cup D \cup vanished \cup evicted \cup N \cup T
  BY <1>4, <1>5, SevenApart
<1> QED BY <1>1, <1>2, <1>5, <1>6 DEF OneFate, FatesApart

\* The invariant gives the queue's discipline.
LEMMA DisciplineHolds == IInv => QueueKept
<1> SUFFICES ASSUME IInv PROVE QueueKept
  OBVIOUS
<1>1. Range(Ids(queue)) = IdsOf(queue) /\ Range(Ids(held)) = IdsOf(held)
  BY IdsAreIds DEF IInv, MessagesInv, MessagesTyped
<1>2. QueuedBesideBridgeIfRaised
  BY <1>1 DEF IInv, BesideInv, QueuedBesideBridgeIfRaised
<1>3. NewestKept
  BY <1>1 DEF IInv, MessagesInv, YoungerThanLost, WaitingIds, NewestKept, Waiting
<1> QED BY <1>2, <1>3 DEF IInv, MessagesInv, QueueKept

\* The messages' half of the invariant, of any values of the variables: types,
\* order, and seven places apart.
InOrderAt(q, h, d, e, r) ==
  /\ Ordered(q) /\ Ordered(h)
  /\ \A m \in IdsOf(q), n \in IdsOf(h) : m < n
  /\ \A i \in 1..Len(d), m \in (IdsOf(q) \cup IdsOf(h)) \ r : d[i] < m
  /\ \A lost \in e, m \in IdsOf(q) \cup IdsOf(h) : lost < m
  /\ \A i, j \in 1..Len(d) : i < j => d[i] < d[j] \/ d[j] \in r

ApartAt(q, h, d, v, e, n, t, o) ==
  /\ IsInjective(d) /\ IsInjective(n) /\ IsInjective(t)
  /\ Apart(IdsOf(q), IdsOf(h), Range(d), v, e, Range(n), Range(t))
  /\ IdsOf(q) \cup IdsOf(h) \cup Range(d) \cup v \cup e \cup Range(n) \cup Range(t) = 1..o

LEMMA InvariantIs ==
    MessagesInv <=> /\ MessagesTyped
                    /\ InOrderAt(queue, held, delivered, evicted, raised)
                    /\ ApartAt(queue, held, delivered, vanished, evicted, notes, told, offered)
<1>1. ASSUME MessagesTyped PROVE DOMAIN delivered = 1..Len(delivered)
  BY <1>1 DEF MessagesTyped
<1>2. FatesApart <=> ApartAt(queue, held, delivered, vanished, evicted, notes, told, offered)
  BY DEF FatesApart, ApartAt
<1>3. ASSUME MessagesTyped
      PROVE  WaitingOrdered /\ YoungerThanRead /\ YoungerThanLost /\ OvertakenOnlyIfRaised
               <=> InOrderAt(queue, held, delivered, evicted, raised)
  BY <1>1, <1>3 DEF WaitingOrdered, YoungerThanRead, YoungerThanLost, OvertakenOnlyIfRaised,
                    InOrderAt, WaitingIds
<1> QED BY <1>2, <1>3 DEF MessagesInv

\* The same, in the next state.
LEMMA InvariantIsNext ==
    ASSUME MessagesTyped',
           InOrderAt(queue', held', delivered', evicted', raised'),
           ApartAt(queue', held', delivered', vanished', evicted', notes', told', offered')
    PROVE  MessagesInv'
<1>1. DOMAIN delivered' = 1..Len(delivered')
  BY DEF MessagesTyped
<1>2. FatesApart'
  BY DEF FatesApart, ApartAt, Apart, IdsOf, Range, IsInjective
<1>3. WaitingOrdered' /\ YoungerThanRead' /\ YoungerThanLost' /\ OvertakenOnlyIfRaised'
  BY <1>1 DEF WaitingOrdered, YoungerThanRead, YoungerThanLost, OvertakenOnlyIfRaised,
              InOrderAt, WaitingIds, Ordered, IdsOf
<1> QED BY <1>2, <1>3 DEF MessagesInv

-----------------------------------------------------------------------------
(* What the steps do to the messages.                                      *)

\* What was never touched keeps its place.
LEMMA MessagesUntouched ==
    ASSUME MessagesInv, UNCHANGED messageVars
    PROVE  MessagesInv'
<1>1. MessagesTyped'
  BY DEF MessagesInv, messageVars, MessagesTyped
<1>2. /\ InOrderAt(queue', held', delivered', evicted', raised')
      /\ ApartAt(queue', held', delivered', vanished', evicted', notes', told', offered')
  BY InvariantIs DEF messageVars
<1> QED BY <1>1, <1>2, InvariantIsNext

\* A flush begins: the whole queue is in its hands.
LEMMA TakeStep ==
    ASSUME MessagesInv, held = <<>>, held' = queue, queue' = <<>>,
           UNCHANGED <<notes, offered, delivered, vanished, evicted, told, raised>>
    PROVE  MessagesInv'
<1>1. MessagesTyped'
  <2>1. Len(queue') = 0 /\ Len(held) = 0 /\ queue' \in Seq(Held)
    OBVIOUS
  <2> QED BY <2>1 DEF MessagesInv, MessagesTyped
<1>2. IdsOf(queue') = {} /\ IdsOf(held) = {} /\ IdsOf(held') = IdsOf(queue) /\ Ordered(queue')
  BY DEF IdsOf, Ordered
<1>3. /\ InOrderAt(queue, held, delivered, evicted, raised)
      /\ ApartAt(queue, held, delivered, vanished, evicted, notes, told, offered)
  BY InvariantIs
<1>4. InOrderAt(queue', held', delivered', evicted', raised')
  <2>1. Ordered(held')
    BY <1>3 DEF InOrderAt
  <2> QED BY <1>2, <1>3, <2>1 DEF InOrderAt
<1>5. ApartAt(queue', held', delivered', vanished', evicted', notes', told', offered')
  BY <1>2, <1>3 DEF ApartAt, Apart
<1> QED BY <1>1, <1>4, <1>5, InvariantIsNext

\* The message the flush has come to, and the rest of it.
LEMMA FlushHead ==
    ASSUME MessagesInv, held # <<>>, held' = Tail(held)
    PROVE  /\ Head(held) \in Held /\ Message \in 1..MaxMessages
           /\ held' \in Seq(Held) /\ Len(held') = Len(held) - 1
           /\ Ordered(held')
           /\ IdsOf(held) = IdsOf(held') \cup {Message}
           /\ Message \notin IdsOf(held')
           /\ \A m \in IdsOf(held') : Message < m
           /\ \A m \in IdsOf(queue) : m < Message
           /\ \A m \in IdsOf(queue) : m # Message
<1>1. held \in Seq(Held) /\ Ordered(held) /\ queue \in Seq(Held)
      /\ \A m \in IdsOf(queue), n \in IdsOf(held) : m < n
  BY DEF MessagesInv, MessagesTyped, WaitingOrdered
<1>2. /\ Head(held) \in Held /\ Message \in 1..MaxMessages
      /\ held' \in Seq(Held) /\ Len(held') = Len(held) - 1
      /\ Ordered(held')
      /\ IdsOf(held) = IdsOf(held') \cup {Message}
      /\ \A m \in IdsOf(held') : Message < m
      /\ Message \notin IdsOf(held')
  BY <1>1, HeadAndTail DEF Message
<1>3. \A m \in IdsOf(queue) : m < Message
  BY <1>1, <1>2
<1>4. \A m \in IdsOf(queue) : m # Message
  BY <1>1, <1>2, <1>3, IdsAreNumbers
<1> QED BY <1>2, <1>3, <1>4

\* A stale message leaves the flush for the notes.
LEMMA NoteStep ==
    ASSUME MessagesInv, FlushNotes
    PROVE  MessagesInv'
<1>0. /\ held # <<>> /\ held' = Tail(held) /\ notes' = Append(notes, Message)
      /\ UNCHANGED <<queue, offered, delivered, vanished, evicted, told, raised>>
  BY DEF FlushNotes, FlushTakes
<1>1. /\ Head(held) \in Held /\ Message \in 1..MaxMessages
      /\ held' \in Seq(Held) /\ Len(held') = Len(held) - 1
      /\ Ordered(held')
      /\ IdsOf(held) = IdsOf(held') \cup {Message}
      /\ Message \notin IdsOf(held')
  BY <1>0, FlushHead
<1>2. /\ MessagesTyped
      /\ InOrderAt(queue, held, delivered, evicted, raised)
      /\ ApartAt(queue, held, delivered, vanished, evicted, notes, told, offered)
  BY InvariantIs
<1>3. /\ notes' \in Seq(1..MaxMessages) /\ IsInjective(notes')
      /\ Range(notes') = Range(notes) \cup {Message}
  <2>1. notes \in Seq(1..MaxMessages) /\ IsInjective(notes) /\ Message \notin Range(notes)
    BY <1>1, <1>2 DEF ApartAt, Apart, MessagesTyped
  <2> QED BY <1>0, <1>1, <2>1, AppendNew, Zenon
<1>4. MessagesTyped'
  BY <1>0, <1>1, <1>2, <1>3, BoundsAreCounts DEF MessagesTyped
<1>5. InOrderAt(queue', held', delivered', evicted', raised')
  BY <1>0, <1>1, <1>2 DEF InOrderAt
<1>6. ApartAt(queue', held', delivered', vanished', evicted', notes', told', offered')
  BY <1>0, <1>1, <1>2, <1>3 DEF ApartAt, Apart
<1> QED BY <1>4, <1>5, <1>6, InvariantIsNext

\* A message that is put back follows what was put back before it.
LEMMA PutBackStep ==
    ASSUME MessagesInv, held # <<>>, held' = Tail(held), PutBack,
           raised' = raised \/ raised' = raised \cup {Message},
           UNCHANGED <<notes, offered, delivered, vanished, evicted, told>>
    PROVE  MessagesInv' /\ IdsOf(queue') = IdsOf(queue) \cup {Message}
<1>1. /\ Head(held) \in Held /\ Message \in 1..MaxMessages
      /\ held' \in Seq(Held) /\ Len(held') = Len(held) - 1
      /\ Ordered(held')
      /\ IdsOf(held) = IdsOf(held') \cup {Message}
      /\ Message \notin IdsOf(held')
      /\ \A m \in IdsOf(held') : Message < m
      /\ \A m \in IdsOf(queue) : m < Message
  BY FlushHead
<1>2. /\ MessagesTyped
      /\ InOrderAt(queue, held, delivered, evicted, raised)
      /\ ApartAt(queue, held, delivered, vanished, evicted, notes, told, offered)
  BY InvariantIs
<1>3. /\ queue' \in Seq(Held) /\ Len(queue') = Len(queue) + 1
      /\ Ordered(queue')
      /\ IdsOf(queue') = IdsOf(queue) \cup {Message}
  <2>1. queue \in Seq(Held) /\ Ordered(queue)
    BY <1>2 DEF MessagesTyped, InOrderAt
  <2>2. queue' = Append(queue, Head(held)) /\ Head(held).id = Message
    BY DEF PutBack, Message
  <2> QED BY <1>1, <2>1, <2>2, AppendYounger
<1>4. MessagesTyped'
  <2>1. Len(queue') + Len(held') = Len(queue) + Len(held)
    BY <1>1, <1>2, <1>3 DEF MessagesTyped
  <2>2. raised' \subseteq 1..MaxMessages
    BY <1>1, <1>2 DEF MessagesTyped
  <2> QED BY <1>1, <1>2, <1>3, <2>1, <2>2 DEF MessagesTyped
<1>5. InOrderAt(queue', held', delivered', evicted', raised')
  <2>1. \A m \in IdsOf(queue'), n \in IdsOf(held') : m < n
    BY <1>1, <1>2, <1>3 DEF InOrderAt
  <2>2. IdsOf(queue') \cup IdsOf(held') = IdsOf(queue) \cup IdsOf(held)
    BY <1>1, <1>3
  <2>3. raised \subseteq raised'
    OBVIOUS
  <2>4. \A i \in 1..Len(delivered), m \in (IdsOf(queue') \cup IdsOf(held')) \ raised' : delivered[i] < m
    BY <1>2, <2>2, <2>3 DEF InOrderAt
  <2>5. \A lost \in evicted, m \in IdsOf(queue') \cup IdsOf(held') : lost < m
    BY <1>2, <2>2 DEF InOrderAt
  <2>6. \A i, j \in 1..Len(delivered) : i < j => delivered[i] < delivered[j] \/ delivered[j] \in raised'
    BY <1>2, <2>3 DEF InOrderAt
  <2> QED BY <1>1, <1>3, <2>1, <2>4, <2>5, <2>6 DEF InOrderAt
<1>6. ApartAt(queue', held', delivered', vanished', evicted', notes', told', offered')
  <2>1. \A m \in IdsOf(queue) : m # Message
    BY FlushHead
  <2> QED BY <1>1, <1>2, <1>3, <2>1 DEF ApartAt, Apart
<1> QED BY <1>3, <1>4, <1>5, <1>6, InvariantIsNext

\* A message whose write raised nothing: read, and then younger than all that
\* was read unless a write of it raised before; or gone.
LEMMA WrittenStep ==
    ASSUME MessagesInv, held # <<>>, held' = Tail(held), Written(Message),
           IdsOf(queue) \subseteq raised,
           UNCHANGED <<queue, notes, offered, evicted, told, raised>>
    PROVE  MessagesInv'
<1>1. /\ Head(held) \in Held /\ Message \in 1..MaxMessages
      /\ held' \in Seq(Held) /\ Len(held') = Len(held) - 1
      /\ Ordered(held')
      /\ IdsOf(held) = IdsOf(held') \cup {Message}
      /\ Message \notin IdsOf(held')
      /\ \A m \in IdsOf(held') : Message < m
  BY FlushHead
<1>2. /\ MessagesTyped
      /\ InOrderAt(queue, held, delivered, evicted, raised)
      /\ ApartAt(queue, held, delivered, vanished, evicted, notes, told, offered)
  BY InvariantIs
<1>3. CASE vanished' = vanished \cup {Message} /\ UNCHANGED delivered
  <2>1. MessagesTyped'
    BY <1>1, <1>2, <1>3, BoundsAreCounts DEF MessagesTyped
  <2>2. InOrderAt(queue', held', delivered', evicted', raised')
    BY <1>1, <1>2, <1>3 DEF InOrderAt
  <2>3. ApartAt(queue', held', delivered', vanished', evicted', notes', told', offered')
    BY <1>1, <1>2, <1>3 DEF ApartAt, Apart
  <2> QED BY <2>1, <2>2, <2>3, InvariantIsNext
<1>4. CASE delivered' = Append(delivered, Message) /\ UNCHANGED vanished
  <2>1. delivered \in Seq(1..MaxMessages) /\ IsInjective(delivered) /\ Message \notin Range(delivered)
    BY <1>1, <1>2 DEF ApartAt, Apart, MessagesTyped
  <2>2. /\ delivered' \in Seq(1..MaxMessages) /\ IsInjective(delivered')
        /\ Range(delivered') = Range(delivered) \cup {Message}
    BY <1>1, <1>4, <2>1, AppendNew, Zenon
  <2>3. /\ Len(delivered) \in Nat /\ Len(delivered') = Len(delivered) + 1
        /\ \A i \in 1..Len(delivered) : delivered'[i] = delivered[i]
        /\ delivered'[Len(delivered) + 1] = Message
    BY <1>4, <2>1
  <2>4. \A i \in 1..Len(delivered') : i \in 1..Len(delivered) \/ i = Len(delivered) + 1
    BY <2>3
  <2>5. MessagesTyped'
    BY <1>1, <1>2, <1>4, <2>2, BoundsAreCounts DEF MessagesTyped
  <2>6. \A i \in 1..Len(delivered), m \in (IdsOf(queue) \cup IdsOf(held)) \ raised : delivered[i] < m
    BY <1>2 DEF InOrderAt
  <2>7. \A i \in 1..Len(delivered'), m \in (IdsOf(queue') \cup IdsOf(held')) \ raised' : delivered'[i] < m
    BY <1>1, <2>3, <2>4, <2>6
  <2>8. ASSUME NEW i \in 1..Len(delivered'), NEW j \in 1..Len(delivered'), i < j
        PROVE  delivered'[i] < delivered'[j] \/ delivered'[j] \in raised'
    <3>1. i \in 1..Len(delivered)
      BY <2>3, <2>8
    <3>2. CASE j \in 1..Len(delivered)
      BY <1>2, <2>3, <2>8, <3>1, <3>2 DEF InOrderAt
    <3>3. CASE j = Len(delivered) + 1
      BY <1>1, <2>3, <2>6, <3>1, <3>3
    <3> QED BY <2>4, <3>2, <3>3
  <2>9. InOrderAt(queue', held', delivered', evicted', raised')
    BY <1>1, <1>2, <2>7, <2>8 DEF InOrderAt
  <2>10. ApartAt(queue', held', delivered', vanished', evicted', notes', told', offered')
    BY <1>1, <1>2, <1>4, <2>2 DEF ApartAt, Apart
  <2> QED BY <2>5, <2>9, <2>10, InvariantIsNext
<1> QED BY <1>3, <1>4 DEF Written

\* A message that was not yet offered is in no place, and the youngest.
LEMMA NewIsNowhere ==
    ASSUME MessagesInv, Offer
    PROVE  /\ held = <<>> /\ IdsOf(held) = {}
           /\ offered \in Nat /\ offered' = offered + 1 /\ offered' \in 0..MaxMessages
           /\ offered + 1 \in 1..MaxMessages
           /\ 1..offered' = 1..offered \cup {offered + 1}
           /\ offered + 1 \notin 1..offered
           /\ \A m \in IdsOf(queue) : m < offered + 1
           /\ \A m \in evicted : m < offered + 1
           /\ \A i \in 1..Len(delivered) : delivered[i] < offered + 1
<1>1. held = <<>> /\ offered < MaxMessages /\ offered' = offered + 1
  BY DEF Offer, LoopFree
<1>2. offered \in Nat /\ MaxMessages \in Nat
  BY BoundsAreCounts DEF MessagesInv, MessagesTyped
<1>3. IdsOf(queue) \subseteq 1..offered /\ Range(delivered) \subseteq 1..offered
      /\ evicted \subseteq 1..offered
  BY DEF MessagesInv, FatesApart
<1>4. \A m \in 1..offered : m < offered + 1
  BY <1>2
<1>5. \A i \in 1..Len(delivered) : delivered[i] \in Range(delivered)
  BY DEF MessagesInv, MessagesTyped, Range
<1>6. 1..offered + 1 = 1..offered \cup {offered + 1} /\ offered + 1 \notin 1..offered
  BY <1>2
<1>7. IdsOf(held) = {}
  BY <1>1 DEF IdsOf
<1> QED BY <1>1, <1>2, <1>3, <1>4, <1>5, <1>6, <1>7

\* The queue after an append: at most as long as it may be, and what had to go
\* was its oldest.
LEMMA HoldKeepsNewest ==
    ASSUME MessagesInv, Offer, Hold(offered + 1)
    PROVE  /\ queue' \in Seq(Held) /\ Len(queue') <= QueueMax /\ Ordered(queue')
           /\ \/ IdsOf(queue') = IdsOf(queue) \cup {offered + 1} /\ evicted' = evicted
              \/ \E lost \in IdsOf(queue) :
                   /\ IdsOf(queue') = (IdsOf(queue) \ {lost}) \cup {offered + 1}
                   /\ \A m \in IdsOf(queue') : lost < m
                   /\ evicted' = evicted \cup {lost}
<1> DEFINE new == [id |-> offered + 1, aged |-> FALSE]
           longer == Append(queue, new)
<1>1. /\ offered + 1 \in 1..MaxMessages
      /\ \A m \in IdsOf(queue) : m < offered + 1
  BY NewIsNowhere
<1>2. queue \in Seq(Held) /\ Ordered(queue) /\ Len(queue) \in Nat /\ Len(queue) <= QueueMax
  <2>1. Len(held) = 0
    BY DEF Offer, LoopFree
  <2> QED BY <2>1 DEF MessagesInv, MessagesTyped, WaitingOrdered
<1>3. new \in Held /\ new.id = offered + 1
  BY <1>1 DEF Held
<1>4. /\ longer \in Seq(Held) /\ longer # <<>> /\ Len(longer) = Len(queue) + 1
      /\ Ordered(longer)
      /\ IdsOf(longer) = IdsOf(queue) \cup {offered + 1}
  <2> HIDE DEF new
  <2> QED BY <1>1, <1>2, <1>3, AppendYounger
<1>5. CASE Len(queue) = QueueMax
  <2>1. queue' = Tail(longer) /\ evicted' = evicted \cup {Head(queue).id}
    BY <1>5 DEF Hold
  <2>2. queue # <<>>
    BY <1>5, BoundsAreCounts
  <2>3. Head(longer) = Head(queue)
    BY <1>2, <2>2
  <2>4. /\ Tail(longer) \in Seq(Held) /\ Len(Tail(longer)) = Len(longer) - 1
        /\ Ordered(Tail(longer))
        /\ IdsOf(longer) = IdsOf(Tail(longer)) \cup {Head(longer).id}
        /\ \A m \in IdsOf(Tail(longer)) : Head(longer).id < m
        /\ Head(longer).id \notin IdsOf(Tail(longer))
    <3> HIDE DEF longer
    <3> QED BY <1>4, HeadAndTail
  <2>5. Head(queue).id \in IdsOf(queue)
    BY <1>2, <2>2 DEF IdsOf
  <2> HIDE DEF longer
  <2>6. /\ queue' \in Seq(Held) /\ Len(queue') = Len(queue) /\ Ordered(queue')
        /\ IdsOf(longer) = IdsOf(queue') \cup {Head(queue).id}
        /\ \A m \in IdsOf(queue') : Head(queue).id < m
        /\ Head(queue).id \notin IdsOf(queue')
    BY <1>2, <1>4, <2>1, <2>3, <2>4
  <2>7. Head(queue).id # offered + 1
    BY <1>1, <2>5, <1>2, IdsAreNumbers
  <2>8. IdsOf(queue') = (IdsOf(queue) \ {Head(queue).id}) \cup {offered + 1}
    BY <1>4, <2>6, <2>7
  <2> QED BY <1>2, <2>1, <2>5, <2>6, <2>8
<1>6. CASE Len(queue) # QueueMax
  <2>1. queue' = longer /\ evicted' = evicted
    BY <1>6 DEF Hold
  <2> HIDE DEF longer
  <2> QED BY <1>2, <1>4, <1>6, <2>1, BoundsAreCounts
<1> QED BY <1>5, <1>6

\* A message that is held is the youngest; the oldest may have to go for it.
LEMMA HoldStep ==
    ASSUME MessagesInv, Offer, Hold(offered + 1),
           raised' = raised \/ raised' = raised \cup {offered + 1},
           UNCHANGED <<held, notes, delivered, vanished, told>>
    PROVE  MessagesInv' /\ IdsOf(queue') \subseteq IdsOf(queue) \cup {offered + 1}
<1>1. /\ held = <<>> /\ IdsOf(held) = {}
      /\ offered \in Nat /\ offered' = offered + 1 /\ offered' \in 0..MaxMessages
      /\ offered + 1 \in 1..MaxMessages
      /\ 1..offered' = 1..offered \cup {offered + 1}
      /\ offered + 1 \notin 1..offered
      /\ \A m \in IdsOf(queue) : m < offered + 1
      /\ \A m \in evicted : m < offered + 1
      /\ \A i \in 1..Len(delivered) : delivered[i] < offered + 1
  BY NewIsNowhere
<1>2. /\ MessagesTyped
      /\ InOrderAt(queue, held, delivered, evicted, raised)
      /\ ApartAt(queue, held, delivered, vanished, evicted, notes, told, offered)
  BY InvariantIs
<1>3. /\ queue' \in Seq(Held) /\ Len(queue') <= QueueMax /\ Ordered(queue')
      /\ \/ IdsOf(queue') = IdsOf(queue) \cup {offered + 1} /\ evicted' = evicted
         \/ \E lost \in IdsOf(queue) :
              /\ IdsOf(queue') = (IdsOf(queue) \ {lost}) \cup {offered + 1}
              /\ \A m \in IdsOf(queue') : lost < m
              /\ evicted' = evicted \cup {lost}
  BY HoldKeepsNewest
<1>4. raised \subseteq raised' /\ raised' \subseteq 1..MaxMessages
  BY <1>1, <1>2 DEF MessagesTyped
<1>5. MessagesTyped'
  <2>1. evicted' \subseteq 1..MaxMessages
    <3>1. IdsOf(queue) \subseteq 1..MaxMessages
      BY <1>2, IdsAreNumbers DEF MessagesTyped
    <3> QED BY <1>2, <1>3, <3>1 DEF MessagesTyped
  <2>2. Len(held') = 0 /\ Len(queue') \in Nat
    BY <1>1, <1>3
  <2> QED BY <1>1, <1>2, <1>3, <1>4, <2>1, <2>2, BoundsAreCounts DEF MessagesTyped
<1>6. InOrderAt(queue', held', delivered', evicted', raised')
  <2>1. \A i \in 1..Len(delivered), m \in (IdsOf(queue') \cup IdsOf(held')) \ raised' : delivered[i] < m
    BY <1>1, <1>2, <1>3, <1>4 DEF InOrderAt
  <2>2. \A lost \in evicted', m \in IdsOf(queue') \cup IdsOf(held') : lost < m
    BY <1>1, <1>2, <1>3 DEF InOrderAt
  <2>3. \A i, j \in 1..Len(delivered) : i < j => delivered[i] < delivered[j] \/ delivered[j] \in raised'
    BY <1>2, <1>4 DEF InOrderAt
  <2> QED BY <1>1, <1>2, <1>3, <2>1, <2>2, <2>3 DEF InOrderAt
<1>7. ApartAt(queue', held', delivered', vanished', evicted', notes', told', offered')
  <2>1. /\ offered + 1 \notin IdsOf(queue) /\ offered + 1 \notin Range(delivered)
        /\ offered + 1 \notin vanished /\ offered + 1 \notin evicted
        /\ offered + 1 \notin Range(notes) /\ offered + 1 \notin Range(told)
    BY <1>1, <1>2 DEF ApartAt
  <2>2. CASE IdsOf(queue') = IdsOf(queue) \cup {offered + 1} /\ evicted' = evicted
    BY <1>1, <1>2, <2>1, <2>2 DEF ApartAt, Apart
  <2>3. ASSUME NEW lost \in IdsOf(queue),
               IdsOf(queue') = (IdsOf(queue) \ {lost}) \cup {offered + 1},
               evicted' = evicted \cup {lost}
        PROVE  ApartAt(queue', held', delivered', vanished', evicted', notes', told', offered')
    BY <1>1, <1>2, <2>1, <2>3 DEF ApartAt, Apart
  <2> QED BY <1>3, <2>2, <2>3
<1> QED BY <1>3, <1>5, <1>6, <1>7, InvariantIsNext

\* A message that is written at once is younger than all, and nothing that waits
\* beside it waits for another reason than a write that raised.
LEMMA SentStep ==
    ASSUME MessagesInv, Offer, Written(offered + 1), IdsOf(queue) \subseteq raised,
           UNCHANGED <<queue, held, notes, evicted, told, raised>>
    PROVE  MessagesInv'
<1>1. /\ held = <<>> /\ IdsOf(held) = {}
      /\ offered \in Nat /\ offered' = offered + 1 /\ offered' \in 0..MaxMessages
      /\ offered + 1 \in 1..MaxMessages
      /\ 1..offered' = 1..offered \cup {offered + 1}
      /\ offered + 1 \notin 1..offered
      /\ \A i \in 1..Len(delivered) : delivered[i] < offered + 1
  BY NewIsNowhere
<1>2. /\ MessagesTyped
      /\ InOrderAt(queue, held, delivered, evicted, raised)
      /\ ApartAt(queue, held, delivered, vanished, evicted, notes, told, offered)
  BY InvariantIs
<1>3. /\ offered + 1 \notin IdsOf(queue) /\ offered + 1 \notin Range(delivered)
      /\ offered + 1 \notin vanished /\ offered + 1 \notin evicted
      /\ offered + 1 \notin Range(notes) /\ offered + 1 \notin Range(told)
  BY <1>1, <1>2 DEF ApartAt
<1>4. CASE vanished' = vanished \cup {offered + 1} /\ UNCHANGED delivered
  <2>1. MessagesTyped'
    BY <1>1, <1>2, <1>4 DEF MessagesTyped
  <2>2. InOrderAt(queue', held', delivered', evicted', raised')
    BY <1>2, <1>4 DEF InOrderAt
  <2>3. ApartAt(queue', held', delivered', vanished', evicted', notes', told', offered')
    BY <1>1, <1>2, <1>3, <1>4 DEF ApartAt, Apart
  <2> QED BY <2>1, <2>2, <2>3, InvariantIsNext
<1>5. CASE delivered' = Append(delivered, offered + 1) /\ UNCHANGED vanished
  <2>1. delivered \in Seq(1..MaxMessages) /\ IsInjective(delivered)
    BY <1>2 DEF ApartAt, MessagesTyped
  <2>2. /\ delivered' \in Seq(1..MaxMessages) /\ IsInjective(delivered')
        /\ Range(delivered') = Range(delivered) \cup {offered + 1}
    BY <1>1, <1>3, <1>5, <2>1, AppendNew
  <2>3. /\ Len(delivered) \in Nat /\ Len(delivered') = Len(delivered) + 1
        /\ \A i \in 1..Len(delivered) : delivered'[i] = delivered[i]
        /\ delivered'[Len(delivered) + 1] = offered + 1
    BY <1>5, <2>1
  <2>4. MessagesTyped'
    BY <1>1, <1>2, <1>5, <2>2 DEF MessagesTyped
  <2>5. (IdsOf(queue') \cup IdsOf(held')) \ raised' = {}
    BY <1>1
  <2>6. ASSUME NEW i \in 1..Len(delivered'), NEW j \in 1..Len(delivered'), i < j
        PROVE  delivered'[i] < delivered'[j] \/ delivered'[j] \in raised'
    <3>1. i \in 1..Len(delivered)
      BY <2>3, <2>6
    <3>2. CASE j \in 1..Len(delivered)
      BY <1>2, <2>3, <2>6, <3>1, <3>2 DEF InOrderAt
    <3>3. CASE j = Len(delivered) + 1
      BY <1>1, <2>3, <3>1, <3>3
    <3> QED BY <2>3, <3>2, <3>3
  <2>7. InOrderAt(queue', held', delivered', evicted', raised')
    BY <1>2, <2>5, <2>6 DEF InOrderAt
  <2>8. ApartAt(queue', held', delivered', vanished', evicted', notes', told', offered')
    BY <1>1, <1>2, <1>3, <1>5, <2>2 DEF ApartAt, Apart
  <2> QED BY <2>4, <2>7, <2>8, InvariantIsNext
<1> QED BY <1>4, <1>5 DEF Written

\* Time makes messages stale and changes nothing else of them.
LEMMA AgeStep ==
    ASSUME MessagesInv, Age
    PROVE  MessagesInv' /\ IdsOf(queue') = IdsOf(queue)
<1>1. PICK n \in 1..Len(queue) :
        queue' = [i \in DOMAIN queue |-> [queue[i] EXCEPT !.aged = @ \/ i <= n]]
  BY DEF Age
<1>2. UNCHANGED <<held, notes, offered, delivered, vanished, evicted, told, raised>>
  BY DEF Age
<1>3. queue \in Seq(Held) /\ Len(queue) \in Nat /\ DOMAIN queue = 1..Len(queue)
  BY DEF MessagesInv, MessagesTyped
<1> DEFINE l == Len(queue)
<1>4. \A i \in 1..l : queue[i] \in Held
  BY <1>3
<1>5. queue' \in Seq(Held) /\ Len(queue') = l /\ \A i \in 1..l : queue'[i].id = queue[i].id
  <2>1. \A i \in 1..l : [queue[i] EXCEPT !.aged = @ \/ i <= n] \in Held
    BY <1>4 DEF Held
  <2>2. \A i \in 1..l : queue'[i].id = queue[i].id
    BY <1>1, <1>3, <1>4 DEF Held
  <2>3. queue' = [i \in 1..l |-> [queue[i] EXCEPT !.aged = @ \/ i <= n]]
    BY <1>1, <1>3
  <2>4. queue' \in Seq(Held) /\ Len(queue') = l
    BY <1>3, <2>1, <2>3
  <2> QED BY <2>2, <2>4
<1>6. IdsOf(queue') = IdsOf(queue) /\ (Ordered(queue) => Ordered(queue'))
  BY <1>5 DEF IdsOf, Ordered
<1>7. /\ MessagesTyped
      /\ InOrderAt(queue, held, delivered, evicted, raised)
      /\ ApartAt(queue, held, delivered, vanished, evicted, notes, told, offered)
  BY InvariantIs
<1>8. MessagesTyped'
  BY <1>2, <1>5, <1>7 DEF MessagesTyped
<1>9. InOrderAt(queue', held', delivered', evicted', raised')
  BY <1>2, <1>6, <1>7 DEF InOrderAt
<1>10. ApartAt(queue', held', delivered', vanished', evicted', notes', told', offered')
  BY <1>2, <1>6, <1>7 DEF ApartAt
<1> QED BY <1>6, <1>8, <1>9, <1>10, InvariantIsNext

\* What was noted is told, once.
LEMMA TellStep ==
    ASSUME MessagesInv, TellAgent
    PROVE  MessagesInv'
<1>1. /\ notes' = <<>> /\ told' = told \o notes
      /\ UNCHANGED <<queue, held, offered, delivered, vanished, evicted, raised>>
  BY DEF TellAgent
<1>2. /\ MessagesTyped
      /\ InOrderAt(queue, held, delivered, evicted, raised)
      /\ ApartAt(queue, held, delivered, vanished, evicted, notes, told, offered)
  BY InvariantIs
<1>3. /\ told' \in Seq(1..MaxMessages) /\ IsInjective(told')
      /\ Range(told') = Range(told) \cup Range(notes)
  <2>1. /\ IsInjective(told) /\ IsInjective(notes) /\ Range(told) \cap Range(notes) = {}
        /\ told \in Seq(1..MaxMessages) /\ notes \in Seq(1..MaxMessages)
    BY <1>2 DEF ApartAt, Apart, MessagesTyped
  <2> QED BY <1>1, <2>1, ConcatInjective
<1>4. notes' \in Seq(1..MaxMessages) /\ IsInjective(notes') /\ Range(notes') = {}
  BY <1>1 DEF IsInjective, Range
<1>5. MessagesTyped'
  BY <1>1, <1>2, <1>3, <1>4 DEF MessagesTyped
<1>6. InOrderAt(queue', held', delivered', evicted', raised')
  BY <1>1, <1>2 DEF InOrderAt
<1>7. ApartAt(queue', held', delivered', vanished', evicted', notes', told', offered')
  BY <1>1, <1>2, <1>3, <1>4 DEF ApartAt, Apart
<1> QED BY <1>5, <1>6, <1>7, InvariantIsNext

-----------------------------------------------------------------------------
(* The steps.                                                              *)

\* The bridge's half of the invariant, in the next state.
LEMMA BesideNext ==
    ASSUME held' # <<>> => connected' /\ writer' # NoTask,
           BridgeBelievedUp' => IdsOf(queue') \subseteq raised'
    PROVE  BesideInv'
BY DEF BesideInv, IdsOf

\* While nothing touches the messages and the bridge looks no better than
\* before, the invariant stands.
LEMMA BridgeStep ==
    ASSUME IInv, UNCHANGED messageVars, BridgeTyped', BridgeBelievedUp' => BridgeBelievedUp,
           LoopFree \/ UNCHANGED <<connected, writer>>
    PROVE  IInv'
<1>1. MessagesInv'
  BY MessagesUntouched DEF IInv
<1>2. BesideInv'
  BY BesideNext DEF IInv, BesideInv, messageVars, LoopFree
<1> QED BY <1>1, <1>2 DEF IInv

\* The supervisor keeps the invariant: spawning and reaping touch no message.
LEMMA SuperviseKeeps ==
    ASSUME IInv, Supervise
    PROVE  IInv'
<1>1. CASE Spawn
  <2>1. spawns + 1 \in Tasks /\ spawns + 1 \in 0..MaxSpawns
    BY <1>1, BoundsAreCounts DEF Spawn, IInv, BridgeTyped, Tasks
  <2>2. BridgeTyped'
    BY <1>1, <2>1 DEF Spawn, IInv, BridgeTyped
  <2>3. BridgeBelievedUp' => BridgeBelievedUp
    BY <1>1 DEF Spawn, BridgeBelievedUp
  <2> QED BY <1>1, <2>2, <2>3, BridgeStep DEF Spawn
<1>2. CASE SidecarExits
  <2>1. \A t \in Tasks : sock'[t] = "closing" <=> sock[t] = "closing"
    BY <1>2 DEF SidecarExits, IInv, BridgeTyped
  <2>2. BridgeTyped'
    BY <1>2 DEF SidecarExits, IInv, BridgeTyped
  <2>3. BridgeBelievedUp' => BridgeBelievedUp
    BY <1>2, <2>1 DEF SidecarExits, BridgeBelievedUp, IInv, BridgeTyped
  <2> QED BY <1>2, <2>2, <2>3, BridgeStep DEF SidecarExits
<1>3. CASE Reap
  <2>1. BridgeTyped'
    BY <1>3 DEF Reap, IInv, BridgeTyped
  <2>2. BridgeBelievedUp' => BridgeBelievedUp
    BY <1>3 DEF Reap, BridgeBelievedUp
  <2> QED BY <1>3, <2>1, <2>2, BridgeStep DEF Reap
<1> QED BY <1>1, <1>2, <1>3 DEF Supervise

\* A task that adopts its socket leaves nothing queued.
LEMMA AdoptKeeps ==
    ASSUME IInv, NEW t \in Tasks, NEW state \in {"live", "dead"}, Adopt(t, state)
    PROVE  IInv'
<1>1. BridgeTyped'
  BY DEF Adopt, IInv, BridgeTyped
<1>2. MessagesInv'
  BY TakeStep DEF Adopt, LoopFree, IInv
<1>3. BesideInv'
  <2>1. t # NoTask
    BY BoundsAreCounts DEF Tasks, NoTask
  <2>2. writer' = t /\ connected' /\ queue' = <<>>
    BY DEF Adopt
  <2>3. IdsOf(queue') = {}
    BY <2>2 DEF IdsOf
  <2> QED BY <2>1, <2>2, <2>3, BesideNext
<1> QED BY <1>1, <1>2, <1>3 DEF IInv

\* A bridge task keeps the invariant, wherever it is torn down.
LEMMA BridgeTaskKeeps ==
    ASSUME IInv, NEW t \in Tasks, BridgeTask(t)
    PROVE  IInv'
<1>1. CASE LoopHead(t)
  <2>1. BridgeTyped' /\ (BridgeBelievedUp' => BridgeBelievedUp)
    BY <1>1 DEF LoopHead, IInv, BridgeTyped, BridgeBelievedUp
  <2> QED BY <1>1, <2>1, BridgeStep DEF LoopHead
<1>2. CASE ConnectFails(t)
  <2>1. BridgeTyped' /\ (BridgeBelievedUp' => BridgeBelievedUp)
    BY <1>2 DEF ConnectFails, LeaveBridge, IInv, BridgeTyped, BridgeBelievedUp
  <2> QED BY <1>2, <2>1, BridgeStep DEF ConnectFails
<1>3. CASE Connect(t)
  BY <1>3, AdoptKeeps DEF Connect
<1>4. CASE ConnectToNobody(t)
  BY <1>4, AdoptKeeps DEF ConnectToNobody
<1>5. CASE LinkLost(t)
  <2>1. \A u \in Tasks : sock'[u] = "closing" <=> sock[u] = "closing"
    BY <1>5 DEF LinkLost, IInv, BridgeTyped
  <2>2. BridgeTyped'
    BY <1>5 DEF LinkLost, IInv, BridgeTyped
  <2>3. BridgeBelievedUp' => BridgeBelievedUp
    BY <1>5, <2>1 DEF LinkLost, BridgeBelievedUp, IInv, BridgeTyped
  <2> QED BY <1>5, <2>2, <2>3, BridgeStep DEF LinkLost
<1>6. CASE ReadEof(t)
  <2>1. BridgeTyped' /\ (BridgeBelievedUp' => BridgeBelievedUp)
    BY <1>6 DEF ReadEof, LeaveBridge, IInv, BridgeTyped, BridgeBelievedUp
  <2> QED BY <1>6, <2>1, BridgeStep DEF ReadEof
<1>7. CASE ReadEvent(t)
  <2>1. BridgeTyped' /\ (BridgeBelievedUp' => BridgeBelievedUp)
    BY <1>7 DEF ReadEvent, LeaveBridge, IInv, BridgeTyped, BridgeBelievedUp
  <2> QED BY <1>7, <2>1, BridgeStep DEF ReadEvent
<1> QED BY <1>1, <1>2, <1>3, <1>4, <1>5, <1>6, <1>7 DEF BridgeTask

\* Writing leaves the bridge well typed and looking no better than before.
LEMMA WriteOnSocket ==
    ASSUME IInv, writer # NoTask, SocketAfterWrite \/ SocketAfterRaise,
           UNCHANGED <<proc, spawns, phase, writer, connected>>
    PROVE  BridgeTyped' /\ (BridgeBelievedUp' => BridgeBelievedUp)
<1>1. sock' = sock \/ sock' = [sock EXCEPT ![writer] = "closing"]
  BY DEF SocketAfterWrite, SocketAfterRaise
<1>2. BridgeTyped'
  BY <1>1 DEF IInv, BridgeTyped
<1>3. BridgeBelievedUp' => BridgeBelievedUp
  BY <1>1 DEF IInv, BridgeTyped, BridgeBelievedUp
<1> QED BY <1>2, <1>3

\* A turn of the flush's loop keeps the invariant: only a closing socket lets it
\* put back what raised nothing.
LEMMA FlushKeeps ==
    ASSUME IInv, Flush
    PROVE  IInv'
<1>1. held # <<>> /\ held' = Tail(held)
  BY DEF Flush, FlushNotes, FlushPutsBack, FlushWrites, FlushFails, FlushTakes
<1>2. connected /\ writer # NoTask /\ MessagesInv
      /\ (BridgeBelievedUp => IdsOf(queue) \subseteq raised)
  BY <1>1 DEF IInv, BesideInv
<1>3. CASE FlushNotes
  <2>1. MessagesInv'
    BY <1>2, <1>3, NoteStep
  <2>2. UNCHANGED <<bridgeVars, queue, raised>>
    BY <1>3 DEF FlushNotes
  <2>3. BridgeTyped' /\ (BridgeBelievedUp' => BridgeBelievedUp)
    BY <2>2 DEF bridgeVars, IInv, BridgeTyped, BridgeBelievedUp
  <2>4. BesideInv'
    BY <1>2, <2>2, <2>3, BesideNext DEF bridgeVars
  <2> QED BY <2>1, <2>3, <2>4 DEF IInv
<1>4. CASE FlushPutsBack
  <2>1. MessagesInv'
    BY <1>1, <1>2, <1>4, PutBackStep DEF FlushPutsBack
  <2>2. UNCHANGED bridgeVars /\ sock[writer] = "closing"
    BY <1>4 DEF FlushPutsBack
  <2>3. BridgeTyped' /\ ~BridgeBelievedUp'
    BY <2>2 DEF bridgeVars, IInv, BridgeTyped, BridgeBelievedUp
  <2>4. BesideInv'
    BY <1>2, <2>2, <2>3, BesideNext DEF bridgeVars
  <2> QED BY <2>1, <2>3, <2>4 DEF IInv
<1>5. CASE FlushWrites
  <2>1. BridgeBelievedUp
    BY <1>2, <1>5 DEF FlushWrites, BridgeBelievedUp
  <2>2. UNCHANGED <<proc, spawns, phase, writer, connected, queue, raised>> /\ SocketAfterWrite
    BY <1>5 DEF FlushWrites, Written
  <2>3. MessagesInv'
    BY <1>1, <1>2, <1>5, <2>1, WrittenStep DEF FlushWrites
  <2>4. BridgeTyped' /\ (BridgeBelievedUp' => BridgeBelievedUp)
    BY <1>2, <2>2, WriteOnSocket
  <2>5. BesideInv'
    BY <1>2, <2>1, <2>2, BesideNext
  <2> QED BY <2>3, <2>4, <2>5 DEF IInv
<1>6. CASE FlushFails
  <2>1. BridgeBelievedUp
    BY <1>2, <1>6 DEF FlushFails, BridgeBelievedUp
  <2>2. UNCHANGED <<proc, spawns, phase, writer, connected>> /\ SocketAfterRaise
        /\ raised' = raised \cup {Message}
    BY <1>6 DEF FlushFails
  <2>3. MessagesInv' /\ IdsOf(queue') = IdsOf(queue) \cup {Message}
    BY <1>1, <1>2, <1>6, PutBackStep DEF FlushFails
  <2>4. BridgeTyped' /\ (BridgeBelievedUp' => BridgeBelievedUp)
    BY <1>2, <2>2, WriteOnSocket
  <2>5. BesideInv'
    BY <1>2, <2>1, <2>2, <2>3, BesideNext
  <2> QED BY <2>3, <2>4, <2>5 DEF IInv
<1> QED BY <1>3, <1>4, <1>5, <1>6 DEF Flush

\* A send keeps the invariant, written, held or failed.
LEMMA SendKeeps ==
    ASSUME IInv, Send
    PROVE  IInv'
<1>1. Offer /\ held' = held /\ held = <<>>
  BY DEF Send, SendHeld, SendWritten, SendRaises, Offer, LoopFree
<1>2. CASE SendHeld
  <2>1. MessagesInv'
    BY <1>1, <1>2, HoldStep DEF SendHeld, IInv
  <2>2. BridgeTyped' /\ ~BridgeBelievedUp'
    BY <1>2 DEF SendHeld, bridgeVars, IInv, BridgeTyped, BridgeBelievedUp
  <2>3. BesideInv'
    BY <1>1, <2>2, BesideNext
  <2> QED BY <2>1, <2>2, <2>3 DEF IInv
<1>3. CASE SendWritten
  <2>1. IdsOf(queue) \subseteq raised /\ writer # NoTask
    BY <1>3 DEF SendWritten, IInv, BesideInv, BridgeBelievedUp
  <2>2. MessagesInv'
    BY <1>1, <1>3, <2>1, SentStep DEF SendWritten, IInv
  <2>3. UNCHANGED <<proc, spawns, phase, writer, connected, queue, raised>> /\ SocketAfterWrite
    BY <1>3 DEF SendWritten, Written
  <2>4. BridgeTyped'
    BY <2>1, <2>3, WriteOnSocket
  <2>5. BesideInv'
    BY <1>1, <2>1, <2>3, BesideNext
  <2> QED BY <2>2, <2>4, <2>5 DEF IInv
<1>4. CASE SendRaises
  <2>1. IdsOf(queue) \subseteq raised /\ writer # NoTask
    BY <1>4 DEF SendRaises, IInv, BesideInv, BridgeBelievedUp
  <2>2. raised' = raised \cup {offered + 1} /\ SocketAfterRaise
        /\ UNCHANGED <<proc, spawns, phase, writer, connected>>
    BY <1>4 DEF SendRaises
  <2>3. MessagesInv' /\ IdsOf(queue') \subseteq IdsOf(queue) \cup {offered + 1}
    BY <1>1, <1>4, HoldStep DEF SendRaises, IInv
  <2>4. BridgeTyped'
    BY <2>1, <2>2, WriteOnSocket
  <2>5. BesideInv'
    BY <1>1, <2>1, <2>2, <2>3, BesideNext
  <2> QED BY <2>3, <2>4, <2>5 DEF IInv
<1> QED BY <1>2, <1>3, <1>4 DEF Send

\* It holds before anything was offered.
LEMMA InvariantStarts == Init => IInv
<1> SUFFICES ASSUME Init PROVE IInv
  OBVIOUS
<1>1. BridgeTyped
  <2>1. 0 \in 0..MaxSpawns
    BY BoundsAreCounts
  <2> QED BY <2>1 DEF Init, BridgeTyped
<1>2. MessagesTyped
  BY BoundsAreCounts DEF Init, MessagesTyped
<1>3. /\ IdsOf(queue) = {} /\ IdsOf(held) = {} /\ Range(notes) = {} /\ Range(told) = {}
      /\ Range(delivered) = {} /\ Len(delivered) = 0
      /\ vanished = {} /\ evicted = {} /\ 1..offered = {}
      /\ Ordered(queue) /\ Ordered(held)
  BY DEF Init, IdsOf, Range, Ordered
<1>4. InOrderAt(queue, held, delivered, evicted, raised)
  BY <1>3 DEF InOrderAt
<1>5. ApartAt(queue, held, delivered, vanished, evicted, notes, told, offered)
  <2>1. IsInjective(notes) /\ IsInjective(told) /\ IsInjective(delivered)
    BY DEF Init, IsInjective
  <2> QED BY <1>3, <2>1 DEF ApartAt, Apart
<1>6. BesideInv
  BY DEF Init, BesideInv, BridgeBelievedUp
<1> QED BY <1>1, <1>2, <1>4, <1>5, <1>6, InvariantIs DEF IInv

\* Every step keeps it.
LEMMA StepKeeps == IInv /\ [Next]_vars => IInv'
<1> SUFFICES ASSUME IInv, [Next]_vars PROVE IInv'
  OBVIOUS
<1>1. CASE Age
  <2>1. MessagesInv' /\ IdsOf(queue') = IdsOf(queue)
    BY <1>1, AgeStep DEF IInv
  <2>2. UNCHANGED <<bridgeVars, held, raised>>
    BY <1>1 DEF Age
  <2>3. BridgeTyped' /\ (BridgeBelievedUp' => BridgeBelievedUp)
    BY <2>2 DEF bridgeVars, IInv, BridgeTyped, BridgeBelievedUp
  <2>4. BesideInv'
    BY <2>1, <2>2, <2>3, BesideNext DEF IInv, BesideInv, bridgeVars
  <2> QED BY <2>1, <2>3, <2>4 DEF IInv
<1>2. CASE TellAgent
  <2>1. MessagesInv' /\ UNCHANGED <<bridgeVars, queue, held, raised>>
    BY <1>2, TellStep DEF IInv, TellAgent
  <2>2. BridgeTyped' /\ (BridgeBelievedUp' => BridgeBelievedUp)
    BY <2>1 DEF bridgeVars, IInv, BridgeTyped, BridgeBelievedUp
  <2>3. BesideInv'
    BY <2>1, <2>2, BesideNext DEF IInv, BesideInv, bridgeVars
  <2> QED BY <2>1, <2>2, <2>3 DEF IInv
<1>3. CASE UNCHANGED vars
  <2>1. UNCHANGED messageVars /\ UNCHANGED bridgeVars
    BY <1>3 DEF vars
  <2>2. BridgeTyped' /\ (BridgeBelievedUp' => BridgeBelievedUp) /\ UNCHANGED <<connected, writer>>
    BY <2>1 DEF bridgeVars, IInv, BridgeTyped, BridgeBelievedUp
  <2> QED BY <2>1, <2>2, BridgeStep
<1> QED BY <1>1, <1>2, <1>3, SuperviseKeeps, BridgeTaskKeeps, FlushKeeps, SendKeeps DEF Next

-----------------------------------------------------------------------------
(* The theorems.                                                           *)

\* The invariant of the bridge's bookkeeping, inductive as it stands.
THEOREM Inductive == Spec => []IInv
<1> QED BY InvariantStarts, StepKeeps, PTL DEF Spec

\* Every variable stays in its type, and the queue within its bound, a flush in
\* progress counted.
THEOREM TypeCorrect == Spec => []TypeOK
<1>1. IInv => TypeOK
  BY TypeSplits DEF IInv, MessagesInv
<1> QED BY <1>1, Inductive, PTL

\* Only a message whose own write raised (_send_to_sidecar, _flush_outbound) is
\* overtaken, or waits beside a bridge believed to be up; and the queue gives up
\* nothing younger than what it keeps.
THEOREM QueueIsKept == Spec => []QueueKept
<1> QED BY DisciplineHolds, Inductive, PTL

\* However often sidecars die, sockets break and writes of a flush raise, a
\* durable message is accounted for in exactly one place.
THEOREM MessagesAreKept == Spec => []MessagesKept
<1>1. IInv => MessagesKept
  BY OneFateHolds, DisciplineHolds DEF IInv, MessagesKept
<1> QED BY <1>1, Inductive, PTL

=============================================================================
