--------------------------- MODULE PartitionProofs ---------------------------
(***************************************************************************)
(* For every number of frames, senders, sessions and buffered frames: no   *)
(* frame is stranded, lost other than by trimming, doubled or overtaken,   *)
(* and no command is trimmed while there is audio to trim.                 *)
(***************************************************************************)
EXTENDS Partition, FiniteSetTheorems, SequenceTheorems, TLAPS

-----------------------------------------------------------------------------
(* Sequences of frames.                                                    *)

\* The sequence without one of its elements.
LEMMA WithoutIs ==
    ASSUME NEW S, NEW q \in Seq(S), NEW v \in 1 .. Len(q)
    PROVE  /\ Without(q, v) \in Seq(S)
           /\ Len(Without(q, v)) = Len(q) - 1
           /\ \A i \in 1 .. Len(q) - 1 :
                /\ i < v => i \in 1 .. Len(q) /\ Without(q, v)[i] = q[i]
                /\ ~(i < v) => i + 1 \in 1 .. Len(q) /\ Without(q, v)[i] = q[i + 1]
<1> DEFINE m == Len(q) - 1
           w == Without(q, v)
<1>1. Len(q) \in Nat /\ m \in Nat /\ m + 1 = Len(q)
  OBVIOUS
<1>2. w = [i \in 1 .. m |-> q[IF i < v THEN i ELSE i + 1]]
  BY DEF Without
<1>3. \A i \in 1 .. m : i \in 1 .. Len(q) /\ i + 1 \in 1 .. Len(q)
  BY <1>1
<1>4. \A i \in 1 .. m : q[IF i < v THEN i ELSE i + 1] \in S
  BY <1>3, ElementOfSeq
<1> HIDE DEF m
<1>5. w \in Seq(S) /\ Len(w) = m
  BY <1>1, <1>2, <1>4
<1> QED BY <1>2, <1>3, <1>5 DEF m

\* The frames of a sequence, by position.
LEMMA FramesIs ==
    ASSUME NEW S, NEW q \in Seq(S)
    PROVE  Frames(q) = {q[i] : i \in 1 .. Len(q)}
BY DEF Frames

\* An appended frame is one more.
LEMMA AppendFrames ==
    ASSUME NEW S, NEW q \in Seq(S), NEW n \in S
    PROVE  Append(q, n) \in Seq(S) /\ Frames(Append(q, n)) = Frames(q) \cup {n}
<1> DEFINE o == Append(q, n)
<1>1. /\ o \in Seq(S) /\ Len(o) = Len(q) + 1 /\ o[Len(q) + 1] = n
      /\ \A i \in 1 .. Len(q) : o[i] = q[i]
  BY AppendProperties
<1>2. Len(q) \in Nat
  OBVIOUS
<1> HIDE DEF o
<1>3. 1 .. Len(o) = 1 .. Len(q) \cup {Len(q) + 1}
  BY <1>1, <1>2
<1>4. Frames(o) = {o[i] : i \in 1 .. Len(o)} /\ Frames(q) = {q[i] : i \in 1 .. Len(q)}
  BY <1>1, FramesIs
<1>5. Frames(o) = Frames(q) \cup {n}
  BY <1>1, <1>3, <1>4
<1> QED BY <1>1, <1>5 DEF o

\* What remains is everything else.
LEMMA WithoutFrames ==
    ASSUME NEW S, NEW q \in Seq(S), NEW v \in 1 .. Len(q)
    PROVE  /\ Frames(Without(q, v)) \subseteq Frames(q)
           /\ Frames(q) = Frames(Without(q, v)) \cup {q[v]}
           /\ (\A i \in 1 .. Len(q) : i # v => q[i] # q[v])
                 => Frames(Without(q, v)) = Frames(q) \ {q[v]}
<1> DEFINE w == Without(q, v)
<1>1. /\ w \in Seq(S) /\ Len(w) = Len(q) - 1
      /\ \A i \in 1 .. Len(q) - 1 :
           /\ i < v => i \in 1 .. Len(q) /\ w[i] = q[i]
           /\ ~(i < v) => i + 1 \in 1 .. Len(q) /\ w[i] = q[i + 1]
  BY WithoutIs
<1>2. Len(q) \in Nat
  OBVIOUS
<1> HIDE DEF w
<1>3. Frames(q) = {q[i] : i \in 1 .. Len(q)} /\ Frames(w) = {w[i] : i \in 1 .. Len(w)}
  BY <1>1, FramesIs
<1>4. ASSUME NEW i \in 1 .. Len(w)
      PROVE  \E j \in 1 .. Len(q) : j # v /\ w[i] = q[j]
  <2>1. CASE i < v
    BY <1>1, <1>2, <1>4, <2>1
  <2>2. CASE ~(i < v)
    <3>1. i + 1 # v
      BY <1>1, <1>2, <1>4, <2>2
    <3> QED BY <1>1, <1>4, <2>2, <3>1
  <2> QED BY <2>1, <2>2
<1>5. ASSUME NEW j \in 1 .. Len(q), j # v
      PROVE  \E i \in 1 .. Len(w) : w[i] = q[j]
  <2>1. CASE j < v
    <3>1. j \in 1 .. Len(q) - 1
      BY <1>2, <2>1
    <3> QED BY <1>1, <2>1, <3>1
  <2>2. CASE ~(j < v)
    <3>1. j - 1 \in 1 .. Len(q) - 1 /\ ~(j - 1 < v) /\ (j - 1) + 1 = j
      BY <1>2, <1>5, <2>2
    <3>2. w[j - 1] = q[j]
      BY <1>1, <3>1
    <3> QED BY <1>1, <3>1, <3>2
  <2> QED BY <2>1, <2>2
<1>6. Frames(w) \subseteq Frames(q)
  BY <1>3, <1>4
<1>7. Frames(q) = Frames(w) \cup {q[v]}
  BY <1>3, <1>5, <1>6
<1>8. (\A i \in 1 .. Len(q) : i # v => q[i] # q[v]) => q[v] \notin Frames(w)
  BY <1>3, <1>4
<1> QED BY <1>6, <1>7, <1>8 DEF w

\* Dropping from the second part of a sequence.
LEMMA WithoutOfConcat ==
    ASSUME NEW S, NEW s \in Seq(S), NEW t \in Seq(S), NEW v \in 1 .. Len(t)
    PROVE  s \o Without(t, v) = Without(s \o t, Len(s) + v)
<1> DEFINE w == Without(t, v)
           u == s \o t
           a == s \o w
           b == Without(u, Len(s) + v)
<1>1. Len(s) \in Nat /\ Len(t) \in Nat
  OBVIOUS
<1>2. /\ w \in Seq(S) /\ Len(w) = Len(t) - 1
      /\ \A i \in 1 .. Len(t) - 1 :
           /\ i < v => w[i] = t[i]
           /\ ~(i < v) => w[i] = t[i + 1]
  BY WithoutIs
<1> HIDE DEF w
<1>3. /\ u \in Seq(S) /\ Len(u) = Len(s) + Len(t)
      /\ \A i \in 1 .. Len(s) + Len(t) : u[i] = IF i <= Len(s) THEN s[i] ELSE t[i - Len(s)]
  BY ConcatProperties
<1>4. /\ a \in Seq(S) /\ Len(a) = Len(s) + Len(w)
      /\ \A i \in 1 .. Len(s) + Len(w) : a[i] = IF i <= Len(s) THEN s[i] ELSE w[i - Len(s)]
  BY <1>2, ConcatProperties
<1> HIDE DEF u, a
<1>5. Len(s) + v \in 1 .. Len(u)
  BY <1>1, <1>3
<1>6. /\ b \in Seq(S) /\ Len(b) = Len(u) - 1
      /\ \A i \in 1 .. Len(u) - 1 :
           /\ i < Len(s) + v => b[i] = u[i]
           /\ ~(i < Len(s) + v) => b[i] = u[i + 1]
  BY <1>3, <1>5, WithoutIs
<1> HIDE DEF b
<1>7. Len(a) = Len(b)
  BY <1>1, <1>2, <1>3, <1>4, <1>6
<1>8. ASSUME NEW i \in 1 .. Len(a) PROVE a[i] = b[i]
  <2>1. i \in 1 .. Len(u) - 1 /\ i \in 1 .. Len(s) + Len(w)
    BY <1>4, <1>6, <1>7
  <2>2. CASE i <= Len(s)
    <3>1. i < Len(s) + v /\ i \in 1 .. Len(s) + Len(t)
      BY <1>1, <1>3, <2>1, <2>2
    <3> QED BY <1>3, <1>4, <1>6, <2>1, <2>2, <3>1
  <2>3. CASE ~(i <= Len(s)) /\ i - Len(s) < v
    <3>1. i < Len(s) + v /\ i \in 1 .. Len(s) + Len(t) /\ i - Len(s) \in 1 .. Len(t) - 1
      BY <1>1, <1>2, <1>3, <2>1, <2>3
    <3>2. a[i] = w[i - Len(s)] /\ b[i] = u[i] /\ u[i] = t[i - Len(s)]
      BY <1>3, <1>4, <1>6, <2>1, <2>3, <3>1
    <3> QED BY <1>2, <2>3, <3>1, <3>2
  <2>4. CASE ~(i <= Len(s)) /\ ~(i - Len(s) < v)
    <3>1. /\ ~(i < Len(s) + v) /\ i + 1 \in 1 .. Len(s) + Len(t) /\ ~(i + 1 <= Len(s))
          /\ i - Len(s) \in 1 .. Len(t) - 1 /\ (i + 1) - Len(s) = (i - Len(s)) + 1
      BY <1>1, <1>2, <1>3, <2>1, <2>4
    <3>2. a[i] = w[i - Len(s)]
      BY <1>4, <2>1, <2>4
    <3>3. b[i] = u[i + 1]
      BY <1>6, <2>1, <3>1
    <3>4. u[i + 1] = t[(i + 1) - Len(s)]
      BY <1>3, <3>1
    <3>5. w[i - Len(s)] = t[(i - Len(s)) + 1]
      BY <1>2, <2>4, <3>1
    <3> QED BY <3>1, <3>2, <3>3, <3>4, <3>5
  <2> QED BY <2>2, <2>3, <2>4
<1>9. a = b
  BY <1>4, <1>6, <1>7, <1>8, SeqEqual
<1> QED BY <1>9 DEF a, b, u, w

-----------------------------------------------------------------------------
(* Trimming.                                                               *)

\* A set of positions that is not empty has a first one.
LEMMA FirstPosition ==
    ASSUME NEW P \in SUBSET Nat, P # {}
    PROVE  \E v \in P : \A i \in P : v <= i
<1>1. PICK v \in P : \A i \in P : ~ (<<i, v>> \in OpToRel(<, Nat))
  BY NatLessThanWellFounded, WFMin
<1>2. ASSUME NEW i \in P PROVE ~ (i < v)
  <2>1. i \in Nat /\ v \in Nat
    OBVIOUS
  <2>2. i < v => <<i, v>> \in OpToRel(<, Nat)
    BY <2>1, Zenon DEF OpToRel
  <2> QED BY <1>1, <2>2, Zenon
<1>3. \A i \in P : v <= i
  BY <1>2
<1> QED BY <1>3

\* What is dropped is audio while there is any.
LEMMA VictimIs ==
    ASSUME NEW q \in Seq(Frame), q # <<>>
    PROVE  /\ Victim(q) \in 1 .. Len(q)
           /\ q[Victim(q)] \in Audio \/ Frames(q) \cap Audio = {}
<1> DEFINE Fits(v) == IF Frames(q) \cap Audio = {} THEN v = 1
                      ELSE q[v] \in Audio /\ \A i \in 1 .. v - 1 : q[i] \notin Audio
<1>1. Len(q) \in Nat /\ 1 \in 1 .. Len(q)
  OBVIOUS
<1>2. \E v \in 1 .. Len(q) : Fits(v)
  <2>1. CASE Frames(q) \cap Audio = {}
    BY <1>1, <2>1
  <2>2. CASE Frames(q) \cap Audio # {}
    <3> DEFINE P == {i \in 1 .. Len(q) : q[i] \in Audio}
    <3>1. P \in SUBSET Nat /\ P # {}
      BY <2>2, FramesIs
    <3>2. PICK v \in P : \A i \in P : v <= i
      <4> HIDE DEF P
      <4> QED BY <3>1, FirstPosition
    <3>3. \A i \in 1 .. v - 1 : i \in 1 .. Len(q) /\ ~(v <= i)
      BY <1>1
    <3> QED BY <2>2, <3>2, <3>3
  <2> QED BY <2>1, <2>2
<1>3. Victim(q) = CHOOSE v \in 1 .. Len(q) : Fits(v)
  BY DEF Victim
<1>4. Victim(q) \in 1 .. Len(q) /\ Fits(Victim(q))
  <2> HIDE DEF Fits
  <2> QED BY <1>2, <1>3
<1> QED BY <1>4

\* One frame too many costs one frame; none costs none.
LEMMA TrimIs ==
    ASSUME NEW q \in Seq(Frame), Len(q) <= MaxBuffered + 1
    PROVE  /\ Trim(q) \in Seq(Frame)
           /\ Len(Trim(q)) <= MaxBuffered
           /\ \/ Trim(q) = q
              \/ /\ Trim(q) = Without(q, Victim(q))
                 /\ Victim(q) \in 1 .. Len(q)
                 /\ q[Victim(q)] \in Audio \/ Frames(q) \cap Audio = {}
<1>1. Len(q) \in Nat /\ MaxBuffered \in Nat \ {0}
  BY UplinkBounds
<1>2. CASE Over(q)
  <2>1. q # <<>>
    BY <1>1, <1>2 DEF Over
  <2>2. Trim(q) = Without(q, Victim(q))
    BY <1>2 DEF Trim
  <2>3. Victim(q) \in 1 .. Len(q) /\ (q[Victim(q)] \in Audio \/ Frames(q) \cap Audio = {})
    BY <2>1, VictimIs
  <2>4. Trim(q) \in Seq(Frame) /\ Len(Trim(q)) = Len(q) - 1
    BY <2>2, <2>3, WithoutIs
  <2> QED BY <1>1, <2>2, <2>3, <2>4
<1>3. CASE ~Over(q)
  BY <1>1, <1>3 DEF Over, Trim
<1> QED BY <1>2, <1>3

-----------------------------------------------------------------------------
(* Order.                                                                  *)

\* out is q without t, in the order of q and nothing twice.
Kept(out, q, t) ==
    /\ Frames(out) = Frames(q) \ t
    /\ \A i, j \in 1 .. Len(out) :
         i < j => /\ \E x, y \in 1 .. Len(q) : x < y /\ q[x] = out[i] /\ q[y] = out[j]
                  /\ out[i] # out[j]

\* A frame at the end of both keeps it so.
LEMMA AppendKept ==
    ASSUME NEW out \in Seq(Frame), NEW q \in Seq(Frame), NEW t, Kept(out, q, t),
           NEW n \in Frame, n \notin Frames(q), n \notin t
    PROVE  Kept(Append(out, n), Append(q, n), t)
<1> DEFINE o == Append(out, n)
           r == Append(q, n)
<1>1. /\ o \in Seq(Frame) /\ Len(o) = Len(out) + 1 /\ o[Len(out) + 1] = n
      /\ \A i \in 1 .. Len(out) : o[i] = out[i]
  BY AppendProperties
<1>2. /\ r \in Seq(Frame) /\ Len(r) = Len(q) + 1 /\ r[Len(q) + 1] = n
      /\ \A i \in 1 .. Len(q) : r[i] = q[i]
  BY AppendProperties
<1>3. Len(out) \in Nat /\ Len(q) \in Nat
  OBVIOUS
<1> HIDE DEF o, r
<1>4. Frames(o) = Frames(out) \cup {n}
  BY AppendFrames DEF o
<1>5. Frames(r) = Frames(q) \cup {n}
  BY AppendFrames DEF r
<1>6. ASSUME NEW i \in 1 .. Len(o), NEW j \in 1 .. Len(o), i < j
      PROVE  /\ \E x, y \in 1 .. Len(r) : x < y /\ r[x] = o[i] /\ r[y] = o[j]
             /\ o[i] # o[j]
  <2>1. i \in 1 .. Len(out) /\ o[i] = out[i]
    BY <1>1, <1>3, <1>6
  <2>2. CASE j \in 1 .. Len(out)
    <3>1. PICK x \in 1 .. Len(q), y \in 1 .. Len(q) : x < y /\ q[x] = out[i] /\ q[y] = out[j]
      BY <1>6, <2>1, <2>2 DEF Kept
    <3>2. x \in 1 .. Len(r) /\ y \in 1 .. Len(r) /\ r[x] = q[x] /\ r[y] = q[y]
      BY <1>2, <1>3
    <3>3. out[i] # out[j] /\ o[j] = out[j]
      BY <1>1, <1>6, <2>1, <2>2 DEF Kept
    <3> QED BY <2>1, <3>1, <3>2, <3>3
  <2>3. CASE j = Len(out) + 1
    <3>1. out[i] \in Frames(q)
      <4>1. out[i] \in Frames(out)
        BY <2>1, FramesIs
      <4> QED BY <4>1 DEF Kept
    <3>2. PICK x \in 1 .. Len(q) : q[x] = out[i]
      BY <3>1, FramesIs
    <3>3. x \in 1 .. Len(r) /\ Len(q) + 1 \in 1 .. Len(r) /\ x < Len(q) + 1 /\ r[x] = q[x]
      BY <1>2, <1>3
    <3> QED BY <1>1, <1>2, <2>1, <2>3, <3>1, <3>2, <3>3
  <2> QED BY <1>1, <1>3, <2>2, <2>3
<1>7. Frames(o) = Frames(r) \ t
  BY <1>4, <1>5 DEF Kept
<1> QED BY <1>6, <1>7 DEF Kept, o, r

\* A frame dropped from what is kept, and counted as trimmed, keeps it so.
LEMMA DropKept ==
    ASSUME NEW out \in Seq(Frame), NEW q \in Seq(Frame), NEW t, Kept(out, q, t),
           NEW v \in 1 .. Len(out)
    PROVE  Kept(Without(out, v), q, t \cup {out[v]})
<1> DEFINE w == Without(out, v)
<1>1. Len(out) \in Nat
  OBVIOUS
<1>2. /\ w \in Seq(Frame) /\ Len(w) = Len(out) - 1
      /\ \A i \in 1 .. Len(out) - 1 :
           /\ i < v => i \in 1 .. Len(out) /\ w[i] = out[i]
           /\ ~(i < v) => i + 1 \in 1 .. Len(out) /\ w[i] = out[i + 1]
  BY WithoutIs
<1>3. Frames(w) = Frames(out) \ {out[v]}
  <2>1. ASSUME NEW i \in 1 .. Len(out), i # v PROVE out[i] # out[v]
    <3>1. i < v \/ v < i
      BY <1>1, <2>1
    <3> QED BY <3>1 DEF Kept
  <2> QED BY <2>1, WithoutFrames
<1> HIDE DEF w
<1>4. ASSUME NEW i \in 1 .. Len(w), NEW j \in 1 .. Len(w), i < j
      PROVE  \E k, l \in 1 .. Len(out) : k < l /\ w[i] = out[k] /\ w[j] = out[l]
  <2> DEFINE k == IF i < v THEN i ELSE i + 1
             l == IF j < v THEN j ELSE j + 1
  <2>1. k \in 1 .. Len(out) /\ l \in 1 .. Len(out) /\ k < l
    BY <1>1, <1>2, <1>4
  <2>2. w[i] = out[k] /\ w[j] = out[l]
    BY <1>2
  <2> QED BY <2>1, <2>2
<1>5. ASSUME NEW i \in 1 .. Len(w), NEW j \in 1 .. Len(w), i < j
      PROVE  /\ \E x, y \in 1 .. Len(q) : x < y /\ q[x] = w[i] /\ q[y] = w[j]
             /\ w[i] # w[j]
  BY <1>4, <1>5 DEF Kept
<1>6. Frames(w) = Frames(q) \ (t \cup {out[v]})
  BY <1>3 DEF Kept
<1> QED BY <1>5, <1>6 DEF Kept, w

-----------------------------------------------------------------------------
(* The inductive invariant.                                                *)

Sent == [i \in DOMAIN wire |-> wire[i][1]]

\* A frame is sealed once, given to outbound once and trimmed after that; only
\* a session seals.
FramesAreFresh ==
    /\ held \cup Frames(queued) \subseteq 1 .. sealed
    /\ held \cap Frames(queued) = {}
    /\ trimmed \subseteq Frames(queued)
    /\ sessions = 0 => held = {}

IInv == TypeOK /\ FramesAreFresh /\ UplinkKept

LinkTyped ==
    /\ sessions \in 0 .. MaxSessions
    /\ channel \in {0, sessions}
    /\ failures \in 0 .. MaxFailures
    /\ keeper \in [Session -> Activities]
    /\ heard \in SUBSET Session
    /\ seen \in [Session -> 0 .. MaxFailures]
    /\ pinged \in BOOLEAN

FramesTyped ==
    /\ buffer \in Seq(Frame) /\ Len(buffer) <= MaxBuffered
    /\ sealed \in 0 .. LastFrame
    /\ held \in SUBSET Frame
    /\ queued \in Seq(Frame)
    /\ wire \in Seq(Frame \X Session)
    /\ trimmed \in SUBSET Frame

\* The types, in the two halves the proof treats separately.
LEMMA TypeSplits == TypeOK <=> LinkTyped /\ FramesTyped
BY Zenon DEF TypeOK, LinkTyped, FramesTyped

\* The same, in the next state.
LEMMA TypeSplitsNext == TypeOK' <=> LinkTyped' /\ FramesTyped'
BY Zenon DEF TypeOK, LinkTyped, FramesTyped

\* The frames sent, without the sockets they were sent on.
LEMMA SentIs ==
    ASSUME NEW w \in Seq(Frame \X Session), NEW f, f = [i \in DOMAIN w |-> w[i][1]]
    PROVE  f \in Seq(Frame) /\ Len(f) = Len(w) /\ \A i \in 1 .. Len(w) : f[i] = w[i][1]
<1>1. \A i \in 1 .. Len(w) : w[i][1] \in Frame
  <2> TAKE i \in 1 .. Len(w)
  <2>1. w[i] \in Frame \X Session
    OBVIOUS
  <2> QED BY <2>1
<1>2. f = [i \in 1 .. Len(w) |-> w[i][1]] /\ Len(w) \in Nat
  OBVIOUS
<1> QED BY <1>1, <1>2

\* What Kept says of any two frames that are still there.
LEMMA KeptIs ==
    ASSUME NEW out \in Seq(Frame), NEW q \in Seq(Frame), NEW t, Kept(out, q, t)
    PROVE  /\ Frames(out) = Frames(q) \ t
           /\ \A i, j \in DOMAIN out :
                i < j => /\ \E x, y \in DOMAIN q : x < y /\ q[x] = out[i] /\ q[y] = out[j]
                         /\ out[i] # out[j]
<1>1. DOMAIN out = 1 .. Len(out) /\ DOMAIN q = 1 .. Len(q)
  OBVIOUS
<1>2. ASSUME NEW i \in DOMAIN out, NEW j \in DOMAIN out, i < j
      PROVE  /\ \E x, y \in DOMAIN q : x < y /\ q[x] = out[i] /\ q[y] = out[j]
             /\ out[i] # out[j]
  <2>1. i \in 1 .. Len(out) /\ j \in 1 .. Len(out)
    BY <1>1
  <2>2. PICK x \in 1 .. Len(q), y \in 1 .. Len(q) : x < y /\ q[x] = out[i] /\ q[y] = out[j]
    BY <1>2, <2>1 DEF Kept
  <2>3. out[i] # out[j]
    BY <1>2, <2>1 DEF Kept
  <2> QED BY <1>1, <2>2, <2>3
<1> QED BY <1>2, Zenon DEF Kept

\* What is out is what was sent and then what is buffered.
LEMMA OutIs ==
    ASSUME FramesTyped
    PROVE  /\ Out = Sent \o buffer
           /\ Sent \in Seq(Frame) /\ Out \in Seq(Frame)
           /\ SentInOrder <=> Kept(Out, queued, trimmed)
<1>1. Sent \in Seq(Frame)
  BY SentIs DEF Sent, FramesTyped
<1>2. Out = Sent \o buffer
  BY DEF Out, Sent
<1>3. Out \in Seq(Frame)
  BY <1>1, <1>2 DEF FramesTyped
<1>4. DOMAIN Out = 1 .. Len(Out) /\ DOMAIN queued = 1 .. Len(queued)
  BY <1>3 DEF FramesTyped
<1>5. SentInOrder <=> Kept(Out, queued, trimmed)
  <2> HIDE DEF Out
  <2> QED BY <1>4 DEF SentInOrder, Kept, Before
<1> QED BY <1>1, <1>2, <1>3, <1>5

\* The same, in the next state.
LEMMA OutIsNext ==
    ASSUME NEW out \in Seq(Frame), NEW q \in Seq(Frame), NEW t, Kept(out, q, t),
           Out' = out, queued' = q, trimmed' = t
    PROVE  SentInOrder'
<1>1. Frames(out) = Frames(q) \ t
  BY KeptIs
<1>2. \A i, j \in DOMAIN out :
        i < j => \E x, y \in DOMAIN q : x < y /\ q[x] = out[i] /\ q[y] = out[j]
  BY KeptIs
<1>3. \A i, j \in DOMAIN out : i < j => out[i] # out[j]
  BY KeptIs
<1> QED BY <1>1, <1>2, <1>3 DEF SentInOrder, Before, Frames

\* A step that leaves the frames alone keeps what is said of them.
LEMMA FramesUntouched ==
    ASSUME IInv, UNCHANGED frameVars, LinkTyped', failures' = 0 => failures = 0,
           sessions' = 0 => sessions = 0
    PROVE  IInv'
<1>1. FramesTyped
  BY TypeSplits DEF IInv
<1>2. UNCHANGED <<buffer, sealed, held, queued, wire, trimmed>>
  BY DEF frameVars
<1>3. FramesTyped' /\ FramesAreFresh' /\ HeldBackOnlyInTrouble'
  BY <1>1, <1>2 DEF FramesTyped, FramesAreFresh, Frames, IInv, UplinkKept, HeldBackOnlyInTrouble
<1>4. SentInOrder'
  <2>1. Out' = Out /\ Frames(Out)' = Frames(Out) /\ Frames(queued)' = Frames(queued)
    BY <1>2 DEF Out, Frames
  <2>2. \A a, b : Before(a, b)' <=> Before(a, b)
    BY <1>2 DEF Before
  <2>3. SentInOrder
    BY DEF IInv, UplinkKept
  <2>4. DOMAIN Out' = DOMAIN Out
    BY <2>1
  <2> QED BY <1>2, <2>1, <2>2, <2>3, <2>4 DEF SentInOrder
<1> QED BY <1>3, <1>4, TypeSplitsNext DEF IInv, UplinkKept

-----------------------------------------------------------------------------
(* Sending.                                                                *)

\* What the invariant gives to a step on frames.
LEMMA FramesNow ==
    ASSUME IInv
    PROVE  /\ FramesTyped /\ LinkTyped /\ FramesAreFresh /\ HeldBackOnlyInTrouble
           /\ Sent \in Seq(Frame) /\ Out \in Seq(Frame) /\ Out = Sent \o buffer
           /\ Kept(Out, queued, trimmed)
           /\ Len(Sent) = Len(wire)
<1>1. FramesTyped /\ LinkTyped
  BY TypeSplits DEF IInv
<1>2. Len(Sent) = Len(wire)
  BY <1>1, SentIs DEF Sent, FramesTyped
<1> QED BY <1>1, <1>2, OutIs DEF IInv, UplinkKept

\* Sealing makes a frame nobody has seen.
LEMMA SealKeeps ==
    ASSUME IInv, Seal
    PROVE  IInv'
<1>1. FramesTyped /\ LinkTyped /\ FramesAreFresh /\ HeldBackOnlyInTrouble
  BY FramesNow
<1>2. sealed + 1 \in Frame /\ sealed' = sealed + 1 /\ held' = held \cup {sealed + 1}
  BY <1>1, UplinkBounds DEF Seal, FramesTyped, Frame
<1>3. UNCHANGED <<linkVars, failures, probeVars, buffer, queued, wire, trimmed>> /\ sessions # 0
  BY <1>1 DEF Seal, LinkTyped
<1>4. LinkTyped'
  BY <1>1, <1>3 DEF LinkTyped, linkVars, probeVars
<1>5. FramesTyped'
  BY <1>1, <1>2, <1>3, UplinkBounds DEF FramesTyped, Frame
<1>6. FramesAreFresh'
  <2>1. 1 .. sealed \subseteq 1 .. sealed + 1 /\ sealed + 1 \notin 1 .. sealed /\ sealed + 1 \in 1 .. sealed + 1
    BY <1>1 DEF FramesTyped
  <2> QED BY <1>1, <1>2, <1>3, <2>1 DEF FramesAreFresh, Frames, linkVars
<1>7. HeldBackOnlyInTrouble'
  BY <1>1, <1>3 DEF HeldBackOnlyInTrouble
<1>8. SentInOrder'
  <2>1. Out' = Out
    BY <1>3 DEF Out
  <2> QED BY <1>1, <1>3, <2>1, FramesNow, OutIsNext DEF FramesTyped
<1> QED BY <1>4, <1>5, <1>6, <1>7, <1>8, TypeSplitsNext DEF IInv, UplinkKept

\* A frame given to outbound leaves the hands of its sender.
LEMMA OutboundFrames ==
    ASSUME IInv, NEW n \in Frame, Outbound(n)
    PROVE  /\ n \notin Frames(queued) /\ n \notin trimmed
           /\ queued' = Append(queued, n) /\ queued' \in Seq(Frame)
           /\ Frames(queued') = Frames(queued) \cup {n}
           /\ held' = held \ {n} /\ held' \in SUBSET Frame
           /\ sessions # 0
           /\ UNCHANGED <<linkVars, failures, probeVars, sealed>>
           /\ LinkTyped'
<1>1. FramesTyped /\ LinkTyped /\ FramesAreFresh
  BY FramesNow
<1>2. n \in held /\ held' = held \ {n} /\ queued' = Append(queued, n)
      /\ UNCHANGED <<linkVars, failures, probeVars, sealed>>
  BY DEF Outbound
<1>3. n \notin Frames(queued) /\ n \notin trimmed /\ sessions # 0
  BY <1>1, <1>2 DEF FramesAreFresh
<1>4. queued' \in Seq(Frame) /\ Frames(queued') = Frames(queued) \cup {n}
  BY <1>1, <1>2, AppendFrames DEF FramesTyped
<1>5. LinkTyped'
  BY <1>1, <1>2 DEF LinkTyped, linkVars, probeVars
<1> QED BY <1>1, <1>2, <1>3, <1>4, <1>5 DEF FramesTyped

\* Sent at once, with nothing held back.
LEMMA SendKeeps ==
    ASSUME IInv, NEW n \in Frame, Outbound(n), ~(failures > 0)
    PROVE  IInv'
<1>1. /\ FramesTyped /\ LinkTyped /\ FramesAreFresh /\ HeldBackOnlyInTrouble
      /\ Sent \in Seq(Frame) /\ Out \in Seq(Frame) /\ Out = Sent \o buffer
      /\ Kept(Out, queued, trimmed) /\ Len(Sent) = Len(wire)
  BY FramesNow
<1>2. /\ n \notin Frames(queued) /\ n \notin trimmed
      /\ queued' = Append(queued, n) /\ queued' \in Seq(Frame)
      /\ Frames(queued') = Frames(queued) \cup {n}
      /\ held' = held \ {n} /\ held' \in SUBSET Frame
      /\ sessions # 0
      /\ UNCHANGED <<linkVars, failures, probeVars, sealed>>
      /\ LinkTyped'
  BY OutboundFrames
<1>3. wire' = Append(wire, <<n, sessions>>) /\ UNCHANGED <<buffer, trimmed>>
  BY DEF Outbound
<1>4. failures = 0 /\ buffer = <<>>
  BY <1>1 DEF LinkTyped, HeldBackOnlyInTrouble
<1>5. /\ wire' \in Seq(Frame \X Session) /\ Len(wire') = Len(wire) + 1
      /\ wire'[Len(wire) + 1] = <<n, sessions>>
      /\ \A i \in 1 .. Len(wire) : wire'[i] = wire[i]
  <2>1. <<n, sessions>> \in Frame \X Session /\ wire \in Seq(Frame \X Session)
    BY <1>1, <1>2 DEF LinkTyped, FramesTyped, Session
  <2> QED BY <1>3, <2>1, AppendProperties
<1>6. Out = Sent
  BY <1>1, <1>4, ConcatEmptySeq
<1> DEFINE sent == [i \in DOMAIN wire' |-> wire'[i][1]]
<1>7. sent = Append(Sent, n)
  <2>1. sent \in Seq(Frame) /\ Len(sent) = Len(wire') /\ \A i \in 1 .. Len(wire') : sent[i] = wire'[i][1]
    BY <1>5, SentIs
  <2>2. /\ Append(Sent, n) \in Seq(Frame) /\ Len(Append(Sent, n)) = Len(Sent) + 1
        /\ Append(Sent, n)[Len(Sent) + 1] = n
        /\ \A i \in 1 .. Len(Sent) : Append(Sent, n)[i] = Sent[i]
    BY <1>1, AppendProperties
  <2>3. \A i \in 1 .. Len(wire) : Sent[i] = wire[i][1]
    BY <1>1, SentIs DEF Sent, FramesTyped
  <2> DEFINE app == Append(Sent, n)
  <2> HIDE DEF sent, app
  <2>4. Len(wire) \in Nat
    BY <1>1 DEF FramesTyped
  <2>5. \A i \in 1 .. Len(sent) : sent[i] = app[i]
    <3> TAKE i \in 1 .. Len(sent)
    <3>1. CASE i \in 1 .. Len(wire)
      BY <1>1, <1>5, <2>1, <2>2, <2>3, <3>1 DEF app
    <3>2. CASE i = Len(wire) + 1
      BY <1>1, <1>5, <2>1, <2>2, <3>2 DEF app
    <3> QED BY <1>5, <2>1, <2>4, <3>1, <3>2
  <2>6. app \in Seq(Frame) /\ Len(app) = Len(sent)
    BY <1>1, <1>5, <2>1, <2>2 DEF app
  <2>7. sent = app
    BY <2>1, <2>5, <2>6, SeqEqual
  <2> QED BY <2>7 DEF app
<1>8. Kept(Append(Out, n), Append(queued, n), trimmed)
  BY <1>1, <1>2, AppendKept DEF FramesTyped
<1>9. Out' = Append(Out, n)
  <2>1. Out' = sent \o buffer'
    BY DEF Out
  <2> HIDE DEF sent
  <2>2. Append(Sent, n) \in Seq(Frame)
    BY <1>1, AppendProperties
  <2> QED BY <1>3, <1>4, <1>6, <1>7, <2>1, <2>2, ConcatEmptySeq
<1>10. SentInOrder'
  <2>1. Append(Out, n) \in Seq(Frame) /\ Append(queued, n) \in Seq(Frame)
    BY <1>1, <1>2, AppendProperties
  <2> QED BY <1>2, <1>3, <1>8, <1>9, <2>1, OutIsNext
<1>11. FramesTyped'
  BY <1>1, <1>2, <1>3, <1>5 DEF FramesTyped
<1>12. FramesAreFresh'
  <2>1. n \in held
    BY DEF Outbound
  <2> QED BY <1>1, <1>2, <1>3, <2>1 DEF FramesAreFresh, Frames, linkVars
<1>13. HeldBackOnlyInTrouble'
  BY <1>3, <1>4 DEF HeldBackOnlyInTrouble
<1> QED BY <1>2, <1>10, <1>11, <1>12, <1>13, TypeSplitsNext DEF IInv, UplinkKept

\* What an append and a trim do to the buffer, and what they cost.
LEMMA TrimStep ==
    ASSUME IInv, NEW n \in Frame, Outbound(n), failures > 0,
           NEW q, q = Append(buffer, n)
    PROVE  /\ q \in Seq(Frame) /\ buffer' = Trim(q) /\ wire' = wire
           /\ trimmed' = trimmed \cup (Frames(q) \ Frames(Trim(q)))
           /\ Trim(q) \in Seq(Frame) /\ Len(Trim(q)) <= MaxBuffered
           /\ \/ Trim(q) = q
              \/ /\ Trim(q) = Without(q, Victim(q))
                 /\ Victim(q) \in 1 .. Len(q)
                 /\ q[Victim(q)] \in Audio \/ Frames(q) \cap Audio = {}
<1>1. q \in Seq(Frame) /\ Len(q) = Len(buffer) + 1 /\ Len(buffer) <= MaxBuffered /\ Len(buffer) \in Nat
  BY AppendProperties, FramesNow DEF FramesTyped
<1>2. Len(q) <= MaxBuffered + 1
  BY <1>1, UplinkBounds
<1>3. buffer' = Trim(q) /\ wire' = wire /\ trimmed' = trimmed \cup (Frames(q) \ Frames(buffer'))
  BY DEF Outbound
<1> QED BY <1>1, <1>2, <1>3, TrimIs

\* Held back, at the cost of what the trim drops.
LEMMA HoldKeeps ==
    ASSUME IInv, NEW n \in Frame, Outbound(n), failures > 0
    PROVE  IInv'
<1> DEFINE q == Append(buffer, n)
           v == Victim(q)
           all == Append(Out, n)
           asked == Append(queued, n)
<1>1. /\ FramesTyped /\ LinkTyped /\ FramesAreFresh
      /\ Sent \in Seq(Frame) /\ Out \in Seq(Frame) /\ Out = Sent \o buffer
      /\ Kept(Out, queued, trimmed) /\ buffer \in Seq(Frame)
  BY FramesNow DEF FramesTyped
<1>2. /\ n \notin Frames(queued) /\ n \notin trimmed
      /\ queued' = asked /\ asked \in Seq(Frame)
      /\ Frames(asked) = Frames(queued) \cup {n}
      /\ held' = held \ {n} /\ held' \in SUBSET Frame
      /\ sessions # 0
      /\ UNCHANGED <<linkVars, failures, probeVars, sealed>>
      /\ LinkTyped'
  BY OutboundFrames
<1>3. /\ q \in Seq(Frame) /\ buffer' = Trim(q) /\ wire' = wire
      /\ trimmed' = trimmed \cup (Frames(q) \ Frames(Trim(q)))
      /\ Trim(q) \in Seq(Frame) /\ Len(Trim(q)) <= MaxBuffered
      /\ \/ Trim(q) = q
         \/ Trim(q) = Without(q, v) /\ v \in 1 .. Len(q)
  BY TrimStep
<1>4. Kept(all, asked, trimmed) /\ all \in Seq(Frame)
  BY <1>1, <1>2, AppendKept, AppendProperties DEF FramesTyped
<1>5. all = Sent \o q
  <2>1. <<n>> \in Seq(Frame) /\ all = Out \o <<n>> /\ q = buffer \o <<n>>
    BY <1>1, AppendIsConcat
  <2>2. (Sent \o buffer) \o <<n>> = Sent \o (buffer \o <<n>>)
    BY <1>1, <2>1, ConcatAssociative
  <2> QED BY <1>1, <2>1, <2>2
<1>6. /\ Len(all) = Len(Sent) + Len(q)
      /\ \A i \in 1 .. Len(q) : Len(Sent) + i \in 1 .. Len(all) /\ all[Len(Sent) + i] = q[i]
  <2> HIDE DEF q, all
  <2>1. Len(Sent) \in Nat /\ Len(q) \in Nat
    BY <1>1, <1>3
  <2>2. /\ Len(all) = Len(Sent) + Len(q)
        /\ \A i \in 1 .. Len(Sent) + Len(q) : all[i] = IF i <= Len(Sent) THEN Sent[i] ELSE q[i - Len(Sent)]
    BY <1>1, <1>3, <1>5, ConcatProperties
  <2>3. ASSUME NEW i \in 1 .. Len(q)
        PROVE  Len(Sent) + i \in 1 .. Len(all) /\ all[Len(Sent) + i] = q[i]
    <3>1. Len(Sent) + i \in 1 .. Len(Sent) + Len(q) /\ ~(Len(Sent) + i <= Len(Sent)) /\ (Len(Sent) + i) - Len(Sent) = i
      BY <2>1
    <3> QED BY <2>2, <3>1
  <2> QED BY <2>2, <2>3
<1>7. Out' = Sent \o Trim(q)
  <2>1. Sent' = Sent
    BY <1>3 DEF Sent
  <2> QED BY <1>3, <2>1 DEF Out, Sent
<1> HIDE DEF q, v, all, asked
<1>8. SentInOrder' /\ trimmed' \subseteq Frames(asked)
  <2>1. CASE Trim(q) = q
    <3>1. trimmed' = trimmed /\ Out' = all
      BY <1>3, <1>5, <1>7, <2>1
    <3>2. trimmed \subseteq Frames(queued)
      BY <1>1 DEF FramesAreFresh
    <3> QED BY <1>2, <1>4, <3>1, <3>2, OutIsNext
  <2>2. CASE Trim(q) = Without(q, v) /\ v \in 1 .. Len(q)
    <3> DEFINE p == Len(Sent) + v
    <3>1. p \in 1 .. Len(all) /\ all[p] = q[v]
      BY <1>6, <2>2
    <3>2. Out' = Without(all, p)
      BY <1>1, <1>3, <1>5, <1>7, <2>2, WithoutOfConcat
    <3>3. Kept(Without(all, p), asked, trimmed \cup {all[p]})
      BY <1>2, <1>4, <3>1, DropKept
    <3>4. trimmed' = trimmed \cup {all[p]}
      <4>1. \A i \in 1 .. Len(q) : i # v => q[i] # q[v]
        <5> SUFFICES ASSUME NEW i \in 1 .. Len(q), i # v PROVE q[i] # q[v]
          OBVIOUS
        <5>1. Len(Sent) + i \in 1 .. Len(all) /\ p \in 1 .. Len(all)
              /\ all[Len(Sent) + i] = q[i] /\ all[p] = q[v]
          BY <1>6, <3>1
        <5>2. Len(Sent) + i < p \/ p < Len(Sent) + i
          <6>1. Len(Sent) \in Nat /\ Len(q) \in Nat
            BY <1>1, <1>3
          <6> QED BY <2>2, <6>1
        <5> QED BY <1>4, <5>1, <5>2 DEF Kept
      <4>2. Frames(Trim(q)) = Frames(q) \ {q[v]} /\ q[v] \in Frames(q)
        BY <1>3, <2>2, <4>1, WithoutFrames, FramesIs
      <4> QED BY <1>3, <3>1, <4>2
    <3>5. Without(all, p) \in Seq(Frame)
      BY <1>4, <3>1, WithoutIs
    <3>6. SentInOrder'
      <4> HIDE DEF p
      <4> QED BY <1>2, <3>2, <3>3, <3>4, <3>5, OutIsNext
    <3>7. all[p] \in Frames(asked) \cup trimmed
      <4>1. all[p] \in Frames(all)
        BY <1>4, <3>1, FramesIs
      <4> QED BY <1>4, <4>1 DEF Kept
    <3> QED BY <1>1, <1>2, <3>4, <3>6, <3>7 DEF FramesAreFresh
  <2> QED BY <1>3, <2>1, <2>2
<1>9. FramesTyped'
  <2>1. Frames(asked) \subseteq Frame
    BY <1>2, FramesIs, ElementOfSeq
  <2> QED BY <1>1, <1>2, <1>3, <1>8, <2>1 DEF FramesTyped
<1>10. FramesAreFresh'
  <2>1. n \in held
    BY DEF Outbound
  <2>2. Frames(queued)' = Frames(queued')
    BY DEF Frames
  <2> QED BY <1>1, <1>2, <1>8, <2>1, <2>2 DEF FramesAreFresh, linkVars
<1>11. HeldBackOnlyInTrouble'
  BY <1>2 DEF HeldBackOnlyInTrouble
<1> QED BY <1>2, <1>8, <1>9, <1>10, <1>11, TypeSplitsNext DEF IInv, UplinkKept

\* A flush sends what is held back, in its order.
LEMMA HearKeeps ==
    ASSUME IInv, Hear, pinged' \in BOOLEAN
    PROVE  IInv'
<1>1. /\ FramesTyped /\ LinkTyped /\ FramesAreFresh /\ HeldBackOnlyInTrouble
      /\ Sent \in Seq(Frame) /\ Out \in Seq(Frame) /\ Out = Sent \o buffer
      /\ Kept(Out, queued, trimmed) /\ Len(Sent) = Len(wire)
  BY FramesNow
<1>2. /\ failures' = 0 /\ heard' = heard \cup Listening
      /\ UNCHANGED <<linkVars, keeper, seen, sealed, held, queued, trimmed>>
  BY DEF Hear
<1>3. \/ buffer' = <<>> /\ wire' = wire \o OnSocket(buffer)
      \/ buffer' = buffer /\ buffer = <<>> /\ wire' = wire
  BY <1>1 DEF Hear, LinkTyped, HeldBackOnlyInTrouble
<1>4. LinkTyped'
  <2>1. 0 \in 0 .. MaxFailures
    BY UplinkBounds
  <2> QED BY <1>1, <1>2, <2>1 DEF LinkTyped, linkVars, Listening
<1>5. wire' \in Seq(Frame \X Session) /\ Out' = Out
  <2>1. CASE buffer' = buffer /\ buffer = <<>> /\ wire' = wire
    BY <1>1, <2>1 DEF FramesTyped, Out
  <2>2. CASE buffer' = <<>> /\ wire' = wire \o OnSocket(buffer)
    <3> DEFINE flushed == OnSocket(buffer)
    <3>1. sessions \in Session
      BY <1>1 DEF Hear, LinkTyped, Session
    <3>2. buffer \in Seq(Frame) /\ Len(buffer) \in Nat /\ wire \in Seq(Frame \X Session) /\ Len(wire) \in Nat
      BY <1>1 DEF FramesTyped
    <3>3. /\ flushed \in Seq(Frame \X Session) /\ Len(flushed) = Len(buffer)
          /\ \A i \in 1 .. Len(buffer) : flushed[i][1] = buffer[i]
      <4>1. flushed = [i \in 1 .. Len(buffer) |-> <<buffer[i], sessions>>]
        BY <3>2 DEF OnSocket
      <4>2. \A i \in 1 .. Len(buffer) : <<buffer[i], sessions>> \in Frame \X Session
        BY <3>1, <3>2
      <4> QED BY <3>2, <4>1, <4>2
    <3>0. wire' = wire \o flushed
      BY <2>2
    <3> HIDE DEF flushed
    <3>4. /\ wire' \in Seq(Frame \X Session) /\ Len(wire') = Len(wire) + Len(buffer)
          /\ \A i \in 1 .. Len(wire) + Len(buffer) :
               wire'[i] = IF i <= Len(wire) THEN wire[i] ELSE flushed[i - Len(wire)]
      <4> DEFINE both == wire \o flushed
      <4>1. /\ both \in Seq(Frame \X Session) /\ Len(both) = Len(wire) + Len(flushed)
            /\ \A i \in 1 .. Len(wire) + Len(flushed) :
                 both[i] = IF i <= Len(wire) THEN wire[i] ELSE flushed[i - Len(wire)]
        BY <3>2, <3>3, ConcatProperties
      <4> HIDE DEF both
      <4>2. wire' = both
        BY <3>0 DEF both
      <4> QED BY <3>3, <4>1, <4>2
    <3> DEFINE sent == [i \in DOMAIN wire' |-> wire'[i][1]]
    <3>5. sent \in Seq(Frame) /\ Len(sent) = Len(wire') /\ \A i \in 1 .. Len(wire') : sent[i] = wire'[i][1]
      BY <3>4, SentIs
    <3>6. Out' = sent \o <<>>
      BY <2>2 DEF Out
    <3> HIDE DEF sent
    <3>7. Out' = sent
      BY <3>5, <3>6, ConcatEmptySeq
    <3>8. /\ Len(Out) = Len(Sent) + Len(buffer)
          /\ \A i \in 1 .. Len(Sent) + Len(buffer) : Out[i] = IF i <= Len(Sent) THEN Sent[i] ELSE buffer[i - Len(Sent)]
      BY <1>1, <3>2, ConcatProperties
    <3>9. \A i \in 1 .. Len(wire) : Sent[i] = wire[i][1]
      BY <3>2, SentIs DEF Sent
    <3>10. ASSUME NEW i \in 1 .. Len(sent) PROVE sent[i] = Out[i]
      <4>1. i \in 1 .. Len(wire) + Len(buffer) /\ sent[i] = wire'[i][1]
        BY <3>4, <3>5
      <4>2. CASE i <= Len(wire)
        <5>1. i \in 1 .. Len(wire)
          BY <3>2, <4>1, <4>2
        <5> QED BY <1>1, <3>4, <3>8, <3>9, <4>1, <4>2, <5>1
      <4>3. CASE ~(i <= Len(wire))
        <5>1. i - Len(wire) \in 1 .. Len(buffer)
          BY <3>2, <4>1, <4>3
        <5> QED BY <1>1, <3>3, <3>4, <3>8, <4>1, <4>3, <5>1
      <4> QED BY <4>2, <4>3
    <3>11. sent = Out
      BY <1>1, <3>4, <3>5, <3>8, <3>10, SeqEqual
    <3> QED BY <3>4, <3>7, <3>11
  <2> QED BY <1>3, <2>1, <2>2
<1>6. SentInOrder'
  <2>1. queued \in Seq(Frame)
    BY <1>1 DEF FramesTyped
  <2> QED BY <1>1, <1>2, <1>5, <2>1, OutIsNext
<1>7. FramesTyped'
  <2>1. buffer' \in Seq(Frame) /\ Len(buffer') <= MaxBuffered
    <3>1. <<>> \in Seq(Frame) /\ Len(<<>>) = 0 /\ 0 <= MaxBuffered
      BY UplinkBounds
    <3>2. buffer' = <<>> \/ buffer' = buffer
      BY <1>3
    <3> QED BY <1>1, <3>1, <3>2 DEF FramesTyped
  <2> QED BY <1>1, <1>2, <1>5, <2>1 DEF FramesTyped
<1>8. FramesAreFresh' /\ HeldBackOnlyInTrouble'
  BY <1>1, <1>2, <1>3 DEF FramesAreFresh, Frames, HeldBackOnlyInTrouble, linkVars
<1> QED BY <1>4, <1>6, <1>7, <1>8, TypeSplitsNext DEF IInv, UplinkKept

-----------------------------------------------------------------------------
(* The session and its keepalive threads.                                  *)

\* The steps of a session keep the invariant.
LEMMA SessionKeeps ==
    ASSUME IInv, Establish \/ SocketDies
    PROVE  IInv'
<1>1. LinkTyped
  BY FramesNow
<1>2. CASE Establish
  <2>1. sessions + 1 \in Session /\ sessions' = sessions + 1 /\ sessions' \in 0 .. MaxSessions /\ sessions' # 0
    BY <1>1, <1>2, UplinkBounds DEF Establish, LinkTyped, Session
  <2>2. LinkTyped'
    BY <1>1, <1>2, <2>1 DEF Establish, LinkTyped, Activities
  <2> QED BY <1>2, <2>1, <2>2, FramesUntouched DEF Establish
<1>3. CASE SocketDies
  <2>1. LinkTyped'
    BY <1>1, <1>3 DEF SocketDies, LinkTyped, probeVars
  <2> QED BY <1>3, <2>1, FramesUntouched DEF SocketDies
<1> QED BY <1>2, <1>3

\* A failure is counted from the failures read, and never to zero.
LEMMA CountIs ==
    ASSUME IInv, NEW s \in Session
    PROVE  Incremented(s) \in 1 .. MaxFailures
<1>1. seen[s] \in 0 .. MaxFailures
  BY FramesNow DEF LinkTyped
<1> QED BY <1>1, UplinkBounds DEF Incremented

\* The keepalive threads keep it.
LEMMA KeepaliveKeeps ==
    ASSUME IInv, NEW s \in Session, Keepalive(s) \/ GiveUpSocket(s)
    PROVE  IInv'
<1>1. LinkTyped
  BY FramesNow
<1>2. 0 \in 0 .. MaxFailures /\ Incremented(s) \in 0 .. MaxFailures /\ Incremented(s) # 0
  BY CountIs, UplinkBounds
<1>3. CASE WakeToNothing(s)
  <2>1. LinkTyped'
    BY <1>1, <1>3 DEF WakeToNothing, Becomes, LinkTyped, Activities, linkVars
  <2> QED BY <1>3, <2>1, FramesUntouched DEF WakeToNothing, linkVars
<1>4. CASE Probe(s)
  <2>1. LinkTyped'
    BY <1>1, <1>4 DEF Probe, Becomes, LinkTyped, Activities, linkVars
  <2> QED BY <1>4, <2>1, FramesUntouched DEF Probe, linkVars
<1>5. CASE ProbeAcked(s)
  <2>1. LinkTyped'
    BY <1>1, <1>5 DEF ProbeAcked, Becomes, LinkTyped, Activities, linkVars
  <2> QED BY <1>5, <2>1, FramesUntouched DEF ProbeAcked, linkVars
<1>6. CASE ProbeTimesOut(s)
  <2>1. LinkTyped'
    BY <1>1, <1>6 DEF ProbeTimesOut, Becomes, LinkTyped, Activities, linkVars
  <2> QED BY <1>6, <2>1, FramesUntouched DEF ProbeTimesOut, linkVars
<1>7. CASE CountFailure(s)
  <2>1. LinkTyped'
    BY <1>1, <1>2, <1>7 DEF CountFailure, Becomes, LinkTyped, Activities, linkVars
  <2> QED BY <1>2, <1>7, <2>1, FramesUntouched DEF CountFailure, linkVars
<1>8. CASE GiveUpSocket(s)
  <2>1. LinkTyped'
    BY <1>1, <1>2, <1>8 DEF GiveUpSocket, Becomes, LinkTyped, Activities
  <2> QED BY <1>2, <1>8, <2>1, FramesUntouched DEF GiveUpSocket
<1> QED BY <1>3, <1>4, <1>5, <1>6, <1>7, <1>8 DEF Keepalive

-----------------------------------------------------------------------------
(* The theorems.                                                           *)

\* It holds before the first session.
LEMMA InvariantStarts == Init => IInv
<1> SUFFICES ASSUME Init PROVE IInv
  OBVIOUS
<1>1. FramesTyped
  <2>1. 0 \in 0 .. LastFrame /\ 0 <= MaxBuffered
    BY UplinkBounds
  <2> QED BY <2>1 DEF Init, FramesTyped
<1>2. LinkTyped
  <2>1. 0 \in 0 .. MaxFailures /\ 0 \in 0 .. MaxSessions
    BY UplinkBounds
  <2> QED BY <2>1 DEF Init, LinkTyped, Activities
<1>3. FramesAreFresh /\ HeldBackOnlyInTrouble
  BY DEF Init, FramesAreFresh, Frames, HeldBackOnlyInTrouble
<1>4. SentInOrder
  <2>1. Sent = <<>> /\ Sent \o buffer = <<>>
    BY DEF Init, Sent
  <2>2. Out = <<>>
    BY <1>1, <2>1, OutIs
  <2> QED BY <2>2 DEF Init, SentInOrder, Frames
<1> QED BY <1>1, <1>2, <1>3, <1>4, TypeSplits DEF IInv, UplinkKept

\* Every step keeps it.
LEMMA StepKeeps == IInv /\ [Next]_vars => IInv'
<1> SUFFICES ASSUME IInv, [Next]_vars PROVE IInv'
  OBVIOUS
<1>1. ASSUME NEW n \in Frame, Outbound(n) PROVE IInv'
  BY <1>1, SendKeeps, HoldKeeps
<1>2. CASE Pong \/ PeerSpeaks
  <2>1. Hear /\ pinged' \in BOOLEAN
    BY <1>2, FramesNow DEF Pong, PeerSpeaks, LinkTyped
  <2> QED BY <2>1, HearKeeps
<1>3. CASE UNCHANGED vars
  <2>1. UNCHANGED <<linkVars, failures, probeVars, frameVars>>
    BY <1>3 DEF vars
  <2>2. LinkTyped'
    BY <2>1, FramesNow DEF LinkTyped, linkVars, probeVars
  <2> QED BY <2>1, <2>2, FramesUntouched DEF linkVars
<1> QED BY <1>1, <1>2, <1>3, SessionKeeps, SealKeeps, KeepaliveKeeps DEF Next

\* The invariant of the uplink, inductive as it stands.
THEOREM Inductive == Spec => []IInv
<1> QED BY InvariantStarts, StepKeeps, PTL DEF Spec

\* Every variable stays in its type, and the buffer within its bound.
THEOREM TypeCorrect == Spec => []TypeOK
<1>1. IInv => TypeOK
  BY DEF IInv
<1> QED BY <1>1, Inductive, PTL

\* Whatever the senders, the reader, the keepalive threads and the sessions do
\* in between, no frame is stranded, lost, doubled or overtaken.
THEOREM UplinkIsKept == Spec => []UplinkKept
<1>1. IInv => UplinkKept
  BY DEF IInv
<1> QED BY <1>1, Inductive, PTL

\* No command is trimmed while there is audio to trim.
THEOREM AudioGoesFirst == Spec => CommandsOutliveAudio
<1> DEFINE Spared == trimmed' \ trimmed \subseteq Audio \/ Frames(buffer') \cap Audio = {}
<1>1. IInv /\ [Next]_vars => [Spared]_vars
  <2> SUFFICES ASSUME IInv, Next PROVE Spared
    OBVIOUS
  <2>1. ASSUME NEW n \in Frame, Outbound(n), failures > 0 PROVE Spared
    <3> DEFINE q == Append(buffer, n)
    <3>1. /\ q \in Seq(Frame) /\ buffer' = Trim(q)
          /\ trimmed' = trimmed \cup (Frames(q) \ Frames(Trim(q)))
          /\ \/ Trim(q) = q
             \/ /\ Trim(q) = Without(q, Victim(q))
                /\ Victim(q) \in 1 .. Len(q)
                /\ q[Victim(q)] \in Audio \/ Frames(q) \cap Audio = {}
      BY <2>1, TrimStep
    <3> HIDE DEF q
    <3>2. CASE Trim(q) = q
      BY <3>1, <3>2
    <3>3. CASE /\ Trim(q) = Without(q, Victim(q))
               /\ Victim(q) \in 1 .. Len(q)
               /\ q[Victim(q)] \in Audio \/ Frames(q) \cap Audio = {}
      <4>1. /\ Frames(Without(q, Victim(q))) \subseteq Frames(q)
            /\ Frames(q) = Frames(Without(q, Victim(q))) \cup {q[Victim(q)]}
        BY <3>1, <3>3, WithoutFrames
      <4> QED BY <3>1, <3>3, <4>1
    <3> QED BY <3>1, <3>2, <3>3
  <2>2. ASSUME NEW n \in Frame, Outbound(n), ~(failures > 0) PROVE Spared
    BY <2>2 DEF Outbound
  <2>3. CASE Establish \/ SocketDies \/ Seal
    BY <2>3 DEF Establish, SocketDies, Seal, frameVars
  <2>4. CASE Pong \/ PeerSpeaks
    BY <2>4 DEF Pong, PeerSpeaks, Hear
  <2>5. ASSUME NEW s \in Session, Keepalive(s) \/ GiveUpSocket(s) PROVE Spared
    BY <2>5 DEF Keepalive, GiveUpSocket, WakeToNothing, Probe, ProbeAcked, ProbeTimesOut,
                CountFailure, frameVars
  <2> QED BY <2>1, <2>2, <2>3, <2>4, <2>5 DEF Next
<1> QED BY <1>1, Inductive, PTL DEF Spec, CommandsOutliveAudio

=============================================================================
