------------------------- MODULE JitterBufferProofs -------------------------
(***************************************************************************)
(* For every depth, hold and sequence of datagrams, the jitter buffer      *)
(* holds nothing behind its playout nor far ahead of it, and emits each    *)
(* sequence number at most once, in increasing order.                      *)
(***************************************************************************)
EXTENDS JitterBuffer, FiniteSetTheorems, WellFoundedInduction, TLAPS

-----------------------------------------------------------------------------
(* What an overflow advances playout to.                                   *)

\* A set of sequence numbers that is not empty has a lowest one.
LEMMA LowestIsLowest ==
    ASSUME NEW S \in SUBSET Nat, S # {}
    PROVE  /\ Lowest(S) \in S
           /\ \A j \in S : Lowest(S) <= j
<1>1. PICK k \in S : \A j \in S : ~ (<<j, k>> \in OpToRel(<, Nat))
  BY NatLessThanWellFounded, WFMin
<1>2. ASSUME NEW j \in S PROVE ~ (j < k)
  <2>1. j \in Nat /\ k \in Nat
    OBVIOUS
  <2>2. j < k => <<j, k>> \in OpToRel(<, Nat)
    BY <2>1, Zenon DEF OpToRel
  <2> QED BY <1>1, <2>2
<1>3. \A j \in S : k <= j
  BY <1>2
<1> QED BY <1>3 DEF Lowest

-----------------------------------------------------------------------------
(* The inductive invariant: playout has begun wherever the pump runs or a  *)
(* frame waits, frames wait near playout, and playout is past everything   *)
(* that was emitted.                                                       *)

FramesNearPlayout ==
    \A k \in buf : next # None /\ next <= k /\ k <= next + 4 * Max

PlayoutBegun == pumping => next # None

IInv == TypeOK /\ PlayoutBegun /\ FramesNearPlayout /\ EmittedInOrder

\* Frames that wait near playout are few.
LEMMA FewFrames ==
    ASSUME TypeOK, FramesNearPlayout
    PROVE  Cardinality(buf) <= 4 * Max + 1
<1>1. CASE buf = {}
  BY <1>1, FS_EmptySet, DepthAssumption
<1>2. CASE buf # {}
  <2>1. next \in Nat /\ Max \in Nat
    BY <1>2, DepthAssumption DEF TypeOK, FramesNearPlayout, None
  <2>2. buf \in SUBSET (next .. next + 4 * Max)
    BY <2>1 DEF TypeOK, FramesNearPlayout
  <2>3. /\ IsFiniteSet(next .. next + 4 * Max)
        /\ Cardinality(next .. next + 4 * Max) = 4 * Max + 1
    BY <2>1, FS_Interval
  <2> QED BY <2>2, <2>3, FS_Subset
<1> QED BY <1>1, <1>2

\* What the assumptions on the constants say of the ranges in TypeOK.
LEMMA Bounds ==
    /\ Max \in Nat
    /\ Hold \in Nat
    /\ 0 \in 0 .. Hold
    /\ Baseline \in Baseline .. Max
    /\ \A n \in 0 .. Hold : n < Hold => n + 1 \in 0 .. Hold
BY DepthAssumption, HoldAssumption

-----------------------------------------------------------------------------
(* push                                                                    *)

\* Where playout resumes for a frame that is not late: at it, or before it.
LEMMA AnchorTyped ==
    ASSUME TypeOK, NEW s \in Nat, ~IsLate(s)
    PROVE  Anchor(s) \in Nat /\ Anchor(s) <= s /\ next <= Anchor(s)
BY DEF TypeOK, IsLate, Anchor, None

\* A frame too far ahead moves playout to it and drops what it leaves behind.
LEMMA JumpKeepsInvariant ==
    ASSUME IInv, NEW s \in Nat, Jump(s), pumping' = TRUE,
           UNCHANGED <<waiting, emitted>>
    PROVE  IInv'
<1> USE DEF IInv
<1>0. Anchor(s) \in Nat /\ next <= Anchor(s) /\ Max \in Nat
  BY AnchorTyped, DepthAssumption DEF Jump
<1>1. \A k \in buf : k < s
  BY <1>0 DEF Jump, FarAhead, FramesNearPlayout, TypeOK, Anchor
<1>2. buf' = {s} /\ next' = s
  <2>1. \A k \in buf : k \in Nat /\ ~ (k >= s)
    BY <1>1 DEF TypeOK
  <2> QED BY <2>1 DEF Jump
<1>3. TypeOK'
  <2>1. buf' \in SUBSET Nat /\ next' \in Nat \cup {None}
    BY <1>2
  <2>2. started' \in BOOLEAN /\ pumping' \in BOOLEAN
    BY DEF Jump
  <2>3. late' \in 0 .. Hold /\ target' \in Baseline .. Max
    BY Bounds DEF Jump
  <2>4. waiting' \in BOOLEAN /\ emitted' \in Seq(Nat)
    BY DEF TypeOK
  <2> QED BY <2>1, <2>2, <2>3, <2>4 DEF TypeOK
<1>4. FramesNearPlayout'
  BY <1>0, <1>2 DEF FramesNearPlayout, None
<1>5. s > next
  BY <1>0 DEF Jump, FarAhead, TypeOK
<1>6. EmittedInOrder'
  BY <1>2, <1>5 DEF EmittedInOrder, TypeOK
<1> QED BY <1>2, <1>3, <1>4, <1>6 DEF PlayoutBegun, None

\* A frame within reach is near playout, wherever playout advances to among
\* the frames that wait.
LEMMA ReachKeepsInvariant ==
    ASSUME IInv, NEW s \in Nat, ~IsLate(s), ~FarAhead(s),
           buf' = buf \cup {s},
           next' \in Nat, Anchor(s) <= next', \A k \in buf' : next' <= k,
           target' \in Baseline .. Max, late' \in 0 .. Hold,
           UNCHANGED <<started, waiting, emitted>>, pumping' = TRUE
    PROVE  IInv'
<1> USE DEF IInv
<1>0. Anchor(s) \in Nat /\ next <= Anchor(s) /\ Max \in Nat
  BY AnchorTyped, DepthAssumption
<1>1. TypeOK'
  BY DEF TypeOK
<1>2. \A k \in buf' : k <= Anchor(s) + 4 * Max
  BY <1>0 DEF FarAhead, FramesNearPlayout, TypeOK, Anchor, None
<1>3. FramesNearPlayout'
  <2> SUFFICES ASSUME NEW k \in buf'
               PROVE  next' # None /\ next' <= k /\ k <= next' + 4 * Max
    BY DEF FramesNearPlayout
  <2>1. k \in Nat /\ k <= Anchor(s) + 4 * Max
    BY <1>1, <1>2 DEF TypeOK
  <2>2. next' <= k /\ next' \in Nat
    OBVIOUS
  <2>3. Anchor(s) <= next' /\ Anchor(s) \in Nat /\ 4 * Max \in Nat
    BY <1>0
  <2>4. Anchor(s) + 4 * Max <= next' + 4 * Max
    BY <2>2, <2>3
  <2>5. k <= next' + 4 * Max
    BY <2>1, <2>2, <2>3, <2>4
  <2> QED BY <2>2, <2>5 DEF None
<1>4. EmittedInOrder'
  BY <1>0 DEF EmittedInOrder, TypeOK
<1> QED BY <1>1, <1>3, <1>4 DEF PlayoutBegun, None

\* Whatever datagram arrives, handling it keeps the invariant.
LEMMA PushKeepsInvariant ==
    ASSUME IInv, NEW s \in 0 .. LastSeq, Push(s)
    PROVE  IInv'
<1> USE DEF IInv
<1>0. s \in Nat /\ Max \in Nat
  BY SeqAssumption, DepthAssumption
<1>1. pumping' = TRUE /\ UNCHANGED <<waiting, emitted>>
  BY DEF Push
<1>2. CASE DropLate(s)
  BY <1>1, <1>2 DEF DropLate, IsLate, TypeOK, PlayoutBegun, FramesNearPlayout,
                    EmittedInOrder
<1>3. CASE Jump(s)
  BY <1>0, <1>1, <1>3, JumpKeepsInvariant
<1>4. CASE SkipGap(s)
  <2>1. buf \cup {s} \in SUBSET Nat /\ buf \cup {s} # {}
    BY <1>0 DEF TypeOK
  <2>2. /\ next' \in buf \cup {s}
        /\ \A j \in buf \cup {s} : next' <= j
    BY <1>4, <2>1, LowestIsLowest DEF SkipGap
  <2>3. Anchor(s) <= next'
    BY <1>0, <1>4, <2>1, <2>2, AnchorTyped
       DEF SkipGap, FramesNearPlayout, TypeOK, Anchor
  <2> QED BY <1>0, <1>1, <1>4, <2>1, <2>2, <2>3, HoldAssumption,
             ReachKeepsInvariant DEF SkipGap
<1>5. CASE Store(s)
  <2>1. Anchor(s) \in Nat /\ \A k \in buf \cup {s} : Anchor(s) <= k
    BY <1>0, <1>5, AnchorTyped DEF Store, FramesNearPlayout, TypeOK, Anchor
  <2> QED BY <1>0, <1>1, <1>5, <2>1, ReachKeepsInvariant DEF Store, TypeOK
<1> QED BY <1>2, <1>3, <1>4, <1>5 DEF Push

-----------------------------------------------------------------------------
(* pull                                                                    *)

\* Emitting the frame playout is at, and moving past it, keeps the order.
LEMMA EmitKeepsOrder ==
    ASSUME TypeOK, EmittedInOrder, next \in Nat,
           next' = next + 1, emitted' = Append(emitted, next)
    PROVE  EmittedInOrder' /\ emitted' \in Seq(Nat)
BY DEF TypeOK, EmittedInOrder

\* One pull, whether it plays, conceals, waits or ends the pump.
LEMMA PumpKeepsInvariant ==
    ASSUME IInv, Pump
    PROVE  IInv'
<1> USE DEF IInv
<1>0. next \in Nat /\ pumping /\ Max \in Nat
  BY DepthAssumption
     DEF Pump, Play, HoldBack, WaitForLate, Conceal, PlayoutBegun, TypeOK, None
<1>1. CASE Play
  <2>1. EmittedInOrder' /\ emitted' \in Seq(Nat)
    BY <1>0, <1>1, EmitKeepsOrder DEF Play
  <2>2. TypeOK'
    BY <1>0, <1>1, <2>1, HoldAssumption DEF Play, TypeOK
  <2>3. FramesNearPlayout'
    BY <1>0, <1>1 DEF Play, FramesNearPlayout, TypeOK, None
  <2> QED BY <1>0, <1>1, <2>1, <2>2, <2>3 DEF Play, PlayoutBegun, None
<1>2. CASE Conceal
  <2>1. EmittedInOrder' /\ emitted' \in Seq(Nat)
    BY <1>0, <1>2, EmitKeepsOrder DEF Conceal
  <2>2. TypeOK'
    <3>1. late' \in 0 .. Hold
      BY <1>2, Bounds DEF Conceal
    <3>2. next' = next + 1 /\ waiting' = FALSE /\ started' = TRUE
      BY <1>2 DEF Conceal
    <3>3. next' \in Nat
      BY <1>0, <3>2
    <3>4. UNCHANGED <<buf, target, pumping>>
      BY <1>2 DEF Conceal
    <3> QED BY <2>1, <3>1, <3>2, <3>3, <3>4 DEF TypeOK
  <2>3. FramesNearPlayout'
    BY <1>0, <1>2 DEF Conceal, FramesNearPlayout, TypeOK, None
  <2> QED BY <1>0, <1>2, <2>1, <2>2, <2>3 DEF Conceal, PlayoutBegun, None
<1>3. CASE HoldBack
  BY <1>3 DEF HoldBack, TypeOK, PlayoutBegun, FramesNearPlayout, EmittedInOrder
<1>4. CASE WaitForLate
  <2>1. late' \in 0 .. Hold
    BY <1>4, Bounds DEF WaitForLate, TypeOK
  <2> QED BY <1>4, <2>1
         DEF WaitForLate, TypeOK, PlayoutBegun, FramesNearPlayout, EmittedInOrder
<1> QED BY <1>1, <1>2, <1>3, <1>4 DEF Pump

-----------------------------------------------------------------------------
\* The invariant holds in every reachable state: push and the pump keep it.
THEOREM Inductive == Spec => []IInv
<1>1. Init => IInv
  <2> SUFFICES ASSUME Init PROVE IInv
    OBVIOUS
  <2>1. TypeOK
    <3>1. late \in 0 .. Hold /\ target \in Baseline .. Max
      BY Bounds DEF Init
    <3>2. buf \in SUBSET Nat /\ next \in Nat \cup {None} /\ emitted \in Seq(Nat)
      BY DEF Init
    <3>3. started \in BOOLEAN /\ waiting \in BOOLEAN /\ pumping \in BOOLEAN
      BY DEF Init
    <3> QED BY <3>1, <3>2, <3>3 DEF TypeOK
  <2>2. PlayoutBegun /\ FramesNearPlayout
    BY DEF Init, PlayoutBegun, FramesNearPlayout
  <2>3. EmittedInOrder
    BY DEF Init, EmittedInOrder
  <2> QED BY <2>1, <2>2, <2>3 DEF IInv
<1>2. IInv /\ [Next]_vars => IInv'
  <2> SUFFICES ASSUME IInv, [Next]_vars PROVE IInv'
    OBVIOUS
  <2>1. CASE Pump
    BY <2>1, PumpKeepsInvariant
  <2>2. ASSUME NEW s \in 0 .. LastSeq, Push(s) PROVE IInv'
    BY <2>2, PushKeepsInvariant
  <2>3. CASE UNCHANGED vars
    BY <2>3 DEF vars, IInv, TypeOK, PlayoutBegun, FramesNearPlayout, EmittedInOrder
  <2> QED BY <2>1, <2>2, <2>3 DEF Next
<1> QED BY <1>1, <1>2, PTL DEF Spec

\* Every reachable state is well typed.
THEOREM TypeCorrect == Spec => []TypeOK
<1>1. IInv => TypeOK
  BY DEF IInv
<1> QED BY <1>1, Inductive, PTL

\* Whatever the datagrams are, the buffer stays small and no frame is left
\* behind where nothing will ever pull it.
THEOREM BufferStaysNearPlayout == Spec => []BufferNearPlayout
<1>1. IInv => BufferNearPlayout
  BY FewFrames DEF IInv, BufferNearPlayout, FramesNearPlayout
<1> QED BY <1>1, Inductive, PTL

\* Nothing is emitted twice or out of order.
THEOREM EmissionIsOrdered == Spec => []EmittedInOrder
<1>1. IInv => EmittedInOrder
  BY DEF IInv
<1> QED BY <1>1, Inductive, PTL

=============================================================================
