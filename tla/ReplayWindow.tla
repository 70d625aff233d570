---------------------------- MODULE ReplayWindow ----------------------------
(***************************************************************************)
(* One stream of the encrypted channel: proto.js Channel and ReplayWindow, *)
(* mirrored by KoCrypto.java.  The sender numbers its frames; the network  *)
(* may lose, reorder, duplicate or damage them; the receiver keeps the     *)
(* highest counter it accepted and one slot for each of the last Size.     *)
(*                                                                         *)
(* Streams share nothing but the keys, so one of them is modelled.  A      *)
(* frame is its counter.  Sealed frames never leave the network: losing a  *)
(* frame is never receiving it, and a duplicate is receiving it again.     *)
(***************************************************************************)
EXTENDS Integers, FiniteSets

CONSTANTS
    Size,       \* REPLAY_WINDOW
    MaxCounter  \* MAX_COUNTER

ASSUME SizeAssumption == Size \in Nat \ {0}
ASSUME CounterAssumption == MaxCounter \in Nat

VARIABLES
    next,      \* _tx[stream]: the counter of the next frame sealed
    max,       \* max: the highest counter accepted, -1 before the first
    seen,      \* seen: 1 in slot c % Size for an accepted c
    verdict,   \* how the last frame received ended
    accepted   \* history: every counter accepted so far

vars == <<next, max, seen, verdict, accepted>>

Slot == 0 .. Size - 1
Verdicts == {"none", "opened", "auth", "replay"}

TypeOK ==
    /\ next \in 0 .. MaxCounter
    /\ max \in -1 .. next - 1
    /\ seen \in [Slot -> {0, 1}]
    /\ verdict \in Verdicts
    /\ accepted \in SUBSET (0 .. next - 1)

Init ==
    /\ next = 0
    /\ max = -1
    /\ seen = [i \in Slot |-> 0]
    /\ verdict = "none"
    /\ accepted = {}

-----------------------------------------------------------------------------
\* Mutant: counters are never exhausted.
SealForever ==
    /\ next' = next + 1
    /\ UNCHANGED <<max, seen, verdict, accepted>>

\* Channel.send
Seal ==
    /\ next < MaxCounter
    /\ next' = next + 1
    /\ UNCHANGED <<max, seen, verdict, accepted>>

\* ReplayWindow.accepts
Accepts(c) ==
    \/ c > max
    \/ max - c < Size /\ seen[c % Size] = 0

\* The counters mark() jumps over: all of them have lost their slot to newer
\* ones, so the slots are emptied, every slot when it jumps a whole window.
Emptied(c) ==
    IF c - max >= Size THEN Slot ELSE {x % Size : x \in max + 1 .. c - 1}

\* Mutant: the slots of skipped counters keep what they held a window ago.
MarkKeepingSkipped(c) ==
    /\ max' = IF c > max THEN c ELSE max
    /\ seen' = [seen EXCEPT ![c % Size] = 1]

\* ReplayWindow.mark
Mark(c) ==
    /\ max' = IF c > max THEN c ELSE max
    /\ seen' = [i \in Slot |->
                  IF i = c % Size THEN 1
                  ELSE IF c > max /\ i \in Emptied(c) THEN 0
                  ELSE seen[i]]

\* Channel.recvBytes of a frame that was sealed with counter c: the window
\* is asked before the frame is decrypted and moved only after.
Receive(c) ==
    /\ UNCHANGED next
    /\ \/ /\ Accepts(c)
          /\ Mark(c)
          /\ accepted' = accepted \cup {c}
          /\ verdict' = "opened"
       \/ /\ ~Accepts(c)
          /\ verdict' = "replay"
          /\ UNCHANGED <<max, seen, accepted>>

\* Mutant: the window moves before the frame is authenticated.
ReceiveDamagedMarking(c) ==
    /\ verdict' = IF Accepts(c) THEN "auth" ELSE "replay"
    /\ IF Accepts(c) THEN Mark(c) ELSE UNCHANGED <<max, seen>>
    /\ UNCHANGED <<next, accepted>>

\* Channel.recvBytes of a frame that does not authenticate and whose nonce
\* reads c, any counter at all.
ReceiveDamaged(c) ==
    /\ verdict' = IF Accepts(c) THEN "auth" ELSE "replay"
    /\ UNCHANGED <<next, max, seen, accepted>>

Next ==
    \/ Seal
    \/ \E c \in 0 .. next - 1 : Receive(c)
    \/ \E c \in 0 .. MaxCounter : ReceiveDamaged(c)

Spec == Init /\ [][Next]_vars

-----------------------------------------------------------------------------
\* A slot of the window tells the truth about the one counter that is
\* current in it: max is the highest counter accepted, and a counter within
\* Size of it was accepted exactly when its slot is set.  However far the
\* counter jumps, no slot is left over from an earlier lap.
WindowTracksAccepted ==
    /\ \A a \in accepted : a <= max
    /\ max >= 0 => max \in accepted
    /\ \A c \in 0 .. max : max - c < Size => (seen[c % Size] = 1 <=> c \in accepted)

\* The window accepts and refuses exactly what a receiver with an unbounded
\* memory would: nothing is opened twice, no frame less than Size behind is
\* refused the first time, and a damaged frame leaves no trace.
Filter == INSTANCE ReplayFilter
             WITH next <- next, accepted <- accepted, verdict <- verdict,
                  Size <- Size, MaxCounter <- MaxCounter
ImplementsFilter == Filter!Spec

=============================================================================
