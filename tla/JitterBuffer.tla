---------------------------- MODULE JitterBuffer ----------------------------
(***************************************************************************)
(* The adaptive jitter buffer of the UDP media path                        *)
(* (transport/adaptive-jitter.js, ported to Ajb.java) and the way          *)
(* udp-media.js and UdpMedia.java drive it: every datagram is pushed, and  *)
(* the buffer is then pulled until it has nothing to give.                 *)
(*                                                                         *)
(* A frame is its sequence number.  The target depth is any value between  *)
(* the baseline and the maximum: the jitter average and the loss penalty   *)
(* it is computed from tell nothing else apart.  The time a missing frame  *)
(* was waited for is counted in pulls, as the code counts it (frameMs per  *)
(* pull).                                                                  *)
(***************************************************************************)
EXTENDS Integers, Sequences, FiniteSets

CONSTANTS
    LastSeq,   \* bound: no frame arrives beyond it, or once playout is
    Baseline,  \* baselineFrames
    Max,       \* maxFrames
    Hold       \* maxHoldMs / frameMs: pulls a missing frame is waited for

ASSUME SeqAssumption == LastSeq \in Nat
ASSUME DepthAssumption ==
    Baseline \in Nat \ {0} /\ Max \in Nat /\ Baseline <= Max
ASSUME HoldAssumption == Hold \in Nat \ {0}

None == -1

VARIABLES
    buf,      \* the keys of buf
    next,     \* next: the frame to emit next, None before the first push
    started,  \* started: the pre-buffer has been filled once
    waiting,  \* _waitingSince # 0: the pre-buffer's hold has begun
    late,     \* the entry of _waitingForLate for next, in pulls
    target,   \* target
    pumping,  \* the pump loop runs: no datagram is handled before it ends
    emitted   \* history: the frames given to the consumer, concealed or not

vars == <<buf, next, started, waiting, late, target, pumping, emitted>>

TypeOK ==
    /\ buf \in SUBSET Nat
    /\ next \in Nat \cup {None}
    /\ started \in BOOLEAN
    /\ waiting \in BOOLEAN
    /\ late \in 0 .. Hold
    /\ target \in Baseline .. Max
    /\ pumping \in BOOLEAN
    /\ emitted \in Seq(Nat)

Init ==
    /\ buf = {}
    /\ next = None
    /\ started = FALSE
    /\ waiting = FALSE
    /\ late = 0
    /\ target = Baseline
    /\ pumping = FALSE
    /\ emitted = <<>>

-----------------------------------------------------------------------------
(* push                                                                    *)

\* A frame that its own playout has passed is dropped.
IsLate(s) == next # None /\ s < next

\* Where playout is once s is in the buffer: the first frame sets it.
Anchor(s) == IF next = None THEN s ELSE next

FarAhead(s) == s - Anchor(s) > 4 * Max

Lowest(S) == CHOOSE k \in S : \A j \in S : k <= j

DropLate(s) ==
    /\ IsLate(s)
    /\ UNCHANGED <<buf, next, started, late, target>>

\* Mutant: the frames behind the live edge stay in the buffer.
JumpKeepingOld(s) ==
    /\ ~IsLate(s)
    /\ FarAhead(s)
    /\ buf' = buf \cup {s}
    /\ next' = s
    /\ started' = FALSE
    /\ late' = 0
    /\ target' \in Baseline .. Max

\* A huge forward jump: playout starts again at s, what is behind it goes.
Jump(s) ==
    /\ ~IsLate(s)
    /\ FarAhead(s)
    /\ buf' = {k \in buf \cup {s} : k >= s}
    /\ next' = s
    /\ started' = FALSE
    /\ late' = 0
    /\ target' \in Baseline .. Max

\* Too many frames held: playout skips the gap before the lowest of them.
SkipGap(s) ==
    /\ ~IsLate(s)
    /\ ~FarAhead(s)
    /\ Cardinality(buf \cup {s}) > Max
    /\ buf' = buf \cup {s}
    /\ next' = Lowest(buf \cup {s})
    /\ late' = 0
    /\ target' \in Baseline .. Max
    /\ UNCHANGED started

Store(s) ==
    /\ ~IsLate(s)
    /\ ~FarAhead(s)
    /\ Cardinality(buf \cup {s}) <= Max
    /\ buf' = buf \cup {s}
    /\ next' = Anchor(s)
    /\ target' \in Baseline .. Max
    /\ UNCHANGED <<started, late>>

\* _onDatagram: an authenticated media frame is pushed and the pump started.
Push(s) ==
    /\ ~pumping
    /\ next <= LastSeq
    /\ pumping' = TRUE
    /\ UNCHANGED <<waiting, emitted>>
    /\ DropLate(s) \/ Jump(s) \/ SkipGap(s) \/ Store(s)

-----------------------------------------------------------------------------
(* pull, as the pump loop calls it.                                        *)

\* _runAhead: how many frames from next on are there in a row.
RunsAhead(n) == \A k \in next .. next + n - 1 : k \in buf

\* Mutant: a frame that was played stays where it is.
PlayTwice ==
    /\ pumping
    /\ next \in buf
    /\ started \/ RunsAhead(target) \/ waiting
    /\ waiting' = (started /\ waiting)
    /\ started' = TRUE
    /\ late' = 0
    /\ emitted' = Append(emitted, next)
    /\ UNCHANGED <<buf, next, target, pumping>>

\* The next frame is there and may be played: playout has started, or the
\* pre-buffer is full, or it was held for reholdMs.
Play ==
    /\ pumping
    /\ next \in buf
    /\ started \/ RunsAhead(target) \/ waiting
    /\ buf' = buf \ {next}
    /\ next' = next + 1
    /\ waiting' = (started /\ waiting)
    /\ started' = TRUE
    /\ late' = 0
    /\ emitted' = Append(emitted, next)
    /\ UNCHANGED <<target, pumping>>

\* The next frame is there and is held: the pre-buffer is still filling.
HoldBack ==
    /\ pumping
    /\ next \in buf
    /\ ~started
    /\ ~RunsAhead(target)
    /\ waiting' = TRUE
    /\ pumping' = FALSE
    /\ UNCHANGED <<buf, next, started, late, target, emitted>>

\* Mutant: a missing frame is waited for without limit.
WaitForLateForever ==
    /\ pumping
    /\ next \notin buf
    /\ late' = late + 1
    /\ pumping' = FALSE
    /\ UNCHANGED <<buf, next, started, waiting, target, emitted>>

\* The next frame is not there yet.
WaitForLate ==
    /\ pumping
    /\ next \notin buf
    /\ late < Hold
    /\ late' = late + 1
    /\ pumping' = FALSE
    /\ UNCHANGED <<buf, next, started, waiting, target, emitted>>

\* The next frame is past its deadline: the consumer conceals it.
Conceal ==
    /\ pumping
    /\ next \notin buf
    /\ late = Hold
    /\ next' = next + 1
    /\ late' = 0
    /\ waiting' = FALSE
    /\ started' = TRUE
    /\ emitted' = Append(emitted, next)
    /\ UNCHANGED <<buf, target, pumping>>

Pump == Play \/ HoldBack \/ WaitForLate \/ Conceal

Next == Pump \/ \E s \in 0 .. LastSeq : Push(s)

Spec == Init /\ [][Next]_vars

-----------------------------------------------------------------------------
\* No frame waits behind playout, where it could never be pulled, and none
\* further ahead than a jump: however the datagrams are lost and reordered the
\* buffer holds at most 4 * Max + 1 frames ("must not grow memory").
BufferNearPlayout ==
    /\ \A k \in buf : next # None /\ next <= k /\ k <= next + 4 * Max
    /\ Cardinality(buf) <= 4 * Max + 1

\* "never emit out of order": the consumer gets every sequence number at most
\* once and in increasing order - a frame that was concealed is never played
\* late, and no skip or jump plays anything again.
EmittedInOrder ==
    /\ \A i, j \in DOMAIN emitted : i < j => emitted[i] < emitted[j]
    /\ \A i \in DOMAIN emitted : emitted[i] < next

=============================================================================
