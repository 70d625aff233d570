--------------------------- MODULE UtteranceProofs ---------------------------
(***************************************************************************)
(* For all lengths, kinds of frames and replies: an utterance that is open *)
(* while the phone is there has an armed deadline, however many timers     *)
(* were forgotten; one reply streams, and is barged into at most once.     *)
(***************************************************************************)
EXTENDS Utterance, FiniteSetTheorems, TLAPS

-----------------------------------------------------------------------------
(* Timers and bounded counters.                                            *)

\* What the assumptions say of the lengths one by one.
LEMMA Lengths ==
    /\ MinSpeech \in Nat \ {0} /\ PreRoll \in Nat \ {0} /\ Trail \in Nat \ {0}
    /\ Silence \in Nat \ {0} /\ Cap \in Nat \ {0}
    /\ MinSpeech <= PreRoll /\ PreRoll < Cap
BY LengthsAssumption

\* What counters are reset to is in their ranges.
LEMMA Resets ==
    /\ 0 \in 0 .. PreRoll /\ 0 \in 0 .. Cap /\ 0 \in 0 .. MinSpeech - 1 /\ 0 \in 0 .. Trail
    /\ -1 \in -1 .. Cap
BY Lengths

\* Counting up to a bound stays within it, and counts.
LEMMA UpToBounds ==
    ASSUME NEW bound \in Nat \ {0}, NEW n \in 0 .. bound
    PROVE  UpTo(bound, n + 1) \in 1 .. bound
BY DEF UpTo

\* The age of the first frame stays an age.
LEMMA FirstTyped ==
    ASSUME TypeOK, NEW k
    PROVE  FirstAt(k) \in -1 .. Cap
<1>1. CASE first >= 0
  <2>1. first \in 0 .. Cap
    BY <1>1, Lengths DEF TypeOK
  <2> QED BY <1>1, <2>1, UpToBounds, Lengths DEF FirstAt
<1>2. CASE ~(first >= 0)
  BY <1>2, Lengths DEF FirstAt
<1> QED BY <1>1, <1>2

\* While time passes without a timer being armed, the deadline stays what it is.
LEMMA RunningTimers ==
    ASSUME TypeOK, TimePasses, TimersRun
    PROVE  /\ timers' \in SUBSET (0 .. Silence)
           /\ deadline' \in timers' \cup {NoTimer}
           /\ deadline \in timers => deadline' \in timers'
           /\ timers' \ {deadline'} # {} => timers \ {deadline} # {}
<1>1. \A r \in timers : r \in 1 .. Silence
  BY Lengths DEF TypeOK, TimePasses
<1>2. timers' = {r - 1 : r \in timers}
  BY DEF TimersRun, Running
<1>3. timers' \in SUBSET (0 .. Silence)
  BY <1>1, <1>2, Lengths
<1>4. CASE deadline = NoTimer
  <2>1. deadline' = NoTimer
    BY <1>4 DEF TimersRun, Deadline
  <2> QED BY <1>1, <1>2, <1>3, <1>4, <2>1, Lengths DEF NoTimer
<1>5. CASE deadline # NoTimer
  <2>1. deadline \in timers /\ deadline' = deadline - 1
    BY <1>5 DEF TypeOK, TimersRun, Deadline
  <2>2. deadline' \in timers'
    BY <1>2, <2>1
  <2>3. ASSUME NEW t \in timers', t # deadline' PROVE timers \ {deadline} # {}
    <3>1. PICK r \in timers : t = r - 1
      BY <1>2
    <3> QED BY <2>1, <2>3, <3>1
  <2> QED BY <1>3, <2>1, <2>2, <2>3
<1> QED BY <1>4, <1>5

\* Arming forgets no timer: it clears the deadline it replaces.
LEMMA ArmedTimers ==
    ASSUME TypeOK, TimePasses, Arm
    PROVE  /\ timers' \in SUBSET (0 .. Silence)
           /\ deadline' \in timers'
           /\ timers' \ {deadline'} # {} => timers \ {deadline} # {}
<1>1. \A r \in timers : r \in 1 .. Silence
  BY Lengths DEF TypeOK, TimePasses
<1>2. timers' = ({r - 1 : r \in timers} \ {Deadline}) \cup {Silence} /\ deadline' = Silence
  BY DEF Arm, Running
<1>3. timers' \in SUBSET (0 .. Silence)
  BY <1>1, <1>2, Lengths
<1>4. ASSUME NEW t \in timers', t # deadline' PROVE timers \ {deadline} # {}
  <2>1. PICK r \in timers : t = r - 1 /\ t # Deadline
    BY <1>2, <1>4
  <2>2. r # deadline
    BY <1>1, <2>1 DEF Deadline, NoTimer
  <2> QED BY <2>2
<1> QED BY <1>2, <1>3, <1>4

-----------------------------------------------------------------------------
(* The invariant, action by action.                                        *)

\* Each part needs only the types beside it; OpenIsTimed needs that time never
\* passes a timer that is due.
IInv == TypeOK /\ CaptureInv /\ ReplyInv

\* What every step of the microphone must show: the clip and its timers.
MicTyped ==
    /\ pre \in 0 .. PreRoll
    /\ frames \in 0 .. Cap
    /\ streak \in 0 .. MinSpeech - 1
    /\ silence \in 0 .. PreRoll
    /\ trail \in 0 .. Trail
    /\ first \in -1 .. Cap
    /\ lossy \in BOOLEAN
    /\ timers \in SUBSET (0 .. Silence)
    /\ deadline \in timers \cup {NoTimer}
    /\ capped \in BOOLEAN

ReplyTyped ==
    /\ current \in Reply \cup {0}
    /\ sending \in SUBSET Reply
    /\ cancelled \in SUBSET Reply
    /\ replies \in 0 .. MaxReplies
    /\ bargeIns \in Nat

\* The types are those of the two halves of the state.
LEMMA TypeSplits == TypeOK <=> connected \in BOOLEAN /\ MicTyped /\ ReplyTyped
BY DEF TypeOK, MicTyped, ReplyTyped

\* The types of the next state, in the parts the steps are proved for.
LEMMA TypeSplitsNext == TypeOK' <=> connected' \in BOOLEAN /\ MicTyped' /\ ReplyTyped'
BY DEF TypeOK, MicTyped, ReplyTyped

\* Nothing about the replies changes: neither do their types and their invariant.
LEMMA RepliesUntouched ==
    ASSUME IInv, UNCHANGED replyVars
    PROVE  ReplyTyped' /\ ReplyInv'
BY DEF IInv, TypeOK, ReplyTyped, Reply, replyVars, ReplyInv, OneReplyStreams,
       BargeInOncePerReply

\* Nothing about the microphone changes.
LEMMA MicUntouched ==
    ASSUME IInv, UNCHANGED <<connected, micVars>>
    PROVE  connected' \in BOOLEAN /\ MicTyped' /\ CaptureInv'
BY DEF IInv, TypeOK, MicTyped, micVars, CaptureInv, OpenIsTimed, LossyIsOfOpen,
       ForgottenTimersFollowCap

\* A barge-in counts once and cancels a reply that was not cancelled.
LEMMA BargeInKeepsReplies ==
    ASSUME IInv, BargeIn
    PROVE  ReplyTyped' /\ ReplyInv'
<1>1. CASE current # 0 /\ current \notin cancelled
  <2>1. /\ cancelled' = cancelled \cup {current} /\ bargeIns' = bargeIns + 1
        /\ UNCHANGED <<current, sending, replies>>
    BY <1>1 DEF BargeIn
  <2>2. replies \in Nat /\ cancelled \in SUBSET (1 .. replies)
    BY RepliesAssumption DEF IInv, TypeOK, Reply
  <2>3. IsFiniteSet(cancelled)
    <3>1. IsFiniteSet(1 .. replies)
      BY <2>2, FS_Interval
    <3> QED BY <2>2, <3>1, FS_Subset
  <2>4. Cardinality(cancelled') = Cardinality(cancelled) + 1 /\ Cardinality(cancelled) \in Nat
    BY <1>1, <2>1, <2>3, FS_AddElement, FS_CardinalityType
  <2>5. BargeInOncePerReply'
    BY <2>1, <2>4 DEF IInv, TypeOK, ReplyInv, BargeInOncePerReply
  <2>6. OneReplyStreams'
    BY <2>1 DEF IInv, ReplyInv, OneReplyStreams
  <2>7. ReplyTyped'
    BY <1>1, <2>1 DEF IInv, TypeOK, ReplyTyped, Reply
  <2> QED BY <2>5, <2>6, <2>7 DEF ReplyInv
<1>2. CASE ~(current # 0 /\ current \notin cancelled)
  BY <1>2, RepliesUntouched DEF BargeIn
<1> QED BY <1>1, <1>2

\* One frame: it is appended, opens an utterance, is kept in the ring, or the cap drops it.
LEMMA FrameKeepsInvariant ==
    ASSUME IInv, NEW k \in Kinds, Frame(k)
    PROVE  IInv'
<1>0. TypeOK /\ MicTyped /\ CaptureInv /\ TimePasses /\ connected' = connected
  BY TypeSplits DEF IInv, Frame
<1>1. FirstAt(k) \in -1 .. Cap
  BY <1>0, FirstTyped
<1>2. CASE CapFlush(k)
  <2>1. timers' \in SUBSET (0 .. Silence)
    BY <1>0, <1>2, Lengths DEF CapFlush, TypeOK, TimePasses, Running
  <2>2. /\ frames' = 0 /\ lossy' = FALSE /\ first' = -1 /\ streak' = 0 /\ silence' = 0
        /\ deadline' = NoTimer /\ capped' = TRUE /\ UNCHANGED <<pre, trail>>
    BY <1>2 DEF CapFlush
  <2>3. MicTyped'
    BY <1>0, <2>1, <2>2, Resets DEF MicTyped
  <2>4. CaptureInv'
    BY <2>2 DEF CaptureInv, OpenIsTimed, LossyIsOfOpen, ForgottenTimersFollowCap
  <2> QED BY <1>0, <1>2, <2>3, <2>4, RepliesUntouched, TypeSplitsNext, TypeSplits DEF CapFlush, IInv
<1>3. CASE Append(k)
  <2>1. frames' \in 1 .. Cap /\ UNCHANGED <<pre, streak, silence, capped, replyVars>>
    BY <1>0, <1>3, UpToBounds, Lengths DEF Append, MicTyped
  <2>2. first' \in -1 .. Cap /\ lossy' \in BOOLEAN /\ frames > 0
    BY <1>0, <1>1, <1>3 DEF Append, MicTyped
  <2>3. trail' \in 0 .. Trail /\ (Arm \/ TimersRun)
    BY <1>0, <1>3, Lengths DEF Append, MicTyped
  <2>4. /\ timers' \in SUBSET (0 .. Silence)
        /\ deadline' \in timers' \cup {NoTimer}
        /\ deadline \in timers => deadline' \in timers'
        /\ timers' \ {deadline'} # {} => timers \ {deadline} # {}
    BY <1>0, <2>3, RunningTimers, ArmedTimers
  <2>5. MicTyped'
    BY <1>0, <2>1, <2>2, <2>3, <2>4, Lengths DEF MicTyped
  <2>6. CaptureInv'
    BY <1>0, <2>1, <2>2, <2>4
       DEF CaptureInv, OpenIsTimed, LossyIsOfOpen, ForgottenTimersFollowCap
  <2> QED BY <1>0, <2>1, <2>5, <2>6, RepliesUntouched, TypeSplitsNext, TypeSplits DEF IInv
<1>4. CASE Open(k)
  <2>1. frames' \in 1 .. Cap
    BY <1>0, <1>4, Lengths DEF Open, UpTo, MicTyped
  <2>2. /\ pre' = 0 /\ streak' = 0 /\ silence' = 0 /\ trail' = 0
        /\ first' \in -1 .. Cap /\ lossy' = lossy /\ capped' = capped
    BY <1>1, <1>4 DEF Open
  <2>3. /\ timers' \in SUBSET (0 .. Silence) /\ deadline' \in timers'
        /\ timers' \ {deadline'} # {} => timers \ {deadline} # {}
    BY <1>0, <1>4, ArmedTimers DEF Open
  <2>4. MicTyped'
    BY <1>0, <2>1, <2>2, <2>3, Lengths DEF MicTyped
  <2>5. CaptureInv'
    BY <1>0, <2>1, <2>2, <2>3
       DEF CaptureInv, OpenIsTimed, LossyIsOfOpen, ForgottenTimersFollowCap
  <2>6. ReplyTyped' /\ ReplyInv'
    BY <1>4, BargeInKeepsReplies DEF Open
  <2> QED BY <1>0, <2>4, <2>5, <2>6, TypeSplitsNext, TypeSplits DEF IInv
<1>5. CASE Wait(k)
  <2>1. UNCHANGED <<frames, trail, lossy, capped, replyVars>> /\ first' \in -1 .. Cap
    BY <1>1, <1>5 DEF Wait
  <2>2. streak' \in 0 .. MinSpeech - 1
    BY <1>0, <1>5, Lengths DEF Wait, MicTyped
  <2>3. pre' \in 0 .. PreRoll
    BY <1>0, <1>5, UpToBounds, Lengths DEF Wait, MicTyped
  <2>4. silence' \in 0 .. PreRoll
    BY <1>0, <1>5, Lengths DEF Wait, MicTyped
  <2>5. /\ timers' \in SUBSET (0 .. Silence)
        /\ deadline' \in timers' \cup {NoTimer}
        /\ timers' \ {deadline'} # {} => timers \ {deadline} # {}
    BY <1>0, <1>5, RunningTimers DEF Wait
  <2>6. MicTyped'
    BY <1>0, <2>1, <2>2, <2>3, <2>4, <2>5 DEF MicTyped
  <2>7. CaptureInv'
    BY <1>0, <1>5, <2>1, <2>5
       DEF Wait, CaptureInv, OpenIsTimed, LossyIsOfOpen, ForgottenTimersFollowCap
  <2> QED BY <1>0, <2>1, <2>6, <2>7, RepliesUntouched, TypeSplitsNext, TypeSplits DEF IInv
<1>6. CASE k = "garbled" /\ Garbled
  <2>1. /\ UNCHANGED <<pre, frames, streak, silence, trail, lossy, capped, replyVars>>
        /\ first' \in -1 .. Cap
    BY <1>1, <1>6 DEF Garbled
  <2>2. /\ timers' \in SUBSET (0 .. Silence)
        /\ deadline' \in timers' \cup {NoTimer}
        /\ deadline \in timers => deadline' \in timers'
        /\ timers' \ {deadline'} # {} => timers \ {deadline} # {}
    BY <1>0, <1>6, RunningTimers DEF Garbled
  <2>3. MicTyped' /\ CaptureInv'
    BY <1>0, <2>1, <2>2
       DEF MicTyped, CaptureInv, OpenIsTimed, LossyIsOfOpen, ForgottenTimersFollowCap
  <2> QED BY <1>0, <2>1, <2>3, RepliesUntouched, TypeSplitsNext, TypeSplits DEF IInv
<1> QED BY <1>2, <1>3, <1>4, <1>5, <1>6 DEF Frame

\* The clock ticks without a frame.
LEMMA NoFrameKeepsInvariant ==
    ASSUME IInv, NoFrame
    PROVE  IInv'
<1>1. TypeOK /\ MicTyped /\ CaptureInv
  BY TypeSplits DEF IInv
<1>2. UNCHANGED <<connected, pre, frames, streak, silence, trail, lossy, capped, replyVars>>
  BY DEF NoFrame
<1>3. first' \in -1 .. Cap
  <2>1. CASE first >= 0
    <3>1. first \in 0 .. Cap
      BY <1>1, <2>1, Lengths DEF MicTyped
    <3> QED BY <2>1, <3>1, UpToBounds, Lengths DEF NoFrame
  <2>2. CASE ~(first >= 0)
    BY <1>1, <2>2 DEF NoFrame, MicTyped
  <2> QED BY <2>1, <2>2
<1>4. /\ timers' \in SUBSET (0 .. Silence)
      /\ deadline' \in timers' \cup {NoTimer}
      /\ deadline \in timers => deadline' \in timers'
      /\ timers' \ {deadline'} # {} => timers \ {deadline} # {}
  BY <1>1, RunningTimers DEF NoFrame
<1>5. MicTyped' /\ CaptureInv'
  BY <1>1, <1>2, <1>3, <1>4
     DEF MicTyped, CaptureInv, OpenIsTimed, LossyIsOfOpen, ForgottenTimersFollowCap
<1> QED BY <1>1, <1>2, <1>5, RepliesUntouched, TypeSplitsNext, TypeSplits DEF IInv

\* A timer that is due ends whatever is open, and clears its own deadline; if it was
\* another's, the cap had come before.
LEMMA TimerFiresKeepsInvariant ==
    ASSUME IInv, TimerFires
    PROVE  IInv'
<1>1. TypeOK /\ MicTyped /\ CaptureInv
  BY TypeSplits DEF IInv
<1>2. /\ timers' = timers \ {0} /\ deadline' = NoTimer /\ frames' = 0
      /\ UNCHANGED <<connected, pre, streak, silence, trail, capped, replyVars>>
  BY DEF TimerFires
<1>3. first' \in -1 .. Cap /\ lossy' = FALSE
  BY <1>1, Lengths DEF TimerFires, MicTyped, CaptureInv, LossyIsOfOpen
<1>4. timers \ {0} # {} => timers \ {deadline} # {}
  <2>1. 0 \in timers
    BY DEF TimerFires
  <2> QED BY <2>1
<1>5. MicTyped'
  <2>1. timers' \in SUBSET (0 .. Silence)
    BY <1>1, <1>2 DEF MicTyped
  <2> QED BY <1>1, <1>2, <1>3, <2>1, Resets DEF MicTyped
<1>6. CaptureInv'
  BY <1>1, <1>2, <1>3, <1>4
     DEF CaptureInv, OpenIsTimed, LossyIsOfOpen, ForgottenTimersFollowCap
<1> QED BY <1>1, <1>2, <1>5, <1>6, RepliesUntouched, TypeSplitsNext, TypeSplits DEF IInv

\* A typed command and a disconnect clear the deadline with its timer.
LEMMA ClearingKeepsInvariant ==
    ASSUME IInv, TextCommand \/ Disconnect
    PROVE  IInv'
<1>1. TypeOK /\ MicTyped /\ CaptureInv
  BY TypeSplits DEF IInv
<1>2. /\ timers' = timers \ {deadline} /\ deadline' = NoTimer
      /\ UNCHANGED <<streak, silence, trail, first, capped, replyVars>>
      /\ connected' \in BOOLEAN
  BY <1>1 DEF TextCommand, Disconnect, TypeOK
<1>3. /\ pre' \in 0 .. PreRoll /\ frames' \in 0 .. Cap /\ lossy' \in BOOLEAN
      /\ lossy' => frames' > 0
      /\ connected' => frames' = 0
  <2>1. CASE TextCommand
    BY <1>1, <2>1, Resets DEF TextCommand
  <2>2. CASE Disconnect
    BY <1>1, <2>2 DEF Disconnect, MicTyped, CaptureInv, LossyIsOfOpen
  <2> QED BY <2>1, <2>2
<1>4. MicTyped' /\ CaptureInv'
  BY <1>1, <1>2, <1>3
     DEF MicTyped, CaptureInv, OpenIsTimed, LossyIsOfOpen, ForgottenTimersFollowCap
<1> QED BY <1>2, <1>4, RepliesUntouched, TypeSplitsNext DEF IInv

\* The replies begin, end and are stopped; a new one cancels the one before it.
LEMMA ReplyStepKeepsInvariant ==
    ASSUME IInv, ReplyStarts \/ Interrupt \/ \E r \in Reply : ReplyFinishes(r)
    PROVE  IInv'
<1>1. TypeOK /\ ReplyTyped /\ ReplyInv /\ replies \in Nat
  BY TypeSplits, RepliesAssumption DEF IInv, TypeOK
<1>2. UNCHANGED <<connected, micVars>>
  BY DEF ReplyStarts, Interrupt, ReplyFinishes
<1>3. bargeIns' = bargeIns /\ cancelled \subseteq cancelled'
  BY DEF ReplyStarts, Interrupt, ReplyFinishes
<1>4. ReplyTyped'
  <2>1. CASE ReplyStarts
    BY <1>1, <2>1, RepliesAssumption DEF ReplyStarts, ReplyTyped, Reply
  <2>2. CASE Interrupt
    BY <1>1, <2>2 DEF Interrupt, ReplyTyped, Reply
  <2>3. ASSUME NEW r \in Reply, ReplyFinishes(r) PROVE ReplyTyped'
    BY <1>1, <2>3 DEF ReplyFinishes, ReplyTyped, Reply
  <2> QED BY <2>1, <2>2, <2>3
<1>5. OneReplyStreams'
  <2>1. sending \ cancelled \subseteq {current} /\ sending \subseteq 1 .. replies
    BY <1>1 DEF ReplyTyped, ReplyInv, OneReplyStreams, Reply
  <2>2. CASE ReplyStarts
    <3>1. sending' \ cancelled' \subseteq {replies + 1}
      BY <1>1, <2>1, <2>2 DEF ReplyStarts
    <3> QED BY <2>2, <3>1 DEF ReplyStarts, OneReplyStreams
  <2>3. CASE Interrupt
    BY <2>1, <2>3 DEF Interrupt, OneReplyStreams
  <2>4. ASSUME NEW r \in Reply, ReplyFinishes(r) PROVE OneReplyStreams'
    BY <2>1, <2>4 DEF ReplyFinishes, OneReplyStreams
  <2> QED BY <2>2, <2>3, <2>4
<1>6. BargeInOncePerReply'
  <2>1. cancelled' \in SUBSET (1 .. replies') /\ replies' \in Nat
    BY <1>4, RepliesAssumption DEF ReplyTyped, Reply
  <2>2. IsFiniteSet(1 .. replies')
    BY <2>1, FS_Interval
  <2>3. IsFiniteSet(cancelled')
    BY <2>1, <2>2, FS_Subset
  <2>4. /\ Cardinality(cancelled) <= Cardinality(cancelled')
        /\ Cardinality(cancelled) \in Nat /\ Cardinality(cancelled') \in Nat
    BY <1>3, <2>3, FS_Subset, FS_CardinalityType
  <2> QED BY <1>1, <1>3, <2>4 DEF ReplyInv, BargeInOncePerReply, ReplyTyped
<1> QED BY <1>2, <1>4, <1>5, <1>6, MicUntouched, TypeSplitsNext DEF IInv, ReplyInv

-----------------------------------------------------------------------------
\* The invariant holds in every reachable state.
THEOREM Inductive == Spec => []IInv
<1>1. Init => IInv
  <2> SUFFICES ASSUME Init PROVE IInv
    OBVIOUS
  <2>1. MicTyped /\ connected \in BOOLEAN
    BY Resets DEF Init, MicTyped
  <2>2. ReplyTyped
    BY RepliesAssumption DEF Init, ReplyTyped
  <2>3. CaptureInv
    BY DEF Init, CaptureInv, OpenIsTimed, LossyIsOfOpen, ForgottenTimersFollowCap
  <2>4. ReplyInv
    BY FS_EmptySet DEF Init, ReplyInv, OneReplyStreams, BargeInOncePerReply
  <2> QED BY <2>1, <2>2, <2>3, <2>4, TypeSplits DEF IInv
<1>2. IInv /\ [Next]_vars => IInv'
  <2> SUFFICES ASSUME IInv, [Next]_vars PROVE IInv'
    OBVIOUS
  <2>1. CASE NoFrame
    BY <2>1, NoFrameKeepsInvariant
  <2>2. ASSUME NEW k \in Kinds, Frame(k) PROVE IInv'
    BY <2>2, FrameKeepsInvariant
  <2>3. CASE TimerFires
    BY <2>3, TimerFiresKeepsInvariant
  <2>4. CASE TextCommand \/ Disconnect
    BY <2>4, ClearingKeepsInvariant
  <2>5. CASE ReplyStarts \/ Interrupt \/ \E r \in Reply : ReplyFinishes(r)
    BY <2>5, ReplyStepKeepsInvariant
  <2>6. CASE UNCHANGED vars
    <3>1. UNCHANGED <<connected, micVars>> /\ UNCHANGED replyVars
      BY <2>6 DEF vars, micVars, replyVars
    <3> QED BY <3>1, MicUntouched, RepliesUntouched, TypeSplitsNext DEF IInv
  <2> QED BY <2>1, <2>2, <2>3, <2>4, <2>5, <2>6 DEF Next, Elapse
<1> QED BY <1>1, <1>2, PTL DEF Spec

\* Every reachable state is well typed.
THEOREM TypeCorrect == Spec => []TypeOK
<1>1. IInv => TypeOK
  BY DEF IInv
<1> QED BY <1>1, Inductive, PTL

\* What the user says always has an armed deadline while the phone is there, a clip is
\* lossy only by its own gaps, and only the cap leaves timers behind.
THEOREM CaptureIsTimed == Spec => []CaptureInv
<1>1. IInv => CaptureInv
  BY DEF IInv
<1> QED BY <1>1, Inductive, PTL

\* A newer reply silences the older, and each is barged into at most once.
THEOREM OneReplyAtATime == Spec => []ReplyInv
<1>1. IInv => ReplyInv
  BY DEF IInv
<1> QED BY <1>1, Inductive, PTL

=============================================================================
