------------------------------ MODULE Utterance ------------------------------
(***************************************************************************)
(* How the sidecar (vendor/hermes-plugin/sidecar/index.mjs) cuts one       *)
(* phone's microphone stream into utterances, and how speech over a reply  *)
(* that is still being sent cancels it.                                    *)
(*                                                                         *)
(* Time is counted in frames of 20 ms: a step either brings one frame or   *)
(* lets the time of one pass, and never past a timer that is due.  A frame *)
(* is what the voice detector makes of it; an utterance is its length.     *)
(* A concealed frame comes from the jitter buffer with no timestamp: the   *)
(* code computes with null as with 0, which makes everything after it      *)
(* infinitely late, so a null firstTs is an age of Cap here.               *)
(***************************************************************************)
EXTENDS Integers, FiniteSets

CONSTANTS
    MinSpeech,  \* MIN_SPEECH_FRAMES: speech in a row that opens an utterance
    PreRoll,    \* PRE_ROLL_FRAMES: length of the ring kept before the onset
    Trail,      \* TRAIL_FRAMES: pauses that still put the deadline off
    Silence,    \* SILENCE_MS in frames: the pause that ends an utterance
    Cap,        \* MAX_UTTERANCE_MS in frames
    Kinds,      \* the kinds of frames the uplink brings
    MaxReplies  \* bound on the replies of a behaviour

ASSUME LengthsAssumption ==
    /\ {MinSpeech, PreRoll, Trail, Silence, Cap} \subseteq Nat \ {0}
    /\ MinSpeech <= PreRoll
    /\ PreRoll < Cap
ASSUME KindsAssumption ==
    Kinds \subseteq {"speech", "murmur", "silence", "concealed", "garbled"}
ASSUME RepliesAssumption == MaxReplies \in Nat

NoTimer == -1

VARIABLES
    connected,  \* the phone's socket is open
    pre,        \* pre.length
    frames,     \* frames.length, counted up to Cap; 0 when none is open
    streak,     \* speechStreak
    silence,    \* silenceStreak
    trail,      \* trail
    first,      \* the age of firstTs up to Cap, -1 for 0 (not set)
    lossy,      \* utteranceLossy
    timers,     \* what is left of every flush timer that is armed
    deadline,   \* deadline: what is left of the timer it refers to
    current,    \* pcmCancel: the reply whose token it is, 0 for null
    sending,    \* replies whose send loop is still running
    cancelled,  \* replies whose token is cancelled
    replies,    \* replies started so far
    bargeIns,   \* interrupts sent because the user spoke over a reply
    capped      \* history: the cap has forced a flush before

micVars == <<pre, frames, streak, silence, trail, first, lossy, timers,
             deadline, capped>>
replyVars == <<current, sending, cancelled, replies, bargeIns>>
vars == <<connected, pre, frames, streak, silence, trail, first, lossy, timers,
          deadline, current, sending, cancelled, replies, bargeIns, capped>>

Reply == 1 .. replies

TypeOK ==
    /\ connected \in BOOLEAN
    /\ pre \in 0 .. PreRoll
    /\ frames \in 0 .. Cap
    /\ streak \in 0 .. MinSpeech - 1
    /\ silence \in 0 .. PreRoll
    /\ trail \in 0 .. Trail
    /\ first \in -1 .. Cap
    /\ lossy \in BOOLEAN
    /\ timers \in SUBSET (0 .. Silence)
    /\ deadline \in timers \cup {NoTimer}
    /\ current \in Reply \cup {0}
    /\ sending \in SUBSET Reply
    /\ cancelled \in SUBSET Reply
    /\ replies \in 0 .. MaxReplies
    /\ bargeIns \in Nat
    /\ capped \in BOOLEAN

Init ==
    /\ connected = TRUE
    /\ pre = 0 /\ frames = 0
    /\ streak = 0 /\ silence = 0 /\ trail = 0
    /\ first = -1
    /\ lossy = FALSE
    /\ timers = {} /\ deadline = NoTimer
    /\ current = 0 /\ sending = {} /\ cancelled = {}
    /\ replies = 0 /\ bargeIns = 0
    /\ capped = FALSE

-----------------------------------------------------------------------------
(* Time and timers.                                                        *)

UpTo(bound, n) == IF n > bound THEN bound ELSE n

\* A frame's worth of time passes: no timer is due before it has.
TimePasses == 0 \notin timers

Running == {r - 1 : r \in timers}
Deadline == IF deadline = NoTimer THEN NoTimer ELSE deadline - 1

\* No timer is armed or cleared in this step.
TimersRun == timers' = Running /\ deadline' = Deadline

\* _arm: the previous deadline is cleared, the new one is Silence away.
Arm ==
    /\ timers' = (Running \ {Deadline}) \cup {Silence}
    /\ deadline' = Silence

-----------------------------------------------------------------------------
(* feedUtteranceFrame.                                                     *)

\* The age of firstTs when a frame of kind k is in hand.
FirstAt(k) ==
    IF first >= 0 THEN UpTo(Cap, first + 1)
    ELSE IF k = "concealed" THEN Cap ELSE 0

\* Mutant: the cap is never enforced.
CapReachedNever(k) == FALSE

\* A frame without a timestamp never looks late.
CapReached(k) == k # "concealed" /\ FirstAt(k) = Cap /\ frames > 0

\* The cap: the utterance is flushed, and this frame with it forgotten.  The
\* deadline is forgotten too, but its timer is not cleared.
CapFlush(k) ==
    /\ CapReached(k)
    /\ frames' = 0
    /\ lossy' = FALSE
    /\ first' = -1
    /\ streak' = 0
    /\ silence' = 0
    /\ timers' = Running
    /\ deadline' = NoTimer
    /\ capped' = TRUE
    /\ UNCHANGED <<pre, trail, replyVars>>

\* An utterance is open: the frame is appended.  Speech, and the first pauses
\* after it, put the deadline off.
Append(k) ==
    /\ frames > 0
    /\ ~CapReached(k)
    /\ frames' = UpTo(Cap, frames + 1)
    /\ lossy' = (lossy \/ k = "concealed")
    /\ first' = FirstAt(k)
    /\ \/ k = "speech" /\ trail' = 0 /\ Arm
       \/ k # "speech" /\ trail < Trail /\ trail' = trail + 1 /\ Arm
       \/ k # "speech" /\ trail = Trail /\ UNCHANGED trail /\ TimersRun
    /\ UNCHANGED <<pre, streak, silence, capped, replyVars>>

\* maybeBargeIn: speech over a reply that is still being sent cancels it and
\* interrupts the agent.
BargeIn ==
    IF current # 0 /\ current \notin cancelled
    THEN /\ cancelled' = cancelled \cup {current}
         /\ bargeIns' = bargeIns + 1
         /\ UNCHANGED <<current, sending, replies>>
    ELSE UNCHANGED replyVars

\* Mutant: the opening frame arms nothing.
OpenUnarmed(k) ==
    /\ frames = 0
    /\ k = "speech" /\ streak + 1 >= MinSpeech
    /\ BargeIn
    /\ frames' = UpTo(PreRoll, pre + 1)
    /\ pre' = 0 /\ streak' = 0 /\ silence' = 0 /\ trail' = 0
    /\ first' = FirstAt(k)
    /\ TimersRun
    /\ UNCHANGED <<lossy, capped>>

\* Enough speech in a row: the ring becomes an utterance.
Open(k) ==
    /\ frames = 0
    /\ k = "speech" /\ streak + 1 >= MinSpeech
    /\ BargeIn
    /\ frames' = UpTo(PreRoll, pre + 1)
    /\ pre' = 0 /\ streak' = 0 /\ silence' = 0 /\ trail' = 0
    /\ first' = FirstAt(k)
    /\ Arm
    /\ UNCHANGED <<lossy, capped>>

\* Nothing is open yet: the ring fills, and a real silence empties it.
Wait(k) ==
    /\ frames = 0
    /\ \/ /\ k = "speech" /\ streak + 1 < MinSpeech
          /\ streak' = streak + 1
          /\ silence' = 0
          /\ pre' = UpTo(PreRoll, pre + 1)
       \/ /\ k = "murmur"
          /\ streak' = 0
          /\ silence' = 0
          /\ pre' = UpTo(PreRoll, pre + 1)
       \/ /\ k \in {"silence", "concealed"}
          /\ streak' = 0
          /\ IF silence = PreRoll
             THEN pre' = 0 /\ silence' = 0
             ELSE pre' = UpTo(PreRoll, pre + 1) /\ silence' = silence + 1
    /\ first' = FirstAt(k)
    /\ TimersRun
    /\ UNCHANGED <<frames, trail, lossy, capped, replyVars>>

\* A packet the decoder throws on, after firstTs has been looked at.
Garbled ==
    /\ ~CapReached("garbled")
    /\ first' = FirstAt("garbled")
    /\ TimersRun
    /\ UNCHANGED <<pre, frames, streak, silence, trail, lossy, capped, replyVars>>

Frame(k) ==
    /\ connected
    /\ TimePasses
    /\ UNCHANGED connected
    /\ \/ CapFlush(k)
       \/ k # "garbled" /\ (Append(k) \/ Open(k) \/ Wait(k))
       \/ k = "garbled" /\ Garbled

\* No frame: the microphone is muted, or the packet was lost.
NoFrame ==
    /\ TimePasses
    /\ TimersRun
    /\ first' = IF first >= 0 THEN UpTo(Cap, first + 1) ELSE first
    /\ UNCHANGED <<connected, pre, frames, streak, silence, trail, lossy, capped,
                   replyVars>>

-----------------------------------------------------------------------------
\* Mutant: the deadline that has run out is not forgotten.
TimerFiresKeepingDeadline ==
    /\ 0 \in timers
    /\ timers' = timers \ {0}
    /\ frames' = 0
    /\ first' = IF frames > 0 THEN -1 ELSE first
    /\ lossy' = IF frames > 0 THEN FALSE ELSE lossy
    /\ UNCHANGED <<connected, pre, streak, silence, trail, deadline, capped,
                   replyVars>>

\* flushUtterance when a timer runs out, the deadline's or a forgotten one:
\* whatever is open is flushed, and the deadline forgotten.
TimerFires ==
    /\ 0 \in timers
    /\ timers' = timers \ {0}
    /\ deadline' = NoTimer
    /\ frames' = 0
    /\ first' = IF frames > 0 THEN -1 ELSE first
    /\ lossy' = IF frames > 0 THEN FALSE ELSE lossy
    /\ UNCHANGED <<connected, pre, streak, silence, trail, capped, replyVars>>

\* flushNow: a typed command drops the audio captured so far.
TextCommand ==
    /\ connected
    /\ frames' = 0
    /\ pre' = 0
    /\ lossy' = FALSE
    /\ timers' = timers \ {deadline}
    /\ deadline' = NoTimer
    /\ UNCHANGED <<connected, streak, silence, trail, first, capped,
                   replyVars>>

\* The socket closes: the deadline is cleared, what was captured stays.
Disconnect ==
    /\ connected
    /\ connected' = FALSE
    /\ timers' = timers \ {deadline}
    /\ deadline' = NoTimer
    /\ UNCHANGED <<pre, frames, streak, silence, trail, first, lossy,
                   capped, replyVars>>

-----------------------------------------------------------------------------
(* The reply being sent to the phone.                                      *)

\* Mutant: the reply before it is left to run.
ReplyStartsBeside ==
    /\ connected
    /\ replies < MaxReplies
    /\ replies' = replies + 1
    /\ current' = replies + 1
    /\ sending' = sending \cup {replies + 1}
    /\ UNCHANGED <<connected, micVars, cancelled, bargeIns>>

\* "pcm" from the adapter: a newer reply cancels the one still being sent.
ReplyStarts ==
    /\ connected
    /\ replies < MaxReplies
    /\ replies' = replies + 1
    /\ current' = replies + 1
    /\ sending' = sending \cup {replies + 1}
    /\ cancelled' = IF current = 0 THEN cancelled ELSE cancelled \cup {current}
    /\ UNCHANGED <<connected, micVars, bargeIns>>

\* finish(): the send loop of r has sent everything, or seen its token.
ReplyFinishes(r) ==
    /\ r \in sending
    /\ sending' = sending \ {r}
    /\ current' = IF current = r THEN 0 ELSE current
    /\ UNCHANGED <<connected, micVars, cancelled, replies, bargeIns>>

\* The Stop command of the phone.
Interrupt ==
    /\ connected
    /\ current # 0
    /\ cancelled' = cancelled \cup {current}
    /\ UNCHANGED <<connected, micVars, current, sending, replies, bargeIns>>

-----------------------------------------------------------------------------
Elapse == NoFrame \/ \E k \in Kinds : Frame(k)

Next ==
    \/ Elapse
    \/ TimerFires
    \/ TextCommand
    \/ Disconnect
    \/ ReplyStarts
    \/ \E r \in Reply : ReplyFinishes(r)
    \/ Interrupt

Spec == Init /\ [][Next]_vars

\* Time passes, and the event loop runs the timers that are due.
FairSpec == Spec /\ WF_vars(Elapse \/ TimerFires)

-----------------------------------------------------------------------------
\* While the phone is there, what it captures has a deadline: the timer that
\* `deadline` refers to is armed.  With timers that are forgotten and fire on
\* somebody else's utterance, this is what guarantees the clip is ever sent.
OpenIsTimed == connected /\ frames > 0 => deadline \in timers

\* The lossy flag belongs to the utterance that is open: no gap of one clip
\* gets a later, intact one refused as choppy.
LossyIsOfOpen == lossy => frames > 0

\* A newer synthesis wins: of all the send loops alive, only the one whose
\* token is at hand may still send.
OneReplyStreams == sending \ cancelled \subseteq {current}

\* "Fires at most once per reply": every barge-in has cancelled a reply of its
\* own, however often the user speaks over it.
BargeInOncePerReply == bargeIns <= Cardinality(cancelled)

\* A flush timer other than the deadline's is alive only after the cap has
\* forced a flush: every other way an utterance ends clears its timer.
ForgottenTimersFollowCap == timers \ {deadline} # {} => capped

\* The open utterance and what describes it.
CaptureInv == OpenIsTimed /\ LossyIsOfOpen /\ ForgottenTimersFollowCap

\* The reply being sent and what cuts it short.
ReplyInv == OneReplyStreams /\ BargeInOncePerReply

\* Whatever the microphone brings, an utterance is over in the end.
UtteranceEnds == frames > 0 ~> frames = 0 \/ ~connected

=============================================================================
