----------------------------- MODULE TurnTaking -----------------------------
(***************************************************************************)
(* The turn-take guard of the Hermes adapter                               *)
(* (vendor/hermes-plugin/adapter.py): which utterances of the phone become *)
(* an agent turn, which are absorbed into the turn in flight, and how a    *)
(* turn ends - by a reply, a timeout, a failed hand-over or an interrupt.  *)
(*                                                                         *)
(* The adapter is one asyncio loop.  A step of the model is what runs      *)
(* between two awaits that really suspend: the hand-over to Hermes         *)
(* (handle_message), the interrupt hook, the session store, the            *)
(* transcription.  Everything else in a handler is one step.               *)
(*                                                                         *)
(* Utterances are opaque.  A deferred text is the set of the utterances    *)
(* joined in it.  The turns ever started are kept in a sequence, so a      *)
(* turn's number stands for the monotonic time it started at.              *)
(***************************************************************************)
EXTENDS Naturals, Sequences, FiniteSets

CONSTANTS
    Commands,      \* typed commands, each carrying the phone's request id
    Taps,          \* widget taps: "rpc" events, which carry no request id
    Clips,         \* captured voice utterances, still to be transcribed
    NoCommand,     \* _pending_i = None
    Failures,      \* whether preparing or handing over a turn may raise
    MaxInterrupts  \* bound on the "interrupt" events of a behaviour

Utterance == Commands \cup Taps \cup Clips

ASSUME KindsAreDistinct ==
    /\ NoCommand \notin Utterance
    /\ Commands \cap Taps = {}
    /\ Commands \cap Clips = {}
    /\ Taps \cap Clips = {}

ASSUME BoundsAreTyped == Failures \in BOOLEAN /\ MaxInterrupts \in Nat

VARIABLES
    lock,       \* _turn_lock
    started,    \* _turn_started: the number of the turn it was set by, or 0
    expired,    \* _TURN_LOCK_MAX_S have passed since started
    watch,      \* _turn_timeout_task: the turn it watches, 0 when it is done
    ack,        \* _long_ack_task: the turn it was armed for, 0 when it is done
    deferred,   \* _deferred: the utterances absorbed so far, {} for None
    flushes,    \* scheduled dispatch_text(d, force=True) tasks, oldest first
    pendingI,   \* _pending_i
    stt,        \* audio tasks queued on _stt_lock, in arrival order
    awaiting,   \* what the inbound reader awaits besides a hand-over
    interrupts, \* "interrupt" events received so far
    turns,      \* every turn started: what it says and how far it is
    open,       \* turns in flight: started, and not yet ended by anything
    arrived,    \* utterances received from the sidecar
    discarded,  \* utterances that were dropped instead of answered
    replies     \* the request ids that text replies were sent under, in order

guardVars == <<lock, started, expired, watch, ack, deferred, flushes>>
inputVars == <<pendingI, stt, awaiting, interrupts, arrived>>
ghostVars == <<turns, open, discarded, replies>>
vars == <<lock, started, expired, watch, ack, deferred, flushes, pendingI,
          stt, awaiting, interrupts, turns, open, arrived, discarded, replies>>

Turn == 1 .. Len(turns)
Phases == {"handing", "running", "over"}
TurnRecord == [says : SUBSET Utterance, phase : Phases, inbound : BOOLEAN]

TypeOK ==
    /\ lock \in BOOLEAN
    /\ turns \in Seq(TurnRecord)
    /\ started \in 0 .. Len(turns)
    /\ expired \in BOOLEAN
    /\ watch \in 0 .. Len(turns)
    /\ ack \in 0 .. Len(turns)
    /\ deferred \in SUBSET Utterance
    /\ flushes \in Seq(SUBSET Utterance)
    /\ pendingI \in Commands \cup {NoCommand}
    /\ stt \in Seq(Clips)
    /\ awaiting \in {"nothing", "interrupt", "reset"}
    /\ interrupts \in 0 .. MaxInterrupts
    /\ open \in SUBSET Turn
    /\ arrived \in SUBSET Utterance
    /\ discarded \in SUBSET Utterance
    /\ replies \in Seq(Commands)

Init ==
    /\ lock = FALSE
    /\ started = 0
    /\ expired = FALSE
    /\ watch = 0
    /\ ack = 0
    /\ deferred = {}
    /\ flushes = <<>>
    /\ pendingI = NoCommand
    /\ stt = <<>>
    /\ awaiting = "nothing"
    /\ interrupts = 0
    /\ turns = <<>>
    /\ open = {}
    /\ arrived = {}
    /\ discarded = {}
    /\ replies = <<>>

-----------------------------------------------------------------------------
(* Taking and releasing the lock.                                          *)

\* The backlog handed to a new task behind the queued ones, if there is one.
FlushedInto(queue) ==
    IF deferred = {} THEN queue ELSE Append(queue, deferred)

\* _release_turn_after_reply: drop the lock, cancel both timers and schedule
\* the absorbed backlog as one follow-up turn.
Release ==
    IF lock
    THEN /\ lock' = FALSE
         /\ ack' = 0
         /\ watch' = 0
         /\ deferred' = {}
         /\ flushes' = FlushedInto(flushes)
         /\ UNCHANGED <<started, expired>>
    ELSE UNCHANGED guardVars

\* The lock is held by a turn that is still within its time.
Busy == lock /\ ~expired

\* Mutant: the follow-up replaces the backlog instead of joining it.
DeferOverwriting(texts) ==
    /\ deferred' = texts
    /\ UNCHANGED <<lock, started, expired, watch, ack, flushes>>
    /\ UNCHANGED ghostVars

\* Absorb a follow-up into the turn in flight.
Defer(texts) ==
    /\ deferred' = deferred \cup texts
    /\ UNCHANGED <<lock, started, expired, watch, ack, flushes>>
    /\ UNCHANGED ghostVars

\* Mutant: _arm_turn_timeout is not called.
TakeTurnUnwatched(texts, inb, others) ==
    LET t == Len(turns) + 1 IN
    /\ lock' = TRUE
    /\ started' = t
    /\ expired' = FALSE
    /\ ack' = t
    /\ turns' = Append(turns, [says |-> texts, phase |-> "handing",
                               inbound |-> inb])
    /\ open' = others \cup {t}
    /\ UNCHANGED <<watch, discarded, replies>>

\* dispatch_text up to `await self.handle_message(event)`: the lock, the
\* clock and both timers are set and the agent gets the text.  `inb` tells
\* whether the inbound reader awaits the hand-over, `others` are the turns
\* still in flight beside this one.
TakeTurn(texts, inb, others) ==
    LET t == Len(turns) + 1 IN
    /\ lock' = TRUE
    /\ started' = t
    /\ expired' = FALSE
    /\ watch' = t
    /\ ack' = t
    /\ turns' = Append(turns, [says |-> texts, phase |-> "handing",
                               inbound |-> inb])
    /\ open' = others \cup {t}
    /\ UNCHANGED <<discarded, replies>>

\* Every attempt at preparing the turn raised: the utterance is lost.
LoseTurn(texts, others) ==
    /\ lock' = FALSE
    /\ started' = Len(turns) + 1
    /\ expired' = FALSE
    /\ watch' = 0
    /\ ack' = 0
    /\ turns' = Append(turns, [says |-> {}, phase |-> "over",
                               inbound |-> FALSE])
    /\ open' = others
    /\ discarded' = discarded \cup texts
    /\ UNCHANGED replies

\* dispatch_text past its guard.  A preparation that raises ends the turn,
\* which flushes the backlog behind `queue`, before the same text is
\* dispatched again with force=True.
BeginTurn(texts, inb, others, queue) ==
    \/ /\ TakeTurn(texts, inb, others)
       /\ flushes' = queue
       /\ UNCHANGED deferred
    \/ /\ Failures
       /\ TakeTurn(texts, inb, others) \/ LoseTurn(texts, others)
       /\ flushes' = FlushedInto(queue)
       /\ deferred' = {}

\* dispatch_text without force, as the inbound reader and the audio tasks
\* call it.  A lock held past its time is given up for the new turn.
DispatchText(texts, inb) ==
    \/ Busy /\ Defer(texts)
    \/ ~lock /\ BeginTurn(texts, inb, open, flushes)
    \/ lock /\ expired /\ BeginTurn(texts, inb, open \ {started}, flushes)

-----------------------------------------------------------------------------
(* Events from the sidecar, read one at a time (_consume_inbound awaits     *)
(* each handler before it reads the next line).                            *)

ReaderIsFree ==
    /\ awaiting = "nothing"
    /\ \A t \in Turn : ~(turns[t].inbound /\ turns[t].phase = "handing")

Arrives(u) ==
    /\ ReaderIsFree
    /\ u \notin arrived
    /\ arrived' = arrived \cup {u}

\* "turn" with a text: the pending id is overwritten before anything else.
ReceiveCommand(c) ==
    /\ Arrives(c)
    /\ pendingI' = c
    /\ DispatchText({c}, TRUE)
    /\ UNCHANGED <<stt, awaiting, interrupts>>

\* "turn" with a blank text.
ReceiveBlank(c) ==
    /\ Arrives(c)
    /\ pendingI' = NoCommand
    /\ discarded' = discarded \cup {c}
    /\ UNCHANGED <<guardVars, stt, awaiting, interrupts, turns, open, replies>>

\* "turn" with /new or /reset: the session store is awaited in between.
ReceiveReset(c) ==
    /\ Arrives(c)
    /\ pendingI' = c
    /\ awaiting' = "reset"
    /\ discarded' = discarded \cup {c}
    /\ UNCHANGED <<guardVars, stt, interrupts, turns, open, replies>>

ResetEnds ==
    /\ awaiting = "reset"
    /\ awaiting' = "nothing"
    /\ pendingI' = NoCommand
    /\ UNCHANGED <<guardVars, ghostVars, stt, interrupts, arrived>>

\* "rpc": a widget tap, dispatched as a text and leaving the pending id alone.
ReceiveTap(p) ==
    /\ Arrives(p)
    /\ DispatchText({p}, TRUE)
    /\ UNCHANGED <<pendingI, stt, awaiting, interrupts>>

\* "audio": a task of its own transcribes the capture.
ReceiveAudio(a) ==
    /\ Arrives(a)
    /\ pendingI' = NoCommand
    /\ stt' = Append(stt, a)
    /\ UNCHANGED <<guardVars, ghostVars, awaiting, interrupts>>

\* "interrupt": the Hermes hook is awaited first.
ReceiveInterrupt ==
    /\ ReaderIsFree
    /\ interrupts < MaxInterrupts
    /\ interrupts' = interrupts + 1
    /\ awaiting' = "interrupt"
    /\ UNCHANGED <<guardVars, ghostVars, pendingI, stt, arrived>>

\* _interrupt_active_session after its await: the lock and the backlog go,
\* whoever holds them by now; the watchdog is left to run out.
InterruptEnds ==
    /\ awaiting = "interrupt"
    /\ awaiting' = "nothing"
    /\ lock' = FALSE
    /\ started' = 0
    /\ expired' = FALSE
    /\ deferred' = {}
    /\ ack' = 0
    /\ open' = {}
    /\ discarded' = discarded \cup deferred
    /\ UNCHANGED <<watch, flushes, turns, replies, pendingI, stt, interrupts,
                   arrived>>

-----------------------------------------------------------------------------
(* Audio tasks: the STT lock is fair, so captures are transcribed, and      *)
(* dispatched, in the order they arrived.                                  *)

\* A transcript good enough to act on.
Transcribed ==
    /\ stt # <<>>
    /\ stt' = Tail(stt)
    /\ DispatchText({Head(stt)}, FALSE)
    /\ UNCHANGED <<pendingI, awaiting, interrupts, arrived>>

\* STT failed, or the transcript is empty, hallucinated or degraded: the user
\* is told at most, and nothing is dispatched.
TranscriptHeld ==
    /\ stt # <<>>
    /\ stt' = Tail(stt)
    /\ discarded' = discarded \cup {Head(stt)}
    /\ UNCHANGED <<guardVars, pendingI, awaiting, interrupts, arrived, turns,
                   open, replies>>

\* The task a release scheduled: the backlog becomes a turn, lock or no lock.
FlushDeferred ==
    /\ flushes # <<>>
    /\ BeginTurn(Head(flushes), FALSE, open, Tail(flushes))
    /\ UNCHANGED inputVars

-----------------------------------------------------------------------------
(* The hand-over to Hermes and what the agent does with a turn.  Hermes is  *)
(* not in the repository: it accepts a turn and returns, or raises, perhaps *)
(* after accepting it; an accepted turn sends any number of replies through *)
(* send(), from before handle_message returned, until it is over.          *)

SetPhase(t, p) == turns' = [turns EXCEPT ![t].phase = p]

HandOverReturns(t) ==
    /\ turns[t].phase = "handing"
    /\ SetPhase(t, "running")
    /\ UNCHANGED <<guardVars, inputVars, open, discarded, replies>>

\* Mutant: an utterance whose delivery is uncertain is dispatched again.
HandOverRetried(t) ==
    /\ Failures
    /\ turns[t].phase = "handing"
    /\ SetPhase(t, "running")
    /\ flushes' = Append(FlushedInto(flushes), turns[t].says)
    /\ lock' = FALSE
    /\ ack' = 0
    /\ watch' = 0
    /\ deferred' = {}
    /\ open' = open \ {t}
    /\ UNCHANGED <<started, expired, inputVars, discarded, replies>>

\* The handler of an exception inside handle_message: whatever turn holds
\* the lock is ended, and the utterance is not retried.
HandOverRaises(t) ==
    /\ Failures
    /\ turns[t].phase = "handing"
    /\ \/ SetPhase(t, "running")
       \/ SetPhase(t, "over")
    /\ open' = open \ {t}
    /\ Release
    /\ UNCHANGED <<inputVars, discarded, replies>>

CanSend(t) == turns[t].phase \in {"handing", "running"}

\* Mutant: the pending id is not cleared by the reply.
SendTextKeepingId(t) ==
    /\ CanSend(t)
    /\ replies' = IF pendingI = NoCommand THEN replies
                  ELSE Append(replies, pendingI)
    /\ open' = open \ {t}
    /\ Release
    /\ UNCHANGED <<inputVars, turns, discarded>>

\* Mutant: a push is sent as a reply to no request.
SendTextToNobody(t) ==
    /\ CanSend(t)
    /\ replies' = Append(replies, pendingI)
    /\ pendingI' = NoCommand
    /\ open' = open \ {t}
    /\ Release
    /\ UNCHANGED <<stt, awaiting, interrupts, arrived, turns, discarded>>

\* send() of a text: it answers the pending request, if there is one, and
\* ends the turn holding the lock.
SendText(t) ==
    /\ CanSend(t)
    /\ replies' = IF pendingI = NoCommand THEN replies
                  ELSE Append(replies, pendingI)
    /\ pendingI' = NoCommand
    /\ open' = open \ {t}
    /\ Release
    /\ UNCHANGED <<stt, awaiting, interrupts, arrived, turns, discarded>>

\* send() of a UI block or of surface operations that pass their checks: the
\* pending request stays pending.
SendPanel(t) ==
    /\ CanSend(t)
    /\ open' = open \ {t}
    /\ Release
    /\ UNCHANGED <<inputVars, turns, discarded, replies>>

\* The agent's turn is over, with or without a reply.
AgentEnds(t) ==
    /\ turns[t].phase = "running"
    /\ SetPhase(t, "over")
    /\ open' = open \ {t}
    /\ UNCHANGED <<guardVars, inputVars, discarded, replies>>

-----------------------------------------------------------------------------
(* Timers.                                                                 *)

LockExpires ==
    /\ lock
    /\ ~expired
    /\ expired' = TRUE
    /\ UNCHANGED <<lock, started, watch, ack, deferred, flushes>>
    /\ UNCHANGED <<inputVars, ghostVars>>

\* Mutant: a turn that times out is ended without flushing its backlog.
WatchDroppingBacklog ==
    /\ watch # 0
    /\ watch = started => expired
    /\ watch' = 0
    /\ IF lock /\ started = watch
       THEN lock' = FALSE /\ ack' = 0 /\ open' = open \ {watch}
       ELSE UNCHANGED <<lock, ack, open>>
    /\ UNCHANGED <<started, expired, deferred, flushes>>
    /\ UNCHANGED <<inputVars, turns, discarded, replies>>

\* _watch: ends the turn it was armed for, if that turn still holds the lock.
WatchFires ==
    /\ watch # 0
    /\ watch = started => expired
    /\ IF lock /\ started = watch
       THEN Release /\ open' = open \ {watch}
       ELSE /\ watch' = 0
            /\ UNCHANGED <<lock, started, expired, ack, deferred, flushes>>
            /\ UNCHANGED open
    /\ UNCHANGED <<inputVars, turns, discarded, replies>>

\* _ack: "still working" is spoken for a turn that runs long.
AckFires ==
    /\ ack # 0
    /\ ack' = 0
    /\ UNCHANGED <<lock, started, expired, watch, deferred, flushes>>
    /\ UNCHANGED <<inputVars, ghostVars>>

-----------------------------------------------------------------------------
Next ==
    \/ \E c \in Commands : ReceiveCommand(c) \/ ReceiveBlank(c) \/ ReceiveReset(c)
    \/ \E p \in Taps : ReceiveTap(p)
    \/ \E a \in Clips : ReceiveAudio(a)
    \/ ReceiveInterrupt \/ InterruptEnds \/ ResetEnds
    \/ Transcribed \/ TranscriptHeld
    \/ FlushDeferred
    \/ \E t \in Turn : \/ HandOverReturns(t) \/ HandOverRaises(t)
                       \/ SendText(t) \/ SendPanel(t) \/ AgentEnds(t)
    \/ LockExpires \/ WatchFires \/ AckFires

Spec == Init /\ [][Next]_vars

(***************************************************************************)
(* The event loop runs every ready task and every timer that is due;       *)
(* Hermes' handle_message hands the turn to a task of its own and returns, *)
(* and its interrupt hook and the session store return.  Nothing is        *)
(* assumed of the agent: a turn need never reply, nor end.                 *)
(***************************************************************************)
HandOverEnds(t) == t \in Turn /\ (HandOverReturns(t) \/ HandOverRaises(t))

Fairness ==
    /\ WF_vars(LockExpires)
    /\ WF_vars(WatchFires)
    /\ WF_vars(FlushDeferred)
    /\ WF_vars(InterruptEnds)
    /\ WF_vars(ResetEnds)
    /\ WF_vars(Transcribed \/ TranscriptHeld)
    /\ \A t \in 1 .. Cardinality(Utterance) : WF_vars(HandOverEnds(t))

FairSpec == Spec /\ Fairness

-----------------------------------------------------------------------------
(* Safety.                                                                 *)

\* A held lock has its watchdog running, for the very turn that holds it:
\* whatever releases, steals or re-takes the lock, no turn can hold it with
\* nothing left to end it (the deadlock _arm_turn_timeout exists for).
LockIsWatched == lock => started # 0 /\ watch = started

\* Speech is only absorbed while a turn is in flight to flush it: a backlog
\* with the lock free would wait for a turn that nothing starts.
BacklogUnderLock == deferred # {} => lock

\* The "still working" acknowledgement is armed for the turn holding the lock
\* and for no earlier one, so a finished or interrupted turn never speaks it.
AckOfCurrentTurn == ack # 0 => lock /\ ack = started

\* The lock and what hangs on it: its watchdog, its backlog, its acknowledgement.
LockInv == LockIsWatched /\ BacklogUnderLock /\ AckOfCurrentTurn

\* The places an utterance can be in.
Transcribing == {stt[i] : i \in DOMAIN stt}
Said(t) == turns[t].says
Waiting == deferred \cup Transcribing \cup UNION {flushes[i] : i \in DOMAIN flushes}
Delivered == UNION {turns[t].says : t \in Turn}

\* Nothing the user said gets lost on the way: what was received is waiting,
\* was handed to the agent, or was discarded on purpose.
NothingLost == arrived = Waiting \cup Delivered \cup discarded

\* No utterance is handed to the agent twice - not by a retry, not by a flush
\* racing a new turn ("a double-answer is worse than a drop").
DeliveredOnce ==
    /\ \A t1, t2 \in Turn : t1 # t2 => Said(t1) \cap Said(t2) = {}
    /\ Delivered \cap (Waiting \cup discarded) = {}

\* The phone matches a reply to its request by id and forgets the id: no id
\* is ever used by a second reply, of another turn or of the same one.
AnsweredOnce == \A i, j \in DOMAIN replies : replies[i] = replies[j] => i = j

-----------------------------------------------------------------------------
(* Liveness, under FairSpec.                                               *)

\* A turn that never replies does not keep the phone from being answered.
LockReleased == lock ~> ~lock

\* Absorbed speech is handed to the agent, unless an interrupt dropped it.
BacklogDelivered ==
    \A u \in Utterance : (u \in deferred) ~> (u \in Delivered \cup discarded)

\* The phone is never deaf for good: the lock is released and the backlog delivered.
NeverDeaf == LockReleased /\ BacklogDelivered

-----------------------------------------------------------------------------
(* What a comment says and the code does not do.                           *)

\* "while a turn is in flight, don't start another" (dispatch_text).
OneTurnInFlight == Cardinality(open) <= 1

=============================================================================
