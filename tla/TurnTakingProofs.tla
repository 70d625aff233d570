-------------------------- MODULE TurnTakingProofs --------------------------
(***************************************************************************)
(* For every set of utterances, and whatever fails: a held turn lock is    *)
(* watched, a backlog is never left behind by a free lock, and the "still  *)
(* working" timer never outlives its turn; no utterance is lost or handed  *)
(* to the agent twice, and no two replies share a request id.              *)
(***************************************************************************)
EXTENDS TurnTaking, TLAPS

-----------------------------------------------------------------------------
(* Typing, one lemma per building block of the actions.                    *)

\* Flushing hands a backlog over as one more text.
LEMMA FlushTyped ==
    ASSUME deferred \in SUBSET Utterance,
           NEW queue \in Seq(SUBSET Utterance)
    PROVE  FlushedInto(queue) \in Seq(SUBSET Utterance)
BY DEF FlushedInto

\* A release keeps the guard's variables typed.
LEMMA ReleaseTyped ==
    ASSUME TypeOK, Release, turns' \in Seq(TurnRecord), Len(turns') = Len(turns)
    PROVE  /\ lock' \in BOOLEAN
           /\ started' \in 0 .. Len(turns')
           /\ expired' \in BOOLEAN
           /\ watch' \in 0 .. Len(turns')
           /\ ack' \in 0 .. Len(turns')
           /\ deferred' \in SUBSET Utterance
           /\ flushes' \in Seq(SUBSET Utterance)
<1>1. CASE lock
  <2>1. flushes' \in Seq(SUBSET Utterance)
    BY <1>1, FlushTyped, Zenon DEF TypeOK, Release
  <2>2. /\ lock' = FALSE /\ ack' = 0 /\ watch' = 0 /\ deferred' = {}
        /\ started' = started /\ expired' = expired
    BY <1>1 DEF Release
  <2>3. /\ started \in 0 .. Len(turns') /\ 0 \in 0 .. Len(turns')
        /\ expired \in BOOLEAN
    BY DEF TypeOK
  <2> QED BY <2>1, <2>2, <2>3
<1>2. CASE ~lock
  BY <1>2 DEF TypeOK, Release, guardVars
<1> QED BY <1>1, <1>2

\* A turn that changes phase stays a turn.
LEMMA PhaseTyped ==
    ASSUME TypeOK, NEW t \in Turn, NEW p \in Phases, SetPhase(t, p)
    PROVE  turns' \in Seq(TurnRecord) /\ Len(turns') = Len(turns)
<1>1. turns \in Seq(TurnRecord) /\ t \in 1 .. Len(turns)
  BY DEF TypeOK, Turn
<1>2. turns[t] \in TurnRecord
  BY <1>1
<1>3. [turns[t] EXCEPT !.phase = p] \in TurnRecord
  BY <1>2 DEF TurnRecord
<1>4. turns' = [turns EXCEPT ![t] = [turns[t] EXCEPT !.phase = p]]
  BY DEF SetPhase
<1> QED BY <1>1, <1>3, <1>4

\* What beginning a turn, or losing it, leaves behind.
LEMMA BeginTyped ==
    ASSUME TypeOK, NEW texts \in SUBSET Utterance, NEW inb \in BOOLEAN,
           NEW others \in SUBSET open, NEW queue \in Seq(SUBSET Utterance),
           BeginTurn(texts, inb, others, queue)
    PROVE  /\ lock' \in BOOLEAN
           /\ turns' \in Seq(TurnRecord)
           /\ Len(turns') = Len(turns) + 1
           /\ started' = Len(turns')
           /\ expired' = FALSE
           /\ watch' \in 0 .. Len(turns')
           /\ ack' \in 0 .. Len(turns')
           /\ deferred' \in SUBSET Utterance
           /\ flushes' \in Seq(SUBSET Utterance)
           /\ open' \in SUBSET Turn'
           /\ discarded' \in SUBSET Utterance
           /\ replies' = replies
<1> DEFINE new == [says |-> texts, phase |-> "handing", inbound |-> inb]
           lost == [says |-> {}, phase |-> "over", inbound |-> FALSE]
<1>1. new \in TurnRecord /\ lost \in TurnRecord
  BY DEF TurnRecord, Phases
<1>2. turns \in Seq(TurnRecord) /\ Len(turns) \in Nat
  BY DEF TypeOK
<1>3. /\ Append(turns, new) \in Seq(TurnRecord)
      /\ Len(Append(turns, new)) = Len(turns) + 1
      /\ Append(turns, lost) \in Seq(TurnRecord)
      /\ Len(Append(turns, lost)) = Len(turns) + 1
  BY <1>1, <1>2
<1>4. /\ deferred' \in SUBSET Utterance
      /\ flushes' \in Seq(SUBSET Utterance)
  BY FlushTyped DEF BeginTurn, TypeOK
<1>5. TakeTurn(texts, inb, others) \/ LoseTurn(texts, others)
  BY DEF BeginTurn
<1>6. CASE TakeTurn(texts, inb, others)
  <2>1. turns' = Append(turns, new)
    BY <1>6 DEF TakeTurn
  <2>2. turns' \in Seq(TurnRecord) /\ Len(turns') = Len(turns) + 1
    BY <1>3, <2>1
  <2>3. open' \in SUBSET Turn'
    <3>1. open' \subseteq open \cup {Len(turns) + 1}
      BY <1>6 DEF TakeTurn
    <3>2. open \subseteq 1 .. Len(turns)
      BY DEF TypeOK, Turn
    <3> QED BY <1>2, <2>2, <3>1, <3>2 DEF Turn
  <2>4. /\ lock' \in BOOLEAN
        /\ started' = Len(turns')
        /\ expired' = FALSE
        /\ watch' \in 0 .. Len(turns')
        /\ ack' \in 0 .. Len(turns')
        /\ discarded' \in SUBSET Utterance
        /\ replies' = replies
    BY <1>2, <1>6, <2>2 DEF TakeTurn, TypeOK
  <2> QED BY <1>4, <2>2, <2>3, <2>4
<1>7. CASE LoseTurn(texts, others)
  <2>1. turns' = Append(turns, lost)
    BY <1>7 DEF LoseTurn
  <2>2. turns' \in Seq(TurnRecord) /\ Len(turns') = Len(turns) + 1
    BY <1>3, <2>1
  <2> HIDE DEF lost
  <2>3. open' \in SUBSET Turn'
    <3>1. open' \subseteq open \cup {Len(turns) + 1}
      BY <1>7 DEF LoseTurn
    <3>2. open \subseteq 1 .. Len(turns)
      BY DEF TypeOK, Turn
    <3> QED BY <1>2, <2>2, <3>1, <3>2 DEF Turn
  <2>4. /\ lock' \in BOOLEAN
        /\ started' = Len(turns')
        /\ expired' = FALSE
        /\ watch' \in 0 .. Len(turns')
        /\ ack' \in 0 .. Len(turns')
        /\ discarded' \in SUBSET Utterance
        /\ replies' = replies
    <3>1. /\ lock' = FALSE /\ started' = Len(turns) + 1 /\ expired' = FALSE
          /\ watch' = 0 /\ ack' = 0 /\ replies' = replies
          /\ discarded' = discarded \cup texts
      BY <1>7 DEF LoseTurn
    <3>2. discarded \in SUBSET Utterance
      BY DEF TypeOK
    <3>3. Len(turns') \in Nat /\ started' = Len(turns') /\ 0 \in 0 .. Len(turns')
      BY <1>2, <2>2, <3>1
    <3>4. discarded' \in SUBSET Utterance
      BY <3>1, <3>2
    <3> QED BY <3>1, <3>3, <3>4
  <2> QED BY <1>4, <2>2, <2>3, <2>4
<1> QED BY <1>5, <1>6, <1>7

\* The same for a dispatch, which may also absorb the text.
LEMMA DispatchTyped ==
    ASSUME TypeOK, NEW texts \in SUBSET Utterance, NEW inb \in BOOLEAN,
           DispatchText(texts, inb)
    PROVE  /\ lock' \in BOOLEAN
           /\ turns' \in Seq(TurnRecord)
           /\ Len(turns) <= Len(turns')
           /\ started' \in 0 .. Len(turns')
           /\ expired' \in BOOLEAN
           /\ watch' \in 0 .. Len(turns')
           /\ ack' \in 0 .. Len(turns')
           /\ deferred' \in SUBSET Utterance
           /\ flushes' \in Seq(SUBSET Utterance)
           /\ open' \in SUBSET Turn'
           /\ discarded' \in SUBSET Utterance
           /\ replies' = replies
<1>1. CASE Busy /\ Defer(texts)
  BY <1>1 DEF Defer, TypeOK, ghostVars, Turn
<1>2. ASSUME NEW others \in SUBSET open, BeginTurn(texts, inb, others, flushes)
      PROVE  /\ Len(turns) <= Len(turns')
             /\ started' \in 0 .. Len(turns')
             /\ expired' \in BOOLEAN
  <2>1. flushes \in Seq(SUBSET Utterance) /\ Len(turns) \in Nat
    BY DEF TypeOK
  <2>2. /\ Len(turns') = Len(turns) + 1
        /\ started' = Len(turns')
        /\ expired' = FALSE
    BY <1>2, <2>1, BeginTyped, Zenon
  <2>3. Len(turns') \in Nat /\ Len(turns) <= Len(turns')
    BY <2>1, <2>2
  <2>4. started' \in 0 .. Len(turns')
    BY <2>2, <2>3
  <2> QED BY <2>2, <2>3, <2>4
<1>3. CASE ~lock /\ BeginTurn(texts, inb, open, flushes)
  <2>1. flushes \in Seq(SUBSET Utterance) /\ open \in SUBSET open
    BY DEF TypeOK
  <2> QED BY <1>2, <1>3, <2>1, BeginTyped
<1>4. CASE lock /\ expired /\ BeginTurn(texts, inb, open \ {started}, flushes)
  <2>1. flushes \in Seq(SUBSET Utterance) /\ open \ {started} \in SUBSET open
    BY DEF TypeOK
  <2> QED BY <1>2, <1>4, <2>1, BeginTyped
<1> QED BY <1>1, <1>3, <1>4 DEF DispatchText

\* A longer list of turns disturbs nothing that refers to a turn.
LEMMA Longer ==
    ASSUME TypeOK, turns' \in Seq(TurnRecord), Len(turns) <= Len(turns')
    PROVE  open \in SUBSET Turn'
<1>1. Len(turns) \in Nat /\ Len(turns') \in Nat
  BY DEF TypeOK
<1>2. Turn \subseteq Turn'
  BY <1>1 DEF Turn
<1> QED BY <1>2 DEF TypeOK

\* An action that dispatches a text and leaves the other input alone.
LEMMA DispatchKeepsType ==
    ASSUME TypeOK, NEW texts \in SUBSET Utterance, NEW inb \in BOOLEAN,
           DispatchText(texts, inb),
           pendingI' \in Commands \cup {NoCommand}, stt' \in Seq(Clips),
           awaiting' = awaiting, interrupts' = interrupts,
           arrived' \in SUBSET Utterance
    PROVE  TypeOK'
<1>1. turns' \in Seq(TurnRecord) /\ Len(turns) <= Len(turns')
  BY DispatchTyped
<1>2. replies' \in Seq(Commands)
  BY DispatchTyped DEF TypeOK
<1>3. /\ awaiting' \in {"nothing", "interrupt", "reset"}
      /\ interrupts' \in 0 .. MaxInterrupts
  BY DEF TypeOK
<1> QED BY <1>1, <1>2, <1>3, DispatchTyped DEF TypeOK

\* An action that touches neither the turns nor what the lock guards.
LEMMA InputKeepsType ==
    ASSUME TypeOK, UNCHANGED <<guardVars, turns, open, replies>>,
           pendingI' \in Commands \cup {NoCommand}, stt' \in Seq(Clips),
           awaiting' \in {"nothing", "interrupt", "reset"},
           interrupts' \in 0 .. MaxInterrupts,
           arrived' \in SUBSET Utterance, discarded' \in SUBSET Utterance
    PROVE  TypeOK'
<1>1. /\ turns' = turns /\ open' = open /\ replies' = replies
      /\ lock' = lock /\ started' = started /\ expired' = expired
      /\ watch' = watch /\ ack' = ack /\ deferred' = deferred
      /\ flushes' = flushes
  BY DEF guardVars
<1>2. Turn' = Turn
  BY <1>1 DEF Turn
<1> QED BY <1>1, <1>2 DEF TypeOK

\* An action that ends a turn, with or without the lock.
LEMMA ReleaseKeepsType ==
    ASSUME TypeOK, Release, turns' \in Seq(TurnRecord), Len(turns') = Len(turns),
           open' \in SUBSET open, replies' \in Seq(Commands),
           pendingI' \in Commands \cup {NoCommand},
           UNCHANGED <<stt, awaiting, interrupts, arrived, discarded>>
    PROVE  TypeOK'
<1>1. Turn' = Turn
  BY DEF Turn
<1>2. open' \in SUBSET Turn'
  BY <1>1 DEF TypeOK
<1> QED BY <1>2, ReleaseTyped DEF TypeOK

-----------------------------------------------------------------------------
\* Every action keeps the state well typed.
LEMMA TypeStep ==
    ASSUME TypeOK, [Next]_vars
    PROVE  TypeOK'
<1> USE DEF Arrives, inputVars, ghostVars
<1>1. ASSUME NEW c \in Commands, ReceiveCommand(c) PROVE TypeOK'
  <2>1. {c} \in SUBSET Utterance /\ arrived' \in SUBSET Utterance
    BY <1>1 DEF ReceiveCommand, TypeOK, Utterance
  <2>2. DispatchText({c}, TRUE) /\ pendingI' = c
        /\ UNCHANGED <<stt, awaiting, interrupts>>
    BY <1>1 DEF ReceiveCommand
  <2>3. stt' \in Seq(Clips)
    BY <2>2 DEF TypeOK
  <2> QED BY <2>1, <2>2, <2>3, DispatchKeepsType
<1>2. ASSUME NEW c \in Commands, ReceiveBlank(c) PROVE TypeOK'
  BY <1>2, InputKeepsType DEF ReceiveBlank, TypeOK, Utterance
<1>3. ASSUME NEW c \in Commands, ReceiveReset(c) PROVE TypeOK'
  BY <1>3, InputKeepsType DEF ReceiveReset, TypeOK, Utterance
<1>4. ASSUME NEW p \in Taps, ReceiveTap(p) PROVE TypeOK'
  <2>1. {p} \in SUBSET Utterance /\ arrived' \in SUBSET Utterance
    BY <1>4 DEF ReceiveTap, TypeOK, Utterance
  <2>2. DispatchText({p}, TRUE)
        /\ UNCHANGED <<pendingI, stt, awaiting, interrupts>>
    BY <1>4 DEF ReceiveTap
  <2>3. stt' \in Seq(Clips) /\ pendingI' \in Commands \cup {NoCommand}
    BY <2>2 DEF TypeOK
  <2> QED BY <2>1, <2>2, <2>3, DispatchKeepsType
<1>5. ASSUME NEW a \in Clips, ReceiveAudio(a) PROVE TypeOK'
  BY <1>5, InputKeepsType DEF ReceiveAudio, TypeOK, Utterance
<1>6. CASE ReceiveInterrupt
  BY <1>6, InputKeepsType, BoundsAreTyped DEF ReceiveInterrupt, TypeOK
<1>7. CASE InterruptEnds
  <2>1. Turn' = Turn
    BY <1>7 DEF InterruptEnds, Turn
  <2>2. 0 \in 0 .. Len(turns) /\ {} \in SUBSET Turn /\ {} \in SUBSET Utterance
    BY DEF TypeOK
  <2>3. /\ lock' = FALSE /\ started' = 0 /\ expired' = FALSE /\ ack' = 0
        /\ deferred' = {} /\ open' = {} /\ awaiting' = "nothing"
        /\ discarded' = discarded \cup deferred
        /\ UNCHANGED <<watch, flushes, turns, replies, pendingI, stt, interrupts,
                       arrived>>
    BY <1>7 DEF InterruptEnds
  <2> QED BY <2>1, <2>2, <2>3 DEF TypeOK
<1>8. CASE ResetEnds
  BY <1>8, InputKeepsType DEF ResetEnds, TypeOK
<1>9. CASE Transcribed
  <2>1. Head(stt) \in Clips /\ stt' \in Seq(Clips)
    BY <1>9 DEF Transcribed, TypeOK
  <2>2. DispatchText({Head(stt)}, FALSE)
        /\ UNCHANGED <<pendingI, awaiting, interrupts, arrived>>
    BY <1>9 DEF Transcribed
  <2>3. {Head(stt)} \in SUBSET Utterance
    BY <2>1 DEF Utterance
  <2>4. pendingI' \in Commands \cup {NoCommand} /\ arrived' \in SUBSET Utterance
    BY <2>2 DEF TypeOK
  <2> QED BY <2>1, <2>2, <2>3, <2>4, DispatchKeepsType
<1>10. CASE TranscriptHeld
  BY <1>10, InputKeepsType DEF TranscriptHeld, TypeOK, Utterance
<1>11. CASE FlushDeferred
  <2>1. Head(flushes) \in SUBSET Utterance /\ Tail(flushes) \in Seq(SUBSET Utterance)
    BY <1>11 DEF FlushDeferred, TypeOK
  <2>2. BeginTurn(Head(flushes), FALSE, open, Tail(flushes)) /\ UNCHANGED inputVars
    BY <1>11 DEF FlushDeferred
  <2>3. open \in SUBSET open /\ FALSE \in BOOLEAN
    OBVIOUS
  <2>4. turns' \in Seq(TurnRecord) /\ Len(turns') = Len(turns) + 1 /\ replies' = replies
    BY <2>1, <2>2, <2>3, BeginTyped
  <2>5. Len(turns) \in Nat /\ Len(turns') \in Nat /\ Len(turns) <= Len(turns')
    BY <2>4 DEF TypeOK
  <2>6. replies' \in Seq(Commands)
    BY <2>4 DEF TypeOK
  <2>7. /\ lock' \in BOOLEAN /\ started' = Len(turns') /\ expired' = FALSE
        /\ watch' \in 0 .. Len(turns') /\ ack' \in 0 .. Len(turns')
        /\ deferred' \in SUBSET Utterance
        /\ flushes' \in Seq(SUBSET Utterance)
        /\ open' \in SUBSET Turn' /\ discarded' \in SUBSET Utterance
    BY <2>1, <2>2, <2>3, BeginTyped
  <2>8. started' \in 0 .. Len(turns') /\ expired' \in BOOLEAN
    <3>1. started' = Len(turns') /\ expired' = FALSE
      BY <2>7
    <3>2. Len(turns') \in 0 .. Len(turns')
      BY <2>5
    <3> QED BY <3>1, <3>2, Zenon
  <2>9. /\ pendingI' \in Commands \cup {NoCommand} /\ stt' \in Seq(Clips)
        /\ awaiting' \in {"nothing", "interrupt", "reset"}
        /\ interrupts' \in 0 .. MaxInterrupts
        /\ arrived' \in SUBSET Utterance
    BY <2>2 DEF TypeOK
  <2> QED BY <2>4, <2>6, <2>7, <2>8, <2>9 DEF TypeOK
<1>12. ASSUME NEW t \in Turn,
              \/ HandOverReturns(t) \/ AgentEnds(t)
       PROVE  TypeOK'
  <2>1. \E p \in Phases : SetPhase(t, p)
    BY <1>12 DEF HandOverReturns, AgentEnds, Phases
  <2>2. turns' \in Seq(TurnRecord) /\ Len(turns') = Len(turns)
    BY <2>1, PhaseTyped
  <2>3. Turn' = Turn
    BY <2>2 DEF Turn
  <2> QED BY <1>12, <2>2, <2>3 DEF HandOverReturns, AgentEnds, TypeOK, guardVars
<1>13. ASSUME NEW t \in Turn, HandOverRaises(t) PROVE TypeOK'
  <2>1. \E p \in Phases : SetPhase(t, p)
    BY <1>13 DEF HandOverRaises, Phases
  <2>2. turns' \in Seq(TurnRecord) /\ Len(turns') = Len(turns)
    BY <2>1, PhaseTyped
  <2>3. /\ Release /\ open' = open \ {t}
        /\ UNCHANGED <<inputVars, discarded, replies>>
    BY <1>13 DEF HandOverRaises
  <2>4. /\ open' \in SUBSET open /\ replies' \in Seq(Commands)
        /\ pendingI' \in Commands \cup {NoCommand}
        /\ UNCHANGED <<stt, awaiting, interrupts, arrived, discarded>>
    BY <2>3 DEF TypeOK
  <2> QED BY <2>2, <2>3, <2>4, ReleaseKeepsType
<1>14. ASSUME NEW t \in Turn, SendText(t) PROVE TypeOK'
  <2>1. /\ Release /\ open' = open \ {t} /\ pendingI' = NoCommand
        /\ UNCHANGED <<stt, awaiting, interrupts, arrived, turns, discarded>>
    BY <1>14 DEF SendText
  <2>2. replies' \in Seq(Commands)
    <3>1. CASE pendingI = NoCommand
      BY <1>14, <3>1 DEF SendText, TypeOK
    <3>2. CASE pendingI # NoCommand
      <4>1. replies' = Append(replies, pendingI) /\ pendingI \in Commands
            /\ replies \in Seq(Commands)
        BY <1>14, <3>2 DEF SendText, TypeOK
      <4> QED BY <4>1
    <3> QED BY <3>1, <3>2
  <2>3. turns' \in Seq(TurnRecord) /\ Len(turns') = Len(turns)
        /\ open' \in SUBSET open
    BY <2>1 DEF TypeOK
  <2> QED BY <2>1, <2>2, <2>3, ReleaseKeepsType
<1>15. ASSUME NEW t \in Turn, SendPanel(t) PROVE TypeOK'
  <2>1. /\ Release /\ open' = open \ {t}
        /\ UNCHANGED <<inputVars, turns, discarded, replies>>
    BY <1>15 DEF SendPanel
  <2>2. /\ turns' \in Seq(TurnRecord) /\ Len(turns') = Len(turns)
        /\ open' \in SUBSET open
        /\ replies' \in Seq(Commands)
        /\ pendingI' \in Commands \cup {NoCommand}
        /\ UNCHANGED <<stt, awaiting, interrupts, arrived, discarded>>
    BY <2>1 DEF TypeOK
  <2> QED BY <2>1, <2>2, ReleaseKeepsType
<1>16. CASE LockExpires
  <2>1. Turn' = Turn
    BY <1>16 DEF LockExpires, Turn
  <2> QED BY <1>16, <2>1 DEF LockExpires, TypeOK
<1>17. CASE WatchFires
  <2>1. UNCHANGED <<inputVars, turns, discarded, replies>>
    BY <1>17 DEF WatchFires
  <2>2. CASE lock /\ started = watch
    <3>1. Release /\ open' = open \ {watch}
      BY <1>17, <2>2 DEF WatchFires
    <3>2. /\ turns' \in Seq(TurnRecord) /\ Len(turns') = Len(turns)
          /\ open' \in SUBSET open
          /\ replies' \in Seq(Commands)
          /\ pendingI' \in Commands \cup {NoCommand}
          /\ UNCHANGED <<stt, awaiting, interrupts, arrived, discarded>>
      BY <2>1, <3>1 DEF TypeOK
    <3> QED BY <3>1, <3>2, ReleaseKeepsType
  <2>3. CASE ~(lock /\ started = watch)
    <3>1. /\ watch' = 0 /\ UNCHANGED open
          /\ UNCHANGED <<lock, started, expired, ack, deferred, flushes>>
      BY <1>17, <2>3 DEF WatchFires
    <3>2. Turn' = Turn
      BY <2>1 DEF Turn
    <3>3. 0 \in 0 .. Len(turns)
      BY DEF TypeOK
    <3> QED BY <2>1, <3>1, <3>2, <3>3 DEF TypeOK
  <2> QED BY <2>2, <2>3
<1>18. CASE AckFires
  <2>1. Turn' = Turn
    BY <1>18 DEF AckFires, Turn
  <2>2. 0 \in 0 .. Len(turns)
    BY DEF TypeOK
  <2> QED BY <1>18, <2>1, <2>2 DEF AckFires, TypeOK
<1>19. CASE UNCHANGED vars
  <2>1. Turn' = Turn
    BY <1>19 DEF vars, Turn
  <2> QED BY <1>19, <2>1 DEF vars, TypeOK
<1> QED
  BY <1>1, <1>2, <1>3, <1>4, <1>5, <1>6, <1>7, <1>8, <1>9, <1>10, <1>11, <1>12,
     <1>13, <1>14, <1>15, <1>16, <1>17, <1>18, <1>19 DEF Next

\* No utterance has arrived: every collection is empty.
LEMMA InitTyped == Init => TypeOK
<1> SUFFICES ASSUME Init PROVE TypeOK
  OBVIOUS
<1>1. turns \in Seq(TurnRecord) /\ Len(turns) = 0
  BY DEF Init
<1>2. /\ lock \in BOOLEAN /\ expired \in BOOLEAN
      /\ started \in 0 .. Len(turns) /\ watch \in 0 .. Len(turns)
      /\ ack \in 0 .. Len(turns)
  <2>1. 0 \in 0 .. Len(turns)
    BY <1>1
  <2>2. started = 0 /\ watch = 0 /\ ack = 0
    BY DEF Init
  <2>3. lock \in BOOLEAN /\ expired \in BOOLEAN
    BY DEF Init
  <2> QED BY <2>1, <2>2, <2>3
<1>3. /\ flushes \in Seq(SUBSET Utterance) /\ stt \in Seq(Clips)
      /\ interrupts \in 0 .. MaxInterrupts
  <2>1. flushes = <<>> /\ stt = <<>> /\ interrupts = 0
    BY DEF Init
  <2>2. 0 \in 0 .. MaxInterrupts
    BY BoundsAreTyped
  <2>3. <<>> \in Seq(SUBSET Utterance) /\ <<>> \in Seq(Clips)
    OBVIOUS
  <2> QED BY <2>1, <2>2, <2>3
<1>4. /\ deferred \in SUBSET Utterance /\ open \in SUBSET Turn
      /\ arrived \in SUBSET Utterance /\ discarded \in SUBSET Utterance
      /\ replies \in Seq(Commands)
      /\ pendingI \in Commands \cup {NoCommand}
      /\ awaiting \in {"nothing", "interrupt", "reset"}
  BY DEF Init
<1> QED BY <1>1, <1>2, <1>3, <1>4 DEF TypeOK

\* Every reachable state is well typed: every timer is armed for a turn that
\* was started, and every id a reply went out under is a command's.
THEOREM TypeCorrect == Spec => []TypeOK
BY InitTyped, TypeStep, PTL DEF Spec

-----------------------------------------------------------------------------
(* The lock, its timers and the backlog.                                   *)

\* A release ends everything the lock guards at once.
LEMMA ReleaseKeepsLock ==
    ASSUME LockInv, Release
    PROVE  LockInv'
<1> USE DEF LockInv, LockIsWatched, BacklogUnderLock, AckOfCurrentTurn
<1>1. CASE lock
  BY <1>1 DEF Release
<1>2. CASE ~lock
  BY <1>2 DEF Release, guardVars
<1> QED BY <1>1, <1>2

\* A turn that begins holds the lock, watched, or has lost it for good.
LEMMA BeginKeepsLock ==
    ASSUME TypeOK, LockInv,
           NEW texts, NEW inb, NEW others, NEW queue,
           BeginTurn(texts, inb, others, queue)
    PROVE  LockInv'
<1> USE DEF LockInv, LockIsWatched, BacklogUnderLock, AckOfCurrentTurn
<1>1. Len(turns) \in Nat
  BY DEF TypeOK
<1>2. CASE TakeTurn(texts, inb, others)
  <2>1. lock' = TRUE /\ started' = Len(turns) + 1
        /\ watch' = Len(turns) + 1 /\ ack' = Len(turns) + 1
    BY <1>2 DEF TakeTurn
  <2> QED BY <1>1, <2>1
<1>3. CASE Failures /\ LoseTurn(texts, others) /\ deferred' = {}
  BY <1>3 DEF LoseTurn
<1> QED BY <1>2, <1>3 DEF BeginTurn

\* A text is absorbed only under a lock that is held.
LEMMA DispatchKeepsLock ==
    ASSUME TypeOK, LockInv, NEW texts, NEW inb, DispatchText(texts, inb)
    PROVE  LockInv'
<1>1. CASE Busy /\ Defer(texts)
  BY <1>1 DEF Busy, Defer, LockInv, LockIsWatched, BacklogUnderLock, AckOfCurrentTurn
<1>2. ASSUME NEW others, BeginTurn(texts, inb, others, flushes) PROVE LockInv'
  BY <1>2, BeginKeepsLock
<1> QED BY <1>1, <1>2 DEF DispatchText

\* What leaves the guard alone keeps its invariant.
LEMMA GuardUnchanged ==
    ASSUME LockInv, UNCHANGED guardVars
    PROVE  LockInv'
BY DEF LockInv, LockIsWatched, BacklogUnderLock, AckOfCurrentTurn, guardVars

\* The three facts about the lock are inductive together.
LEMMA LockStep ==
    ASSUME TypeOK, LockInv, [Next]_vars
    PROVE  LockInv'
<1>1. ASSUME NEW c \in Commands,
             ReceiveCommand(c) \/ ReceiveBlank(c) \/ ReceiveReset(c)
      PROVE  LockInv'
  BY <1>1, DispatchKeepsLock, GuardUnchanged
  DEF ReceiveCommand, ReceiveBlank, ReceiveReset
<1>2. ASSUME NEW p \in Taps, ReceiveTap(p) PROVE LockInv'
  BY <1>2, DispatchKeepsLock DEF ReceiveTap
<1>3. ASSUME NEW a \in Clips, ReceiveAudio(a) PROVE LockInv'
  BY <1>3, GuardUnchanged DEF ReceiveAudio
<1>4. CASE ReceiveInterrupt \/ ResetEnds \/ TranscriptHeld
  BY <1>4, GuardUnchanged DEF ReceiveInterrupt, ResetEnds, TranscriptHeld
<1>5. CASE InterruptEnds
  BY <1>5 DEF InterruptEnds, LockInv, LockIsWatched, BacklogUnderLock, AckOfCurrentTurn
<1>6. CASE Transcribed
  BY <1>6, DispatchKeepsLock DEF Transcribed
<1>7. CASE FlushDeferred
  BY <1>7, BeginKeepsLock DEF FlushDeferred
<1>8. ASSUME NEW t \in Turn, HandOverReturns(t) \/ AgentEnds(t) PROVE LockInv'
  BY <1>8, GuardUnchanged DEF HandOverReturns, AgentEnds
<1>9. ASSUME NEW t \in Turn, HandOverRaises(t) \/ SendText(t) \/ SendPanel(t)
      PROVE  LockInv'
  BY <1>9, ReleaseKeepsLock DEF HandOverRaises, SendText, SendPanel
<1>10. CASE LockExpires
  BY <1>10
  DEF LockExpires, LockInv, LockIsWatched, BacklogUnderLock, AckOfCurrentTurn
<1>11. CASE WatchFires
  <2>1. CASE lock /\ started = watch
    BY <1>11, <2>1, ReleaseKeepsLock DEF WatchFires
  <2>2. CASE ~lock
    BY <1>11, <2>2
    DEF WatchFires, LockInv, LockIsWatched, BacklogUnderLock, AckOfCurrentTurn
  <2> QED BY <2>1, <2>2 DEF LockInv, LockIsWatched
<1>12. CASE AckFires
  BY <1>12
  DEF AckFires, LockInv, LockIsWatched, BacklogUnderLock, AckOfCurrentTurn
<1>13. CASE UNCHANGED vars
  BY <1>13, GuardUnchanged DEF vars, guardVars
<1> QED
  BY <1>1, <1>2, <1>3, <1>4, <1>5, <1>6, <1>7, <1>8, <1>9, <1>10, <1>11, <1>12,
     <1>13 DEF Next

\* Types and the lock's facts hold in every reachable state.
LEMMA LockInductive == Spec => [](TypeOK /\ LockInv)
<1>1. Init => TypeOK /\ LockInv
  <2>1. Init => LockInv
    BY DEF Init, LockInv, LockIsWatched, BacklogUnderLock, AckOfCurrentTurn
  <2> QED BY <2>1, InitTyped
<1>2. TypeOK /\ LockInv /\ [Next]_vars => (TypeOK /\ LockInv)'
  BY TypeStep, LockStep
<1> QED BY <1>1, <1>2, PTL DEF Spec

\* Whoever holds the lock is watched: no interleaving of replies, retries,
\* flushes, timeouts and interrupts leaves a held lock that nothing ends.
THEOREM HeldLockIsWatched == Spec => []LockIsWatched
BY LockInductive, PTL DEF LockInv

\* Speech is only ever absorbed under a held lock, so the release that flushes
\* it is still to come.
THEOREM BacklogHasHolder == Spec => []BacklogUnderLock
BY LockInductive, PTL DEF LockInv

\* The acknowledgement timer belongs to the turn that holds the lock.
THEOREM AckIsCurrent == Spec => []AckOfCurrentTurn
BY LockInductive, PTL DEF LockInv

\* The three together, as the runs check them: in no behaviour of the adapter is a held
\* lock without its watchdog, speech absorbed under no lock, or an acknowledgement armed
\* for another turn than the one that holds the lock (LockInv).
THEOREM LockIsSound == Spec => []LockInv
BY LockInductive, PTL

-----------------------------------------------------------------------------
(* Delivery.  Every utterance is held back (in the backlog or a scheduled  *)
(* flush), being transcribed, or settled (given to a turn or discarded),   *)
(* and in one place of one of these only: none is lost, none is handed to  *)
(* the agent twice.  First, sequences of sets.                             *)

Members(q) == UNION {q[i] : i \in DOMAIN q}
Apart(q) == \A i, j \in DOMAIN q : i # j => q[i] \cap q[j] = {}

\* An element appended to a sequence of sets adds its members to it.
LEMMA AppendMembers ==
    ASSUME NEW S, NEW q \in Seq(S), NEW e \in S
    PROVE  /\ Members(Append(q, e)) = Members(q) \cup e
           /\ Apart(q) /\ e \cap Members(q) = {} => Apart(Append(q, e))
<1> DEFINE r == Append(q, e)
           n == Len(q)
<1>1. /\ n \in Nat
      /\ DOMAIN q = 1 .. n
      /\ DOMAIN r = 1 .. n + 1
      /\ \A i \in 1 .. n : r[i] = q[i]
      /\ r[n + 1] = e
  OBVIOUS
<1> HIDE DEF r, n
<1>2. \A i \in 1 .. n + 1 : i \in 1 .. n \/ i = n + 1
  BY <1>1
<1>3. 1 .. n \subseteq 1 .. n + 1 /\ n + 1 \in 1 .. n + 1
  BY <1>1
<1>4. Members(r) = Members(q) \cup e
  <2>1. ASSUME NEW x \in Members(r) PROVE x \in Members(q) \cup e
    BY <1>1, <1>2, Zenon DEF Members
  <2>2. ASSUME NEW x \in Members(q) \cup e PROVE x \in Members(r)
    BY <1>1, <1>3, Zenon DEF Members
  <2> QED BY <2>1, <2>2
<1>5. ASSUME Apart(q), e \cap Members(q) = {} PROVE Apart(r)
  <2> SUFFICES ASSUME NEW i \in 1 .. n + 1, NEW j \in 1 .. n + 1, i # j
               PROVE  r[i] \cap r[j] = {}
    BY <1>1 DEF Apart
  <2>1. \A k \in 1 .. n : q[k] \cap e = {}
    BY <1>1, <1>5 DEF Members
  <2> QED BY <1>1, <1>2, <1>5, <2>1 DEF Apart
<1> QED BY <1>4, <1>5 DEF r

\* The head of a sequence of sets and the members of its tail.
LEMMA TailMembers ==
    ASSUME NEW S, NEW q \in Seq(S), q # <<>>
    PROVE  /\ Members(q) = Head(q) \cup Members(Tail(q))
           /\ Apart(q) => Head(q) \cap Members(Tail(q)) = {} /\ Apart(Tail(q))
<1> DEFINE r == Tail(q)
           h == Head(q)
           n == Len(q)
<1>1. /\ n \in Nat \ {0}
      /\ DOMAIN q = 1 .. n
      /\ DOMAIN r = 1 .. n - 1
      /\ \A i \in 1 .. n - 1 : r[i] = q[i + 1]
      /\ h = q[1]
  OBVIOUS
<1> HIDE DEF r, h, n
<1>2. \A i \in 1 .. n : i = 1 \/ (i - 1 \in 1 .. n - 1 /\ q[i] = r[i - 1])
  BY <1>1
<1>3. \A i \in 1 .. n - 1 : i + 1 \in 1 .. n /\ i + 1 # 1
  BY <1>1
<1>4. 1 \in 1 .. n
  BY <1>1
<1>5. Members(q) = h \cup Members(r)
  <2>1. ASSUME NEW x \in Members(q) PROVE x \in h \cup Members(r)
    BY <1>1, <1>2, Zenon DEF Members
  <2>2. ASSUME NEW x \in h \cup Members(r) PROVE x \in Members(q)
    BY <1>1, <1>3, <1>4, Zenon DEF Members
  <2> QED BY <2>1, <2>2
<1>6. ASSUME Apart(q) PROVE h \cap Members(r) = {} /\ Apart(r)
  <2>1. \A i \in 1 .. n - 1 : h \cap r[i] = {}
    BY <1>1, <1>3, <1>4, <1>6, Zenon DEF Apart
  <2>2. h \cap Members(r) = {}
    BY <1>1, <2>1 DEF Members
  <2>3. ASSUME NEW i \in 1 .. n - 1, NEW j \in 1 .. n - 1, i # j
        PROVE  r[i] \cap r[j] = {}
    <3>1. i + 1 \in DOMAIN q /\ j + 1 \in DOMAIN q /\ i + 1 # j + 1
      BY <1>1, <1>3, <2>3
    <3>2. q[i + 1] \cap q[j + 1] = {}
      BY <1>6, <3>1 DEF Apart
    <3> QED BY <1>1, <3>2
  <2>4. Apart(r)
    BY <1>1, <2>3, Zenon DEF Apart
  <2> QED BY <2>2, <2>4
<1> QED BY <1>5, <1>6 DEF r, h

-----------------------------------------------------------------------------
(* The places an utterance can be in.                                      *)

Held == deferred \cup Members(flushes)
Settled == Delivered \cup discarded

HeldOnce == deferred \cap Members(flushes) = {} /\ Apart(flushes)
TurnsApart == \A t1, t2 \in Turn : t1 # t2 => Said(t1) \cap Said(t2) = {}
SettledOnce == Delivered \cap discarded = {} /\ TurnsApart
Clear(queue) == deferred \cap Members(queue) = {} /\ Apart(queue)
Fresh(texts) == texts \cap Settled = {}
TranscribedOnce == \A i, j \in DOMAIN stt : i # j => stt[i] # stt[j]

FateInv ==
    /\ arrived = Held \cup Transcribing \cup Settled
    /\ Held \cap Transcribing = {}
    /\ Held \cap Settled = {}
    /\ Transcribing \cap Settled = {}
    /\ HeldOnce
    /\ SettledOnce
    /\ TranscribedOnce

\* Flushing the backlog behind a queue moves it there and nowhere else.
LEMMA FlushMoves ==
    ASSUME deferred \in SUBSET Utterance,
           NEW queue \in Seq(SUBSET Utterance),
           deferred \cap Members(queue) = {}, Apart(queue)
    PROVE  /\ Members(FlushedInto(queue)) = deferred \cup Members(queue)
           /\ Apart(FlushedInto(queue))
<1>1. CASE deferred = {}
  BY <1>1 DEF FlushedInto
<1>2. CASE deferred # {}
  BY <1>2, AppendMembers DEF FlushedInto
<1> QED BY <1>1, <1>2

\* A release keeps what is held back, each utterance in one place.
LEMMA ReleaseHolds ==
    ASSUME TypeOK, HeldOnce, Release
    PROVE  Held' = Held /\ HeldOnce'
<1>1. CASE lock
  <2>1. deferred' = {} /\ flushes' = FlushedInto(flushes)
    BY <1>1 DEF Release
  <2>2. /\ Members(FlushedInto(flushes)) = deferred \cup Members(flushes)
        /\ Apart(FlushedInto(flushes))
    BY FlushMoves DEF TypeOK, HeldOnce
  <2>3. /\ Members(flushes') = deferred \cup Members(flushes)
        /\ Apart(flushes')
    BY <2>1, <2>2
  <2> QED BY <2>1, <2>3 DEF Held, HeldOnce
<1>2. CASE ~lock
  <2>1. deferred' = deferred /\ flushes' = flushes
    BY <1>2 DEF Release, guardVars
  <2> QED BY <2>1 DEF Held, HeldOnce
<1> QED BY <1>1, <1>2

\* A turn appended to the turns settles what it says.
LEMMA TurnSettles ==
    ASSUME TypeOK, NEW r \in TurnRecord, turns' = Append(turns, r),
           TurnsApart, r.says \cap Delivered = {}
    PROVE  Delivered' = Delivered \cup r.says /\ TurnsApart'
<1> DEFINE n == Len(turns)
<1>1. /\ n \in Nat
      /\ Turn = 1 .. n
      /\ Turn' = 1 .. n + 1
      /\ \A t \in 1 .. n : turns'[t] = turns[t]
      /\ turns'[n + 1] = r
  BY DEF TypeOK, Turn
<1> HIDE DEF n
<1>2. \A t \in 1 .. n + 1 : t \in 1 .. n \/ t = n + 1
  BY <1>1
<1>3. 1 .. n \subseteq 1 .. n + 1 /\ n + 1 \in 1 .. n + 1
  BY <1>1
<1>4. Delivered' = Delivered \cup r.says
  <2>1. ASSUME NEW x \in Delivered' PROVE x \in Delivered \cup r.says
    BY <1>1, <1>2, Zenon DEF Delivered
  <2>2. ASSUME NEW x \in Delivered \cup r.says PROVE x \in Delivered'
    BY <1>1, <1>3, Zenon DEF Delivered
  <2> QED BY <2>1, <2>2
<1>5. TurnsApart'
  <2>1. \A t \in 1 .. n : turns[t].says \cap r.says = {}
    BY <1>1 DEF Delivered
  <2>2. ASSUME NEW i \in 1 .. n + 1, NEW j \in 1 .. n + 1, i # j
        PROVE  turns'[i].says \cap turns'[j].says = {}
    <3>1. \A a, b \in 1 .. n : a # b => turns[a].says \cap turns[b].says = {}
      BY <1>1 DEF TurnsApart, Said
    <3>2. CASE i \in 1 .. n /\ j \in 1 .. n
      BY <1>1, <2>2, <3>1, <3>2
    <3>3. CASE i \in 1 .. n /\ j = n + 1
      BY <1>1, <2>1, <3>3
    <3>4. CASE i = n + 1 /\ j \in 1 .. n
      BY <1>1, <2>1, <3>4
    <3> QED BY <1>2, <2>2, <3>2, <3>3, <3>4
  <2> QED BY <1>1, <2>2, Zenon DEF TurnsApart, Said
<1> QED BY <1>4, <1>5

\* A turn that changes phase says what it said.
LEMMA PhaseSettles ==
    ASSUME TypeOK, NEW t \in Turn, NEW p \in Phases, SetPhase(t, p)
    PROVE  Delivered' = Delivered /\ (TurnsApart => TurnsApart')
<1>1. turns \in Seq(TurnRecord) /\ t \in 1 .. Len(turns)
  BY DEF TypeOK, Turn
<1>2. \A k \in 1 .. Len(turns) : turns[k] \in TurnRecord
  BY <1>1
<1>3. Len(turns') = Len(turns)
  BY PhaseTyped
<1>4. ASSUME NEW k \in 1 .. Len(turns) PROVE turns'[k].says = turns[k].says
  BY <1>1, <1>2 DEF SetPhase, TurnRecord
<1>5. Turn' = Turn /\ Turn = 1 .. Len(turns)
  BY <1>3 DEF Turn
<1> QED BY <1>4, <1>5 DEF Delivered, TurnsApart, Said

\* Turns that are left alone keep what they said.
LEMMA TurnsUnchanged ==
    ASSUME turns' = turns
    PROVE  Delivered' = Delivered /\ (TurnsApart => TurnsApart')
<1>1. Turn' = Turn
  BY DEF Turn
<1>2. \A t \in Turn : Said(t)' = Said(t)
  BY DEF Said
<1>3. Delivered' = Delivered
  BY <1>1 DEF Delivered
<1>4. TurnsApart => TurnsApart'
  BY <1>1 DEF TurnsApart, Said
<1> QED BY <1>3, <1>4

\* Beginning a turn settles its text, and may flush the backlog.
LEMMA BeginSettles ==
    ASSUME TypeOK, SettledOnce,
           NEW texts \in SUBSET Utterance, NEW inb \in BOOLEAN, NEW others,
           NEW queue \in Seq(SUBSET Utterance),
           Clear(queue), Fresh(texts),
           BeginTurn(texts, inb, others, queue)
    PROVE  /\ Held' = deferred \cup Members(queue)
           /\ HeldOnce'
           /\ Settled' = Settled \cup texts
           /\ SettledOnce'
<1>1. deferred \in SUBSET Utterance
  BY DEF TypeOK
<1> USE DEF Clear, Fresh
<1>2. Held' = deferred \cup Members(queue) /\ HeldOnce'
  <2>1. CASE flushes' = queue /\ UNCHANGED deferred
    BY <2>1 DEF Held, HeldOnce
  <2>2. CASE flushes' = FlushedInto(queue) /\ deferred' = {}
    <3>1. /\ Members(flushes') = deferred \cup Members(queue)
          /\ Apart(flushes')
      BY <1>1, <2>2, FlushMoves
    <3> QED BY <2>2, <3>1 DEF Held, HeldOnce
  <2> QED BY <2>1, <2>2 DEF BeginTurn
<1>3. CASE TakeTurn(texts, inb, others)
  <2> DEFINE r == [says |-> texts, phase |-> "handing", inbound |-> inb]
  <2>1. r \in TurnRecord /\ r.says = texts
    BY DEF TurnRecord, Phases
  <2>2. turns' = Append(turns, r) /\ discarded' = discarded
    BY <1>3 DEF TakeTurn
  <2> HIDE DEF r
  <2>3. Delivered' = Delivered \cup texts /\ TurnsApart'
    BY <2>1, <2>2, TurnSettles DEF SettledOnce, Settled
  <2> QED BY <1>2, <2>2, <2>3 DEF Settled, SettledOnce
<1>4. CASE LoseTurn(texts, others)
  <2> DEFINE r == [says |-> {}, phase |-> "over", inbound |-> FALSE]
  <2>1. r \in TurnRecord /\ r.says = {}
    BY DEF TurnRecord, Phases
  <2>2. turns' = Append(turns, r) /\ discarded' = discarded \cup texts
    BY <1>4 DEF LoseTurn
  <2> HIDE DEF r
  <2>3. Delivered' = Delivered /\ TurnsApart'
    BY <2>1, <2>2, TurnSettles DEF SettledOnce, Settled
  <2> QED BY <1>2, <2>2, <2>3 DEF Settled, SettledOnce
<1> QED BY <1>3, <1>4 DEF BeginTurn

\* A dispatched text is held back or settled, and nothing else moves between
\* the two.
LEMMA DispatchPlaces ==
    ASSUME TypeOK, HeldOnce, SettledOnce, Held \cap Settled = {},
           NEW texts \in SUBSET Utterance, NEW inb \in BOOLEAN,
           texts \cap Held = {}, texts \cap Settled = {},
           DispatchText(texts, inb)
    PROVE  /\ Held' \cup Settled' = Held \cup Settled \cup texts
           /\ Held' \cap Settled' = {}
           /\ HeldOnce'
           /\ SettledOnce'
<1>1. CASE Defer(texts)
  <2>1. /\ deferred' = deferred \cup texts /\ flushes' = flushes
        /\ turns' = turns /\ discarded' = discarded
    BY <1>1 DEF Defer, ghostVars
  <2>2. Held' = Held \cup texts /\ HeldOnce'
    BY <2>1 DEF Held, HeldOnce
  <2>3. Delivered' = Delivered /\ (TurnsApart => TurnsApart')
    BY <2>1, TurnsUnchanged
  <2> QED BY <2>1, <2>2, <2>3 DEF Settled, SettledOnce
<1>2. ASSUME NEW others, BeginTurn(texts, inb, others, flushes)
      PROVE  /\ Held' \cup Settled' = Held \cup Settled \cup texts
             /\ Held' \cap Settled' = {}
             /\ HeldOnce'
             /\ SettledOnce'
  <2>1. flushes \in Seq(SUBSET Utterance)
    BY DEF TypeOK
  <2>2. Clear(flushes) /\ Fresh(texts)
    BY DEF HeldOnce, Clear, Fresh
  <2>3. /\ Held' = deferred \cup Members(flushes) /\ HeldOnce'
        /\ Settled' = Settled \cup texts /\ SettledOnce'
    <3>1. TypeOK /\ SettledOnce
      OBVIOUS
    <3>2. BeginTurn(texts, inb, others, flushes)
      BY <1>2
    <3>3. \A q \in Seq(SUBSET Utterance) :
              Clear(q) /\ BeginTurn(texts, inb, others, q)
              => /\ Held' = deferred \cup Members(q) /\ HeldOnce'
                 /\ Settled' = Settled \cup texts /\ SettledOnce'
      BY <2>2, <3>1, BeginSettles
    <3> QED BY <2>1, <2>2, <3>2, <3>3
  <2> QED BY <2>3 DEF Held
<1> QED BY <1>1, <1>2 DEF DispatchText

\* A queue of captures that is left alone, grows at its end or loses its head.
LEMMA CapturesUnchanged ==
    ASSUME stt' = stt
    PROVE  Transcribing' = Transcribing /\ (TranscribedOnce => TranscribedOnce')
BY DEF Transcribing, TranscribedOnce

\* A capture that arrives is transcribed behind the others.
LEMMA CaptureQueued ==
    ASSUME TypeOK, TranscribedOnce,
           NEW a \in Clips, a \notin Transcribing, stt' = Append(stt, a)
    PROVE  Transcribing' = Transcribing \cup {a} /\ TranscribedOnce'
<1> DEFINE n == Len(stt)
<1>1. /\ n \in Nat
      /\ DOMAIN stt = 1 .. n
      /\ DOMAIN stt' = 1 .. n + 1
      /\ \A i \in 1 .. n : stt'[i] = stt[i]
      /\ stt'[n + 1] = a
  BY DEF TypeOK
<1> HIDE DEF n
<1>2. /\ \A i \in 1 .. n + 1 : i \in 1 .. n \/ i = n + 1
      /\ 1 .. n \subseteq 1 .. n + 1 /\ n + 1 \in 1 .. n + 1
  BY <1>1
<1>3. Transcribing' = Transcribing \cup {a}
  <2>1. ASSUME NEW x \in Transcribing' PROVE x \in Transcribing \cup {a}
    BY <1>1, <1>2 DEF Transcribing
  <2>2. ASSUME NEW x \in Transcribing \cup {a} PROVE x \in Transcribing'
    BY <1>1, <1>2 DEF Transcribing
  <2> QED BY <2>1, <2>2
<1>4. ASSUME NEW i \in 1 .. n + 1, NEW j \in 1 .. n + 1, i # j
      PROVE  stt'[i] # stt'[j]
  <2>1. \A k \in 1 .. n : stt[k] # a
    BY <1>1 DEF Transcribing
  <2>2. \A k, l \in 1 .. n : k # l => stt[k] # stt[l]
    BY <1>1 DEF TranscribedOnce
  <2> QED BY <1>1, <1>2, <1>4, <2>1, <2>2
<1>5. TranscribedOnce'
  BY <1>1, <1>4 DEF TranscribedOnce
<1> QED BY <1>3, <1>5

\* The capture transcribed first leaves the queue, once.
LEMMA CaptureLeaves ==
    ASSUME TypeOK, TranscribedOnce, stt # <<>>, stt' = Tail(stt)
    PROVE  /\ Head(stt) \in Transcribing
           /\ Transcribing' = Transcribing \ {Head(stt)}
           /\ TranscribedOnce'
<1> DEFINE n == Len(stt)
           h == Head(stt)
<1>1. /\ n \in Nat \ {0}
      /\ DOMAIN stt = 1 .. n
      /\ DOMAIN stt' = 1 .. n - 1
      /\ \A i \in 1 .. n - 1 : stt'[i] = stt[i + 1]
      /\ h = stt[1]
  BY DEF TypeOK
<1> HIDE DEF n, h
<1>2. /\ \A i \in 1 .. n : i = 1 \/ (i - 1 \in 1 .. n - 1 /\ stt[i] = stt'[i - 1])
      /\ \A i \in 1 .. n - 1 : i + 1 \in 1 .. n /\ i + 1 # 1
      /\ 1 \in 1 .. n
  BY <1>1
<1>3. h \in Transcribing
  BY <1>1, <1>2 DEF Transcribing
<1>4. Transcribing' = Transcribing \ {h}
  <2>1. ASSUME NEW x \in Transcribing' PROVE x \in Transcribing \ {h}
    <3>1. PICK i \in 1 .. n - 1 : x = stt'[i]
      BY <1>1 DEF Transcribing
    <3>2. x = stt[i + 1] /\ i + 1 \in 1 .. n /\ i + 1 # 1
      BY <1>1, <1>2, <3>1
    <3>3. x # h
      BY <1>1, <1>2, <3>2 DEF TranscribedOnce
    <3> QED BY <1>1, <3>2, <3>3 DEF Transcribing
  <2>2. ASSUME NEW x \in Transcribing \ {h} PROVE x \in Transcribing'
    <3>1. PICK i \in 1 .. n : x = stt[i]
      BY <1>1 DEF Transcribing
    <3>2. i # 1
      BY <1>1, <2>2, <3>1
    <3> QED BY <1>1, <1>2, <3>1, <3>2 DEF Transcribing
  <2> QED BY <2>1, <2>2
<1>5. TranscribedOnce'
  <2>1. ASSUME NEW i \in 1 .. n - 1, NEW j \in 1 .. n - 1, i # j
        PROVE  stt'[i] # stt'[j]
    <3>1. i + 1 \in 1 .. n /\ j + 1 \in 1 .. n /\ i + 1 # j + 1
      BY <1>1, <1>2, <2>1
    <3> QED BY <1>1, <3>1 DEF TranscribedOnce
  <2> QED BY <1>1, <2>1 DEF TranscribedOnce
<1> QED BY <1>3, <1>4, <1>5 DEF h

-----------------------------------------------------------------------------
(* The steps, by what they move.                                           *)

\* A text that has just arrived, or left the transcription, is dispatched.
LEMMA DispatchKeepsFate ==
    ASSUME TypeOK, FateInv, NEW u \in Utterance, NEW inb \in BOOLEAN,
           DispatchText({u}, inb),
           \/ u \notin arrived /\ arrived' = arrived \cup {u} /\ stt' = stt
           \/ /\ u \in Transcribing /\ arrived' = arrived
              /\ Transcribing' = Transcribing \ {u} /\ TranscribedOnce'
    PROVE  FateInv'
<1> DEFINE texts == {u}
<1>1. /\ texts \in SUBSET Utterance
      /\ texts \cap Held = {} /\ texts \cap Settled = {}
      /\ HeldOnce /\ SettledOnce /\ Held \cap Settled = {}
      /\ DispatchText(texts, inb)
  BY DEF FateInv
<1> HIDE DEF texts
<1>2. /\ Held' \cup Settled' = Held \cup Settled \cup texts
      /\ Held' \cap Settled' = {} /\ HeldOnce' /\ SettledOnce'
  BY <1>1, DispatchPlaces
<1>3. /\ TranscribedOnce'
      /\ Transcribing' \cap texts = {}
      /\ Transcribing' \subseteq Transcribing
      /\ arrived' = Held \cup Settled \cup Transcribing' \cup texts
  BY CapturesUnchanged DEF FateInv, texts
<1> QED BY <1>2, <1>3 DEF FateInv

\* An utterance that is dropped when it arrives.
LEMMA DropKeepsFate ==
    ASSUME FateInv, NEW u, u \notin arrived, arrived' = arrived \cup {u},
           discarded' = discarded \cup {u},
           UNCHANGED <<deferred, flushes, stt, turns>>
    PROVE  FateInv'
<1>1. Held' = Held /\ HeldOnce'
  BY DEF FateInv, Held, HeldOnce
<1>2. Transcribing' = Transcribing /\ TranscribedOnce'
  BY CapturesUnchanged DEF FateInv
<1>3. Delivered' = Delivered /\ TurnsApart'
  BY TurnsUnchanged DEF FateInv, SettledOnce
<1>4. u \notin Settled
  BY DEF FateInv
<1>5. Settled' = Settled \cup {u} /\ SettledOnce'
  BY <1>3, <1>4 DEF Settled, SettledOnce, FateInv
<1> QED BY <1>1, <1>2, <1>5 DEF FateInv

\* A step that moves nothing between the places.
LEMMA NothingMoves ==
    ASSUME FateInv, Held' = Held, HeldOnce', Delivered' = Delivered, TurnsApart',
           UNCHANGED <<stt, discarded, arrived>>
    PROVE  FateInv'
<1>1. Transcribing' = Transcribing /\ TranscribedOnce'
  BY CapturesUnchanged DEF FateInv
<1>2. Settled' = Settled /\ SettledOnce'
  BY DEF FateInv, Settled, SettledOnce
<1> QED BY <1>1, <1>2 DEF FateInv

\* A backlog that is left alone stays where it is.
LEMMA HeldUnchanged ==
    ASSUME deferred' = deferred, flushes' = flushes
    PROVE  Held' = Held /\ (HeldOnce => HeldOnce')
BY DEF Held, HeldOnce

\* A scheduled flush: the oldest text becomes a turn or is lost for good.
LEMMA FlushKeepsFate ==
    ASSUME TypeOK, FateInv, FlushDeferred
    PROVE  FateInv'
<1> DEFINE texts == Head(flushes)
           queue == Tail(flushes)
<1>1. flushes \in Seq(SUBSET Utterance) /\ flushes # <<>>
  BY DEF TypeOK, FlushDeferred
<1>2. texts \in SUBSET Utterance /\ queue \in Seq(SUBSET Utterance)
  BY <1>1
<1>3. /\ Members(flushes) = texts \cup Members(queue)
      /\ texts \cap Members(queue) = {} /\ Apart(queue)
  BY <1>1, TailMembers DEF FateInv, HeldOnce
<1>4. BeginTurn(texts, FALSE, open, queue) /\ stt' = stt /\ arrived' = arrived
  BY DEF FlushDeferred, inputVars
<1> HIDE DEF texts, queue
<1>5. Clear(queue) /\ Fresh(texts) /\ SettledOnce
  BY <1>3 DEF Clear, Fresh, FateInv, HeldOnce, Held
<1>6. /\ Held' = deferred \cup Members(queue) /\ HeldOnce'
      /\ Settled' = Settled \cup texts /\ SettledOnce'
  <2>1. \A others : BeginTurn(texts, FALSE, others, queue)
            => /\ Held' = deferred \cup Members(queue) /\ HeldOnce'
               /\ Settled' = Settled \cup texts /\ SettledOnce'
    BY <1>2, <1>5, BeginSettles
  <2> QED BY <1>4, <2>1
<1>7. Transcribing' = Transcribing /\ TranscribedOnce'
  BY <1>4, CapturesUnchanged DEF FateInv
<1>8. Held = deferred \cup texts \cup Members(queue) /\ deferred \cap texts = {}
  BY <1>3 DEF Held, FateInv, HeldOnce
<1>9. /\ arrived = Held \cup Transcribing \cup Settled
      /\ Held \cap Transcribing = {} /\ Held \cap Settled = {}
      /\ Transcribing \cap Settled = {}
  BY DEF FateInv
<1>10. /\ arrived' = Held' \cup Transcribing' \cup Settled'
       /\ Held' \cap Transcribing' = {} /\ Held' \cap Settled' = {}
       /\ Transcribing' \cap Settled' = {}
  BY <1>3, <1>4, <1>6, <1>7, <1>8, <1>9
<1> QED BY <1>6, <1>7, <1>10 DEF FateInv

\* An interrupt drops the backlog, and no scheduled flush.
LEMMA InterruptKeepsFate ==
    ASSUME FateInv, InterruptEnds
    PROVE  FateInv'
<1>1. /\ deferred' = {} /\ flushes' = flushes /\ turns' = turns /\ stt' = stt
      /\ discarded' = discarded \cup deferred /\ arrived' = arrived
  BY DEF InterruptEnds
<1>2. Held' = Members(flushes) /\ HeldOnce'
  BY <1>1 DEF FateInv, Held, HeldOnce
<1>3. Transcribing' = Transcribing /\ TranscribedOnce'
  BY <1>1, CapturesUnchanged DEF FateInv
<1>4. Delivered' = Delivered /\ TurnsApart'
  BY <1>1, TurnsUnchanged DEF FateInv, SettledOnce
<1>5. Settled' = Settled \cup deferred
  BY <1>1, <1>4 DEF Settled
<1>6. Held = deferred \cup Members(flushes) /\ deferred \cap Members(flushes) = {}
  BY DEF Held, FateInv, HeldOnce
<1>7. SettledOnce'
  BY <1>1, <1>4, <1>6 DEF SettledOnce, Settled, FateInv
<1> QED BY <1>1, <1>2, <1>3, <1>5, <1>6, <1>7 DEF FateInv

\* Every step leaves each utterance in exactly one place.
LEMMA FateStep ==
    ASSUME TypeOK, FateInv, [Next]_vars
    PROVE  FateInv'
<1>1. ASSUME NEW c \in Commands, ReceiveCommand(c) PROVE FateInv'
  <2>1. /\ c \in Utterance /\ c \notin arrived /\ arrived' = arrived \cup {c}
        /\ DispatchText({c}, TRUE) /\ stt' = stt
    BY <1>1 DEF ReceiveCommand, Arrives, Utterance
  <2> QED BY <2>1, DispatchKeepsFate
<1>2. ASSUME NEW c \in Commands, ReceiveBlank(c) \/ ReceiveReset(c) PROVE FateInv'
  BY <1>2, DropKeepsFate DEF ReceiveBlank, ReceiveReset, Arrives, guardVars
<1>3. ASSUME NEW p \in Taps, ReceiveTap(p) PROVE FateInv'
  <2>1. /\ p \in Utterance /\ p \notin arrived /\ arrived' = arrived \cup {p}
        /\ DispatchText({p}, TRUE) /\ stt' = stt
    BY <1>3 DEF ReceiveTap, Arrives, Utterance
  <2> QED BY <2>1, DispatchKeepsFate
<1>4. ASSUME NEW a \in Clips, ReceiveAudio(a) PROVE FateInv'
  <2>1. /\ a \notin arrived /\ arrived' = arrived \cup {a}
        /\ stt' = Append(stt, a) /\ turns' = turns /\ discarded' = discarded
        /\ deferred' = deferred /\ flushes' = flushes
    BY <1>4 DEF ReceiveAudio, Arrives, guardVars, ghostVars
  <2>2. a \notin Transcribing /\ a \notin Held /\ a \notin Settled
    BY <2>1 DEF FateInv
  <2>3. Transcribing' = Transcribing \cup {a} /\ TranscribedOnce'
    BY <2>1, <2>2, CaptureQueued DEF FateInv
  <2>4. Held' = Held /\ HeldOnce'
    BY <2>1, HeldUnchanged DEF FateInv
  <2>5. Settled' = Settled /\ SettledOnce'
    BY <2>1, TurnsUnchanged DEF FateInv, Settled, SettledOnce
  <2> QED BY <2>1, <2>2, <2>3, <2>4, <2>5 DEF FateInv
<1>5. CASE ReceiveInterrupt \/ ResetEnds \/ LockExpires \/ AckFires \/ UNCHANGED vars
  <2>1. UNCHANGED <<deferred, flushes, turns, discarded, arrived, stt>>
    BY <1>5 DEF ReceiveInterrupt, ResetEnds, LockExpires, AckFires, vars,
                guardVars, inputVars, ghostVars
  <2> QED BY <2>1, HeldUnchanged, TurnsUnchanged, NothingMoves DEF FateInv, SettledOnce
<1>6. CASE InterruptEnds
  BY <1>6, InterruptKeepsFate
<1>7. CASE Transcribed
  <2>1. /\ stt # <<>> /\ stt' = Tail(stt) /\ DispatchText({Head(stt)}, FALSE)
        /\ arrived' = arrived
    BY <1>7 DEF Transcribed
  <2>2. Head(stt) \in Utterance
    BY <2>1 DEF TypeOK, Utterance
  <2>3. /\ Head(stt) \in Transcribing /\ TranscribedOnce'
        /\ Transcribing' = Transcribing \ {Head(stt)}
    BY <2>1, CaptureLeaves DEF FateInv
  <2> QED BY <2>1, <2>2, <2>3, DispatchKeepsFate
<1>8. CASE TranscriptHeld
  <2>1. /\ stt # <<>> /\ stt' = Tail(stt) /\ discarded' = discarded \cup {Head(stt)}
        /\ UNCHANGED <<deferred, flushes, turns, arrived>>
    BY <1>8 DEF TranscriptHeld, guardVars
  <2>2. /\ Head(stt) \in Transcribing /\ TranscribedOnce'
        /\ Transcribing' = Transcribing \ {Head(stt)}
    BY <2>1, CaptureLeaves DEF FateInv
  <2>3. Held' = Held /\ HeldOnce'
    BY <2>1, HeldUnchanged DEF FateInv
  <2>4. Delivered' = Delivered /\ TurnsApart'
    BY <2>1, TurnsUnchanged DEF FateInv, SettledOnce
  <2>5. Settled' = Settled \cup {Head(stt)}
    BY <2>1, <2>4 DEF Settled
  <2>6. SettledOnce'
    BY <2>1, <2>2, <2>4 DEF SettledOnce, Settled, FateInv
  <2> QED BY <2>1, <2>2, <2>3, <2>5, <2>6 DEF FateInv
<1>9. CASE FlushDeferred
  BY <1>9, FlushKeepsFate
<1>10. ASSUME NEW t \in Turn, HandOverReturns(t) \/ AgentEnds(t) PROVE FateInv'
  <2>1. \E p \in Phases : SetPhase(t, p)
    BY <1>10 DEF HandOverReturns, AgentEnds, Phases
  <2>2. Delivered' = Delivered /\ TurnsApart'
    BY <2>1, PhaseSettles DEF FateInv, SettledOnce
  <2>3. UNCHANGED <<deferred, flushes, discarded, arrived, stt>>
    BY <1>10 DEF HandOverReturns, AgentEnds, guardVars, inputVars
  <2> QED BY <2>2, <2>3, HeldUnchanged, NothingMoves DEF FateInv
<1>11. ASSUME NEW t \in Turn, HandOverRaises(t) PROVE FateInv'
  <2>1. \E p \in Phases : SetPhase(t, p)
    BY <1>11 DEF HandOverRaises, Phases
  <2>2. Delivered' = Delivered /\ TurnsApart'
    BY <2>1, PhaseSettles DEF FateInv, SettledOnce
  <2>3. Release /\ UNCHANGED <<discarded, arrived, stt>>
    BY <1>11 DEF HandOverRaises, inputVars
  <2> QED BY <2>2, <2>3, ReleaseHolds, NothingMoves DEF FateInv
<1>12. ASSUME NEW t \in Turn, SendText(t) \/ SendPanel(t) PROVE FateInv'
  <2>1. Release /\ UNCHANGED <<turns, discarded, arrived, stt>>
    BY <1>12 DEF SendText, SendPanel, inputVars
  <2> QED BY <2>1, ReleaseHolds, TurnsUnchanged, NothingMoves DEF FateInv, SettledOnce
<1>13. CASE WatchFires
  <2>1. UNCHANGED <<turns, discarded, arrived, stt>>
    BY <1>13 DEF WatchFires, inputVars
  <2>2. Release \/ UNCHANGED <<deferred, flushes>>
    BY <1>13 DEF WatchFires
  <2>3. Held' = Held /\ HeldOnce'
    BY <2>2, ReleaseHolds, HeldUnchanged DEF FateInv
  <2> QED BY <2>1, <2>3, TurnsUnchanged, NothingMoves DEF FateInv, SettledOnce
<1> QED
  BY <1>1, <1>2, <1>3, <1>4, <1>5, <1>6, <1>7, <1>8, <1>9, <1>10, <1>11, <1>12,
     <1>13 DEF Next

\* Nothing has arrived yet.
LEMMA FateInit == Init => FateInv
<1> SUFFICES ASSUME Init PROVE FateInv
  OBVIOUS
<1>1. /\ deferred = {} /\ flushes = <<>> /\ stt = <<>> /\ turns = <<>>
      /\ arrived = {} /\ discarded = {}
  BY DEF Init
<1>2. Held = {} /\ HeldOnce
  BY <1>1 DEF Held, HeldOnce, Members, Apart
<1>3. Transcribing = {} /\ TranscribedOnce
  BY <1>1 DEF Transcribing, TranscribedOnce
<1>4. Settled = {} /\ SettledOnce
  BY <1>1 DEF Settled, SettledOnce, Delivered, TurnsApart, Turn
<1> QED BY <1>1, <1>2, <1>3, <1>4 DEF FateInv

\* Each utterance has one fate, in every reachable state.
LEMMA FateInductive == Spec => []FateInv
<1>1. TypeOK /\ FateInv /\ [Next]_vars => FateInv'
  BY FateStep
<1> QED BY <1>1, FateInit, TypeCorrect, PTL DEF Spec

\* Nothing the user said is lost in the adapter: what arrived is waiting, was
\* handed to the agent, or was discarded on purpose (a blank text, a reset
\* command, an unusable transcript, an interrupt, a turn given up).
THEOREM NothingIsLost == Spec => []NothingLost
<1>1. FateInv => NothingLost
  BY DEF FateInv, Held, Settled, NothingLost, Waiting, Members
<1> QED BY <1>1, FateInductive, PTL

\* No utterance is handed to the agent twice, nor after it was discarded,
\* however retries, flushes, timeouts and interrupts interleave.
THEOREM DeliveredAtMostOnce == Spec => []DeliveredOnce
<1>1. FateInv => DeliveredOnce
  BY DEF FateInv, Held, Settled, SettledOnce, TurnsApart, DeliveredOnce,
         Waiting, Members
<1> QED BY <1>1, FateInductive, PTL

-----------------------------------------------------------------------------
(* Replies and the ids they go out under.                                  *)

Spent(c) == \E i \in DOMAIN replies : replies[i] = c

AnswerInv ==
    /\ AnsweredOnce
    /\ \A c : Spent(c) => c \in arrived
    /\ pendingI # NoCommand => pendingI \in arrived /\ ~Spent(pendingI)

\* A step that sends no reply, and sets the pending id to none or to that of a
\* command that has just arrived.
LEMMA NoReply ==
    ASSUME AnswerInv, replies' = replies, arrived \subseteq arrived',
           \/ pendingI' = pendingI \/ pendingI' = NoCommand
           \/ pendingI' \in arrived' \ arrived
    PROVE  AnswerInv'
<1>1. \A c : Spent(c)' <=> Spent(c)
  BY DEF Spent
<1>2. AnsweredOnce'
  BY DEF AnswerInv, AnsweredOnce
<1>3. \A c : Spent(c)' => c \in arrived'
  BY <1>1 DEF AnswerInv
<1>4. pendingI' # NoCommand => pendingI' \in arrived' /\ ~Spent(pendingI)'
  BY <1>1 DEF AnswerInv, Spent
<1> QED BY <1>2, <1>3, <1>4 DEF AnswerInv, Spent

\* A text reply spends the pending id, if there is one, and clears it.
LEMMA ReplySpends ==
    ASSUME TypeOK, AnswerInv, NEW t \in Turn, SendText(t)
    PROVE  AnswerInv'
<1>1. pendingI' = NoCommand /\ arrived' = arrived
  BY DEF SendText
<1>2. CASE pendingI = NoCommand
  BY <1>1, <1>2, NoReply DEF SendText
<1>3. CASE pendingI # NoCommand
  <2>1. /\ replies' = Append(replies, pendingI)
        /\ replies \in Seq(Commands) /\ pendingI \in Commands
    BY <1>3 DEF SendText, TypeOK
  <2>2. /\ DOMAIN replies = 1 .. Len(replies) /\ Len(replies) \in Nat
        /\ DOMAIN replies' = 1 .. Len(replies) + 1
        /\ \A i \in DOMAIN replies : replies'[i] = replies[i]
        /\ replies'[Len(replies) + 1] = pendingI
    BY <2>1
  <2>3. pendingI \in arrived /\ \A i \in DOMAIN replies : replies[i] # pendingI
    BY <1>3 DEF AnswerInv, Spent
  <2>4. \A i \in DOMAIN replies' : i \in DOMAIN replies \/ i = Len(replies) + 1
    BY <2>2
  <2>5. AnsweredOnce'
    BY <2>2, <2>3, <2>4 DEF AnswerInv, AnsweredOnce
  <2>6. \A i \in DOMAIN replies' : replies'[i] \in arrived'
    BY <1>1, <2>2, <2>3, <2>4 DEF AnswerInv, Spent
  <2> QED BY <1>1, <2>5, <2>6 DEF AnswerInv, Spent
<1> QED BY <1>2, <1>3

\* Every step keeps the ids apart.
LEMMA AnswerStep ==
    ASSUME TypeOK, AnswerInv, [Next]_vars
    PROVE  AnswerInv'
<1>1. ASSUME NEW c \in Commands, ReceiveCommand(c) PROVE AnswerInv'
  <2>1. /\ {c} \in SUBSET Utterance /\ DispatchText({c}, TRUE)
        /\ pendingI' = c /\ c \notin arrived /\ arrived' = arrived \cup {c}
    BY <1>1 DEF ReceiveCommand, Arrives, Utterance
  <2>2. replies' = replies
    BY <2>1, DispatchTyped
  <2> QED BY <2>1, <2>2, NoReply
<1>2. ASSUME NEW c \in Commands, ReceiveBlank(c) \/ ReceiveReset(c) PROVE AnswerInv'
  <2>1. /\ arrived' = arrived \cup {c} /\ c \notin arrived /\ replies' = replies
        /\ pendingI' = NoCommand \/ pendingI' = c
    BY <1>2 DEF ReceiveBlank, ReceiveReset, Arrives
  <2> QED BY <2>1, NoReply
<1>3. ASSUME NEW p \in Taps, ReceiveTap(p) PROVE AnswerInv'
  <2>1. /\ {p} \in SUBSET Utterance /\ DispatchText({p}, TRUE)
        /\ pendingI' = pendingI /\ arrived' = arrived \cup {p}
    BY <1>3 DEF ReceiveTap, Arrives, Utterance
  <2>2. replies' = replies
    BY <2>1, DispatchTyped
  <2> QED BY <2>1, <2>2, NoReply
<1>4. ASSUME NEW a \in Clips, ReceiveAudio(a) PROVE AnswerInv'
  BY <1>4, NoReply DEF ReceiveAudio, Arrives, ghostVars
<1>5. CASE ReceiveInterrupt \/ InterruptEnds \/ ResetEnds \/ TranscriptHeld
           \/ LockExpires \/ WatchFires \/ AckFires \/ UNCHANGED vars
  <2>1. /\ replies' = replies /\ arrived' = arrived
        /\ pendingI' = pendingI \/ pendingI' = NoCommand
    BY <1>5 DEF ReceiveInterrupt, InterruptEnds, ResetEnds, TranscriptHeld,
                LockExpires, WatchFires, AckFires, vars, inputVars, ghostVars
  <2> QED BY <2>1, NoReply
<1>6. CASE Transcribed
  <2>1. /\ stt # <<>> /\ DispatchText({Head(stt)}, FALSE)
        /\ pendingI' = pendingI /\ arrived' = arrived
    BY <1>6 DEF Transcribed
  <2>2. {Head(stt)} \in SUBSET Utterance
    BY <2>1 DEF TypeOK, Utterance
  <2>3. replies' = replies
    BY <2>1, <2>2, DispatchTyped
  <2> QED BY <2>1, <2>3, NoReply
<1>7. CASE FlushDeferred
  <2>1. /\ \E texts, queue : BeginTurn(texts, FALSE, open, queue)
        /\ pendingI' = pendingI /\ arrived' = arrived
    BY <1>7 DEF FlushDeferred, inputVars
  <2>2. replies' = replies
    BY <2>1 DEF BeginTurn, TakeTurn, LoseTurn
  <2> QED BY <2>1, <2>2, NoReply
<1>8. ASSUME NEW t \in Turn,
             \/ HandOverReturns(t) \/ HandOverRaises(t)
             \/ SendPanel(t) \/ AgentEnds(t)
      PROVE  AnswerInv'
  <2>1. replies' = replies /\ arrived' = arrived /\ pendingI' = pendingI
    BY <1>8 DEF HandOverReturns, HandOverRaises, SendPanel, AgentEnds, inputVars
  <2> QED BY <2>1, NoReply
<1>9. ASSUME NEW t \in Turn, SendText(t) PROVE AnswerInv'
  BY <1>9, ReplySpends
<1> QED
  BY <1>1, <1>2, <1>3, <1>4, <1>5, <1>6, <1>7, <1>8, <1>9 DEF Next

\* No two replies go out under the id of one request: the phone forgets an id
\* with the first reply, and would take a second one for a push.
THEOREM RepliesAreUnique == Spec => []AnsweredOnce
<1>1. Init => AnswerInv
  BY DEF Init, AnswerInv, AnsweredOnce, Spent
<1>2. TypeOK /\ AnswerInv /\ [Next]_vars => AnswerInv'
  BY AnswerStep
<1>3. AnswerInv => AnsweredOnce
  BY DEF AnswerInv
<1> QED BY <1>1, <1>2, <1>3, TypeCorrect, PTL DEF Spec

=============================================================================
