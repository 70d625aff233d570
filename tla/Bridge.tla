------------------------------- MODULE Bridge -------------------------------
(***************************************************************************)
(* The adapter's end of the loopback bridge to the sidecar, and the queue   *)
(* that holds what the phone should see while the bridge is down            *)
(* (vendor/hermes-plugin/adapter.py): _run_sidecar spawns a sidecar and a    *)
(* _connect_bridge task with it, each such task connects, flushes the queue, *)
(* reads until its socket goes away and connects again, and _send_to_sidecar *)
(* writes, holds or drops, by what the adapter believes of the bridge.       *)
(*                                                                         *)
(* A bridge task has one socket at a time, so a socket is named by its task. *)
(* Only durable messages (replies and pushes) are numbered; a status or      *)
(* speech that is dropped leaves no state behind.  Time is the one bit the   *)
(* code looks at: whether a held message is older than the age limit.        *)
(*                                                                         *)
(* A write to a socket whose peer has gone does not raise: the message is    *)
(* gone with it.  A write that raises (a payload json.dumps refuses, a       *)
(* transport that objects) changes nothing but the queue, and may leave the  *)
(* socket as it was or closing.  The flush is one loop without an await: the *)
(* rest of the adapter waits for it, the sidecar and the link do not.        *)
(***************************************************************************)
EXTENDS Integers, Sequences, Functions

CONSTANTS
  MaxMessages,  \* bound: durable messages sent
  MaxSpawns,    \* bound: sidecars spawned, the last of which stays up
  QueueMax      \* _OUTBOUND_QUEUE_MAX

ASSUME BoundsAreCounts ==
  MaxMessages \in Nat /\ MaxSpawns \in Nat \ {0} /\ QueueMax \in Nat \ {0}

Tasks == 1..MaxSpawns
NoTask == 0

VARIABLES
  proc,       \* self._proc: "none", "running", or "exited" (not yet reaped)
  spawns,     \* sidecars spawned so far; spawn n starts bridge task n
  phase,      \* where each bridge task stands
  sock,       \* each task's socket: the peer reads it, is gone, or it is closing
  writer,     \* self._writer (and _reader): the task whose socket it is
  connected,  \* self._connected
  queue,      \* self._outbound_q
  held,       \* what the loop of _flush_outbound has yet to look at
  notes,      \* self._undelivered
  offered,    \* history: durable messages passed to _send_to_sidecar
  delivered,  \* history: messages a sidecar read, in order
  vanished,   \* history: messages written to a socket nobody reads
  evicted,    \* history: messages the bounded queue pushed out
  told,       \* history: losses reported to the agent
  raised      \* history: messages of which a write raised

bridgeVars  == <<proc, spawns, phase, sock, writer, connected>>
messageVars == <<queue, held, notes, offered, delivered, vanished, evicted, told, raised>>
vars == <<bridgeVars, messageVars>>

Held == [id : 1..MaxMessages, aged : BOOLEAN]

TypeOK ==
  /\ proc \in {"none", "running", "exited"}
  /\ spawns \in 0..MaxSpawns
  /\ phase \in [Tasks -> {"unborn", "asleep", "connecting", "reading", "done"}]
  /\ sock \in [Tasks -> {"none", "live", "dead", "closing"}]
  /\ writer \in Tasks \cup {NoTask}
  /\ connected \in BOOLEAN
  /\ queue \in Seq(Held) /\ held \in Seq(Held)
  /\ Len(queue) + Len(held) <= QueueMax
  /\ notes \in Seq(1..MaxMessages)
  /\ offered \in 0..MaxMessages
  /\ delivered \in Seq(1..MaxMessages)
  /\ vanished \subseteq 1..MaxMessages
  /\ evicted \subseteq 1..MaxMessages
  /\ told \in Seq(1..MaxMessages)
  /\ raised \subseteq 1..MaxMessages

Init ==
  /\ proc = "none"
  /\ spawns = 0
  /\ phase = [t \in Tasks |-> "unborn"]
  /\ sock = [t \in Tasks |-> "none"]
  /\ writer = NoTask
  /\ connected = FALSE
  /\ queue = <<>>
  /\ held = <<>>
  /\ notes = <<>>
  /\ offered = 0
  /\ delivered = <<>>
  /\ vanished = {}
  /\ evicted = {}
  /\ told = <<>>
  /\ raised = {}

Ids(list) == [i \in DOMAIN list |-> list[i].id]

\* No flush is under way: the event loop may run something else.
LoopFree == held = <<>>

-----------------------------------------------------------------------------
(* Supervision: _run_sidecar.                                               *)

Spawn ==
  /\ LoopFree
  /\ proc = "none"
  /\ spawns < MaxSpawns
  /\ proc' = "running"
  /\ spawns' = spawns + 1
  /\ phase' = [phase EXCEPT ![spawns + 1] = "asleep"]
  /\ UNCHANGED <<sock, writer, connected, messageVars>>

\* The process dies and every socket to it with it; nobody has noticed yet.
SidecarExits ==
  /\ proc = "running"
  /\ spawns < MaxSpawns
  /\ proc' = "exited"
  /\ sock' = [t \in Tasks |-> IF sock[t] = "live" THEN "dead" ELSE sock[t]]
  /\ UNCHANGED <<spawns, phase, writer, connected, messageVars>>

\* proc.wait() returns: the finally clause forgets the process and the bridge.
Reap ==
  /\ LoopFree
  /\ proc = "exited"
  /\ proc' = "none"
  /\ connected' = FALSE
  /\ UNCHANGED <<spawns, phase, sock, writer, messageVars>>

-----------------------------------------------------------------------------
(* A bridge task: _connect_bridge and _consume_inbound.                     *)

\* The head of the loop, on start and after the back-off.
LoopHead(t) ==
  /\ LoopFree
  /\ phase[t] = "asleep"
  /\ phase' = [phase EXCEPT ![t] = IF proc = "running" THEN "connecting" ELSE "done"]
  /\ UNCHANGED <<proc, spawns, sock, writer, connected, messageVars>>

\* The way out of a connection, whatever ended it: finally, and the back-off.
LeaveBridge(t) ==
  /\ connected' = FALSE
  /\ phase' = [phase EXCEPT ![t] = "asleep"]

ConnectFails(t) ==
  /\ LoopFree
  /\ phase[t] = "connecting"
  /\ LeaveBridge(t)
  /\ UNCHANGED <<proc, spawns, sock, writer, messageVars>>

\* Mutant: _connected is not set by a reconnect.
AdoptUnnoticed(t, state) ==
  /\ LoopFree
  /\ phase[t] = "connecting"
  /\ phase' = [phase EXCEPT ![t] = "reading"]
  /\ sock' = [sock EXCEPT ![t] = state]
  /\ writer' = t
  /\ connected' = connected
  /\ held' = queue
  /\ queue' = <<>>
  /\ UNCHANGED <<proc, spawns, notes, offered, delivered, vanished, evicted, told, raised>>

\* open_connection and drain are over: the task's socket becomes the bridge, and
\* the flush takes the whole queue to itself.
Adopt(t, state) ==
  /\ LoopFree
  /\ phase[t] = "connecting"
  /\ phase' = [phase EXCEPT ![t] = "reading"]
  /\ sock' = [sock EXCEPT ![t] = state]
  /\ writer' = t
  /\ connected' = TRUE
  /\ held' = queue
  /\ queue' = <<>>
  /\ UNCHANGED <<proc, spawns, notes, offered, delivered, vanished, evicted, told, raised>>

Connect(t) == proc = "running" /\ Adopt(t, "live")

\* The peer that accepted is dying, or is an older sidecar that knows another
\* token and hangs up: the flush is written to nobody.
ConnectToNobody(t) == Adopt(t, "dead")

-----------------------------------------------------------------------------
(* The flush: _flush_outbound, one held message at a time.                  *)

\* The loop comes to a message: stale ones are judged before the socket is.
FlushTakes(aged) ==
  /\ held # <<>>
  /\ Head(held).aged = aged
  /\ held' = Tail(held)

Message == Head(held).id

\* What a write may do to the writer's socket: a closing one stays closing.
SocketAfterWrite ==
  \/ UNCHANGED sock
  \/ sock[writer] = "dead" /\ sock' = [sock EXCEPT ![writer] = "closing"]
SocketAfterRaise ==
  \/ UNCHANGED sock
  \/ sock' = [sock EXCEPT ![writer] = "closing"]

FlushNotes ==
  /\ FlushTakes(TRUE)
  /\ notes' = Append(notes, Message)
  /\ UNCHANGED <<bridgeVars, queue, offered, delivered, vanished, evicted, told, raised>>

\* Mutant: what is put back goes to the front, so the rest of it is reversed.
PutBackFirst == queue' = <<Head(held)>> \o queue

\* A message that was not written goes back to the queue, with the time it had.
PutBack == queue' = Append(queue, Head(held))

\* The bridge went again in the middle of the flush.
FlushPutsBack ==
  /\ FlushTakes(FALSE)
  /\ sock[writer] = "closing"
  /\ PutBack
  /\ UNCHANGED <<bridgeVars, notes, offered, delivered, vanished, evicted, told, raised>>

\* A write that does not raise: it is read, or it vanishes with the peer.
Written(id) ==
  /\ SocketAfterWrite
  /\ IF sock[writer] = "live"
     THEN delivered' = Append(delivered, id) /\ UNCHANGED vanished
     ELSE vanished' = vanished \cup {id} /\ UNCHANGED delivered

FlushWrites ==
  /\ FlushTakes(FALSE)
  /\ sock[writer] # "closing"
  /\ Written(Message)
  /\ UNCHANGED <<proc, spawns, phase, writer, connected, queue, notes, offered, evicted, told,
                 raised>>

\* The write raises: the message goes back and the loop goes on to the next.
FlushFails ==
  /\ FlushTakes(FALSE)
  /\ sock[writer] # "closing"
  /\ SocketAfterRaise
  /\ PutBack
  /\ raised' = raised \cup {Message}
  /\ UNCHANGED <<proc, spawns, phase, writer, connected, notes, offered, delivered, vanished,
                 evicted, told>>

Flush == FlushNotes \/ FlushPutsBack \/ FlushWrites \/ FlushFails

-----------------------------------------------------------------------------
(* The end of a connection: _consume_inbound.                               *)

\* The socket is lost while the sidecar runs on.
LinkLost(t) ==
  /\ phase[t] = "reading"
  /\ sock[t] = "live"
  /\ sock' = [sock EXCEPT ![t] = "dead"]
  /\ UNCHANGED <<proc, spawns, phase, writer, connected, messageVars>>

ReadEof(t) ==
  /\ LoopFree
  /\ phase[t] = "reading"
  /\ sock[t] \in {"dead", "closing"}
  /\ LeaveBridge(t)
  /\ UNCHANGED <<proc, spawns, sock, writer, messageVars>>

\* A line is read and handled; the loop then looks at self._writer and reads
\* from self._reader, which are another task's once one has connected since:
\* two readers of one stream, and the read raises.
ReadEvent(t) ==
  /\ LoopFree
  /\ phase[t] = "reading"
  /\ writer # t
  /\ LeaveBridge(t)
  /\ UNCHANGED <<proc, spawns, sock, writer, messageVars>>

-----------------------------------------------------------------------------
(* Sending: _send_to_sidecar for a reply or a push, and _augment_agent_text. *)

BridgeBelievedUp == connected /\ writer # NoTask /\ sock[writer] # "closing"

Offer ==
  /\ LoopFree
  /\ offered < MaxMessages
  /\ offered' = offered + 1

\* Mutant: the queue has no maxlen.
HoldUnbounded(id) ==
  /\ queue' = Append(queue, [id |-> id, aged |-> FALSE])
  /\ UNCHANGED evicted

\* deque(maxlen): an append to a full queue pushes the oldest out.
Hold(id) ==
  LET full   == Len(queue) = QueueMax
      longer == Append(queue, [id |-> id, aged |-> FALSE])
  IN /\ queue' = IF full THEN Tail(longer) ELSE longer
     /\ evicted' = IF full THEN evicted \cup {Head(queue).id} ELSE evicted

SendHeld ==
  /\ Offer
  /\ ~BridgeBelievedUp
  /\ Hold(offered + 1)
  /\ UNCHANGED <<bridgeVars, held, notes, delivered, vanished, told, raised>>

SendWritten ==
  /\ Offer
  /\ BridgeBelievedUp
  /\ Written(offered + 1)
  /\ UNCHANGED <<proc, spawns, phase, writer, connected, queue, held, notes, evicted, told, raised>>

\* The write raises: the message is held, though the bridge is still up and
\* only its next reconnect flushes.
SendRaises ==
  /\ Offer
  /\ BridgeBelievedUp
  /\ SocketAfterRaise
  /\ Hold(offered + 1)
  /\ raised' = raised \cup {offered + 1}
  /\ UNCHANGED <<proc, spawns, phase, writer, connected, held, notes, delivered, vanished, told>>

\* The oldest n held messages pass the age limit.
Age ==
  /\ LoopFree
  /\ \E n \in 1..Len(queue) :
       /\ ~queue[n].aged
       /\ queue' = [i \in DOMAIN queue |->
                      [queue[i] EXCEPT !.aged = @ \/ i <= n]]
  /\ UNCHANGED <<bridgeVars, held, notes, offered, delivered, vanished, evicted, told, raised>>

\* A turn is dispatched: what was noted is appended to its text.
TellAgent ==
  /\ LoopFree
  /\ notes # <<>>
  /\ told' = told \o notes
  /\ notes' = <<>>
  /\ UNCHANGED <<bridgeVars, queue, held, offered, delivered, vanished, evicted, raised>>

-----------------------------------------------------------------------------

Supervise == Spawn \/ SidecarExits \/ Reap
BridgeTask(t) ==
  \/ LoopHead(t) \/ ConnectFails(t) \/ Connect(t) \/ ConnectToNobody(t)
  \/ LinkLost(t) \/ ReadEof(t) \/ ReadEvent(t)
Send == SendHeld \/ SendWritten \/ SendRaises

Next ==
  Supervise \/ (\E t \in Tasks : BridgeTask(t)) \/ Flush \/ Send \/ Age \/ TellAgent

Spec == Init /\ [][Next]_vars

\* The event loop runs what is ready and finishes its flush, the supervisor
\* respawns, and a task that keeps connecting to a running sidecar gets through
\* to it again and again.
FairSpec ==
  /\ Spec
  /\ WF_vars(Spawn) /\ WF_vars(Reap) /\ WF_vars(Flush)
  /\ \A t \in Tasks :
       WF_vars(LoopHead(t)) /\ WF_vars(ReadEof(t)) /\ SF_vars(Connect(t))

-----------------------------------------------------------------------------
(* Properties.                                                              *)

Waiting == Range(Ids(queue)) \cup Range(Ids(held))

Fates ==
  <<Range(Ids(queue)), Range(Ids(held)), Range(delivered), vanished, evicted,
    Range(notes), Range(told)>>

\* Every durable message handed to _send_to_sidecar is accounted for once: it is
\* queued, in the hands of the flush, read by a sidecar, noted for the agent or
\* told to it, or it is one of the two silent losses of the code, written to a
\* peer that is gone (vanished) or pushed out of the full queue (evicted).
\* No flush, failed write or reconnect makes two of it or loses it otherwise.
OneFate ==
  /\ \A s \in {Ids(queue), Ids(held), delivered, notes, told} : IsInjective(s)
  /\ \A i, j \in DOMAIN Fates : i # j => Fates[i] \cap Fates[j] = {}
  /\ UNION Range(Fates) = 1..offered

\* What the sidecars read is in the order it was sent, except that later
\* messages overtake one whose write raised (_send_to_sidecar and the loop of
\* _flush_outbound put it back and go on).
OvertakenOnlyIfRaised ==
  \A i, j \in DOMAIN delivered :
    i < j => delivered[i] < delivered[j] \/ delivered[j] \in raised

\* Beside a bridge believed to be up, where nothing flushes before it next
\* fails, only messages whose write raised are queued.
QueuedBesideBridgeIfRaised == BridgeBelievedUp => Range(Ids(queue)) \subseteq raised

\* The full queue gives up its oldest message, whatever was put back into it and
\* in whatever order: what it gave up is older than all it holds.
NewestKept == \A lost \in evicted, kept \in Waiting : lost < kept

\* The queue's discipline: whom a message may overtake, wait beside or push out.
QueueKept == OvertakenOnlyIfRaised /\ QueuedBesideBridgeIfRaised /\ NewestKept

\* Each message has one fate, and the queue its discipline, whatever breaks.
MessagesKept == OneFate /\ QueueKept

\* Every message that waits stops waiting, unless a write of it or of one that
\* waits before it has raised: some bridge task survives every failure as long as a
\* sidecar runs, a respawn brings a new one, and each connection flushes.
HeldIsResolved ==
  \A id \in 1..MaxMessages :
    id \in Waiting ~> id \notin Waiting \/ \E earlier \in raised \cap Waiting : earlier <= id

=============================================================================
