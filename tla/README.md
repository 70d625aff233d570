# A formal model of agent-mobile

agent-mobile puts an agent (Hermes) on a phone: the phone captures speech and
taps, a *sidecar* process terminates an encrypted channel to it, and an *adapter*
inside the Hermes gateway turns what arrives into agent turns and what the agent
says into text, widgets and speech on the phone.  This directory holds TLA+ models
of the parts of it whose correctness depends on order, time and failure, the TLC
configurations that check them, and TLAPS proofs of the main results.

    phone (Android)                     sidecar (node)                 adapter (asyncio)
    ---------------                     --------------                 -----------------
    webview: bridge.js, renderer.js
      surface-host.js over surface-core.js
    AgentChannelPlugin.java  == sealed frames over WebSocket ==  index.mjs
      keepalive, partition      (proto.js / KoCrypto.java)         segmentation
      buffer, reconnect                                            reply streaming
    UdpMedia.java, Ajb.java  == sealed datagrams over UDP =====  udp-media.js
                                                                  index.mjs  == NDJSON over loopback ==  adapter.py
                                                                                                          turn lock, backlog
                                                                                                          held messages
                                                                                                          Hermes (external)

Paths below are relative to the repository; `adapter.py` and `index.mjs` are under
`vendor/hermes-plugin/`, the Java files under
`android/app/src/main/java/com/agentmobile/agent/`.

## 1. Inventory

For each component: its state, its operations, what is hard about it, and what
makes it correct.

**Turn-taking of the adapter** (`adapter.py`).  State: the turn lock and when it was
taken, its watchdog and acknowledgement timers, the deferred text, the pending
request id, transcriptions in progress.  Operations: the handlers of the sidecar's
events (`turn`, `rpc`, `audio`, `interrupt`), `dispatch_text`, `send`,
`_release_turn_after_reply`, `_interrupt_active_session`, the two timers.  Everything
runs on one event loop, but handlers suspend in the middle (the hand-over to Hermes,
the interrupt hook, transcription), the agent answers whenever it likes and any
number of times, and every failure path touches the same few fields.  Correct when a
held lock is always released, no utterance is lost or handed over twice, replies go
to the right request.

**Bridge, supervision and held messages** (`adapter.py`).  State: the sidecar process,
one bridge task per spawn, the shared reader/writer/connected triple, the bounded
queue of held messages, the losses to confess.  Operations: spawn, reap, connect,
flush, read, send, age, tell.  Hard: what the adapter believes of the bridge lags
behind the socket; a write may vanish, raise halfway through a flush or reach an
orphan; a bridge task may outlive its sidecar.  Correct when a message is delivered
once, or confessed to the agent, and in order as far as no write of it raised.

**Speech pipeline of the adapter** (`adapter.py`).  State: pending text, the flush task,
the speak generation, the speaking cue.  Operations: schedule, settle, synthesise,
interrupt.  Hard: text joined during a synthesis, synthesis finishing after an
interrupt, stale timers for the cue.  Correct when what is scheduled is spoken once
unless interrupted.

**Utterance segmentation and barge-in of the sidecar** (`index.mjs`).  State: the
pre-roll ring, the open utterance, streak counters, the deadline timer, the lossy
flag, the token of the reply being sent.  Operations: one audio frame, the timer, a
text command, Stop, a new reply, a disconnect.  Hard: five paths that clear or forget a
timer; a cap measured from a timestamp set elsewhere; three ways to cancel a reply.
Correct when captured speech always ends, and ends for a reason, and one reply streams.

**Phone protocol and relay of the sidecar** (`index.mjs`, `wire.mjs`).  State: per
connection the handshake, channel, pending request ids, media path.  Operations: hello,
confirm, command, relay of `reply`/`push`/`pcm`.  Hard: a push between connect and
confirm; an answer for a phone that left.

**Secure channel** (`proto.js`, `KoCrypto.java`).  State: per stream a send counter and
an anti-replay ring.  Operations: seal, open.  Hard: the ring is indexed modulo its
size, so jumps of about one window are where it goes wrong; damaged frames must not
move it.  Correct when it accepts exactly what a receiver with unlimited memory would.

**Handshake and pairing** (`proto.js`, `KoCrypto.java`, `IdentityStore.java`).
Three messages: hello, the reply with the server's MAC over the transcript, the confirm
with the client's.  The client pins the server's identity or asks the user; the server
may have an allowlist.  Hard: the question to the user stays open while the socket lives
its own life.  Correct when no side uses a key before the other has proved it holds it.

**Node client** (`transport/ws-client.mjs`) and **WebSocket gateway**
(`transport/ws-gateway.js`, frames in `wsframes.js`).  State of the client: the socket,
the channel, the count of failed probes, the held-back frames, two timers, the commands
waiting for an answer; of the gateway: the offered and the confirmed channel, and a switch
that makes it play dead.  Operations: connect with its pairing hook, command, audio, gap,
probe, probe timeout, close; hello, confirm, sealed frame.  Hard: the two timers against
late pongs, frames held back from the first failure but flushed only from a declared
partition, frames that arrive while closing.  Correct when no frame is lost or sent twice
on a connection that lasts, a declared partition heals, and both ends agree on the key.

**Adaptive jitter buffer** (`transport/adaptive-jitter.js`, `udp-media.js`, `Ajb.java`,
`UdpMedia.java`).  State: frames by sequence number, the next to play, the pre-buffer,
how long a missing frame was waited for.  Operations: push, pull, the pump after each
datagram.  Hard: loss, reordering, duplication, jumps, overflow.  Correct when it is
bounded, emits in order and its loop ends.

**Partition buffering and keepalive of the phone** (`AgentChannelPlugin.java`).  State:
the failure count, the buffer, one keepalive thread per session, the socket and its
keys.  Operations: seal, outbound, flush, trim, probe, count, give up, establish.
Several threads, of which only some paths are synchronised.  Correct when frames keep
their order, none is stranded, and commands outlive audio.

**Connection life cycle of the phone** (`AgentChannelPlugin.java`).  State: socket,
handshake, channel, pairing dialog, back-off, pending calls.  Hard: overlapping
sockets (a resume during a handshake), dialogs that outlive their socket, calls
registered after the sweep.  Correct when a phone whose user has consented always comes to
a session or shows why not, and every promise given to the page is settled.

**Display surface core** (`www/surface-core.js`).  State: complete assets, uploads in
flight, poisoned names, usage, widget types, widgets.  Operations: the ops of `apply`.
Hard: chunked uploads that are retried, abandoned, replaced and aborted against a cap
that is kept by increments.  Correct when usage is exact, a complete asset is one whole
upload, and a good asset leaves only for an accepted one.

**Display surface host** (`www/surface-host.js`).  State: per key a view with its frame,
its queue and whether a test waits for an answer.  Operations: the events of the core,
the load of a frame, what its listener does, its answers.  Hard: loading falls anywhere
among the messages of a batch; answers come from frames since replaced.  Correct when a
widget is fed in order and a verdict is earned by the frame it is reported of.

**Webview control and renderer** (`www/bridge.js`, `www/renderer.js`).  State: the re-entrancy
flag and the look of the microphone control, the frames, verdicts and charts of the current
drawing.  Operations: tap, session, answers of the plugin, draw, mount of a chart, message
of a frame.  Hard: three promise chains over one control, a permission dialog in the middle,
charts and frames that come to life after the next drawing.  Correct when the control shows
what the plugin said last and nothing acts on a drawing that is gone.

Not of interest to a model: WebRTC wrappers, the Android shell, the HTTP mock gateway
(`gateway.js`), themes and layout.

`PROJECT.json` lists under `hazards` where each of these bites, with the property that
would notice.

## 2. Modules

| module | models | runs |
|---|---|---|
| `TurnTaking` | turn-taking of the adapter | `turn_taking`, `turn_overlap` |
| `TurnTakingProofs` | proofs about it | |
| `Bridge`, `BridgeProofs` | supervision, bridge tasks and held messages of the adapter | `bridge` |
| `Utterance`, `UtteranceProofs` | segmentation and barge-in of the sidecar | `utterance` |
| `ReplayFilter` | abstract: what a stream of the channel promises | |
| `ReplayWindow` | the ring that implements it | `replay_window` |
| `JitterBuffer`, `JitterBufferProofs` | the jitter buffer and its pump | `jitter_buffer` |
| `Partition`, `PartitionProofs` | the phone's uplink, keepalive threads and sessions | `partition` |
| `Reconnect` | the phone's connection life cycle and the sidecar's end of each handshake | `reconnect` |
| `ChannelProofs` | proofs about `ReplayWindow` and `Reconnect` | |
| `Handshake` | hello, reply and confirm as values; used by `Stream` | |
| `Stream`, `StreamProofs` | the node client and its gateway over one connection | `stream` |
| `SurfaceCore`, `MCSurfaceCore` | the asset store, types and widgets | `surface_core` |
| `SurfaceHost`, `MCSurfaceHost` | the host of the surface over `SurfaceCore` | `surface_host` |
| `WebView` | the microphone control and the drawings of the page | `webview` |
| `PageProofs` | proofs about the core, the host over it, and `WebView` | |

A definition whose comment starts with *Mutant:* is not part of a model.  It is a
plausible bug in the definition after it, and shows that the property it is listed with
in `PROJECT.json` depends on that code.

### TurnTaking

A step is what runs between two awaits that really suspend.  A turn is a record in the
sequence `turns`, so its number stands for `_turn_started`; `watch` and `ack` hold the
number of the turn the timer was armed for.  `deferred` and each element of `flushes`
(the scheduled `dispatch_text(force=True)` tasks) are sets of utterances.  A turn whose
hand-over has not returned is in phase `handing`; the inbound reader is busy for as
long as it waits for one (`ReaderIsFree`), which is why a second utterance can only
come by transcription then.  `HandOverRaises` is the failure after the delivery flag,
`LoseTurn` and `BeginTurn` the one before it, with its single retry.  `SendText`,
`SendPanel` and `AgentEnds` are what Hermes may do with a turn, at any time.  `replies` is the
sequence of the request ids that replies were labelled with, so that one turn replying twice
under an id leaves a trace as well as two turns do.

### Bridge

A bridge task has one socket at a time, named by the task; `writer` is the task whose
socket `self._writer` is.  A socket is *live*, *dead* (its peer is gone and the adapter
has not noticed, so a write vanishes) or *closing* (the transport knows).  A write that
raises says nothing of the socket: it may be left as it was (`json.dumps` refused the
payload) or closing.  `SendRaises` then only queues the message, and `connected` stays, so a
message may wait beside a bridge that is up; `test/outbound-queue.test.py:193-202` shows the
state.  `_flush_outbound` does not await, so nothing else of the adapter runs during it
(`LoopFree`), but the sidecar and the link go on; it is one action per message, and `held` is
what the loop has still to look at.  A message is noted as stale, put back because the socket
is closing, written, or put back because its write raised, after which the loop goes on to
the next (`FlushFails`).  `raised` is history: the messages of which a write raised.  Time is
a bit per held message: past the age limit or not.  With two spawns the old task can wake
from its back-off to the new sidecar (the back-off grows to 5 s, the first respawn comes
after 3 s), so two tasks share the three fields; the safety properties hold all the same.

### Utterance

Time is counted in 20 ms frames.  `timers` holds what is left of each
flush timer that is armed, `deadline` what is left of the one the field refers to; a
forgotten timer is in `timers` only.  `first` is the age of `firstTs`, since only the difference
from now is used.  `capped` is history.

### ReplayFilter and ReplayWindow

`ReplayFilter` remembers every counter ever accepted.  `ReplayWindow` has the ring, its
`max`, and asks the window before it decrypts and moves it only after, as the code does.
`ImplementsFilter` is the refinement: `ReplayFilter` instantiated WITH the ring's state, the
history variable `accepted` in the place of its memory.

### JitterBuffer

`Push` is the whole of push with its jump and overflow branches, each pump step one pull.
Any sequence number may be pushed at any time, which is every loss, order and duplication
a network can produce.

### Partition

Sealing, giving a frame to `outbound`, hearing a frame, and each phase of a keepalive
thread are separate steps; `failures++` is a read and a write with other threads in
between.  `wire` records the frame and the session of the socket it went into.  One frame
at most is trimmed by a step (`Trim`), because `trimBuffer` runs after every single frame
that is added and the limit is passed by one.

### Reconnect

`connectWs` makes a handshake and a socket together, so a socket, its handshake and the
session it leads to have one number; `ws`, `hs` and `channel` are the plugin's fields, which
every callback reads without asking which socket it belongs to.  A session whose socket has
died is renamed `Stale`, and its number is used again.  A callback, a task of the
worker and an answer to a dialog are one step each.  `up` and `down` are the texts in transit
on a socket, `gw` is what the sidecar's connection has reached.  `pairing` is the stack of
dialogs on the screen; each may be answered long after its socket is gone.  `Broken` is what
is external: the network kills a socket, OkHttp reports a cancelled one, or gives up one that
the sidecar has closed when its pings stay unanswered, which takes so long (`Quiet`) that what
is in transit has arrived.  `connectCall` is a slot for one call of `connect()`, and the calls
are numbered: `Connect` overwrites the slot, "Deny" empties it whichever call is in it, and
`unsettled` are the calls that were neither resolved nor rejected.  `badge` is what the phone
shows of the last handshake: *refused* until another begins, or until something else is
shown, as `onFailure`, `onClosed` and the reset of the pairing do; the plain badge that the
reset puts in place of a refusal is called *wiped*.  `GatewayFailsToReply` is a `startMedia`
that is rejected, of which the phone hears nothing.

Four states in which the code is stuck are excepted from the properties by name, and the
properties say that there are no others; each exception is needed, since TLC refutes the
property without it.  `Unwatched`: a dialog was accepted on a dead socket (a finding).
`Unanswered`: the sidecar opened no media port and says nothing on a socket that is in order
(a finding).  `Displaced(c)`: another call took the slot of `c`, or emptied it (a finding).
*Wiped*: the user had a refused pairing forgotten; nothing is scheduled, as the page or the
user is to connect again.
The model leaves out the buffer between `send` and the socket (`Partition`), the media of a
session, a second gateway host, and the destruction of the plugin.

### Handshake and Stream

A key pair is its name, a Diffie-Hellman secret the set of two names, a session key the set
of the four secrets (the code sorts them, so that both ends get one key), a MAC what it is
computed of.  `Stream` runs this over one WebSocket with both ends as processes: messages
are in two queues, and a timer may fire as soon as it is armed.  `FlushIfDeclared` and
`ClientReadsFrame` keep what the code does where its header says otherwise (frames held back
without a declared partition stay, a pong in a healthy session is no liveness): the
properties are what still holds, and `findings` has the rest.  After `Close` the socket is
`closing`: nothing can be sent, frames in transit are still read.  `heard` and `missed` are
history.  The user's answer to the pairing question may come at any time, or never.

### SurfaceCore and SurfaceHost

`SurfaceCore` is the reducer: one operator per op, `RegisterAsset` with its three outcomes
(shut, aborted, accepted).  A chunk is the upload it was cut from, its place and its size,
so that `CompleteIsWhole` can say what an asset is made of.  The sender numbers chunks or
not, stops anywhere, repeats one, loses one and starts again.  It loses no *first* chunk: the
code cannot tell the second chunk of the next upload from that of an abandoned one, which is
a finding; and an upload without `seq` is withdrawn before it is restarted, as the
documentation asks.

`SurfaceHost` EXTENDS it and adds the host's views.  An op and the handling of its event are
one synchronous call, hence one action (`ApplyWidgetOp`, `ApplyRemove`); frames load, handle
a message and answer in actions of their own.  A message is its number among those the frame
was given.  The asset operations are not part of the composition: what a frame finds of the
assets is part of whether its code draws or throws, and `surface_core` follows the store.
An update that comes before the frame has loaded is lost, as in the code (`Updated`, a finding).
Mounting decodes the type's assets in the host; for a type in `Fragile` that may throw at any
mount, and `MountFails` is the `catch` of `handleRenderEvent`: nothing is mounted, the wait of
a test is cleared and a failure reported at once (`verdict` *unmounted*), while a frame the
view had stays on show under the new type.  `code` is the type whose code the frame runs.  A
later failure of that older frame is still reported of the key, and `VerdictIsEarned` allows
it: it is what the key shows.  A success of it is never taken for the new type's.  The failures that the
core's refusal of an op is told as are left out: they are about the op and not about a mount.

### WebView

The plugin answers calls in order, except a start that waits for the permission dialog; the
promise that waits for an answer is named by its caller (`toggle`, `ensure`, `sync`).  `told`
is history: the page has been, or will be, told what the microphone now is.  It is what
`RingIsHonest` needs to except the cases in which the code never tells the page (a finding).
A chart or a message of a frame carries the drawing it belongs to.

## 3. What the runs show

Runs that pass:

* `turn_taking`: a held lock has its own watchdog, absorbed speech exists only under a lock, and
  the acknowledgement timer is of the turn holding it (`LockInv`); the lock is released and the
  backlog delivered (`NeverDeaf`, of `LockReleased` and `BacklogDelivered`); nothing is lost
  (`NothingLost`), delivered twice (`DeliveredOnce`), or answered twice under one id, by two
  turns or by one (`AnsweredOnce`).  What an interrupt drops counts as discarded, not as lost.
  One command, one tap, one clip, failures and one interrupt: a turn in flight, one absorbed,
  and a third that can overtake the flush.  Each property speaks of at most two turns and the
  lock.
* `bridge`: each message has exactly one fate (`OneFate`); and the queue its discipline
  (`QueueKept`; the two make `MessagesKept`): sidecars read messages in the order they were
  sent, except that later ones overtake one whose write raised (`OvertakenOnlyIfRaised`),
  only such a one waits beside a bridge believed up (`QueuedBesideBridgeIfRaised`), and the
  full queue gives up only messages older than all it keeps (`NewestKept`).  Every message
  that waits stops waiting, unless a write of it, or of one waiting before it, raised
  (`HeldIsResolved`).  Two of the fates are silent losses of the code: *vanished*, written to
  a peer that is gone, and *evicted*, pushed out of the full queue; the properties bound them
  and do not exclude them.  Two sidecars (so two tasks can race), a queue of two and three
  messages (overflow, ageing, a flush in part, overtaking): 269 296 states.
* `utterance`: captured speech has a deadline, the lossy flag is the open utterance's, and
  forgotten timers exist only after the cap (`CaptureInv`); one reply streams and is barged
  into at most once (`ReplyInv`); an utterance ends (`UtteranceEnds`).  The lengths keep the
  order of the code's 6, 9, 10, 250 and 1500 frames; the code compares them and counts to
  them and nothing else.
* `replay_window`: the ring is truthful (`WindowTracksAccepted`) and implements the
  filter (`ImplementsFilter`).  A window of 4 and counters to 12 give jumps below, at and
  past a window, and three laps.
* `jitter_buffer`: bounded near playout (`BufferNearPlayout`), in order, each frame once
  (`EmittedInOrder`).  Twelve frames with a maximum depth of 2: a jump is more than 8 ahead,
  so jumps, overflow and long gaps all occur.
* `partition`: frames are held back only in trouble (`HeldBackOnlyInTrouble`) and sent in
  order (`SentInOrder`; the two make `UplinkKept`), within the bound (in `TypeOK`), audio goes first
  (`CommandsOutliveAudio`), the buffer drains (`BufferDrains`).  Two sessions (so two
  keepalive threads), two senders, a buffer of two and four frames.
* `reconnect`: a handshake in progress is that of the current socket (in `PhoneTypeOK`); a phone
  with consent comes to a session that both ends hold, or shows a refusal (`SessionRestored`);
  every call of `connect()` is settled, and one of `send()` by the sweep of a later session if
  not before (`PromisesSettle`); each with the exceptions named in section 2.  Two unasked acts
  of page or user, so that a resume, a second `connect` or a pairing reset meets a handshake,
  and one socket killed at any moment. Three sockets at once are all that these allow: with four
  there are the same 209 038 states.
* `stream`: the two ends use one key, the gateway none before the confirm, and no sealed
  frame overtakes it (`SessionAgreed`); one of the two keepalive timers runs, never both (in
  `TypeOK`); every frame sent is held, in transit, heard or dropped by a dead gateway, once
  (`FrameHasOnePlace`); a declared partition heals (`PartitionHeals`).  Two failures declare
  a partition and the app sends three frames: held without being declared, flushed, and sent
  past each other.
* `surface_core`: usage is the sum of the chunks held and within the cap (`UsageIsExact`); a
  complete asset is one whole upload (`CompleteIsWhole`).  Two names, one numbered and one
  not, two uploads each of up to three chunks of size 0, 1 or 2 against a cap of 3, which
  they meet while new, while replacing and while the other name is in flight.
* `surface_host`: a frame gets what it was given, in order, once (`FedInOrder`); a verdict on a
  frame's word is of the frame on show, and a success of a frame that runs the type tested
  (`VerdictIsEarned`); a test gets one (`TestIsAnswered`).  Two keys, a type that mounts and
  one that is refused or throws at its mount, two frames of two messages (the initial props and
  one more): a frame can be replaced while it loads and while it answers, and be left on show
  under the other type.  That a type which also mounts may throw is too many states for the
  run; the theorems cover it.
* `webview`: the control shows what the plugin last said (`RingIsHonest`); charts and verdicts
  of a drawing that is gone leave the next one alone (`OnlyThisDraw`).  Three calls under way
  before a new one begins: one chain of each kind overlaps the two others.  Two draws, one
  frame, one message in flight: the properties compare two drawings.

The run where the code does not do what it says (`findings` in `PROJECT.json` quotes both):

* `turn_overlap`: a flush of the backlog races a new utterance and two turns are in flight.

`findings` also lists, without a run, what was met while translating and is visible in the
code alone.  In the adapter and sidecar: the reply id slot, the cap that counts from an idle
frame, the numbering of UDP replies, the silent eviction of a held message, the message held beside a
bridge that is up, the phone left without a reply.  On the phone: the call of `connect()` that
another displaces,
frames flushed into a session that cannot open them, the pairing dialog accepted after its
socket died, the refused handshake that closes the socket of another.  In the node client: frames that stay
held back, the healthy probe that counts as failed, the pairing accepted after the end, the
keepalive that survives close.  In the display surface: the good asset freed by the first
chunk of a replacement that is then aborted, an update lost before the frame has
loaded, the refused type whose test is not answered, the second outcome of a failed test, the
spliced upload.  In the page: the control that misses a start, and `/new` at every reconnect.

`CHECK_DEADLOCK FALSE` is used where a behaviour may end because its bounded supply of
utterances, frames or replies is used up.  `Bridge` never stops: its last sidecar stays up
and its bridge may always be lost.

### Bounds

Every bound is a CONSTANT, named in the module that declares it, and appears in the guard
of the action it limits.  History variables (`delivered`, `wire`, `emitted`, `turns` ...)
are bounded through them.

### Fairness

* `TurnTaking`: the event loop runs ready tasks and due timers, `handle_message`, the
  interrupt hook and the session store return.  **Nothing is assumed of the agent**: a
  turn need not reply nor end, which is the case the watchdog is for.
* `Bridge`: the supervisor reaps and respawns, tasks run, a flush that was begun is finished,
  and a task that keeps
  connecting to a running sidecar succeeds now and then (strong fairness of `Connect`);
  link losses, failing writes and failing connects may recur for ever.
* `Utterance`: time passes and due timers fire.  No frame need ever arrive.
* `Partition`: keepalive threads are scheduled, a lost session is replaced while the bound
  allows, and a ping is answered sooner or later (weak fairness of `Keepalive`,
  `Establish` and `Pong`); the answer may come after its probe has timed out.
* `Reconnect`: threads, callbacks, the worker and messages go on; a dialog is answered, one
  way or the other; OkHttp notices a socket that is gone; a silence lasts until the keepalive
  thread acts on it.  Faults and the acts of page and user carry none.
* `Stream`: both timers fire and messages in transit are read.  Nothing obliges the app to
  send, the user to answer, or the gateway to be alive: `PartitionHeals` is about behaviours
  in which from some point on the link stays up and the gateway is not dead.
* `SurfaceHost`: the browser loads a frame that is in the document, runs its listener and
  delivers its messages.  Nothing obliges the agent to act.

`JitterBuffer`, `ReplayWindow`, `SurfaceCore` and `WebView` state safety only and have none.

## 4. What is proved

TLAPS checks the following for every value of the constants that satisfies the ASSUMEs of
the modules.  Those say that parameters are numbers of the right kind (windows, holds,
thresholds, queue and buffer limits at least 1, depths, capacities and bounds natural
numbers), and beyond that only:
`KindsAreDistinct`, the three kinds of utterance and "no command" do not overlap;
`DepthAssumption`, the baseline of the jitter buffer is at most its maximum;
`LengthsAssumption`, speech begins within the pre-roll and the pre-roll is shorter than the
cap (6, 10 and 1500 frames in the code); `PAssumption`, `MaxFailures` reaches the threshold;
`AssetsAssumption`, there are finitely many asset names; `ExternalAssumption` and
`FragileAssumption`, what is said to be external or fragile are types.  `SizesCounted`, `TypeOK` and the like
below are invariants, proved and not assumed.

Each module states one inductive invariant, shows that `Init` implies it and that every
action keeps it, one lemma per action or per part, and reads the properties off it.

* **`TurnTakingProofs`**.  `TypeCorrect` first, action by action.  `LockInv` is the
  conjunction of `LockIsWatched`, `BacklogUnderLock` and `AckOfCurrentTurn`; it is
  inductive only as a whole, since a release clears the acknowledgement, the watchdog
  and the backlog because the lock is held, and a new turn inherits them from a lock that
  is not.  `LockIsSound` is `LockInv` itself; `HeldLockIsWatched`, `BacklogHasHolder` and
  `AckIsCurrent` are its parts.  `FateInv` says where an utterance is: what has arrived is the
  disjoint union of what is held (deferred or in a scheduled flush), in transcription, and
  settled (said in a turn or discarded); the sets in `flushes` and the turns are pairwise
  disjoint, and a clip is transcribed once.  Without the disjointness a flush could
  deliver what a turn already said, so neither `NothingLost` nor `DeliveredOnce` is
  inductive alone.  `NothingIsLost` and `DeliveredAtMostOnce` follow.  `AnswerInv` adds
  that the pending id belongs to a command that arrived and has not been answered; with
  it `RepliesAreUnique`, over the positions of the sequence of replies.
* **`BridgeProofs`**.  Messages are in seven places: queued, in the flush, delivered, vanished,
  evicted, noted for the agent, told to it.  `OneFate` (each is in exactly one) is not inductive
  without the order: a flush moves the queue out and puts part of it back, and nothing is
  there twice because what was put back is in order, what the flush has left is in order and
  younger (`WaitingOrdered`).  Of what waits, only a message whose write raised may be older than
  one that was read (`YoungerThanRead`), and all of it is younger than what the full queue gave
  up (`YoungerThanLost`).  A flush runs only on a bridge just adopted, and at its end only
  messages that raised are queued (`BesideInv`).  `MessagesAreKept` and `QueueIsKept` follow.
* **`UtteranceProofs`**.  `TypeOK`, `CaptureInv` and `ReplyInv` are inductive together.  The
  point is `OpenIsTimed`: a tick takes one from every timer, so the deadline must be among
  them before and after, and a forgotten timer may be equal to it; it needs that time does
  not pass a timer that is due, which `TypeOK` says.  `CaptureIsTimed`, `OneReplyAtATime`.
* **`ChannelProofs`**, the window.  `TypeCorrect`; `WindowCorrect`: each slot tells the truth
  about the one counter in the window that maps to it (the arithmetic of `c % Size` is in
  lemmas of its own); and `WindowImplementsFilter`, the step simulation: every step of the
  ring is a step of the filter or leaves its variables alone.
* **`ChannelProofs`**, the phone's connection.  `PhoneTypeCorrect` needs the record of the pending
  call and that nothing is in transit on a dead socket (`WireTyped`): no text is sent to a
  socket that is not opening or open, and a rejected one is closed, not dead; and that the call
  in the slot of `connect()` has not been settled (`CallsTyped`).
  `ConsentComesFirst`: nothing is made, retried, installed or queued before the user has
  consented; a late dialog or task can act only because one was opened after a consent.
  `AnotherIdentityGetsNoKeys` is inductive only over all the ways in: the channel, the dialogs
  on the screen and the sessions given to the worker (`PinIsHeld`), all empty while the
  pin is another gateway's.  These two are stated in the proof module; TLC found them to hold
  on the instance of `reconnect` before they were proved.
* **`JitterBufferProofs`**.  `IInv` is `TypeOK`, that playout has begun wherever the pump runs
  (`PlayoutBegun`), that every frame waits between playout and `4 * Max` beyond it
  (`FramesNearPlayout`), and `EmittedInOrder`: a frame is emitted at `next`, so the order of
  emission needs that everything emitted is behind `next`.  `FewFrames` counts the frames of
  the interval.  `BufferStaysNearPlayout` and `EmissionIsOrdered` follow.
* **`PartitionProofs`**.  `UplinkKept` with `FramesAreFresh`: a frame that a thread holds between
  sealing and `outbound` has been given to it by none before, and only frames given are trimmed.
  The order of what went out and what is buffered is an embedding into the order of `queued`,
  kept when a frame is appended to both, when the buffer moves behind the wire and when one
  frame is cut out.  `UplinkIsKept`; and `AudioGoesFirst`, the action property, from the choice
  of the victim alone.
* **`StreamProofs`**.  `SessionAgreed` and `FrameHasOnePlace` say nothing of what is in transit,
  so neither is inductive.  `Phase` does: the session is *greeting*, *answered*, *asking* the
  user, *confirming*, *open* or *over*, and each phase says which messages are in the two queues
  and which keys the ends hold (a confirm is only ever at the head of the queue, a reply alone
  in its).  `ClientInv` adds why the client may act: it resolved `connect` only with the key and a
  vouched server, and no timer or failure exists before the keepalive.  `OnePlaceEach` is
  `FrameHasOnePlace` for numbers not used yet too, over counts in the four lists
  (`CountConcat`: the count of a concatenation is the sum).  `KeysAgree`, `OnePlace`, and
  `TypeCorrect`, whose last conjunct is the single keepalive timer.
* **`PageProofs`**, the core.  `usage` is kept by increments, so `UsageIsExact` needs that what
  is subtracted is what was counted: `SizesCounted`, every stored size and every pending
  count is the sum of its chunks.  `CompleteIsWhole` needs what sender and store know of
  each other (`NameOK`: a numbered upload knows its next number, one without numbers has received
  all that was shipped or is shut).  `SumFunction` is a fold whose recursion the provers cannot
  unfold by induction; the sum lemmas (`SumExtended`, `SumChanged`) are instead proved of a
  smallest subset without the property, subsets of a finite set being well-founded.
  `UsageStaysExact`, `AssetsAreWhole`, and `ClampNeverActs`: the `Math.max(0, ..)` around
  each subtraction never changes its result.
* **`PageProofs`**, the host over it.  `FedInOrder` needs that a frame belongs to one view
  (`FramesApart`), that frames not mounted yet have no answers (`NoMailYet`), and for each key
  `KeyOK`: seen, posted and queued make up what was given, a view that waits for its test shows the
  frame of the type tested, and answers in transit are of a frame that has seen a message.  A
  mount that throws leaves the frame and ends the wait, so all of it stands.
  `FramesAreFedInOrder`, `VerdictsAreEarned`, `HostTypeCorrect`.
* **`PageProofs`**, the controls and drawings.  `PageTypeOK` counts the steps of a tap that are under
  way: one while the control is busy.  Its invariant names where the step is (`TapIsOne`: in the
  plugin's queue, at the dialog, or answered).  `RingIsHonest` speaks of a page at rest; the
  invariant says the same of one that is not (`RingWillFollow`): of the answers not seen yet the
  last that sets the control says what the microphone now is, and if none does, the
  control shows it.  That needs that only a tap stops the microphone and a sync only asks
  (`CallsTyped`).  `OnlyThisDraw` needs that only a draw makes frames (`DrawingTyped`).
  `PageTypeCorrect`, `TheRingIsHonest`, `TheDrawIsAlone`.

Every invariant the runs check is proved.  Only model-checked: all liveness (the provers have
no ENABLED), and the counterexample.

## 5. Plan

In this order; the first were chosen because a wrong order there silences the phone.

1. *(done)* `TurnTaking`, `ReplayFilter`/`ReplayWindow`, `Utterance`, `JitterBuffer`,
   `Partition`, `Bridge`, and the proofs above.
2. *(done)* `SurfaceCore`, `SurfaceHost` over it, `Handshake`, `Stream`, `WebView`,
   `Reconnect`.
3. *(done)* Proofs of every safety property.
4. `Speech`: `_schedule_speak`, `_flush_speak`, `_speak`, interrupt, the speaking cue.
   `NothingSpokenAfterInterrupt` (safety), `ScheduledIsSpoken` (liveness: text scheduled
   while a synthesis runs is left without a task).  Bounds: three texts, one interrupt.
5. `PhoneSession`: the close codes and the relay of the sidecar (`reply`, `push`, `pcm`)
   on `Handshake`, composed with `Reconnect` over a lossy socket; the UDP probe and its
   acknowledgement.

## 6. Not modelled, and why

* Cryptographic primitives: ideal.  A damaged frame fails to open, a genuine one opens.
* Hermes, the network, and the operating system: external; the models allow anything of
  them that the code in `src/` can observe.
* What is said and shown: texts, captions, linting, voices, themes, widgets' looks, the
  built-in primitives of the surface.
* Shutdown (`disconnect`, the reaper) and the restart-rate counters of the supervisor,
  which only choose a delay and a log line.
* The jitter estimate: any target depth between the baseline and the maximum.
* ffmpeg conversion of a clip; transcription is a step that may fail or refuse.
* Destruction of the plugin while its threads run, and more than one gateway host.
* WebRTC: its ordering and buffering are inside third-party stacks.
