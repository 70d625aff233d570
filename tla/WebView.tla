------------------------------ MODULE WebView ------------------------------
(***************************************************************************)
(* The page of the phone: the microphone control of www/bridge.js, whose   *)
(* every step is a promise of the native plugin, and the drawings of       *)
(* www/renderer.js, whose charts and sandboxed frames come to life after   *)
(* the draw that made them, or after the next one.                         *)
(*                                                                         *)
(* The plugin (external) takes calls in order and answers in order, except *)
(* that startAudio waits for the permission dialog.  Of a message only the *)
(* drawing matters here: sends, speech cues, styling and the chart options *)
(* are left out, and so is the microphone that WebRTC owns.                *)
(***************************************************************************)
EXTENDS Integers, Sequences, FiniteSets

CONSTANTS
    Frames,    \* indices of the viz and svg components of a draw
    MaxDraws,  \* bound on draws
    MaxCalls,  \* bound: calls under way over which no tap or session begins
    MaxPosts,  \* bound on the messages of frames in flight
    MaxLosses  \* bound on the times the connection is lost

ASSUME BoundsAssumption == {MaxDraws, MaxCalls, MaxPosts, MaxLosses} \subseteq Nat

VARIABLES
    \* the plugin
    mic,        \* audioRunning
    permitted,  \* RECORD_AUDIO is granted
    linked,     \* the session is up
    losses,     \* times the connection was lost
    requests,   \* calls the plugin has not looked at, each [by, does]
    asking,     \* callers of a startAudio that waits for the permission dialog
    answers,    \* answers the page has not seen, each [by, does, result]
    \* the microphone control
    busy,       \* _busy
    ring,       \* every control shows the microphone live
    pulse,      \* the ring pulses
    told,       \* history: the plugin has answered, or will, what the mic now is
    \* the drawings
    drawn,      \* number of the draw on the page
    frames,     \* __vizFrames: the frames of that draw
    status,     \* __vizStatus: the message each verdict came with
    posts,      \* messages of frames, each [of, i, says]
    mounting,   \* draws whose charts wait for an animation frame
    liveCharts  \* draws with a live chart

plugin == <<mic, permitted, linked, losses>>
calls == <<requests, asking, answers>>
control == <<busy, ring, pulse, told>>
drawing == <<drawn, frames, status, posts, mounting, liveCharts>>
pageVars == <<plugin, calls, control, drawing>>

Callers == {"toggle", "ensure", "sync"}
Requests == [by : Callers, does : {"ask", "start", "stop"}]
Answers == [by : Callers, does : {"ask", "start", "stop"}, result : {"on", "off", "done", "denied"}]
Posts == [of : 1 .. MaxDraws, i : Frames, says : {"ok", "error"}]
NoVerdict == [of |-> 0, says |-> "none"]

\* The steps of one toggle: it is asked of the plugin, waits there or is answered.
UnderWay(caller) ==
    Cardinality({i \in DOMAIN requests : requests[i].by = caller})
    + Cardinality(asking \cap {caller})
    + Cardinality({i \in DOMAIN answers : answers[i].by = caller})

PageTypeOK ==
    /\ {mic, permitted, linked, busy, ring, pulse, told} \subseteq BOOLEAN
    /\ losses \in 0 .. MaxLosses
    /\ requests \in Seq(Requests) /\ answers \in Seq(Answers) /\ asking \subseteq Callers
    /\ UnderWay("toggle") = IF busy THEN 1 ELSE 0
    /\ pulse => ring
    /\ drawn \in 0 .. MaxDraws
    /\ frames \subseteq Frames
    /\ posts \in Seq(Posts)
    /\ mounting \subseteq 1 .. drawn /\ liveCharts \subseteq 1 .. drawn

PageInit ==
    /\ mic = FALSE /\ permitted \in BOOLEAN /\ linked = FALSE /\ losses = 0
    /\ requests = <<>> /\ asking = {} /\ answers = <<>>
    /\ busy = FALSE /\ ring = FALSE /\ pulse = FALSE /\ told = TRUE
    /\ drawn = 0 /\ frames = {} /\ posts = <<>> /\ mounting = {} /\ liveCharts = {}
    /\ status = [i \in Frames |-> NoVerdict]

----------------------------------------------------------------------------
(* The plugin *)

Request(caller, what) == [by |-> caller, does |-> what]
Answer(request, result) == [by |-> request.by, does |-> request.does, result |-> result]
Ask(caller) == Request(caller, "ask")

\* startAudioActual: the recorder may fail to start, the call is resolved all the
\* same.  Only a toggle's start is shown on the control.
StartMic(caller) ==
    \/ mic /\ mic' = TRUE /\ told' = (told \/ caller = "toggle")
    \/ ~mic /\ mic' = TRUE /\ told' = (caller = "toggle")
    \/ ~mic /\ mic' = FALSE /\ told' = (told /\ caller # "toggle")

PluginAnswers ==
    /\ requests # <<>>
    /\ LET request == Head(requests)
           AnswerWith(result) == answers' = Append(answers, Answer(request, result))
       IN  \/ /\ request.does = "ask"
              /\ AnswerWith(IF mic THEN "on" ELSE "off")
              /\ told' = (told \/ request.by = "sync")
              /\ UNCHANGED <<mic, asking>>
           \/ /\ request.does = "start" /\ (mic \/ permitted)
              /\ StartMic(request.by)
              /\ AnswerWith("done")
              /\ UNCHANGED asking
           \/ /\ request.does = "start" /\ ~mic /\ ~permitted
              /\ asking' = asking \cup {request.by}
              /\ UNCHANGED <<answers, mic, told>>
           \/ /\ request.does = "stop"
              /\ mic' = FALSE /\ told' = TRUE
              /\ AnswerWith("done")
              /\ UNCHANGED asking
    /\ requests' = Tail(requests)
    /\ UNCHANGED <<permitted, linked, losses, busy, ring, pulse, drawing>>

PermissionAnswered ==
    /\ \E caller \in asking :
          /\ asking' = asking \ {caller}
          /\ \/ /\ permitted' = TRUE
                /\ StartMic(caller)
                /\ answers' = Append(answers, Answer(Request(caller, "start"), "done"))
             \/ /\ answers' = Append(answers, Answer(Request(caller, "start"), "denied"))
                /\ UNCHANGED <<mic, permitted, told>>
    /\ UNCHANGED <<linked, losses, requests, busy, ring, pulse, drawing>>

\* The plugin stops the microphone with the connection and sends an event that the
\* page does not listen for.
LinkLost ==
    /\ linked /\ losses < MaxLosses
    /\ linked' = FALSE /\ losses' = losses + 1
    /\ mic' = FALSE
    /\ told' = (told /\ ~mic)
    /\ UNCHANGED <<permitted, calls, busy, ring, pulse, drawing>>

----------------------------------------------------------------------------
(* The microphone control *)

Idle == Len(requests) + Cardinality(asking) + Len(answers) < MaxCalls

\* The session listener: the microphone on, never toggled, and the controls synced.
Session ==
    /\ ~linked /\ Idle
    /\ linked' = TRUE
    /\ requests' = requests \o <<Ask("ensure"), Ask("sync")>>
    /\ UNCHANGED <<mic, permitted, losses, asking, answers, control, drawing>>

\* audioToggle: a tap while one is under way does nothing.
AudioToggle ==
    /\ ~busy /\ Idle
    /\ busy' = TRUE
    /\ requests' = Append(requests, Ask("toggle"))
    /\ UNCHANGED <<plugin, asking, answers, ring, pulse, told, drawing>>

SyncAudioCtl(running) ==
    /\ ring' = running
    /\ pulse' = (pulse /\ running)

\* What the page does with an answer, by the promise that waited for it.
EnsureMicOn(answer) ==
    /\ requests' = IF answer.result = "off" THEN Append(requests, Request("ensure", "start"))
                                            ELSE requests
    /\ UNCHANGED <<busy, ring, pulse>>

SyncLiveCtl(answer) ==
    /\ SyncAudioCtl(answer.result = "on")
    /\ UNCHANGED <<requests, busy>>

ToggleAsked(answer) ==
    /\ requests' = Append(requests,
                          Request("toggle", IF answer.result = "on" THEN "stop" ELSE "start"))
    /\ UNCHANGED <<busy, ring, pulse>>

\* Mutant: a start that was refused is shown as the microphone being on.
ToggleDoneTrusting(answer) ==
    /\ busy' = FALSE
    /\ SyncAudioCtl(answer.does = "start")
    /\ UNCHANGED requests

\* Mutant: a refusal leaves the control locked.
ToggleDoneStayingBusy(answer) ==
    /\ busy' = (answer.result = "denied")
    /\ \/ answer.result = "done" /\ SyncAudioCtl(answer.does = "start")
       \/ answer.result = "denied" /\ UNCHANGED <<ring, pulse>>
    /\ UNCHANGED requests

ToggleDone(answer) ==
    /\ busy' = FALSE
    /\ \/ answer.result = "done" /\ SyncAudioCtl(answer.does = "start")
       \/ answer.result = "denied" /\ UNCHANGED <<ring, pulse>>
    /\ UNCHANGED requests

PageHears ==
    /\ answers # <<>>
    /\ answers' = Tail(answers)
    /\ LET answer == Head(answers)
       IN  \/ answer.by = "ensure" /\ EnsureMicOn(answer)
           \/ answer.by = "sync" /\ SyncLiveCtl(answer)
           \/ answer.by = "toggle" /\ answer.does = "ask" /\ ToggleAsked(answer)
           \/ answer.by = "toggle" /\ answer.does # "ask" /\ ToggleDone(answer)
    /\ UNCHANGED <<plugin, asking, told, drawing>>

\* __setMicLevel, from a status message.
SetMicLevel ==
    /\ ring /\ linked
    /\ pulse' = ~pulse
    /\ UNCHANGED <<plugin, calls, busy, ring, told, drawing>>

----------------------------------------------------------------------------
(* The drawings *)

\* A component whose script is external gets a warning in its place and no frame.
\* ui.innerHTML takes the old frames away; what they have posted still arrives.
Draw ==
    /\ drawn < MaxDraws /\ Idle
    /\ drawn' = drawn + 1
    /\ \E mounted \in SUBSET Frames : frames' = mounted
    /\ status' = [i \in Frames |-> NoVerdict]
    /\ liveCharts' = {}
    /\ \E charted \in SUBSET {drawn + 1} : mounting' = mounting \cup charted
    /\ requests' = Append(requests, Ask("sync"))
    /\ UNCHANGED <<plugin, asking, answers, control, posts>>

\* Mutant: a chart mounts although its element is gone.
MountChartAnyway ==
    /\ \E d \in mounting : mounting' = mounting \ {d} /\ liveCharts' = liveCharts \cup {d}
    /\ UNCHANGED <<plugin, calls, control, drawn, frames, status, posts>>

MountChart ==
    /\ \E d \in mounting :
          /\ mounting' = mounting \ {d}
          /\ liveCharts' = liveCharts \cup ({d} \cap {drawn})
    /\ UNCHANGED <<plugin, calls, control, drawn, frames, status, posts>>

FramePosts ==
    /\ Len(posts) < MaxPosts
    /\ \E i \in frames, says \in {"ok", "error"} :
          posts' = Append(posts, [of |-> drawn, i |-> i, says |-> says])
    /\ UNCHANGED <<plugin, calls, control, drawn, frames, status, mounting, liveCharts>>

\* e.source is the window of the frame that has the index now.
PageHearsFrame ==
    /\ posts # <<>>
    /\ posts' = Tail(posts)
    /\ LET post == Head(posts)
           ours == post.i \in frames /\ post.of = drawn
       IN  status' = IF ours THEN [status EXCEPT ![post.i] = [of |-> post.of, says |-> post.says]]
                             ELSE status
    /\ UNCHANGED <<plugin, calls, control, drawn, frames, mounting, liveCharts>>

PageNext ==
    \/ PluginAnswers \/ PermissionAnswered \/ LinkLost
    \/ Session \/ AudioToggle \/ PageHears \/ SetMicLevel
    \/ Draw \/ MountChart \/ FramePosts \/ PageHearsFrame

PageSpec == PageInit /\ [][PageNext]_pageVars

----------------------------------------------------------------------------
(* Properties *)

\* Once nothing is under way, the control shows what the plugin last reported or did,
\* whichever of a tap, a session's sync and a draw's sync was answered last, and
\* whether or not the permission was given.  What the page is never told of (told)
\* is excepted: a microphone that ensureMicOn or the dialog it opened turned on after
\* the sync was answered, one that the loss of the connection turned off, and a
\* recorder that failed to start.
Quiet == requests = <<>> /\ asking = {} /\ answers = <<>>
RingIsHonest == Quiet /\ told => ring = mic

\* Everything that is live on the page is of the draw it shows: a chart that waited
\* for its frame, and the verdict of a viz, which the agent is told under an index
\* that the next draw uses again.
OnlyThisDraw ==
    /\ liveCharts \subseteq {drawn}
    /\ \A i \in Frames : status[i].of \in {0, drawn}

============================================================================
