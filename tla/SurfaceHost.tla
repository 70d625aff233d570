---------------------------- MODULE SurfaceHost ----------------------------
(***************************************************************************)
(* The webview host of the display surface (www/surface-host.js) over the  *)
(* core of SurfaceCore: each op is applied to the core and the event it    *)
(* returns is handled in the same synchronous call.  Around it, nothing is *)
(* synchronous: a widget's sandboxed frame loads later, handles what was   *)
(* posted to it later, and its answers arrive later still.                 *)
(*                                                                         *)
(* A message to a frame is its number among those the frame was given.     *)
(* An answer is whether the widget's code drew (vmroot) or threw (vimer).  *)
(* A batch of ops is applied in one call; here frames may act between any  *)
(* two ops, which allows more.  The code of a type in External loads a     *)
(* script from the network, which the host refuses to mount.               *)
(*                                                                         *)
(* The contents of assets are choices: what a frame finds of them is part  *)
(* of whether its code draws or throws; and a type in Fragile names an     *)
(* asset that may hold, at any mount, text that atob() refuses, so that    *)
(* mounting it may throw in the host.  SurfaceCore follows the rest.       *)
(*                                                                         *)
(* Left out: what is drawn; the built-in primitives of feed(), which no op *)
(* reaches, as the core refuses a type nobody registered; charts; and the  *)
(* failures the core's refusals of an op are told as, which are about the  *)
(* op and not about what is mounted.                                       *)
(***************************************************************************)
EXTENDS SurfaceCore

CONSTANTS
    External,   \* the types for which hasExternal() holds
    Fragile,    \* the types with an asset that may not decode
    MaxMounts,  \* bound on the frames ever mounted
    MaxFed      \* bound on the messages given to one frame

ASSUME ExternalAssumption == External \subseteq Types
ASSUME FragileAssumption == Fragile \subseteq Types
ASSUME HostBoundAssumption == MaxMounts \in Nat /\ MaxFed \in Nat

VARIABLES
    views,    \* views: key -> its view
    mounts,   \* frames mounted so far: a frame is its number
    mail,     \* per frame: its answers on their way to the host
    verdict   \* per key: the render_result last reported since it was rendered: "ok"
              \* and "failed" on a frame's word, "unmounted" a failure on the host's

host == <<views, mounts, mail, verdict>>
hostVars == <<vars, host>>

\* attached: the iframe is in the document; a frame that is not has no window.
\* code: the type whose code the frame runs.  probe: pendingFeedback.  fed, inbox and
\* seen: how many messages the frame was given, those posted and not handled yet, and
\* those it has handled.
View == [type : Types \cup {Absent}, frame : 0 .. MaxMounts,
         code : Types \cup {Absent}, attached : BOOLEAN,
         ready : BOOLEAN, queue : Seq(Nat), probe : BOOLEAN,
         fed : Nat, inbox : Seq(Nat), seen : Seq(Nat)]

NoView == [type |-> Absent, frame |-> 0, code |-> Absent, attached |-> FALSE,
           ready |-> FALSE, queue |-> <<>>, probe |-> FALSE,
           fed |-> 0, inbox |-> <<>>, seen |-> <<>>]

HostTypeOK ==
    /\ TypeOK
    /\ views \in [Keys -> View]
    /\ mounts \in 0 .. MaxMounts
    /\ mail \in [1 .. MaxMounts -> Seq(BOOLEAN)]
    /\ verdict \in [Keys -> {"none", "ok", "failed", "unmounted"}]
    /\ \A k \in Keys : views[k].ready => views[k].queue = <<>>

HostInit ==
    /\ Init
    /\ views = [k \in Keys |-> NoView]
    /\ mounts = 0
    /\ mail = [f \in 1 .. MaxMounts |-> <<>>]
    /\ verdict = [k \in Keys |-> "none"]

HasView(k) == views[k].type # Absent

----------------------------------------------------------------------------
(* Views and their frames *)

\* mountSandbox and the initial props: a new frame, not loaded, with the props
\* queued.  It replaces the frame the view had.
Mounted(t, test) ==
    [type |-> t, frame |-> mounts + 1, code |-> t, attached |-> TRUE, ready |-> FALSE,
     queue |-> <<1>>, probe |-> test, fed |-> 1, inbox |-> <<>>, seen |-> <<>>]

\* The warning replaces whatever the node held, an earlier frame included; the
\* view still refers to that frame.
Warned(v, t, test) ==
    [v EXCEPT !.type = t, !.probe = test, !.attached = FALSE, !.inbox = <<>>]

MountRegistered(k, t, test) ==
    IF t \in External
    THEN /\ views' = [views EXCEPT ![k] = Warned(@, t, test)]
         /\ UNCHANGED mounts
    ELSE /\ mounts < MaxMounts
         /\ views' = [views EXCEPT ![k] = Mounted(t, test)]
         /\ mounts' = mounts + 1

\* report: a render_result of k goes to the agent.
Told(k, outcome) == verdict' = [verdict EXCEPT ![k] = outcome]

\* Mutant: the wait of the test is left standing.
MountFailsWaiting(k, t, test) ==
    /\ t \in Fragile
    /\ views' = [views EXCEPT ![k].type = t, ![k].probe = test]
    /\ Told(k, "unmounted")
    /\ UNCHANGED mounts

\* The catch of handleRenderEvent: an asset did not decode, nothing was mounted.  A
\* frame the view had stays on show, under the new type.
MountFails(k, t, test) ==
    /\ t \in Fragile
    /\ views' = [views EXCEPT ![k].type = t, ![k].probe = FALSE]
    /\ Told(k, "unmounted")
    /\ UNCHANGED mounts

Render(k, t, test) ==
    /\ \/ MountRegistered(k, t, test) /\ Told(k, "none")
       \/ MountFails(k, t, test)
    /\ UNCHANGED mail

Handed(v) == [v EXCEPT !.fed = @ + 1, !.inbox = Append(@, v.fed + 1)]

\* Mutant: posted at once, loaded or not.
PostedAtOnce(v) ==
    CASE v.frame = 0 \/ ~v.attached -> v
      [] v.frame # 0 /\ v.attached /\ v.ready -> Handed(v)
      [] OTHER -> [v EXCEPT !.fed = @ + 1]

\* post(): held until the frame has loaded.
Posted(v) ==
    CASE v.frame = 0 -> v
      [] v.frame # 0 /\ ~v.ready -> [v EXCEPT !.fed = @ + 1, !.queue = Append(@, v.fed + 1)]
      [] v.frame # 0 /\ v.ready /\ v.attached -> Handed(v)
      [] OTHER -> v

\* The update of handleEvent goes straight to the frame: one that has not loaded
\* never sees it.
Updated(v) == IF v.ready /\ v.attached THEN Handed(v) ELSE v

Feed(k, v) ==
    /\ views[k].fed < MaxFed
    /\ views' = [views EXCEPT ![k] = v]
    /\ UNCHANGED <<mounts, mail, verdict>>

Teardown(k) ==
    /\ views' = [views EXCEPT ![k] = NoView]
    /\ verdict' = [verdict EXCEPT ![k] = "none"]
    /\ UNCHANGED <<mounts, mail>>

----------------------------------------------------------------------------
(* applyOps: an op and the handling of its event *)

HandleEvent(ev) ==
    CASE ev.event = "render" -> Render(ev.key, ev.type, ev.test)
      [] ev.event = "update" -> Feed(ev.key, Updated(views[ev.key]))
      [] ev.event = "data" -> Feed(ev.key, Posted(views[ev.key]))
      [] OTHER -> UNCHANGED host

ApplyWidgetOp ==
    /\ \/ \E t \in Types : RegisterWidgetType(t) /\ UNCHANGED host
       \/ \E k \in Keys, t \in Types :
             \/ AddWidget(k, t) /\ HandleEvent(RenderEvent(k, t, FALSE))
             \/ HandleEvent(RenderEvent(k, t, TRUE)) /\ UNCHANGED <<store, registry>>
       \/ \E k \in Keys, event \in {"update", "data"} :
             HandleEvent(FeedEvent(k, event)) /\ UNCHANGED <<store, registry>>
    /\ UNCHANGED sender

\* A removed key loses its view whether or not the core knew the widget.
ApplyRemove(k) ==
    /\ RemoveWidget(k)
    /\ Teardown(k)
    /\ UNCHANGED sender

----------------------------------------------------------------------------
(* The frames *)

\* Mutant: the queue is sent and kept.
LoadKeepingQueue(k) ==
    /\ views[k].attached /\ ~views[k].ready
    /\ views' = [views EXCEPT ![k].ready = TRUE, ![k].inbox = @ \o views[k].queue]
    /\ UNCHANGED <<vars, mounts, mail, verdict>>

\* onload: the queue is flushed, in order.
Load(k) ==
    /\ views[k].attached /\ ~views[k].ready
    /\ views' = [views EXCEPT ![k].ready = TRUE, ![k].queue = <<>>,
                              ![k].inbox = @ \o views[k].queue]
    /\ UNCHANGED <<vars, mounts, mail, verdict>>

\* The listener in the frame runs the widget's code on a message, and answers.
FrameHandles(k) ==
    /\ views[k].attached /\ views[k].inbox # <<>>
    /\ views' = [views EXCEPT ![k].inbox = Tail(@),
                              ![k].seen = Append(@, Head(views[k].inbox))]
    /\ \E ok \in BOOLEAN :
          mail' = [mail EXCEPT ![views[k].frame] = Append(@, ok)]
    /\ UNCHANGED <<vars, mounts, verdict>>

\* Mutant: any frame of the page will do.
ShowsAnyFrame(k, f) == views[k].attached

\* keyOfSource: the view whose frame the answer came from, if it still has it.
Shows(k, f) == views[k].attached /\ views[k].frame = f

\* Mutant: the wait is cleared before it is looked at.
ReportLosingSuccess(k, ok) ==
    IF ok
    THEN /\ views' = [views EXCEPT ![k].probe = FALSE]
         /\ UNCHANGED verdict
    ELSE /\ Told(k, "failed")
         /\ UNCHANGED views

\* A failure is always reported, a success when a test waits for it.
Report(k, ok) ==
    IF ok
    THEN /\ views' = [views EXCEPT ![k].probe = FALSE]
         /\ IF views[k].probe THEN Told(k, "ok") ELSE UNCHANGED verdict
    ELSE /\ Told(k, "failed")
         /\ UNCHANGED views

HostHears(f) ==
    /\ mail[f] # <<>>
    /\ mail' = [mail EXCEPT ![f] = Tail(@)]
    /\ \/ \E k \in Keys : Shows(k, f) /\ Report(k, Head(mail[f]))
       \/ /\ \A k \in Keys : ~Shows(k, f)
          /\ UNCHANGED <<views, verdict>>
    /\ UNCHANGED <<vars, mounts>>

FrameStep ==
    \/ \E k \in Keys : Load(k) \/ FrameHandles(k)
    \/ \E f \in 1 .. MaxMounts : HostHears(f)

HostNext == ApplyWidgetOp \/ (\E k \in Keys : ApplyRemove(k)) \/ FrameStep

HostSpec == HostInit /\ [][HostNext]_hostVars

\* The browser loads a frame that is in the document, runs its listener on what
\* is posted to it and delivers its answers.  Nothing obliges the agent to act.
HostFairSpec ==
    /\ HostSpec
    /\ \A k \in Keys : WF_hostVars(Load(k)) /\ WF_hostVars(FrameHandles(k))
    /\ \A f \in 1 .. MaxMounts : WF_hostVars(HostHears(f))

----------------------------------------------------------------------------
(* Properties *)

\* The initial props and everything published reach the frame in the order they
\* were given, none lost and none twice, however the frame's loading falls among
\* them ("queued until the frame has loaded, then flushed in order",
\* docs/display-surface.md:119).  Updates that come too early are not given to the
\* frame at all and not counted here.
FedInOrder ==
    \A k \in Keys :
        views[k].attached =>
            views[k].seen \o views[k].inbox \o views[k].queue = [i \in 1 .. views[k].fed |-> i]

\* What is reported of a key on a frame's word was earned by the frame it shows now:
\* an answer of a frame since replaced or removed is never taken for the new one's.
\* And a test that is told a success tested what it named: where its type was not
\* mounted (an external script, an asset that does not decode) the frame of another
\* type, still on show, does not pass for it.
VerdictIsEarned ==
    \A k \in Keys :
        /\ verdict[k] \in {"ok", "failed"} => views[k].attached /\ views[k].seen # <<>>
        /\ verdict[k] = "ok" => views[k].code = views[k].type

\* A test whose frame was mounted gets its answer, unless the frame is replaced or
\* removed first, or a mount in its place fails, which is told: the agent that tests a
\* type before it builds on it is not left waiting ("For every test_widget ... the app
\* reports back", docs/display-surface.md:71).  A type the host refuses to mount is not
\* covered.
TestIsAnswered ==
    \A k \in Keys, f \in 1 .. MaxMounts :
        (Shows(k, f) /\ views[k].probe) ~> (verdict[k] # "none" \/ ~Shows(k, f))

============================================================================
