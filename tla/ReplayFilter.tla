---------------------------- MODULE ReplayFilter ----------------------------
(***************************************************************************)
(* What a stream of the secure channel promises, with no window: the       *)
(* receiver remembers every counter it ever accepted.  A genuine frame is  *)
(* opened exactly when its counter is new and fewer than Size behind every *)
(* counter accepted before; a damaged frame is never opened and leaves no  *)
(* trace.  ReplayWindow implements this with Size slots of memory.         *)
(***************************************************************************)
EXTENDS Integers

CONSTANTS Size, MaxCounter

VARIABLES next, accepted, verdict

vars == <<next, accepted, verdict>>

Init == next = 0 /\ accepted = {} /\ verdict = "none"

Fresh(c) == c \notin accepted /\ \A a \in accepted : a - c < Size

Seal == next < MaxCounter /\ next' = next + 1 /\ UNCHANGED <<accepted, verdict>>

Receive(c) ==
    /\ UNCHANGED next
    /\ \/ Fresh(c) /\ accepted' = accepted \cup {c} /\ verdict' = "opened"
       \/ ~Fresh(c) /\ verdict' = "replay" /\ UNCHANGED accepted

ReceiveDamaged(c) ==
    /\ verdict' = IF Fresh(c) THEN "auth" ELSE "replay"
    /\ UNCHANGED <<next, accepted>>

Next ==
    \/ Seal
    \/ \E c \in 0 .. next - 1 : Receive(c)
    \/ \E c \in 0 .. MaxCounter : ReceiveDamaged(c)

Spec == Init /\ [][Next]_vars

=============================================================================
