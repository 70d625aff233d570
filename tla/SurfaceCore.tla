---------------------------- MODULE SurfaceCore ----------------------------
(***************************************************************************)
(* The core of the display surface (www/surface-core.js): assets shipped   *)
(* in chunks under a storage cap, widget types that need assets, and live  *)
(* widgets.  Every operation is one synchronous call of apply().  An event *)
(* it returns is an operator only where the host acts on it; the others    *)
(* are only told to the agent.                                             *)
(*                                                                         *)
(* A chunk is the upload it was cut from, its place there, its decoded     *)
(* size and whether it is the last one (append absent); what it contains   *)
(* is left out.  A name that is absent from assets or from pending holds   *)
(* NoAsset or NoUpload, whose fields are what the code takes instead:      *)
(* size 0, and the seq -1 a new upload starts from.                        *)
(*                                                                         *)
(* The sender is the agent with the transport in between: it ships an      *)
(* upload chunk by chunk, may stop anywhere, and starts again as the       *)
(* documentation asks: with seq 0, or after unregister_asset where its     *)
(* chunks carry no seq.  A numbered chunk may arrive twice (a retry after  *)
(* a lost acknowledgement), and one after the first may be lost.           *)
(***************************************************************************)
EXTENDS Integers, Sequences, FiniteSets, Functions

CONSTANTS
    Assets,      \* asset names
    Types,       \* widget type names
    Keys,        \* widget keys
    Needs,       \* Types -> SUBSET Assets: the assets a type names
    Numbered,    \* the asset names whose uploads carry seq
    Capacity,    \* capacity, in the unit of Sizes
    Sizes,       \* decoded sizes of a chunk; 0 is a chunk without payload
    MaxChunks,   \* bound on the chunks of one upload
    MaxUploads   \* bound on the uploads of one name

ASSUME AssetsAssumption == IsFiniteSet(Assets)
ASSUME NeedsAssumption == Needs \in [Types -> SUBSET Assets]
ASSUME NumberedAssumption == Numbered \subseteq Assets
ASSUME SizeAssumption == Sizes \subseteq Nat /\ Capacity \in Nat
ASSUME BoundAssumption == MaxChunks \in Nat \ {0} /\ MaxUploads \in Nat

Absent == "absent"  \* the type of a widget that is not there
NoSeq == -1         \* the seq of a chunk that carries none
NoAsset == [chunks |-> <<>>, size |-> 0]
NoUpload == [chunks |-> <<>>, bytes |-> 0, seq |-> -1]

Chunks == [upload : Nat, place : Nat, size : Sizes, last : BOOLEAN]

VARIABLES
    assets,    \* assets: the complete ones
    pending,   \* pending: multi-chunk uploads in flight
    poisoned,  \* poisoned: names whose upload was aborted
    usage,     \* usage
    types,     \* the names in types
    widgets,   \* widgets: key -> its type, or Absent
    sender     \* per asset: the upload being shipped and how much of it is

store == <<assets, pending, poisoned, usage>>
registry == <<types, widgets>>
vars == <<store, registry, sender>>

TypeOK ==
    /\ assets \in [Assets -> [chunks : Seq(Chunks), size : Nat]]
    /\ pending \in [Assets -> [chunks : Seq(Chunks), bytes : Nat, seq : Nat \cup {-1}]]
    /\ poisoned \in SUBSET Assets
    /\ usage \in Nat
    /\ types \in SUBSET Types
    /\ widgets \in [Keys -> Types \cup {Absent}]
    /\ sender \in [Assets -> [upload : 0 .. MaxUploads, length : Nat, sent : Nat]]

Init ==
    /\ assets = [n \in Assets |-> NoAsset]
    /\ pending = [n \in Assets |-> NoUpload]
    /\ poisoned = {}
    /\ usage = 0
    /\ types = {}
    /\ widgets = [k \in Keys |-> Absent]
    /\ sender = [n \in Assets |-> [upload |-> 0, length |-> 0, sent |-> 0]]

Inflight(n) == pending[n] # NoUpload
Complete(n) == assets[n] # NoAsset
Clamped(x) == IF x < 0 THEN 0 ELSE x

\* The event apply() returns for a refused op, reported to the agent.
Refused(k) == [event |-> "render_result", key |-> k]

----------------------------------------------------------------------------
(* register_asset *)

\* Mutant: the bytes of the complete asset are given back too.
AbortFreeingAsset(n) ==
    /\ usage' = Clamped(usage - (pending[n].bytes + assets[n].size))
    /\ pending' = [pending EXCEPT ![n] = NoUpload]
    /\ poisoned' = poisoned \cup {n}
    /\ UNCHANGED assets

\* Mutant: the chunk is refused and nothing else.
AbortChunkOnly(n) == UNCHANGED store

\* Mutant: what has arrived is dropped and its bytes stay counted.
AbortKeepingBytes(n) ==
    /\ pending' = [pending EXCEPT ![n] = NoUpload]
    /\ poisoned' = poisoned \cup {n}
    /\ UNCHANGED <<assets, usage>>

\* abort(): what has arrived is dropped and the name is blocked.
Abort(n) ==
    /\ usage' = Clamped(usage - pending[n].bytes)
    /\ pending' = [pending EXCEPT ![n] = NoUpload]
    /\ poisoned' = poisoned \cup {n}
    /\ UNCHANGED assets

\* The bytes of a complete asset that a new upload replaces.
Replacing(n) == IF Inflight(n) THEN 0 ELSE assets[n].size

\* A poisoned name is only reopened by seq 0.
Shut(n, seq) == n \in poisoned /\ seq # 0

\* What aborts an upload: no payload, a wrong seq, the cap.
Unacceptable(n, chunk, seq) ==
    \/ chunk.size = 0
    \/ seq # NoSeq /\ seq # pending[n].seq + 1
    \/ usage - Replacing(n) + chunk.size > Capacity

Extended(n, chunk, seq) ==
    [chunks |-> Append(pending[n].chunks, chunk),
     bytes |-> pending[n].bytes + chunk.size,
     seq |-> IF seq = NoSeq THEN pending[n].seq ELSE seq]

\* The chunk is stored.  The asset it begins to replace is freed now, not
\* when the upload completes.
Accept(n, chunk, seq) ==
    LET upload == Extended(n, chunk, seq)
        kept == IF Replacing(n) > 0 THEN NoAsset ELSE assets[n]
    IN  /\ usage' = usage - Replacing(n) + chunk.size
        /\ poisoned' = poisoned \ {n}
        /\ IF chunk.last
           THEN /\ pending' = [pending EXCEPT ![n] = NoUpload]
                /\ assets' = [assets EXCEPT ![n] =
                                 [chunks |-> upload.chunks, size |-> upload.bytes]]
           ELSE /\ pending' = [pending EXCEPT ![n] = upload]
                /\ assets' = [assets EXCEPT ![n] = kept]

RegisterAsset(n, chunk, seq) ==
    /\ UNCHANGED registry
    /\ \/ /\ Shut(n, seq)
          /\ UNCHANGED store
       \/ ~Shut(n, seq) /\ Unacceptable(n, chunk, seq) /\ Abort(n)
       \/ ~Shut(n, seq) /\ ~Unacceptable(n, chunk, seq) /\ Accept(n, chunk, seq)

\* unregister_asset drops a complete asset and an abandoned upload alike.
UnregisterAsset(n) ==
    /\ usage' = Clamped(usage - (pending[n].bytes + assets[n].size))
    /\ pending' = [pending EXCEPT ![n] = NoUpload]
    /\ assets' = [assets EXCEPT ![n] = NoAsset]
    /\ poisoned' = poisoned \ {n}
    /\ UNCHANGED registry

----------------------------------------------------------------------------
(* Widget types and widgets *)

\* A type is refused until every asset it names is complete.
RegisterWidgetType(t) ==
    /\ types' = IF \A n \in Needs[t] : Complete(n) THEN types \cup {t} ELSE types
    /\ UNCHANGED <<store, widgets>>

AddWidget(k, t) ==
    /\ widgets' = IF t \in types THEN [widgets EXCEPT ![k] = t] ELSE widgets
    /\ UNCHANGED <<store, types>>

RemoveWidget(k) ==
    /\ widgets' = [widgets EXCEPT ![k] = Absent]
    /\ UNCHANGED <<store, types>>

\* The event of add_widget and of test_widget, which enters nothing in the registry.
RenderEvent(k, t, test) ==
    IF t \in types THEN [event |-> "render", key |-> k, type |-> t, test |-> test]
                   ELSE Refused(k)

\* The event of update_widget and of publish: the widget must exist.
FeedEvent(k, event) ==
    IF widgets[k] # Absent THEN [event |-> event, key |-> k] ELSE Refused(k)

----------------------------------------------------------------------------
(* The sender and the transport *)

Sent(n) == sender[n].sent = sender[n].length

\* The chunk at place i of the upload being shipped arrives.
Arrives(n, i) ==
    \E size \in Sizes :
        RegisterAsset(n,
            [upload |-> sender[n].upload, place |-> i, size |-> size,
             last |-> i = sender[n].length - 1],
            IF n \in Numbered THEN i ELSE NoSeq)

Begin(n) ==
    /\ n \in Numbered \/ Sent(n)
    /\ sender[n].upload < MaxUploads
    /\ \E length \in 1 .. MaxChunks :
          sender' = [sender EXCEPT ![n] =
                        [upload |-> @.upload + 1, length |-> length, sent |-> 0]]
    /\ UNCHANGED <<store, registry>>

Ship(n) ==
    /\ ~Sent(n)
    /\ Arrives(n, sender[n].sent)
    /\ sender' = [sender EXCEPT ![n].sent = @ + 1]

\* The chunk shipped last arrives once more.
ShipAgain(n) ==
    /\ n \in Numbered
    /\ sender[n].sent > 0
    /\ Arrives(n, sender[n].sent - 1)
    /\ UNCHANGED sender

ChunkLost(n) ==
    /\ n \in Numbered
    /\ sender[n].sent > 0
    /\ ~Sent(n)
    /\ sender' = [sender EXCEPT ![n].sent = @ + 1]
    /\ UNCHANGED <<store, registry>>

\* The agent withdraws the asset, and whatever it was shipping under the name.
Withdraw(n) ==
    /\ UnregisterAsset(n)
    /\ sender' = [sender EXCEPT ![n].sent = sender[n].length]

AssetOp ==
    \E n \in Assets : Begin(n) \/ Ship(n) \/ ShipAgain(n) \/ ChunkLost(n) \/ Withdraw(n)

WidgetOp ==
    /\ \/ \E t \in Types : RegisterWidgetType(t)
       \/ \E k \in Keys, t \in Types : AddWidget(k, t)
       \/ \E k \in Keys : RemoveWidget(k)
    /\ UNCHANGED sender

Next == AssetOp \/ WidgetOp

Spec == Init /\ [][Next]_vars

----------------------------------------------------------------------------
(* Properties *)

SizeOf(chunks) == SumFunction([i \in DOMAIN chunks |-> chunks[i].size])

\* The bytes of a name: those of its complete asset and of its upload.
Held(n) == SizeOf(assets[n].chunks) + SizeOf(pending[n].chunks)

\* usage is what the cap is judged by: however uploads are aborted, replaced,
\* repeated and withdrawn, it is the sum of the chunks that are held, and within
\* the capacity.  Bytes counted twice or never given back would refuse uploads
\* for good, or let the surface grow past its cap.
UsageIsExact ==
    /\ usage = SumFunction([n \in Assets |-> Held(n)])
    /\ usage <= Capacity

\* What an upload holds: its own chunks, from the first on.
Consecutive(chunks) ==
    \A i \in DOMAIN chunks :
        chunks[i].place = i - 1 /\ chunks[i].upload = chunks[1].upload

\* A complete asset is one upload, whole: every chunk from its first to its last,
\* in order, none twice and none of another upload ("a later chunk can never
\* complete an asset with a hole in it", surface-core.js:118).
CompleteIsWhole ==
    \A n \in Assets :
        /\ Consecutive(assets[n].chunks)
        /\ \A i \in DOMAIN assets[n].chunks :
              assets[n].chunks[i].last <=> i = Len(assets[n].chunks)

============================================================================
