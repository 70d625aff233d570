----------------------------- MODULE Handshake -----------------------------
(***************************************************************************)
(* The handshake of proto.js: hello, reply with the server's MAC, confirm  *)
(* with the client's.  A key pair is its name; a Diffie-Hellman secret of  *)
(* two key pairs is the set of their names, whichever side computes it; a  *)
(* key or a MAC is what it is derived from.  The version field and what    *)
(* malformed messages throw are left out: both ends speak version 2.       *)
(***************************************************************************)

\* deriveSession: four secrets, sorted, so that both sides feed the same input.
SessionKey(id, theirId, eph, theirEph) ==
    {{id, theirId}, {id, theirEph}, {eph, theirId}, {eph, theirEph}}

Transcript(clientId, clientEph, serverId, serverEph) ==
    <<clientId, clientEph, serverId, serverEph>>

HandshakeMac(key, role, transcript) == [key |-> key, role |-> role, over |-> transcript]

ClientHello(id, eph) == [type |-> "hello", identity |-> id, eph |-> eph]

\* serverHandshake, for a client the allowlist lets in.
ServerKey(id, eph, hello) == SessionKey(id, hello.identity, eph, hello.eph)
ServerTranscript(id, eph, hello) == Transcript(hello.identity, hello.eph, id, eph)
Reply(id, eph, hello) ==
    [type |-> "reply", identity |-> id, eph |-> eph,
     mac |-> HandshakeMac(ServerKey(id, eph, hello), "server", ServerTranscript(id, eph, hello))]
ExpectedConfirm(id, eph, hello) ==
    HandshakeMac(ServerKey(id, eph, hello), "client", ServerTranscript(id, eph, hello))

\* clientFinish.  pins holds the identity the client has pinned, or none.
ClientKey(id, eph, reply) == SessionKey(id, reply.identity, eph, reply.eph)
ClientTranscript(id, eph, reply) == Transcript(id, eph, reply.identity, reply.eph)
Genuine(id, eph, reply, pins) ==
    /\ pins # {} => reply.identity \in pins
    /\ reply.mac = HandshakeMac(ClientKey(id, eph, reply), "server",
                                ClientTranscript(id, eph, reply))
Confirm(id, eph, reply) ==
    [type |-> "confirm",
     mac |-> HandshakeMac(ClientKey(id, eph, reply), "client", ClientTranscript(id, eph, reply))]

VerifyConfirm(expected, confirm) == confirm.mac = expected

============================================================================
