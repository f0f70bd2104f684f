--------------------------- MODULE HandshakeLink ---------------------------
(***************************************************************************)
(* What the TLS 1.2 and the TLS 1.3 handshake share (src/src/tls.c): two   *)
(* peers that read and write records on one TCP connection, the running    *)
(* transcript, alerts, and a network that disturbs records.                *)
(*                                                                         *)
(* Cryptography is symbolic, as in TlcpHandshake.  A record is what its    *)
(* reader can tell of it: a signature or a Finished is the transcript it   *)
(* covers, a protected record the key and the number it was sealed with.   *)
(***************************************************************************)
EXTENDS Integers, Sequences

CONSTANTS
    Client, Server,  \* the two peers
    MaxFaults,       \* bound: records disturbed and signatures that fail
    Configs          \* what the two applications may have configured

ASSUME SidesAssumption == Client # Server
ASSUME FaultsAssumption == MaxFaults \in Nat

VARIABLES
    config,     \* the configuration of this connection
    pc,         \* pc[s]: the next step of s
    wire,       \* wire[s]: records of s the peer has not read
    transcript, \* transcript[s]: the messages s has hashed
    share,      \* share[s]: the peer's ECDHE public key as s has it
    secret,     \* secret[s]: what the record keys of s are derived from
    sendSeq,    \* sendSeq[s]: sequence number of the records s protects
    recvSeq,    \* recvSeq[s]: sequence number s expects of its peer
    clientCerts,\* conn->client_certs_len is not 0 at the client
    closed,     \* closed[s]: the socket of s is closed
    faults      \* disturbances so far

Side == {Client, Server}
Peer(s) == IF s = Client THEN Server ELSE Client
None == <<>>

\* A server with CA certificates asks its client for one.
client_verify == config.serverCA # "none"

LinkInit ==
    /\ config \in Configs
    /\ pc = [s \in Side |-> IF s = Client THEN "send_client_hello"
                                          ELSE "recv_client_hello"]
    /\ wire = [s \in Side |-> <<>>]
    /\ transcript = [s \in Side |-> <<>>]
    /\ share = [s \in Side |-> "none"]
    /\ secret = [s \in Side |-> None]
    /\ sendSeq = [s \in Side |-> 0]
    /\ recvSeq = [s \in Side |-> 0]
    /\ clientCerts = (config.clientCert # "none")
    /\ closed = [s \in Side |-> FALSE]
    /\ faults = 0

\* A handshake message: random, ECDHE key and extensions of a hello or a key
\* exchange, the transcript under a signature or a Finished, and what became of
\* the message on its way: "sent" as it was, "core" or "rest" changed where a
\* later step does or does not look, "bad" where this step refuses it.
Msg(type) == [type |-> type, random |-> "none", share |-> "none", exts |-> {},
              over |-> None, val |-> "sent", key |-> None, seq |-> 0]

\* The record that carries m under the keys of s.
Protected(s, m) == [m EXCEPT !.key = secret[s], !.seq = sendSeq[s]]

\* What is hashed: the handshake message, not its protection.
Content(m) == [m EXCEPT !.key = None, !.seq = 0]

At(s, step) == pc[s] = step /\ ~closed[s]
Goto(s, step) == pc' = [pc EXCEPT ![s] = step]
Emit(s, m) == wire' = [wire EXCEPT ![s] = Append(@, m)]
Hash(s, m) == transcript' = [transcript EXCEPT ![s] = Append(@, Content(m))]

Incoming(s) == wire[Peer(s)] # <<>>
First(s) == Head(wire[Peer(s)])
Take(s) == wire' = [wire EXCEPT ![Peer(s)] = Tail(@)]

\* Send the message m of this step, in the clear or protected, and hash it.
Send(s, step, m, next) ==
    /\ At(s, step)
    /\ Emit(s, m)
    /\ Hash(s, m)
    /\ Goto(s, next)
    /\ UNCHANGED <<config, closed, faults>>

SendPlain(s, step, m, next) ==
    Send(s, step, m, next) /\ UNCHANGED <<sendSeq, recvSeq>>

SendProtected(s, step, m, next) ==
    /\ Send(s, step, Protected(s, m), next)
    /\ sendSeq' = [sendSeq EXCEPT ![s] = @ + 1]
    /\ UNCHANGED recvSeq

\* Receive the message of this step, which the step has still to accept.
Recv(s, step, next) ==
    /\ At(s, step)
    /\ Incoming(s)
    /\ Take(s)
    /\ Hash(s, First(s))
    /\ Goto(s, next)
    /\ UNCHANGED <<config, closed, faults>>

RecvPlain(s, step, next) ==
    Recv(s, step, next) /\ UNCHANGED <<sendSeq, recvSeq>>

RecvProtected(s, step, next) ==
    /\ Recv(s, step, next)
    /\ recvSeq' = [recvSeq EXCEPT ![s] = @ + 1]
    /\ UNCHANGED sendSeq

Parses(s, type) == First(s).type = type /\ First(s).val # "bad"
Intact(s, type) == First(s).type = type /\ First(s).val = "sent"

\* Mutant: the number is not part of the nonce.
DecryptsAnyNumber(s) == First(s).val # "bad" /\ First(s).key = secret[s]

\* The record was sealed with the key and the number this side expects.
Decrypts(s) == /\ First(s).val # "bad"
               /\ First(s).key = secret[s] /\ First(s).seq = recvSeq[s]

\* A signature over what is signed, or garbage: sm2_sign_finish may fail and
\* its result is not looked at, the buffer is sent as it is.
SignatureFails == faults < MaxFaults /\ faults' = faults + 1

-----------------------------------------------------------------------------
(* Failing.                                                                *)

\* goto end, after tls_send_alert (an alert is never encrypted) or without.
FailWithAlert(s, rest) ==
    /\ wire' = [wire EXCEPT ![s] = Append(@, Msg("alert")), ![Peer(s)] = rest]
    /\ Goto(s, "failed")
    /\ UNCHANGED <<config, transcript, share, secret, sendSeq, recvSeq,
                   clientCerts, closed, faults>>

FailSilently(s) ==
    /\ Goto(s, "failed")
    /\ UNCHANGED <<config, wire, transcript, share, secret, sendSeq, recvSeq,
                   clientCerts, closed, faults>>

\* Mutant: the end of the stream is taken for a short read.
RecvFailsNoEof(s, waiting) ==
    /\ pc[s] \in waiting /\ ~closed[s]
    /\ config.timeouts /\ ~Incoming(s)
    /\ FailWithAlert(s, wire[Peer(s)])

\* tls_record_recv fails: end of the stream, a reset connection, a timeout.
RecvFails(s, waiting) ==
    /\ pc[s] \in waiting /\ ~closed[s]
    /\ closed[Peer(s)] \/ (config.timeouts /\ ~Incoming(s))
    /\ FailWithAlert(s, wire[Peer(s)])

\* tls_record_send fails on a connection the peer has closed.
SendFails(s, sending) ==
    /\ pc[s] \in sending /\ ~closed[s]
    /\ closed[Peer(s)]
    /\ FailSilently(s)

\* A tool whose handshake has failed exits, and the socket is closed.
CloseFailed(s) ==
    /\ pc[s] = "failed" /\ ~closed[s]
    /\ closed' = [closed EXCEPT ![s] = TRUE]
    /\ UNCHANGED <<config, pc, wire, transcript, share, secret, sendSeq,
                   recvSeq, clientCerts, faults>>

-----------------------------------------------------------------------------
(* The network: a record of s in flight is altered, lost, repeated or      *)
(* overtaken by the one behind it.                                         *)

\* What an alteration can make of a record.  A protected record has no part
\* that is not under its MAC, a signature none that is not checked.
Altered(m) ==
    LET bad == [m EXCEPT !.val = "bad"]
    IN  IF m.key # None THEN {bad}
        ELSE IF m.type \in {"client_hello", "server_hello"}
        THEN {bad, [m EXCEPT !.val = "rest"], [m EXCEPT !.random = "other"],
              [m EXCEPT !.exts = {}], [m EXCEPT !.exts = @ \cup {"unknown"}]}
             \cup {[m EXCEPT !.exts = @ \ {e}] : e \in m.exts}
             \cup {[m EXCEPT !.share = "other"] : e \in m.exts \cap {"key_share"}}
        ELSE IF m.type \in {"certificate", "certificate_request"}
        THEN {bad, [m EXCEPT !.val = "core"], [m EXCEPT !.val = "rest"]}
        ELSE IF m.type = "client_key_exchange"
        THEN {bad, [m EXCEPT !.share = "other"]} ELSE {bad}

Without(q, k) == [i \in 1 .. Len(q) - 1 |-> IF i < k THEN q[i] ELSE q[i + 1]]
Twice(q, k)   == [i \in 1 .. Len(q) + 1 |-> IF i <= k THEN q[i] ELSE q[i - 1]]
Swapped(q, k) == [q EXCEPT ![k] = q[k + 1], ![k + 1] = q[k]]

NetworkFault(s) ==
    /\ faults < MaxFaults
    /\ faults' = faults + 1
    /\ \E k \in 1 .. Len(wire[s]) :
        \/ \E m \in Altered(wire[s][k]) : wire' = [wire EXCEPT ![s][k] = m]
        \/ wire' = [wire EXCEPT ![s] = Without(@, k)]
        \/ wire' = [wire EXCEPT ![s] = Twice(@, k)]
        \/ k < Len(wire[s]) /\ wire' = [wire EXCEPT ![s] = Swapped(@, k)]
    /\ UNCHANGED <<config, pc, transcript, share, secret, sendSeq, recvSeq,
                   clientCerts, closed>>
=============================================================================
