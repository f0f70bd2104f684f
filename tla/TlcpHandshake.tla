--------------------------- MODULE TlcpHandshake ---------------------------
(***************************************************************************)
(* The TLCP handshake (src/src/tlcp.c): tlcp_do_connect and tlcp_do_accept *)
(* of two peers on one TCP connection, one action per message sent or      *)
(* received.                                                               *)
(*                                                                         *)
(* Data.  Cryptography is symbolic: a signature, a digest or a MAC is the  *)
(* value it covers.  A record is what its receiver can tell: its type, the *)
(* values under its signature or MAC and how it was altered on its way:    *)
(*   "sent"  it is as it was sent;                                         *)
(*   "core"  it parses, but the random, the keys or the authorities that   *)
(*           later steps use are others;                                   *)
(*   "rest"  it parses and differs where no later step looks;              *)
(*   "bad"   it does not parse, or a check on the spot refuses it.         *)
(* The description of an alert is left out: every reader treats any alert  *)
(* as an unexpected message.                                               *)
(***************************************************************************)
EXTENDS Integers, Sequences

CONSTANTS
    Client, Server,  \* the two peers
    MaxFaults,       \* bound: records the network disturbs
    Timeouts,        \* the sockets have a receive timeout (SO_RCVTIMEO)
    Crashes          \* a process may end in the middle of its handshake

ASSUME SidesAssumption == Client # Server
ASSUME BoundsAssumption ==
    MaxFaults \in Nat /\ Timeouts \in BOOLEAN /\ Crashes \in BOOLEAN

VARIABLES
    config,     \* what the two applications have put in their TLS_CTX
    pc,         \* pc[s]: the next step of s, "established" or "failed"
    wire,       \* wire[s]: records of s the peer has not read
    transcript, \* transcript[s]: the messages in sm3_ctx
    random,     \* random[s]: <<client_random, server_random>> as s knows them
    certsOf,    \* certsOf[s]: the peer's certificates s has, as altered
    clientCerts,\* conn->client_certs_len is not 0 at the client
    secret,     \* secret[s]: conn->master_secret, from which the keys follow
    clientSeq,  \* clientSeq[s]: conn->client_seq_num
    serverSeq,  \* serverSeq[s]: conn->server_seq_num
    closed,     \* closed[s]: the socket of s is closed
    faults      \* records disturbed so far

keys == <<random, certsOf, clientCerts, secret>>
seqs == <<clientSeq, serverSeq>>
vars == <<config, pc, wire, transcript, keys, seqs, closed, faults>>

Side == {Client, Server}
Peer(s) == IF s = Client THEN Server ELSE Client

\* What the applications configured.  A client certificate may be missing,
\* issued by no authority the server names, or name one that did not sign it.
\* The server's authorities may be too many for TLS_MAX_CA_NAMES_SIZE, and its
\* chain may hold a signing certificate only.
Configs == [clientCA : BOOLEAN,
            clientCert : {"none", "good", "untrusted", "unlisted"},
            serverCA : {"none", "fits", "too_long"},
            serverCerts : {"good", "untrusted", "sign_only"}]

\* A record as it is sent: rnd is what a ServerKeyExchange signs, over the
\* transcript a CertificateVerify signs or a Finished covers, key and seq what
\* its MAC is computed with.
Message(type, rnd, over, key, seq) ==
    [type |-> type, rnd |-> rnd, over |-> over, key |-> key, seq |-> seq,
     val |-> "sent"]
Plain(type) == Message(type, <<>>, <<>>, <<>>, 0)

Init ==
    /\ config \in Configs
    /\ pc = [s \in Side |-> IF s = Client THEN "send_client_hello"
                                          ELSE "recv_client_hello"]
    /\ wire = [s \in Side |-> <<>>]
    /\ transcript = [s \in Side |-> <<>>]
    /\ random = [s \in Side |-> <<"none", "none">>]
    /\ certsOf = [s \in Side |-> "none"]
    /\ clientCerts = (config.clientCert # "none")
    /\ secret = [s \in Side |-> <<>>]
    /\ clientSeq = [s \in Side |-> 0]
    /\ serverSeq = [s \in Side |-> 0]
    /\ closed = [s \in Side |-> FALSE]
    /\ faults = 0

-----------------------------------------------------------------------------
(* Sending and receiving one record.                                       *)

At(s, step) == pc[s] = step /\ ~closed[s]
Goto(s, step) == pc' = [pc EXCEPT ![s] = step]

Emit(s, m) == wire' = [wire EXCEPT ![s] = Append(@, m)]
Hash(s, m) == transcript' = [transcript EXCEPT ![s] = Append(@, m)]

\* Send the handshake message m of this step and add it to the transcript.
Send(s, step, m, next) ==
    /\ At(s, step)
    /\ Emit(s, m)
    /\ Hash(s, m)
    /\ Goto(s, next)
    /\ UNCHANGED <<config, closed, faults>>

Incoming(s) == wire[Peer(s)] # <<>>
First(s) == Head(wire[Peer(s)])
Take(s) == wire' = [wire EXCEPT ![Peer(s)] = Tail(@)]

\* Receive the handshake message of this step, which the step has still to
\* accept, and add it to the transcript.
Recv(s, step, next) ==
    /\ At(s, step)
    /\ Incoming(s)
    /\ Take(s)
    /\ Hash(s, First(s))
    /\ Goto(s, next)
    /\ UNCHANGED <<config, closed, faults>>

Parses(s, type) == First(s).type = type /\ First(s).val # "bad"
Intact(s, type) == First(s).type = type /\ First(s).val = "sent"

\* The random in a hello of the peer.
RandomOf(m, sent) == IF m.val = "core" THEN "other" ELSE sent

-----------------------------------------------------------------------------
(* tlcp_do_connect.                                                        *)

SendClientHello ==
    /\ Send(Client, "send_client_hello", Plain("client_hello"),
            "recv_server_hello")
    /\ random' = [random EXCEPT ![Client] = <<"cr", "none">>]
    /\ UNCHANGED <<certsOf, clientCerts, secret, seqs>>

ServerHelloOK == Parses(Client, "server_hello")

RecvServerHello ==
    /\ Recv(Client, "recv_server_hello", "recv_server_cert")
    /\ ServerHelloOK
    /\ random' = [random EXCEPT ![Client] =
                    <<@[1], RandomOf(First(Client), "sr")>>]
    /\ UNCHANGED <<certsOf, clientCerts, secret, seqs>>

\* The chain is verified only if the client has CA certificates.
ServerCertOK ==
    /\ Parses(Client, "certificate")
    /\ config.clientCA => /\ First(Client).val = "sent"
                          /\ config.serverCerts = "good"

RecvServerCertificate ==
    /\ Recv(Client, "recv_server_cert", "recv_server_key_exchange")
    /\ ServerCertOK
    /\ certsOf' = [certsOf EXCEPT ![Client] = First(Client).val]
    /\ UNCHANGED <<random, clientCerts, secret, seqs>>

\* Mutant: the signature is not checked against the randoms.
ServerKeyExchangeAny == Intact(Client, "server_key_exchange")

\* The signature of the server's signing key over both randoms and its
\* encryption certificate.
ServerKeyExchangeOK ==
    /\ Intact(Client, "server_key_exchange")
    /\ certsOf[Client] # "core"
    /\ First(Client).rnd = random[Client]

RecvServerKeyExchange ==
    /\ Recv(Client, "recv_server_key_exchange", "recv_cert_request_or_done")
    /\ ServerKeyExchangeOK
    /\ UNCHANGED <<keys, seqs>>

\* The client has certificates of a type and an issuer the server asks for.
CertRequestOK ==
    /\ Parses(Client, "certificate_request")
    /\ clientCerts
    /\ First(Client).val # "core"
    /\ config.clientCert # "unlisted"

\* Mutant: CertificateRequest is left out of the transcript.
RecvCertificateRequestUnhashed ==
    /\ At(Client, "recv_cert_request_or_done")
    /\ Incoming(Client) /\ CertRequestOK
    /\ Take(Client)
    /\ Goto(Client, "recv_server_hello_done")
    /\ UNCHANGED <<config, transcript, keys, seqs, closed, faults>>

RecvCertificateRequest ==
    /\ Recv(Client, "recv_cert_request_or_done", "recv_server_hello_done")
    /\ CertRequestOK
    /\ UNCHANGED <<keys, seqs>>

\* Where the client goes after ServerHelloDone.
AfterHelloDone(certs) == IF certs THEN "send_client_cert"
                                  ELSE "send_client_key_exchange"

ServerHelloDoneOK == Intact(Client, "server_hello_done")

RecvServerHelloDone ==
    /\ Recv(Client, "recv_server_hello_done", AfterHelloDone(clientCerts))
    /\ ServerHelloDoneOK
    /\ UNCHANGED <<keys, seqs>>

\* ServerHelloDone without a CertificateRequest: the client drops its
\* certificates and its signing key.
RecvServerHelloDoneNoRequest ==
    /\ Recv(Client, "recv_cert_request_or_done", AfterHelloDone(FALSE))
    /\ ServerHelloDoneOK
    /\ clientCerts' = FALSE
    /\ UNCHANGED <<random, certsOf, secret, seqs>>

SendClientCertificate ==
    /\ Send(Client, "send_client_cert", Plain("certificate"),
            "send_client_key_exchange")
    /\ UNCHANGED <<keys, seqs>>

\* The master secret: tls_prf of the pre-master secret and both randoms.
MasterSecret(s) == <<"pms", random[s][1], random[s][2]>>

\* Generate the secrets, then send the pre-master secret encrypted to the
\* server's encryption certificate.
SendClientKeyExchange ==
    /\ Send(Client, "send_client_key_exchange", Plain("client_key_exchange"),
            IF clientCerts THEN "send_cert_verify" ELSE "send_client_ccs")
    /\ secret' = [secret EXCEPT ![Client] = MasterSecret(Client)]
    /\ UNCHANGED <<random, certsOf, clientCerts, seqs>>

SendCertificateVerify ==
    /\ Send(Client, "send_cert_verify",
            Message("certificate_verify", <<>>, transcript[Client], <<>>, 0),
            "send_client_ccs")
    /\ UNCHANGED <<keys, seqs>>

SendClientChangeCipherSpec ==
    /\ At(Client, "send_client_ccs")
    /\ Emit(Client, Plain("change_cipher_spec"))
    /\ Goto(Client, "send_client_finished")
    /\ UNCHANGED <<config, transcript, keys, seqs, closed, faults>>

\* Finished is encrypted with the new keys and sequence number n.
Finished(s, type, n) == Message(type, <<>>, transcript[s], secret[s], n)

SendClientFinished ==
    /\ Send(Client, "send_client_finished",
            Finished(Client, "client_finished", clientSeq[Client]),
            "recv_server_ccs")
    /\ clientSeq' = [clientSeq EXCEPT ![Client] = @ + 1]
    /\ UNCHANGED <<keys, serverSeq>>

ChangeCipherSpecOK(s) == Intact(s, "change_cipher_spec")

\* Mutant: the client does not wait for the server's Finished.
RecvServerChangeCipherSpecLast ==
    /\ At(Client, "recv_server_ccs")
    /\ Incoming(Client) /\ ChangeCipherSpecOK(Client)
    /\ Take(Client)
    /\ Goto(Client, "established")
    /\ UNCHANGED <<config, transcript, keys, seqs, closed, faults>>

RecvServerChangeCipherSpec ==
    /\ At(Client, "recv_server_ccs")
    /\ Incoming(Client) /\ ChangeCipherSpecOK(Client)
    /\ Take(Client)
    /\ Goto(Client, "recv_server_finished")
    /\ UNCHANGED <<config, transcript, keys, seqs, closed, faults>>

\* Mutant: verify_data is not compared.
FinishedAnyView(s, type, n) ==
    Intact(s, type) /\ First(s).key = secret[s] /\ First(s).seq = n

\* The record decrypts under this side's keys and verify_data is the PRF of
\* this side's transcript.
FinishedOK(s, type, n) ==
    /\ Intact(s, type)
    /\ First(s).key = secret[s] /\ First(s).seq = n
    /\ First(s).over = transcript[s]

\* The last message of the handshake is not hashed any more.
RecvServerFinished ==
    /\ At(Client, "recv_server_finished")
    /\ Incoming(Client) /\ FinishedOK(Client, "server_finished", serverSeq[Client])
    /\ Take(Client)
    /\ Goto(Client, "established")
    /\ serverSeq' = [serverSeq EXCEPT ![Client] = @ + 1]
    /\ UNCHANGED <<config, transcript, keys, clientSeq, closed, faults>>

ClientSend == \/ SendClientHello
              \/ SendClientCertificate
              \/ SendClientKeyExchange
              \/ SendCertificateVerify
              \/ SendClientChangeCipherSpec
              \/ SendClientFinished

ClientRecv == \/ RecvServerHello
              \/ RecvServerCertificate
              \/ RecvServerKeyExchange
              \/ RecvCertificateRequest
              \/ RecvServerHelloDone
              \/ RecvServerHelloDoneNoRequest
              \/ RecvServerChangeCipherSpec
              \/ RecvServerFinished

-----------------------------------------------------------------------------
(* tlcp_do_accept.                                                         *)

client_verify == config.serverCA # "none"

ClientHelloOK == Parses(Server, "client_hello")

\* tls_random_generate(server_random) belongs to the next step; the random is
\* first used there.
RecvClientHello ==
    /\ Recv(Server, "recv_client_hello", "send_server_hello")
    /\ ClientHelloOK
    /\ random' = [random EXCEPT ![Server] =
                    <<RandomOf(First(Server), "cr"), "none">>]
    /\ UNCHANGED <<certsOf, clientCerts, secret, seqs>>

SendServerHello ==
    /\ Send(Server, "send_server_hello", Plain("server_hello"),
            "send_server_cert")
    /\ random' = [random EXCEPT ![Server] = <<@[1], "sr">>]
    /\ UNCHANGED <<certsOf, clientCerts, secret, seqs>>

SendServerCertificate ==
    /\ Send(Server, "send_server_cert", Plain("certificate"),
            "send_server_key_exchange")
    /\ UNCHANGED <<keys, seqs>>

\* Mutant: CertificateRequest is never sent.
SendServerKeyExchangeNoRequest ==
    /\ config.serverCerts # "sign_only"
    /\ Send(Server, "send_server_key_exchange",
            Message("server_key_exchange", random[Server], <<>>, <<>>, 0),
            "send_server_hello_done")
    /\ UNCHANGED <<keys, seqs>>

SendServerKeyExchange ==
    /\ config.serverCerts # "sign_only"
    /\ Send(Server, "send_server_key_exchange",
            Message("server_key_exchange", random[Server], <<>>, <<>>, 0),
            IF client_verify THEN "send_cert_request" ELSE "send_server_hello_done")
    /\ UNCHANGED <<keys, seqs>>

SendCertificateRequest ==
    /\ config.serverCA = "fits"
    /\ Send(Server, "send_cert_request", Plain("certificate_request"),
            "send_server_hello_done")
    /\ UNCHANGED <<keys, seqs>>

SendServerHelloDone ==
    /\ Send(Server, "send_server_hello_done", Plain("server_hello_done"),
            IF client_verify THEN "recv_client_cert" ELSE "recv_client_key_exchange")
    /\ UNCHANGED <<keys, seqs>>

\* Mutant: the server does not verify the chain.
ClientCertAny == Parses(Server, "certificate")

ClientCertOK == Intact(Server, "certificate") /\ config.clientCert = "good"

RecvClientCertificate ==
    /\ Recv(Server, "recv_client_cert", "recv_client_key_exchange")
    /\ ClientCertOK
    /\ certsOf' = [certsOf EXCEPT ![Server] = First(Server).val]
    /\ UNCHANGED <<random, clientCerts, secret, seqs>>

ClientKeyExchangeOK == Intact(Server, "client_key_exchange")

\* sm2_decrypt of the pre-master secret; the secrets are generated at once
\* unless a CertificateVerify comes first.
RecvClientKeyExchange ==
    /\ Recv(Server, "recv_client_key_exchange",
            IF client_verify THEN "recv_cert_verify" ELSE "recv_client_ccs")
    /\ ClientKeyExchangeOK
    /\ secret' = IF client_verify THEN secret
                 ELSE [secret EXCEPT ![Server] = MasterSecret(Server)]
    /\ UNCHANGED <<random, certsOf, clientCerts, seqs>>

CertVerifyOK ==
    /\ Intact(Server, "certificate_verify")
    /\ First(Server).over = transcript[Server]

RecvCertificateVerify ==
    /\ Recv(Server, "recv_cert_verify", "recv_client_ccs")
    /\ CertVerifyOK
    /\ secret' = [secret EXCEPT ![Server] = MasterSecret(Server)]
    /\ UNCHANGED <<random, certsOf, clientCerts, seqs>>

RecvClientChangeCipherSpec ==
    /\ At(Server, "recv_client_ccs")
    /\ Incoming(Server) /\ ChangeCipherSpecOK(Server)
    /\ Take(Server)
    /\ Goto(Server, "recv_client_finished")
    /\ UNCHANGED <<config, transcript, keys, seqs, closed, faults>>

\* Mutant: the sequence number of the client's records is not incremented.
RecvClientFinishedNoIncr ==
    /\ Recv(Server, "recv_client_finished", "send_server_ccs")
    /\ FinishedOK(Server, "client_finished", clientSeq[Server])
    /\ UNCHANGED <<keys, seqs>>

RecvClientFinished ==
    /\ Recv(Server, "recv_client_finished", "send_server_ccs")
    /\ FinishedOK(Server, "client_finished", clientSeq[Server])
    /\ clientSeq' = [clientSeq EXCEPT ![Server] = @ + 1]
    /\ UNCHANGED <<keys, serverSeq>>

SendServerChangeCipherSpec ==
    /\ At(Server, "send_server_ccs")
    /\ Emit(Server, Plain("change_cipher_spec"))
    /\ Goto(Server, "send_server_finished")
    /\ UNCHANGED <<config, transcript, keys, seqs, closed, faults>>

\* The server's Finished covers the client's and is not hashed itself.
SendServerFinished ==
    /\ At(Server, "send_server_finished")
    /\ Emit(Server, Finished(Server, "server_finished", serverSeq[Server]))
    /\ Goto(Server, "established")
    /\ serverSeq' = [serverSeq EXCEPT ![Server] = @ + 1]
    /\ UNCHANGED <<config, transcript, keys, clientSeq, closed, faults>>

ServerSend == \/ SendServerHello
              \/ SendServerCertificate
              \/ SendServerKeyExchange
              \/ SendCertificateRequest
              \/ SendServerHelloDone
              \/ SendServerChangeCipherSpec
              \/ SendServerFinished

ServerRecv == \/ RecvClientHello
              \/ RecvClientCertificate
              \/ RecvClientKeyExchange
              \/ RecvCertificateVerify
              \/ RecvClientChangeCipherSpec
              \/ RecvClientFinished

-----------------------------------------------------------------------------
(* Failing.                                                                *)

SendSteps == {"send_client_hello", "send_client_cert",
    "send_client_key_exchange", "send_cert_verify", "send_client_ccs",
    "send_client_finished", "send_server_hello", "send_server_cert",
    "send_server_key_exchange", "send_cert_request", "send_server_hello_done",
    "send_server_ccs", "send_server_finished"}

RecvSteps == {"recv_server_hello", "recv_server_cert",
    "recv_server_key_exchange", "recv_cert_request_or_done",
    "recv_server_hello_done", "recv_server_ccs", "recv_server_finished",
    "recv_client_hello", "recv_client_cert", "recv_client_key_exchange",
    "recv_cert_verify", "recv_client_ccs", "recv_client_finished"}

Waiting(s) == pc[s] \in RecvSteps /\ ~closed[s]

\* The record that is next is one this step accepts.
Acceptable(s) ==
    \/ pc[s] = "recv_server_hello" /\ ServerHelloOK
    \/ pc[s] = "recv_server_cert" /\ ServerCertOK
    \/ pc[s] = "recv_server_key_exchange" /\ ServerKeyExchangeOK
    \/ pc[s] = "recv_cert_request_or_done" /\ (CertRequestOK \/ ServerHelloDoneOK)
    \/ pc[s] = "recv_server_hello_done" /\ ServerHelloDoneOK
    \/ pc[s] = "recv_server_finished" /\ FinishedOK(s, "server_finished", serverSeq[s])
    \/ pc[s] = "recv_client_hello" /\ ClientHelloOK
    \/ pc[s] = "recv_client_cert" /\ ClientCertOK
    \/ pc[s] = "recv_client_key_exchange" /\ ClientKeyExchangeOK
    \/ pc[s] = "recv_cert_verify" /\ CertVerifyOK
    \/ pc[s] = "recv_client_finished" /\ FinishedOK(s, "client_finished", clientSeq[s])
    \/ pc[s] \in {"recv_server_ccs", "recv_client_ccs"} /\ ChangeCipherSpecOK(s)

\* goto end, after tls_send_alert or without.
FailWithAlert(s, rest) ==
    /\ wire' = [wire EXCEPT ![s] = Append(@, Plain("alert")), ![Peer(s)] = rest]
    /\ Goto(s, "failed")
    /\ UNCHANGED <<config, transcript, keys, seqs, closed, faults>>

FailSilently(s) ==
    /\ Goto(s, "failed")
    /\ UNCHANGED <<config, wire, transcript, keys, seqs, closed, faults>>

\* A record this step does not accept, an alert of the peer included.  (The
\* counters and the transcript of a failed handshake are not used again.)
Reject(s) ==
    /\ Waiting(s)
    /\ Incoming(s)
    /\ ~Acceptable(s)
    /\ FailWithAlert(s, Tail(wire[Peer(s)]))

\* Mutant: the end of the stream is taken for a short read.
RecvFailsNoEof(s) ==
    /\ Waiting(s)
    /\ Timeouts /\ ~Incoming(s)
    /\ FailWithAlert(s, wire[Peer(s)])

\* tls_record_recv fails: end of the stream, a connection reset by the peer,
\* or a receive timeout.
RecvFails(s) ==
    /\ Waiting(s)
    /\ closed[Peer(s)] \/ (Timeouts /\ ~Incoming(s))
    /\ FailWithAlert(s, wire[Peer(s)])

\* tls_record_send fails on a connection the peer has closed.
SendFails(s) ==
    /\ pc[s] \in SendSteps /\ ~closed[s]
    /\ closed[Peer(s)]
    /\ FailSilently(s)

\* The server has no encryption certificate to sign, or cannot encode the
\* names of its authorities: it ends without an alert.
ServerCannotGoOn ==
    /\ \/ At(Server, "send_server_key_exchange") /\ config.serverCerts = "sign_only"
       \/ At(Server, "send_cert_request") /\ config.serverCA = "too_long"
    /\ FailSilently(Server)

CloseSocket(s) ==
    /\ ~closed[s]
    /\ closed' = [closed EXCEPT ![s] = TRUE]
    /\ UNCHANGED <<config, pc, wire, transcript, keys, seqs, faults>>

\* A failed handshake ends the tool, and with it the connection.
CloseFailed(s) == pc[s] = "failed" /\ CloseSocket(s)

\* The process ends in the middle of the handshake.
Crash(s) == Crashes /\ pc[s] # "failed" /\ CloseSocket(s)

-----------------------------------------------------------------------------
(* The network: a record of s in flight is altered, lost, repeated or      *)
(* overtaken by the one behind it.                                         *)

\* What an alteration can make of a record.  Signatures, ciphertexts and MACs
\* have no part that is not checked on the spot.
Alterations(type) ==
    IF type \in {"client_hello", "server_hello", "certificate",
                 "certificate_request"}
    THEN {"core", "rest", "bad"} ELSE {"bad"}

Without(q, k) == [i \in 1 .. Len(q) - 1 |-> IF i < k THEN q[i] ELSE q[i + 1]]
Twice(q, k)   == [i \in 1 .. Len(q) + 1 |-> IF i <= k THEN q[i] ELSE q[i - 1]]
Swapped(q, k) == [q EXCEPT ![k] = q[k + 1], ![k + 1] = q[k]]

NetworkFault(s) ==
    /\ faults < MaxFaults
    /\ faults' = faults + 1
    /\ \E k \in 1 .. Len(wire[s]) :
        \/ /\ wire[s][k].val = "sent"
           /\ \E a \in Alterations(wire[s][k].type) :
                wire' = [wire EXCEPT ![s] =
                            [@ EXCEPT ![k] = [wire[s][k] EXCEPT !.val = a]]]
        \/ wire' = [wire EXCEPT ![s] = Without(@, k)]
        \/ wire' = [wire EXCEPT ![s] = Twice(@, k)]
        \/ k < Len(wire[s]) /\ wire' = [wire EXCEPT ![s] = Swapped(@, k)]
    /\ UNCHANGED <<config, pc, transcript, keys, seqs, closed>>

-----------------------------------------------------------------------------
\* tls_do_handshake of one side runs on.
Handshake(s) ==
    \/ s = Client /\ (ClientSend \/ ClientRecv)
    \/ s = Server /\ (ServerSend \/ ServerRecv \/ ServerCannotGoOn)
    \/ Reject(s)
    \/ RecvFails(s)
    \/ SendFails(s)

Next == \E s \in Side : \/ Handshake(s)
                        \/ CloseFailed(s)
                        \/ Crash(s)
                        \/ NetworkFault(s)

Spec == Init /\ [][Next]_vars

\* A blocking call runs on when it can, and a tool whose handshake has failed
\* exits.
Fairness == \A s \in Side : WF_vars(Handshake(s)) /\ WF_vars(CloseFailed(s))

FairSpec == Spec /\ Fairness

-----------------------------------------------------------------------------
(* Properties.                                                             *)

Types == {"client_hello", "server_hello", "certificate",
    "server_key_exchange", "certificate_request", "server_hello_done",
    "client_key_exchange", "certificate_verify", "change_cipher_spec",
    "client_finished", "server_finished", "alert"}

\* q holds a sequence of records for each side.  (A record holds transcripts,
\* so there is no set of all records to state this with.)
Elems(q) == {q[i] : i \in DOMAIN q}
RecordOK(m) ==
    /\ m.type \in Types /\ m.val \in {"sent", "core", "rest", "bad"}
    /\ m = [type |-> m.type, rnd |-> m.rnd, over |-> m.over, key |-> m.key,
            seq |-> m.seq, val |-> m.val]
RecordSeqs(q) ==
    /\ q = [s \in Side |-> q[s]]
    /\ \A s \in Side : /\ q[s] \in Seq(Elems(q[s]))
                       /\ \A m \in Elems(q[s]) : RecordOK(m)

TypeOK ==
    /\ config \in Configs
    /\ pc \in [Side -> SendSteps \cup RecvSteps \cup {"established", "failed"}]
    /\ RecordSeqs(wire)
    /\ RecordSeqs(transcript)
    /\ random \in [Side -> {"none", "cr", "other"} \X {"none", "sr", "other"}]
    /\ certsOf \in [Side -> {"none", "sent", "core", "rest"}]
    /\ clientCerts \in BOOLEAN
    /\ secret = [s \in Side |-> secret[s]]
    /\ clientSeq \in [Side -> Nat] /\ serverSeq \in [Side -> Nat]
    /\ closed \in [Side -> BOOLEAN]
    /\ faults \in Nat

Established(s) == pc[s] = "established"

\* What a side that completes has agreed to: its keys and its transcript up to
\* the client's Finished.
View(s) == <<secret[s], transcript[s]>>

Settled == /\ transcript[Client] # <<>>
           /\ transcript[Client][Len(transcript[Client])].type = "client_finished"

Agreement == INSTANCE KeyAgreement WITH
    Nothing <- <<>>,
    stage <- [s \in Side |-> IF pc[s] \in {"established", "failed"} THEN pc[s]
                                                                    ELSE "running"],
    offer <- IF Settled THEN View(Client) ELSE <<>>,
    agreed <- [s \in Side |-> IF Established(s) THEN View(s) ELSE <<>>]

\* Every behaviour of the two peers is one of KeyAgreement: the server
\* completes only with the keys and the transcript the client has settled on,
\* and the client only after the server has, whatever happens to the records.
ImplementsAgreement == Agreement!Spec

\* The client encrypts the pre-master secret only to a key the server has
\* signed for this very exchange: both randoms are the same on both sides.
KeyFromServer ==
    secret[Client] # <<>> => /\ certsOf[Client] \in {"sent", "rest"}
                             /\ random[Client] = random[Server]

\* A side completes only if every message of the handshake reached its reader
\* as it was sent, those whose alteration no single check would notice
\* included.
UnalteredView ==
    \A s \in Side : Established(s) =>
        \A t \in Side : \A i \in 1 .. Len(transcript[t]) :
            transcript[t][i].val = "sent"

\* A server with CA certificates completes only with a client whose
\* certificate chains to them and that signed the exchange so far; a client
\* with CA certificates only with a server whose chain they verify.
Authenticated ==
    /\ Established(Server) /\ client_verify =>
        /\ config.clientCert = "good"
        /\ \E i \in 1 .. Len(transcript[Client]) :
            /\ transcript[Client][i].type = "certificate_verify"
            /\ transcript[Client][i].over = SubSeq(transcript[Server], 1, i - 1)
    /\ Established(Client) /\ config.clientCA => config.serverCerts = "good"

\* Peers that have both completed agree on the number of the next record in
\* each direction, and unless a record was disturbed nothing is left unread
\* that the first tls_recv would take for application data.
ReadyForData ==
    Established(Client) /\ Established(Server) =>
        /\ clientSeq = [s \in Side |-> 1] /\ serverSeq = [s \in Side |-> 1]
        /\ faults = 0 => wire = [s \in Side |-> <<>>]

\* The configurations that can complete.
Compatible ==
    /\ config.serverCerts # "sign_only"
    /\ config.clientCA => config.serverCerts = "good"
    /\ client_verify => config.serverCA = "fits" /\ config.clientCert = "good"

\* The handshake of two compatible peers fails only because of the network, a
\* timeout or the end of a process.
FailsForAReason ==
    \A s \in Side : pc[s] = "failed" =>
        \/ faults > 0 \/ Timeouts \/ ~Compatible
        \/ \E t \in Side : closed[t] /\ pc[t] # "failed"

\* tls_do_handshake returns: the peers never wait for each other for ever.
Returns == \A s \in Side :
    <>(pc[s] \in {"established", "failed"} \/ closed[s])

\* Compatible peers on an undisturbed connection both complete, unless the
\* process of one of them ends.
Completes ==
    Compatible => <>(\/ \A s \in Side : Established(s)
                     \/ \E s \in Side : closed[s] /\ pc[s] # "failed")

-----------------------------------------------------------------------------
(* The inductive invariant behind ImplementsAgreement.                     *)

\* Once the client has hashed its Finished, it only waits for the server's.
SettledInv ==
    Settled => pc[Client] \in {"recv_server_ccs", "recv_server_finished",
                               "established", "failed"}

\* An intact Finished in flight is the one its sender computed from the keys
\* and the transcript it still has.
FinishedInv ==
    /\ \A m \in Elems(wire[Client]) :
        m.type = "client_finished" /\ m.val = "sent" =>
            Settled /\ transcript[Client] = Append(m.over, m) /\ m.key = secret[Client]
    /\ \A m \in Elems(wire[Server]) :
        m.type = "server_finished" /\ m.val = "sent" => Established(Server)

\* From the client's Finished on, the server has the client's view.
CommitInv ==
    /\ pc[Server] \in {"send_server_ccs", "send_server_finished", "established"} =>
        Settled /\ View(Server) = View(Client)
    /\ Established(Client) => Established(Server)

AgreeInv == SettledInv /\ FinishedInv /\ CommitInv
=============================================================================
