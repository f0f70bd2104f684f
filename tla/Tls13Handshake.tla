--------------------------- MODULE Tls13Handshake ---------------------------
(***************************************************************************)
(* The TLS 1.3 handshake and its application data (src/src/tls13.c):       *)
(* tls13_do_connect, tls13_do_accept, tls13_send and tls13_recv.           *)
(*                                                                         *)
(* The client is done when it has sent its Finished; the server has then   *)
(* still to verify the client's certificate, signature and Finished.       *)
(***************************************************************************)
EXTENDS HandshakeLink

CONSTANT MaxData  \* bound: data records each side sends
ASSUME DataAssumption == MaxData \in Nat

VARIABLES
    appSecret,  \* appSecret[s]: the application traffic secrets, once derived
    sent,       \* sent[s]: data records tls13_send has reported as sent
    got         \* got[s]: data handed out by tls13_recv, in order

keys13 == <<share, secret, appSecret, clientCerts>>
data13 == <<sent, got>>

Exts13 == {"supported_groups", "signature_algorithms", "supported_versions",
           "key_share"}

\* ECDH of both public keys as s has them.  A hello without a key_share leaves
\* the peer's key unset, which share = "garbage" stands for.
Ecdh(s) == IF s = Client THEN <<"c", share[s]>> ELSE <<share[s], "s">>
ShareOf(m) == IF "key_share" \in m.exts THEN m.share ELSE "garbage"

\* The handshake traffic secrets cover both hellos, the application traffic
\* secrets everything up to the server's Finished.
HandshakeSecret(ecdh, hellos) == <<"hs", ecdh, hellos>>
AppSecret(s, messages) == <<"ap", Ecdh(s), messages>>

\* New keys: both sequence numbers of s start at 0.
Restart(f, s) == [f EXCEPT ![s] = 0]

Signed(s, type) == [Msg(type) EXCEPT !.over = transcript[s]]

\* Send a CertificateVerify.  The results of the signing functions are not
\* looked at: the record may hold whatever was in the buffer.
SendSignature(s, step, next) ==
    /\ \/ SendProtected(s, step, Signed(s, "certificate_verify"), next)
       \/ /\ At(s, step)
          /\ LET m == Protected(s, [Msg("certificate_verify") EXCEPT !.val = "core"])
             IN  Emit(s, m) /\ Hash(s, m)
          /\ Goto(s, next)
          /\ SignatureFails
          /\ sendSeq' = [sendSeq EXCEPT ![s] = @ + 1]
          /\ UNCHANGED <<config, closed, recvSeq>>
    /\ UNCHANGED <<keys13, data13>>

\* A record that decrypts and is a handshake message of this type.
IsHandshake(s, type) == Decrypts(s) /\ First(s).type = type

\* Mutant: the signature is not verified.
SignatureAny(s) == IsHandshake(s, "certificate_verify")

SignatureOK(s) ==
    /\ IsHandshake(s, "certificate_verify")
    /\ First(s).val = "sent" /\ First(s).over = transcript[s]

\* Mutant: verify_data is not compared.
FinishedAny13(s, type) == IsHandshake(s, type)

FinishedOK13(s, type) == IsHandshake(s, type) /\ First(s).over = transcript[s]

-----------------------------------------------------------------------------
(* tls13_do_connect.                                                       *)

\* The hello is hashed with the ServerHello; nothing uses the digest before.
SendClientHello13 ==
    /\ SendPlain(Client, "send_client_hello",
                 [Msg("client_hello") EXCEPT !.random = "cr", !.share = "c",
                                             !.exts = Exts13],
                 "recv_server_hello")
    /\ UNCHANGED <<keys13, data13>>

\* A missing extension and an unknown one are both accepted.
ServerHelloOK13 == Parses(Client, "server_hello")

RecvServerHello13 ==
    /\ Recv(Client, "recv_server_hello", "recv_encrypted_exts")
    /\ ServerHelloOK13
    /\ share' = [share EXCEPT ![Client] = ShareOf(First(Client))]
    /\ secret' = [secret EXCEPT ![Client] =
            HandshakeSecret(<<"c", ShareOf(First(Client))>>,
                            Append(transcript[Client], First(Client)))]
    /\ sendSeq' = Restart(sendSeq, Client) /\ recvSeq' = Restart(recvSeq, Client)
    /\ UNCHANGED <<appSecret, clientCerts, data13>>

\* The type of the message is not looked at, only its form.
EncryptedExtsOK13 == Decrypts(Client) /\ First(Client).type # "alert"

RecvEncryptedExtensions13 ==
    /\ RecvProtected(Client, "recv_encrypted_exts", "recv_cert_request_or_cert")
    /\ EncryptedExtsOK13
    /\ UNCHANGED <<keys13, data13>>

\* Mutant: the request is left out of the transcript.
RecvCertificateRequestUnhashed13 ==
    /\ At(Client, "recv_cert_request_or_cert") /\ Incoming(Client)
    /\ IsHandshake(Client, "certificate_request")
    /\ Take(Client) /\ Goto(Client, "recv_server_cert")
    /\ recvSeq' = [recvSeq EXCEPT ![Client] = @ + 1]
    /\ UNCHANGED <<config, transcript, closed, faults, sendSeq, keys13, data13>>

\* The contents of the request are ignored.
RecvCertificateRequest13 ==
    /\ RecvProtected(Client, "recv_cert_request_or_cert", "recv_server_cert")
    /\ IsHandshake(Client, "certificate_request")
    /\ UNCHANGED <<keys13, data13>>

ServerCertOK13 == IsHandshake(Client, "certificate") /\ config.serverCerts = "good"

\* Without a CertificateRequest the client drops its certificates.
RecvServerCertificate13 ==
    /\ \E step \in {"recv_cert_request_or_cert", "recv_server_cert"} :
        /\ RecvProtected(Client, step, "recv_server_cert_verify")
        /\ clientCerts' = (clientCerts /\ step = "recv_server_cert")
    /\ ServerCertOK13
    /\ UNCHANGED <<share, secret, appSecret, data13>>

RecvServerCertificateVerify13 ==
    /\ RecvProtected(Client, "recv_server_cert_verify", "recv_server_finished")
    /\ SignatureOK(Client)
    /\ UNCHANGED <<keys13, data13>>

RecvServerFinished13 ==
    /\ RecvProtected(Client, "recv_server_finished",
                     IF clientCerts THEN "send_client_cert" ELSE "send_client_finished")
    /\ FinishedOK13(Client, "server_finished")
    /\ appSecret' = [appSecret EXCEPT ![Client] =
            AppSecret(Client, Append(transcript[Client], Content(First(Client))))]
    /\ UNCHANGED <<share, secret, clientCerts, data13>>

SendClientCertificate13 ==
    /\ SendProtected(Client, "send_client_cert", Msg("certificate"),
                     "send_cert_verify")
    /\ UNCHANGED <<keys13, data13>>

SendCertificateVerify13 ==
    SendSignature(Client, "send_cert_verify", "send_client_finished")

\* Mutant: the sequence numbers are not reset with the new keys.
SendClientFinishedNoReset13 ==
    /\ Send(Client, "send_client_finished",
            Protected(Client, Signed(Client, "client_finished")), "established")
    /\ secret' = [secret EXCEPT ![Client] = appSecret[Client]]
    /\ sendSeq' = [sendSeq EXCEPT ![Client] = @ + 1]
    /\ UNCHANGED <<recvSeq, share, appSecret, clientCerts, data13>>

\* The Finished goes out under the handshake keys, then both directions change
\* to the application keys and the call returns.
SendClientFinished13 ==
    /\ Send(Client, "send_client_finished",
            Protected(Client, Signed(Client, "client_finished")), "established")
    /\ secret' = [secret EXCEPT ![Client] = appSecret[Client]]
    /\ sendSeq' = Restart(sendSeq, Client) /\ recvSeq' = Restart(recvSeq, Client)
    /\ UNCHANGED <<share, appSecret, clientCerts, data13>>

Client13 ==
    \/ SendClientHello13 \/ RecvServerHello13 \/ RecvEncryptedExtensions13
    \/ RecvCertificateRequest13 \/ RecvServerCertificate13
    \/ RecvServerCertificateVerify13 \/ RecvServerFinished13
    \/ SendClientCertificate13 \/ SendCertificateVerify13
    \/ SendClientFinished13

-----------------------------------------------------------------------------
(* tls13_do_accept.                                                        *)

ClientHelloOK13 == Parses(Server, "client_hello") /\ First(Server).exts # {}

\* Unknown extensions are ignored.
RecvClientHello13 ==
    /\ RecvPlain(Server, "recv_client_hello", "send_server_hello")
    /\ ClientHelloOK13
    /\ share' = [share EXCEPT ![Server] = ShareOf(First(Server))]
    /\ UNCHANGED <<secret, appSecret, clientCerts, data13>>

\* tls13_process_client_hello_exts answers the versions and the key share of the
\* client, and ignores the other extensions.
AnsweredExts13 == {"supported_versions", "key_share"}

ServerHello13 ==
    [Msg("server_hello") EXCEPT !.random = "sr", !.share = "s",
                                !.exts = transcript[Server][1].exts \cap AnsweredExts13]

SendServerHello13 ==
    /\ At(Server, "send_server_hello")
    /\ Send(Server, "send_server_hello", ServerHello13, "send_encrypted_exts")
    /\ secret' = [secret EXCEPT ![Server] =
            HandshakeSecret(Ecdh(Server), Append(transcript[Server], ServerHello13))]
    /\ sendSeq' = Restart(sendSeq, Server) /\ recvSeq' = Restart(recvSeq, Server)
    /\ UNCHANGED <<share, appSecret, clientCerts, data13>>

SendEncryptedExtensions13 ==
    /\ SendProtected(Server, "send_encrypted_exts", Msg("encrypted_extensions"),
                     IF client_verify THEN "send_cert_request" ELSE "send_server_cert")
    /\ UNCHANGED <<keys13, data13>>

SendCertificateRequest13 ==
    /\ SendProtected(Server, "send_cert_request", Msg("certificate_request"),
                     "send_server_cert")
    /\ UNCHANGED <<keys13, data13>>

SendServerCertificate13 ==
    /\ SendProtected(Server, "send_server_cert", Msg("certificate"),
                     "send_server_cert_verify")
    /\ UNCHANGED <<keys13, data13>>

SendServerCertificateVerify13 ==
    SendSignature(Server, "send_server_cert_verify", "send_server_finished")

SendServerFinished13 ==
    /\ SendProtected(Server, "send_server_finished",
                     Signed(Server, "server_finished"),
                     IF client_verify THEN "recv_client_cert"
                                      ELSE "recv_client_finished")
    /\ appSecret' = [appSecret EXCEPT ![Server] =
            AppSecret(Server, Append(transcript[Server],
                                     Signed(Server, "server_finished")))]
    /\ UNCHANGED <<share, secret, clientCerts, data13>>

ClientCertOK13 == IsHandshake(Server, "certificate") /\ config.clientCert = "good"

RecvClientCertificate13 ==
    /\ RecvProtected(Server, "recv_client_cert", "recv_cert_verify")
    /\ ClientCertOK13
    /\ UNCHANGED <<keys13, data13>>

RecvCertificateVerify13 ==
    /\ RecvProtected(Server, "recv_cert_verify", "recv_client_finished")
    /\ SignatureOK(Server)
    /\ UNCHANGED <<keys13, data13>>

RecvClientFinished13 ==
    /\ Recv(Server, "recv_client_finished", "established")
    /\ FinishedOK13(Server, "client_finished")
    /\ secret' = [secret EXCEPT ![Server] = appSecret[Server]]
    /\ sendSeq' = Restart(sendSeq, Server) /\ recvSeq' = Restart(recvSeq, Server)
    /\ UNCHANGED <<share, appSecret, clientCerts, data13>>

Server13 ==
    \/ RecvClientHello13 \/ SendServerHello13 \/ SendEncryptedExtensions13
    \/ SendCertificateRequest13 \/ SendServerCertificate13
    \/ SendServerCertificateVerify13 \/ SendServerFinished13
    \/ RecvClientCertificate13 \/ RecvCertificateVerify13
    \/ RecvClientFinished13

-----------------------------------------------------------------------------
(* Application data.                                                       *)

DataRecord(s) == Protected(s, [Msg("application_data") EXCEPT !.over = sent[s] + 1])

\* The result of tls_record_send is ignored: on a connection the peer has
\* closed the data is gone, and reported as sent.
tls13_send(s) ==
    /\ At(s, "established") /\ sent[s] < MaxData
    /\ \/ Emit(s, DataRecord(s))
       \/ closed[Peer(s)] /\ UNCHANGED wire
    /\ sendSeq' = [sendSeq EXCEPT ![s] = @ + 1]
    /\ sent' = [sent EXCEPT ![s] = @ + 1]
    /\ UNCHANGED <<config, pc, transcript, keys13, recvSeq, closed, faults, got>>

DataOK13(s) == IsHandshake(s, "application_data")

tls13_recv(s) ==
    /\ At(s, "established") /\ Incoming(s)
    /\ DataOK13(s)
    /\ Take(s)
    /\ got' = [got EXCEPT ![s] = Append(@, First(s).over)]
    /\ recvSeq' = [recvSeq EXCEPT ![s] = @ + 1]
    /\ UNCHANGED <<config, pc, transcript, keys13, sendSeq, closed, faults, sent>>

\* Mutant: a record that does not decrypt is skipped, the end of the stream
\* taken for no data yet.
tls13_recv_skips(s) ==
    /\ At(s, "established")
    /\ Incoming(s) /\ ~DataOK13(s) /\ Take(s)
    /\ UNCHANGED <<config, pc, transcript, keys13, sendSeq, recvSeq, closed, faults, data13>>

\* tls13_do_recv fails: the application ends.  A record that does not decrypt
\* (an alert of the peer too: alerts are not encrypted), or the end.
tls13_recv_fails(s) ==
    /\ At(s, "established")
    /\ \/ Incoming(s) /\ ~DataOK13(s) /\ Take(s)
       \/ ~Incoming(s) /\ closed[Peer(s)] /\ UNCHANGED wire
    /\ Goto(s, "disconnected")
    /\ UNCHANGED <<config, transcript, keys13, sendSeq, recvSeq, closed, faults, data13>>

-----------------------------------------------------------------------------
SendSteps13 == {"send_client_hello", "send_client_cert", "send_cert_verify",
    "send_client_finished", "send_server_hello", "send_encrypted_exts",
    "send_cert_request", "send_server_cert", "send_server_cert_verify",
    "send_server_finished"}

RecvSteps13 == {"recv_server_hello", "recv_encrypted_exts",
    "recv_cert_request_or_cert", "recv_server_cert", "recv_server_cert_verify",
    "recv_server_finished", "recv_client_hello", "recv_client_cert",
    "recv_cert_verify", "recv_client_finished"}

\* The record that is next is one this step accepts.
Acceptable13(s) ==
    \/ pc[s] = "recv_server_hello" /\ ServerHelloOK13
    \/ pc[s] = "recv_encrypted_exts" /\ EncryptedExtsOK13
    \/ /\ pc[s] = "recv_cert_request_or_cert"
       /\ IsHandshake(s, "certificate_request") \/ ServerCertOK13
    \/ pc[s] = "recv_server_cert" /\ ServerCertOK13
    \/ pc[s] \in {"recv_server_cert_verify", "recv_cert_verify"} /\ SignatureOK(s)
    \/ pc[s] = "recv_server_finished" /\ FinishedOK13(s, "server_finished")
    \/ pc[s] = "recv_client_hello" /\ ClientHelloOK13
    \/ pc[s] = "recv_client_cert" /\ ClientCertOK13
    \/ pc[s] = "recv_client_finished" /\ FinishedOK13(s, "client_finished")

\* No alert after a wrong signature of the server, nor after a hello without
\* extensions.
EndsQuietly(s) ==
    \/ pc[s] = "recv_server_cert_verify" /\ IsHandshake(s, "certificate_verify")
    \/ pc[s] = "recv_client_hello" /\ Parses(s, "client_hello")

Reject13(s) ==
    /\ pc[s] \in RecvSteps13 /\ ~closed[s]
    /\ Incoming(s) /\ ~Acceptable13(s)
    /\ IF EndsQuietly(s) THEN FailSilently(s)
                         ELSE FailWithAlert(s, Tail(wire[Peer(s)]))
    /\ UNCHANGED <<appSecret, data13>>

IOFails13(s) ==
    /\ RecvFails(s, RecvSteps13) \/ SendFails(s, SendSteps13)
    /\ UNCHANGED <<appSecret, data13>>

Next13(s) == \/ s = Client /\ Client13
             \/ s = Server /\ Server13
             \/ tls13_recv(s)
             \/ tls13_recv_fails(s)
             \/ Reject13(s)
             \/ IOFails13(s)
=============================================================================
