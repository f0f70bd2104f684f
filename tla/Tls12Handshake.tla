--------------------------- MODULE Tls12Handshake ---------------------------
(***************************************************************************)
(* The TLS 1.2 handshake with ECDHE (src/src/tls12.c): tls12_do_connect    *)
(* and tls12_do_accept, one action per message.                            *)
(***************************************************************************)
EXTENDS HandshakeLink

VARIABLE random  \* random[s]: <<client_random, server_random>> as s has them

state12 == <<share, secret, clientCerts, random>>

Exts12 == {"ec_point_formats", "supported_groups", "signature_algorithms"}

\* A message that is not hashed: ChangeCipherSpec and the server's Finished.
Unhashed(s, step, next) ==
    /\ At(s, step) /\ Goto(s, next)
    /\ UNCHANGED <<config, transcript, closed, faults>>

-----------------------------------------------------------------------------
(* tls12_do_connect.                                                       *)

SendClientHello12 ==
    /\ SendPlain(Client, "send_client_hello",
                 [Msg("client_hello") EXCEPT !.random = "cr", !.exts = Exts12],
                 "recv_server_hello")
    /\ random' = [random EXCEPT ![Client] = <<"cr", "none">>]
    /\ UNCHANGED <<share, secret, clientCerts>>

\* Every extension the client sent must have been answered.
ServerHelloOK12 == Parses(Client, "server_hello") /\ First(Client).exts = Exts12

RecvServerHello12 ==
    /\ RecvPlain(Client, "recv_server_hello", "recv_server_cert")
    /\ ServerHelloOK12
    /\ random' = [random EXCEPT ![Client] = <<@[1], First(Client).random>>]
    /\ UNCHANGED <<share, secret, clientCerts>>

\* The chain is always verified: a client without CA certificates fails here.
ServerCertOK12 == Intact(Client, "certificate") /\ config.serverCerts = "good"

RecvServerCertificate12 ==
    /\ RecvPlain(Client, "recv_server_cert", "recv_server_key_exchange")
    /\ ServerCertOK12
    /\ UNCHANGED state12

\* The signature is over both randoms and the server's ECDHE key.
ServerKeyExchangeOK12 ==
    /\ Intact(Client, "server_key_exchange")
    /\ First(Client).over = random[Client]

RecvServerKeyExchange12 ==
    /\ RecvPlain(Client, "recv_server_key_exchange", "recv_cert_request_or_done")
    /\ ServerKeyExchangeOK12
    /\ share' = [share EXCEPT ![Client] = First(Client).share]
    /\ UNCHANGED <<secret, clientCerts, random>>

\* The client has certificates of a type and an issuer the server asks for.
CertRequestOK12 ==
    /\ Parses(Client, "certificate_request")
    /\ clientCerts
    /\ First(Client).val # "core" /\ config.clientCert # "unlisted"

RecvCertificateRequest12 ==
    /\ RecvPlain(Client, "recv_cert_request_or_done", "recv_server_hello_done")
    /\ CertRequestOK12
    /\ UNCHANGED state12

ServerHelloDoneOK12 == Intact(Client, "server_hello_done")

\* Without a CertificateRequest the client drops its certificates.
RecvServerHelloDone12 ==
    /\ \E step \in {"recv_cert_request_or_done", "recv_server_hello_done"} :
        LET asked == step = "recv_server_hello_done"
        IN  /\ RecvPlain(Client, step, IF asked THEN "send_client_cert"
                                                ELSE "send_client_key_exchange")
            /\ clientCerts' = asked
    /\ ServerHelloDoneOK12
    /\ UNCHANGED <<share, secret, random>>

SendClientCertificate12 ==
    /\ SendPlain(Client, "send_client_cert", Msg("certificate"),
                 "send_client_key_exchange")
    /\ UNCHANGED state12

\* tls_prf of the ECDH value (both public keys as s has them) and the randoms.
MasterSecret12(s) ==
    IF s = Client THEN <<"c", share[s], random[s]>> ELSE <<share[s], "s", random[s]>>

SendClientKeyExchange12 ==
    /\ SendPlain(Client, "send_client_key_exchange",
                 [Msg("client_key_exchange") EXCEPT !.share = "c"],
                 IF clientCerts THEN "send_cert_verify" ELSE "send_client_ccs")
    /\ secret' = [secret EXCEPT ![Client] = MasterSecret12(Client)]
    /\ UNCHANGED <<share, clientCerts, random>>

SendCertificateVerify12 ==
    /\ SendPlain(Client, "send_cert_verify",
                 [Msg("certificate_verify") EXCEPT !.over = transcript[Client]],
                 "send_client_ccs")
    /\ UNCHANGED state12

SendClientChangeCipherSpec12 ==
    /\ Unhashed(Client, "send_client_ccs", "send_client_finished")
    /\ Emit(Client, Msg("change_cipher_spec"))
    /\ UNCHANGED <<state12, sendSeq, recvSeq>>

Finished12(s, type) == [Msg(type) EXCEPT !.over = transcript[s]]

SendClientFinished12 ==
    /\ SendProtected(Client, "send_client_finished",
                     Finished12(Client, "client_finished"), "recv_server_ccs")
    /\ UNCHANGED state12

ChangeCipherSpecOK12(s) == Intact(s, "change_cipher_spec")

RecvServerChangeCipherSpec12 ==
    /\ Unhashed(Client, "recv_server_ccs", "recv_server_finished")
    /\ Incoming(Client) /\ ChangeCipherSpecOK12(Client)
    /\ Take(Client)
    /\ UNCHANGED <<state12, sendSeq, recvSeq>>

\* Mutant: verify_data is not compared.
FinishedAny12(s, type) == Intact(s, type) /\ Decrypts(s)

FinishedOK12(s, type) ==
    Intact(s, type) /\ Decrypts(s) /\ First(s).over = transcript[s]

RecvServerFinished12 ==
    /\ Unhashed(Client, "recv_server_finished", "established")
    /\ Incoming(Client) /\ FinishedOK12(Client, "server_finished")
    /\ Take(Client)
    /\ recvSeq' = [recvSeq EXCEPT ![Client] = @ + 1]
    /\ UNCHANGED <<state12, sendSeq>>

Client12 ==
    \/ SendClientHello12 \/ RecvServerHello12 \/ RecvServerCertificate12
    \/ RecvServerKeyExchange12 \/ RecvCertificateRequest12
    \/ RecvServerHelloDone12 \/ SendClientCertificate12
    \/ SendClientKeyExchange12 \/ SendCertificateVerify12
    \/ SendClientChangeCipherSpec12 \/ SendClientFinished12
    \/ RecvServerChangeCipherSpec12 \/ RecvServerFinished12

-----------------------------------------------------------------------------
(* tls12_do_accept.                                                        *)

ClientHelloOK12 == Parses(Server, "client_hello")

RecvClientHello12 ==
    /\ RecvPlain(Server, "recv_client_hello", "send_server_hello")
    /\ ClientHelloOK12
    /\ random' = [random EXCEPT ![Server] = <<First(Server).random, "none">>]
    /\ UNCHANGED <<share, secret, clientCerts>>

\* What tls_process_client_hello_exts has written when it returns: the answers
\* to the extensions before one it does not know.  Its result is not looked at.
AnsweredExts12(exts) ==
    IF "unknown" \in exts THEN SUBSET (exts \ {"unknown"}) ELSE {exts}

\* A hello without extensions leaves server_exts_len unset: the answer has no
\* extensions, or what happens to be on the stack.
ServerHellos12 ==
    LET exts == transcript[Server][1].exts
        hello == [Msg("server_hello") EXCEPT !.random = "sr"]
    IN  IF exts = {} THEN {hello, [hello EXCEPT !.val = "bad"]}
                     ELSE {[hello EXCEPT !.exts = e] : e \in AnsweredExts12(exts)}

SendServerHello12 ==
    /\ At(Server, "send_server_hello")
    /\ \E m \in ServerHellos12 :
        SendPlain(Server, "send_server_hello", m, "send_server_cert")
    /\ random' = [random EXCEPT ![Server] = <<@[1], "sr">>]
    /\ UNCHANGED <<share, secret, clientCerts>>

SendServerCertificate12 ==
    /\ SendPlain(Server, "send_server_cert", Msg("certificate"),
                 "send_server_key_exchange")
    /\ UNCHANGED state12

\* tls_sign_server_ecdh_params ignores the results of signing.
SendServerKeyExchange12 ==
    /\ LET m == [Msg("server_key_exchange") EXCEPT !.share = "s",
                                                   !.over = random[Server]]
           next == IF client_verify THEN "send_cert_request"
                                    ELSE "send_server_hello_done"
       IN  \/ SendPlain(Server, "send_server_key_exchange", m, next)
           \/ /\ At(Server, "send_server_key_exchange")
              /\ Emit(Server, [m EXCEPT !.val = "bad"])
              /\ Hash(Server, [m EXCEPT !.val = "bad"])
              /\ Goto(Server, next)
              /\ SignatureFails
              /\ UNCHANGED <<config, closed, sendSeq, recvSeq>>
    /\ UNCHANGED state12

SendCertificateRequest12 ==
    /\ config.serverCA = "fits"
    /\ SendPlain(Server, "send_cert_request", Msg("certificate_request"),
                 "send_server_hello_done")
    /\ UNCHANGED state12

SendServerHelloDone12 ==
    /\ SendPlain(Server, "send_server_hello_done", Msg("server_hello_done"),
                 IF client_verify THEN "recv_client_cert"
                                  ELSE "recv_client_key_exchange")
    /\ UNCHANGED state12

ClientCertOK12 == Intact(Server, "certificate") /\ config.clientCert = "good"

RecvClientCertificate12 ==
    /\ RecvPlain(Server, "recv_client_cert", "recv_client_key_exchange")
    /\ ClientCertOK12
    /\ UNCHANGED state12

ClientKeyExchangeOK12 == Parses(Server, "client_key_exchange")

\* The secrets are generated here, or after CertificateVerify if there is one.
RecvClientKeyExchange12 ==
    /\ RecvPlain(Server, "recv_client_key_exchange",
                 IF client_verify THEN "recv_cert_verify" ELSE "recv_client_ccs")
    /\ ClientKeyExchangeOK12
    /\ share' = [share EXCEPT ![Server] = First(Server).share]
    /\ secret' = IF client_verify THEN secret
                 ELSE [secret EXCEPT ![Server] =
                         <<First(Server).share, "s", random[Server]>>]
    /\ UNCHANGED <<clientCerts, random>>

\* Mutant: the signature is not verified.
CertVerifyAny12 == Parses(Server, "certificate_verify")

CertVerifyOK12 ==
    Intact(Server, "certificate_verify") /\ First(Server).over = transcript[Server]

RecvCertificateVerify12 ==
    /\ RecvPlain(Server, "recv_cert_verify", "recv_client_ccs")
    /\ CertVerifyOK12
    /\ secret' = [secret EXCEPT ![Server] = MasterSecret12(Server)]
    /\ UNCHANGED <<share, clientCerts, random>>

RecvClientChangeCipherSpec12 ==
    /\ Unhashed(Server, "recv_client_ccs", "recv_client_finished")
    /\ Incoming(Server) /\ ChangeCipherSpecOK12(Server)
    /\ Take(Server)
    /\ UNCHANGED <<state12, sendSeq, recvSeq>>

RecvClientFinished12 ==
    /\ RecvProtected(Server, "recv_client_finished", "send_server_ccs")
    /\ FinishedOK12(Server, "client_finished")
    /\ UNCHANGED state12

SendServerChangeCipherSpec12 ==
    /\ Unhashed(Server, "send_server_ccs", "send_server_finished")
    /\ Emit(Server, Msg("change_cipher_spec"))
    /\ UNCHANGED <<state12, sendSeq, recvSeq>>

SendServerFinished12 ==
    /\ Unhashed(Server, "send_server_finished", "established")
    /\ Emit(Server, Protected(Server, Finished12(Server, "server_finished")))
    /\ sendSeq' = [sendSeq EXCEPT ![Server] = @ + 1]
    /\ UNCHANGED <<state12, recvSeq>>

\* tls_authorities_from_certs cannot encode the names: goto end, no alert.
ServerCannotGoOn12 ==
    /\ At(Server, "send_cert_request") /\ config.serverCA = "too_long"
    /\ FailSilently(Server)
    /\ UNCHANGED random

Server12 ==
    \/ RecvClientHello12 \/ SendServerHello12 \/ SendServerCertificate12
    \/ SendServerKeyExchange12 \/ SendCertificateRequest12
    \/ SendServerHelloDone12 \/ RecvClientCertificate12
    \/ RecvClientKeyExchange12 \/ RecvCertificateVerify12
    \/ RecvClientChangeCipherSpec12 \/ RecvClientFinished12
    \/ SendServerChangeCipherSpec12 \/ SendServerFinished12
    \/ ServerCannotGoOn12

-----------------------------------------------------------------------------
SendSteps12 == {"send_client_hello", "send_client_cert",
    "send_client_key_exchange", "send_cert_verify", "send_client_ccs",
    "send_client_finished", "send_server_hello", "send_server_cert",
    "send_server_key_exchange", "send_cert_request", "send_server_hello_done",
    "send_server_ccs", "send_server_finished"}

\* The record that is next is one this step accepts.
Acceptable12(s) ==
    \/ pc[s] = "recv_server_hello" /\ ServerHelloOK12
    \/ pc[s] = "recv_server_cert" /\ ServerCertOK12
    \/ pc[s] = "recv_server_key_exchange" /\ ServerKeyExchangeOK12
    \/ pc[s] = "recv_cert_request_or_done" /\ (CertRequestOK12 \/ ServerHelloDoneOK12)
    \/ pc[s] = "recv_server_hello_done" /\ ServerHelloDoneOK12
    \/ pc[s] = "recv_server_finished" /\ FinishedOK12(s, "server_finished")
    \/ pc[s] = "recv_client_hello" /\ ClientHelloOK12
    \/ pc[s] = "recv_client_cert" /\ ClientCertOK12
    \/ pc[s] = "recv_client_key_exchange" /\ ClientKeyExchangeOK12
    \/ pc[s] = "recv_cert_verify" /\ CertVerifyOK12
    \/ pc[s] = "recv_client_finished" /\ FinishedOK12(s, "client_finished")
    \/ pc[s] \in {"recv_server_ccs", "recv_client_ccs"} /\ ChangeCipherSpecOK12(s)

RecvSteps12 == {"recv_server_hello", "recv_server_cert",
    "recv_server_key_exchange", "recv_cert_request_or_done",
    "recv_server_hello_done", "recv_server_ccs", "recv_server_finished",
    "recv_client_hello", "recv_client_cert", "recv_client_key_exchange",
    "recv_cert_verify", "recv_client_ccs", "recv_client_finished"}

\* A record this step does not accept: an alert, and the end.
Reject12(s) ==
    /\ pc[s] \in RecvSteps12 /\ ~closed[s]
    /\ Incoming(s) /\ ~Acceptable12(s)
    /\ FailWithAlert(s, Tail(wire[Peer(s)]))
    /\ UNCHANGED random

IOFails12(s) ==
    /\ RecvFails(s, RecvSteps12) \/ SendFails(s, SendSteps12)
    /\ UNCHANGED random

Next12(s) == \/ s = Client /\ Client12
             \/ s = Server /\ Server12
             \/ Reject12(s)
             \/ IOFails12(s)
=============================================================================
