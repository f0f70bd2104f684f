---------------------------- MODULE TlsHandshake ----------------------------
(***************************************************************************)
(* tls_do_handshake (src/src/tls.c) for the protocols tls12 and tls13: two *)
(* peers of the same protocol, with every kind of certificate and faults   *)
(* on their connection.  (TLCP is module TlcpHandshake.)                   *)
(***************************************************************************)
EXTENDS Tls12Handshake, Tls13Handshake

vars == <<config, pc, wire, transcript, share, secret, sendSeq, recvSeq,
          clientCerts, closed, faults, random, appSecret, sent, got>>

local12 == <<random>>
local13 == <<appSecret, sent, got>>

Init == /\ LinkInit
        /\ random = [s \in Side |-> <<"none", "none">>]
        /\ appSecret = [s \in Side |-> None]
        /\ sent = [s \in Side |-> 0]
        /\ got = [s \in Side |-> <<>>]

\* The calls of one side, by conn->protocol.
tls_do_handshake(s) ==
    \/ config.protocol = "tls12" /\ Next12(s) /\ UNCHANGED local13
    \/ config.protocol = "tls13" /\ Next13(s) /\ UNCHANGED local12

\* The application has something to say.
Talk(s) == config.protocol = "tls13" /\ tls13_send(s) /\ UNCHANGED local12

Environment(s) == /\ CloseFailed(s) \/ NetworkFault(s)
                  /\ UNCHANGED <<local12, local13>>

Next == \E s \in Side : tls_do_handshake(s) \/ Talk(s) \/ Environment(s)

\* A handshake is one blocking call, which runs on when it can, and a tool whose
\* handshake has failed exits.  Nobody has to send data, and nobody has to ask
\* for any: tls13_client waits for its standard input first.
Fairness == \A s \in Side :
    /\ WF_vars(pc[s] # "established" /\ tls_do_handshake(s))
    /\ WF_vars(CloseFailed(s) /\ UNCHANGED <<local12, local13>>)

Spec == Init /\ [][Next]_vars
FairSpec == Spec /\ Fairness

-----------------------------------------------------------------------------
(* Properties.                                                             *)

Tls13 == config.protocol = "tls13"
Completed(s) == pc[s] \in {"established", "disconnected"}

\* What a side that completes has agreed to: in TLS 1.2 the master secret and
\* the transcript up to the client's Finished, in TLS 1.3 the application
\* secrets, which cover the transcript up to the server's.
View(s) == IF Tls13 THEN appSecret[s] ELSE <<secret[s], transcript[s]>>

\* The side that settles what is agreed on: the client in TLS 1.2, the server
\* in TLS 1.3, when it has sent its Finished.
Settler == IF Tls13 THEN Server ELSE Client
Settled == IF Tls13 THEN appSecret[Server] # None
           ELSE \E i \in 1 .. Len(transcript[Client]) :
                    transcript[Client][i].type = "client_finished"

\* KeyAgreement calls the side that settles Client.
Role(s) == IF Tls13 THEN Peer(s) ELSE s

Agreement == INSTANCE KeyAgreement WITH
    Nothing <- None,
    stage <- [s \in Side |-> IF Completed(Role(s)) THEN "established"
                             ELSE IF pc[Role(s)] = "failed" THEN "failed"
                             ELSE "running"],
    offer <- IF Settled THEN View(Settler) ELSE None,
    agreed <- [s \in Side |-> IF Completed(Role(s)) THEN View(Role(s)) ELSE None]

\* TLS 1.2 makes TLCP's promise, TLS 1.3 the same with the roles exchanged: the
\* client completes only with the keys the server has settled on, the server
\* only with a client that has completed with them.
ImplementsAgreement == Agreement!Spec

\* A server with CA certificates completes only with a client whose chain they
\* verify and that signed this very exchange; a client only with such a server,
\* although neither notices when its own signing fails.
Authenticated ==
    /\ Completed(Server) /\ client_verify =>
        /\ config.clientCert = "good"
        /\ \E i \in 1 .. Len(transcript[Client]) :
            /\ transcript[Client][i].type = "certificate_verify"
            /\ transcript[Client][i].val = "sent"
            /\ transcript[Client][i].over = SubSeq(transcript[Server], 1, i - 1)
    /\ Completed(Client) =>
        /\ config.serverCerts = "good"
        /\ \E i \in 1 .. Len(transcript[Server]) :
            /\ transcript[Server][i].type = IF Tls13 THEN "certificate_verify"
                                                     ELSE "server_key_exchange"
            /\ transcript[Server][i].val = "sent"

\* Peers that have both completed protect and expect the same records: equal
\* keys, and each record in flight is the one its reader's counter stands at or
\* a later one of the data its sender has sent, unless it was disturbed.
ReadyForData ==
    Completed(Client) /\ Completed(Server) =>
        /\ secret[Client] = secret[Server]
        /\ faults = 0 => \A s \in Side :
            /\ sendSeq[s] = recvSeq[Peer(s)] + Len(wire[s])
            /\ \A k \in 1 .. Len(wire[s]) :
                wire[s][k].type = "application_data"
                /\ wire[s][k].seq = recvSeq[Peer(s)] + k - 1

\* Data sent while the server is still verifying its client is handed out by a
\* server that has completed, once and in order, as is all other data: what
\* tls13_recv has returned is a prefix of what the peer sent.
DataInOrder ==
    \A s \in Side : /\ got[s] = [i \in 1 .. Len(got[s]) |-> i]
                    /\ Len(got[s]) <= sent[Peer(s)]

\* The configurations that can complete.
Compatible ==
    /\ config.serverCerts = "good"
    /\ client_verify => config.serverCA = "fits" /\ config.clientCert = "good"

\* The handshake of two compatible peers fails only because of the network, a
\* failed signature or a timeout.  TLS 1.3 has no limit on the authorities.
FailsForAReason ==
    \A s \in Side : pc[s] = "failed" => faults > 0 \/ config.timeouts \/ ~Compatible

\* No handshake call waits for ever, whoever refuses whom, and with timeouts
\* not even when the network disturbs a record.
Returns == \A s \in Side :
    <>(\/ pc[s] \in {"established", "disconnected", "failed"}
       \/ faults > 0 /\ ~config.timeouts)

\* A TLS 1.3 client that completed while the server went on to refuse it finds
\* out once it goes on receiving, whatever it has sent by then and the network
\* has disturbed: its tls13_recv fails.  Sending never tells it: tls13_send
\* ignores the result of tls_record_send.
ClientReceives == WF_vars(pc[Client] = "established" /\ tls_do_handshake(Client))
LearnsOfRefusal ==
    ClientReceives =>
        ((Tls13 /\ pc[Client] = "established" /\ pc[Server] = "failed")
            ~> (pc[Client] = "disconnected"))
=============================================================================
