-------------------------- MODULE TlsScriptProofs --------------------------
(***************************************************************************)
(* TLAPS proofs about TlsHandshake while nothing has been disturbed, for   *)
(* any amount of data: TLS 1.2 and TLS 1.3 follow a script to its end,     *)
(* fail on no step of their own and leave record numbers that agree.       *)
(***************************************************************************)
EXTENDS TlsHandshakeProofs

-----------------------------------------------------------------------------
(* The undisturbed connection.  While no record has been disturbed and     *)
(* neither side has failed, the two sides follow one script: what each has *)
(* sent, what is in flight, what each has hashed and which keys it has is  *)
(* fixed by its step and by the data it has sent and received.             *)

Calm == faults = 0 /\ pc[Client] # "failed" /\ pc[Server] # "failed"

\* The queue q holds the records of flow after the first read, up to done.
InFlight(q, flow, read, done) ==
    /\ Len(q) + read = done
    /\ \A i \in 1 .. Len(q) : q[i] = flow[read + i]

\* The record m under the key k, with the number n.
Sealed(m, k, n) == [m EXCEPT !.key = k, !.seq = n]
Over(type, log) == [Msg(type) EXCEPT !.over = log]

\* The messages of TLS 1.2 and the transcript as it grows by them; v says
\* whether the server asks for a certificate.
Randoms == <<"cr", "sr">>
Master == <<"c", "s", Randoms>>
Hello12 == [Msg("client_hello") EXCEPT !.random = "cr", !.exts = Exts12]
Reply12 == [[Msg("server_hello") EXCEPT !.random = "sr"] EXCEPT !.exts = Exts12]
Cert == Msg("certificate")
Request == Msg("certificate_request")
ServerKey == [Msg("server_key_exchange") EXCEPT !.share = "s", !.over = Randoms]
HelloDone == Msg("server_hello_done")
ClientKey == [Msg("client_key_exchange") EXCEPT !.share = "c"]
CipherSpec == Msg("change_cipher_spec")
Log1 == Append(<<>>, Content(Hello12))
Log2 == Append(Log1, Content(Reply12))
Log3 == Append(Log2, Content(Cert))
Log4 == Append(Log3, Content(ServerKey))
Log5(v) == IF v THEN Append(Log4, Content(Request)) ELSE Log4
Log6(v) == Append(Log5(v), Content(HelloDone))
Log7(v) == IF v THEN Append(Log6(v), Content(Cert)) ELSE Log6(v)
Log8(v) == Append(Log7(v), Content(ClientKey))
ClientProof12(v) == Over("certificate_verify", Log8(v))
Log9(v) == IF v THEN Append(Log8(v), Content(ClientProof12(v))) ELSE Log8(v)
ClientEnd12(v) == Sealed(Over("client_finished", Log9(v)), Master, 0)
Log10(v) == Append(Log9(v), Content(ClientEnd12(v)))
ServerEnd12(v) == Sealed(Over("server_finished", Log10(v)), Master, 0)

\* What a side has hashed when it is at a step.
HashedAt12(v, step) ==
    CASE step \in {"send_client_hello", "recv_client_hello"} -> <<>>
      [] step \in {"recv_server_hello", "send_server_hello"} -> Log1
      [] step \in {"recv_server_cert", "send_server_cert"} -> Log2
      [] step \in {"recv_server_key_exchange", "send_server_key_exchange"} -> Log3
      [] step \in {"recv_cert_request_or_done", "send_cert_request"} -> Log4
      [] step \in {"recv_server_hello_done", "send_server_hello_done"} -> Log5(v)
      [] step \in {"send_client_cert", "recv_client_cert"} -> Log6(v)
      [] step \in {"send_client_key_exchange", "recv_client_key_exchange"} -> Log7(v)
      [] step \in {"send_cert_verify", "recv_cert_verify"} -> Log8(v)
      [] step \in {"send_client_ccs", "recv_client_ccs", "send_client_finished",
                   "recv_client_finished"} -> Log9(v)
      [] OTHER -> Log10(v)

\* The records of each side in the order it sends them.
Flow12(v, s) ==
    IF s = Client
    THEN IF v THEN <<Hello12, Cert, ClientKey, ClientProof12(v), CipherSpec, ClientEnd12(v)>>
              ELSE <<Hello12, ClientKey, CipherSpec, ClientEnd12(v)>>
    ELSE IF v THEN <<Reply12, Cert, ServerKey, Request, HelloDone, CipherSpec, ServerEnd12(v)>>
              ELSE <<Reply12, Cert, ServerKey, HelloDone, CipherSpec, ServerEnd12(v)>>

\* How many of them it has sent when it is at a step; how many of the peer's
\* it has read.
SentAt12(v, s, step) ==
    IF s = Client
    THEN CASE step = "send_client_hello" -> 0
           [] step \in {"recv_server_hello", "recv_server_cert", "recv_server_key_exchange",
                        "recv_cert_request_or_done", "recv_server_hello_done",
                        "send_client_cert"} -> 1
           [] step = "send_client_key_exchange" -> IF v THEN 2 ELSE 1
           [] step = "send_cert_verify" -> 3
           [] step = "send_client_ccs" -> IF v THEN 4 ELSE 2
           [] step = "send_client_finished" -> IF v THEN 5 ELSE 3
           [] OTHER -> IF v THEN 6 ELSE 4
    ELSE CASE step \in {"recv_client_hello", "send_server_hello"} -> 0
           [] step = "send_server_cert" -> 1
           [] step = "send_server_key_exchange" -> 2
           [] step = "send_cert_request" -> 3
           [] step = "send_server_hello_done" -> IF v THEN 4 ELSE 3
           [] step = "send_server_finished" -> IF v THEN 6 ELSE 5
           [] step = "established" -> IF v THEN 7 ELSE 6
           [] OTHER -> IF v THEN 5 ELSE 4
ReadAt12(v, s, step) ==
    IF s = Client
    THEN CASE step \in {"send_client_hello", "recv_server_hello"} -> 0
           [] step = "recv_server_cert" -> 1
           [] step = "recv_server_key_exchange" -> 2
           [] step = "recv_cert_request_or_done" -> 3
           [] step = "recv_server_hello_done" -> 4
           [] step = "recv_server_finished" -> IF v THEN 6 ELSE 5
           [] step = "established" -> IF v THEN 7 ELSE 6
           [] OTHER -> IF v THEN 5 ELSE 4
    ELSE CASE step = "recv_client_hello" -> 0
           [] step \in {"send_server_hello", "send_server_cert", "send_server_key_exchange",
                        "send_cert_request", "send_server_hello_done",
                        "recv_client_cert"} -> 1
           [] step = "recv_client_key_exchange" -> IF v THEN 2 ELSE 1
           [] step = "recv_cert_verify" -> 3
           [] step = "recv_client_ccs" -> IF v THEN 4 ELSE 2
           [] step = "recv_client_finished" -> IF v THEN 5 ELSE 3
           [] OTHER -> IF v THEN 6 ELSE 4

RandomAt12(step) ==
    CASE step \in {"send_client_hello", "recv_client_hello"} -> <<"none", "none">>
      [] step \in {"recv_server_hello", "send_server_hello"} -> <<"cr", "none">>
      [] OTHER -> Randoms

\* The steps of each side; those at which the client still has its
\* certificates for a request, at which a side takes part in the authentication
\* of the client, and at which it knows the peer's key and the master secret.
Asking12 == {"send_client_hello", "recv_server_hello", "recv_server_cert",
             "recv_server_key_exchange", "recv_cert_request_or_done"}
Verifying12 == {"recv_server_hello_done", "send_client_cert", "send_cert_verify",
                "send_cert_request", "recv_client_cert", "recv_cert_verify"}
Keyed12 == {"send_cert_verify", "send_client_ccs", "send_client_finished",
            "recv_server_ccs", "recv_server_finished", "recv_client_ccs",
            "recv_client_finished", "send_server_ccs", "send_server_finished", "established"}
ClientPath12 == Asking12 \cup
    {"recv_server_hello_done", "send_client_cert", "send_client_key_exchange",
     "send_cert_verify", "send_client_ccs", "send_client_finished", "recv_server_ccs",
     "recv_server_finished", "established"}
ServerPath12 ==
    {"recv_client_hello", "send_server_hello", "send_server_cert",
     "send_server_key_exchange", "send_cert_request", "send_server_hello_done",
     "recv_client_cert", "recv_client_key_exchange", "recv_cert_verify", "recv_client_ccs",
     "recv_client_finished", "send_server_ccs", "send_server_finished", "established"}
HasShare12(s) == IF s = Client THEN ClientPath12 \ (Asking12 \ {"recv_cert_request_or_done"})
                               ELSE Keyed12 \cup {"recv_cert_verify"}

SendNo12(step) == IF step \in {"recv_server_ccs", "recv_server_finished", "established"}
                  THEN 1 ELSE 0
RecvNo12(step) == IF step \in {"send_server_ccs", "send_server_finished", "established"}
                  THEN 1 ELSE 0

\* The side s is at a step of its script: the step, its keys and its transcript.
Step12(s, step, v) == /\ step \in IF s = Client THEN ClientPath12 ELSE ServerPath12
                      /\ step \in Verifying12 => v
Keys12(s, step, v) ==
    /\ random[s] = RandomAt12(step)
    /\ step \in HasShare12(s) => share[s] = IF s = Client THEN "s" ELSE "c"
    /\ step \in Keyed12 => secret[s] = Master
    /\ sendSeq[s] = SendNo12(step) /\ recvSeq[s] = RecvNo12(step)
    /\ s = Client => clientCerts = IF step \in Asking12 THEN config.clientCert # "none" ELSE v
At12(s, step, v) == /\ pc[s] = step /\ Step12(s, step, v) /\ Keys12(s, step, v)
                    /\ transcript[s] = HashedAt12(v, step)

Flight12(s, v) == InFlight(wire[s], Flow12(v, s), ReadAt12(v, Peer(s), pc[Peer(s)]),
                           SentAt12(v, s, pc[s]))

Script12 == \A s \in Side : /\ At12(s, pc[s], client_verify)
                            /\ Flight12(s, client_verify)

-----------------------------------------------------------------------------
\* The same for TLS 1.3; w says whether the client answers the request with a
\* certificate.  A client without one sends its Finished at once.
Answers == client_verify /\ config.clientCert # "none"

Hello13 == [Msg("client_hello") EXCEPT !.random = "cr", !.share = "c", !.exts = Exts13]
Reply13 == [Msg("server_hello") EXCEPT !.random = "sr", !.share = "s", !.exts = AnsweredExts13]
Tape1 == Append(<<>>, Content(Hello13))
Handshake13 == HandshakeSecret(<<"c", "s">>, Append(Tape1, Reply13))
Sealed13(m, n) == Sealed(m, Handshake13, n)
Extensions13 == Sealed13(Msg("encrypted_extensions"), 0)
Request13 == Sealed13(Request, 1)
ServerCert13(v) == Sealed13(Cert, IF v THEN 2 ELSE 1)
Tape2 == Append(Tape1, Content(Reply13))
Tape3 == Append(Tape2, Content(Extensions13))
Tape4(v) == IF v THEN Append(Tape3, Content(Request13)) ELSE Tape3
Tape5(v) == Append(Tape4(v), Content(ServerCert13(v)))
ServerProof13(v) == Sealed13(Over("certificate_verify", Tape5(v)), IF v THEN 3 ELSE 2)
Tape6(v) == Append(Tape5(v), Content(ServerProof13(v)))
ServerEnd13(v) == Sealed13(Over("server_finished", Tape6(v)), IF v THEN 4 ELSE 3)
Tape7(v) == Append(Tape6(v), Content(ServerEnd13(v)))
Application13(v) == <<"ap", <<"c", "s">>, Tape7(v)>>
ClientCert13 == Sealed13(Cert, 0)
Tape8(v, w) == IF w THEN Append(Tape7(v), Content(ClientCert13)) ELSE Tape7(v)
ClientProof13(v, w) == Sealed13(Over("certificate_verify", Tape8(v, w)), 1)
Tape9(v, w) == IF w THEN Append(Tape8(v, w), Content(ClientProof13(v, w))) ELSE Tape8(v, w)
ClientEnd13(v, w) == Sealed13(Over("client_finished", Tape9(v, w)), IF w THEN 2 ELSE 0)
Tape10(v, w) == Append(Tape9(v, w), Content(ClientEnd13(v, w)))
Data(v, i) == Sealed(Over("application_data", i), Application13(v), i - 1)

HashedAt13(v, w, step) ==
    CASE step \in {"send_client_hello", "recv_client_hello"} -> <<>>
      [] step \in {"recv_server_hello", "send_server_hello"} -> Tape1
      [] step \in {"recv_encrypted_exts", "send_encrypted_exts"} -> Tape2
      [] step \in {"recv_cert_request_or_cert", "send_cert_request"} -> Tape3
      [] step \in {"recv_server_cert", "send_server_cert"} -> Tape4(v)
      [] step \in {"recv_server_cert_verify", "send_server_cert_verify"} -> Tape5(v)
      [] step \in {"recv_server_finished", "send_server_finished"} -> Tape6(v)
      [] step \in {"send_client_cert", "recv_client_cert"} -> Tape7(v)
      [] step \in {"send_cert_verify", "recv_cert_verify"} -> Tape8(v, w)
      [] step \in {"send_client_finished", "recv_client_finished"} -> Tape9(v, w)
      [] OTHER -> Tape10(v, w)

Opening13(v, w, s) ==
    IF s = Client
    THEN IF w THEN <<Hello13, ClientCert13, ClientProof13(v, w), ClientEnd13(v, w)>>
              ELSE <<Hello13, ClientEnd13(v, w)>>
    ELSE IF v THEN <<Reply13, Extensions13, Request13, ServerCert13(v), ServerProof13(v),
                     ServerEnd13(v)>>
              ELSE <<Reply13, Extensions13, ServerCert13(v), ServerProof13(v), ServerEnd13(v)>>
OpeningLen(v, w, s) == IF s = Client THEN IF w THEN 4 ELSE 2 ELSE IF v THEN 6 ELSE 5

\* The handshake, then the data.
Flow13(v, w, s) ==
    [i \in Nat |-> IF i <= OpeningLen(v, w, s) THEN Opening13(v, w, s)[i]
                   ELSE Data(v, i - OpeningLen(v, w, s))]

SentAt13(v, w, s, step) ==
    IF s = Client
    THEN CASE step = "send_client_hello" -> 0
           [] step = "send_cert_verify" -> 2
           [] step = "send_client_finished" -> IF w THEN 3 ELSE 1
           [] step = "established" -> IF w THEN 4 ELSE 2
           [] OTHER -> 1
    ELSE CASE step \in {"recv_client_hello", "send_server_hello"} -> 0
           [] step = "send_encrypted_exts" -> 1
           [] step = "send_cert_request" -> 2
           [] step = "send_server_cert" -> IF v THEN 3 ELSE 2
           [] step = "send_server_cert_verify" -> IF v THEN 4 ELSE 3
           [] step = "send_server_finished" -> IF v THEN 5 ELSE 4
           [] OTHER -> IF v THEN 6 ELSE 5
ReadAt13(v, w, s, step) ==
    IF s = Client
    THEN CASE step \in {"send_client_hello", "recv_server_hello"} -> 0
           [] step = "recv_encrypted_exts" -> 1
           [] step = "recv_cert_request_or_cert" -> 2
           [] step = "recv_server_cert" -> 3
           [] step = "recv_server_cert_verify" -> IF v THEN 4 ELSE 3
           [] step = "recv_server_finished" -> IF v THEN 5 ELSE 4
           [] OTHER -> IF v THEN 6 ELSE 5
    ELSE CASE step = "recv_client_hello" -> 0
           [] step = "recv_cert_verify" -> 2
           [] step = "recv_client_finished" -> IF w THEN 3 ELSE 1
           [] step = "established" -> IF w THEN 4 ELSE 2
           [] OTHER -> 1

\* The handshake keys number from 0 what follows a hello, the application
\* keys the data.
Number13(step, n) == IF n = 0 \/ step = "established" THEN 0 ELSE n - 1

Asking13 == {"send_client_hello", "recv_server_hello", "recv_encrypted_exts",
             "recv_cert_request_or_cert", "recv_server_cert"}
Verifying13 == {"recv_server_cert", "send_cert_request", "recv_client_cert", "recv_cert_verify"}
Answering13 == {"send_client_cert", "send_cert_verify", "recv_cert_verify"}
Derived13 == {"send_client_cert", "send_cert_verify", "send_client_finished",
              "recv_client_cert", "recv_cert_verify", "recv_client_finished", "established"}
ClientPath13 == Asking13 \cup
    {"recv_server_cert_verify", "recv_server_finished", "send_client_cert",
     "send_cert_verify", "send_client_finished", "established"}
ServerPath13 ==
    {"recv_client_hello", "send_server_hello", "send_encrypted_exts", "send_cert_request",
     "send_server_cert", "send_server_cert_verify", "send_server_finished",
     "recv_client_cert", "recv_cert_verify", "recv_client_finished", "established"}
Unkeyed13 == {"send_client_hello", "recv_server_hello", "recv_client_hello",
              "send_server_hello"}
Shared13 == ((ClientPath13 \cup ServerPath13) \ Unkeyed13) \cup {"send_server_hello"}

Step13(s, step, v, w) ==
    /\ step \in IF s = Client THEN ClientPath13 ELSE ServerPath13
    /\ step \in Verifying13 => v
    /\ step \in Answering13 => w
    /\ s = Server /\ step \in {"recv_client_finished", "established"} => (v => w)
Keys13(s, step, v, w) ==
    /\ step \in Shared13 => share[s] = IF s = Client THEN "s" ELSE "c"
    /\ step \notin Unkeyed13 =>
            secret[s] = IF step = "established" THEN Application13(v) ELSE Handshake13
    /\ step \in Derived13 => appSecret[s] = Application13(v)
    /\ sendSeq[s] = Number13(step, SentAt13(v, w, s, step)) + sent[s]
    /\ recvSeq[s] = Number13(step, ReadAt13(v, w, s, step)) + Len(got[s])
    /\ step # "established" => sent[s] = 0 /\ got[s] = <<>>
    /\ s = Client => clientCerts = IF step \in Asking13 THEN config.clientCert # "none" ELSE w
At13(s, step, v, w) == /\ pc[s] = step /\ Step13(s, step, v, w) /\ Keys13(s, step, v, w)
                       /\ transcript[s] = HashedAt13(v, w, step)

\* The records s has sent and read so far, and those of s in flight.
SentBy(v, w, s) == SentAt13(v, w, s, pc[s]) + sent[s]
ReadBy(v, w, s) == ReadAt13(v, w, s, pc[s]) + Len(got[s])
Flight13(s, v, w) == InFlight(wire[s], Flow13(v, w, s), ReadBy(v, w, Peer(s)), SentBy(v, w, s))

Script13 == \A s \in Side : /\ At13(s, pc[s], client_verify, Answers)
                            /\ Flight13(s, client_verify, Answers)

ClosedInv == \A s \in Side : closed[s] => pc[s] = "failed"
ScriptInv == Calm => IF Tls13 THEN Script13 ELSE Script12

-----------------------------------------------------------------------------
(* Sending and reading the next record of the script.                      *)

LEMMA AppendFlight ==
  ASSUME NEW q, q \in Seq(Elems(q)), NEW flow, NEW read \in Nat, NEW done \in Nat,
         InFlight(q, flow, read, done)
  PROVE  InFlight(Append(q, flow[done + 1]), flow, read, done + 1)
  <1>0. PICK m : m = flow[done + 1]
    OBVIOUS
  <1> DEFINE r == Append(q, m)
  <1>1. /\ Len(q) \in Nat /\ Len(r) = Len(q) + 1
        /\ \A i \in 1 .. Len(q) : r[i] = q[i]
        /\ r[Len(q) + 1] = m
    OBVIOUS
  <1> HIDE DEF r
  <1>2. Len(q) + read = done
    BY DEF InFlight
  <1>3. Len(r) + read = done + 1
    BY <1>1, <1>2
  <1>4. ASSUME NEW i \in 1 .. Len(r) PROVE r[i] = flow[read + i]
    <2>1. CASE i \in 1 .. Len(q)
      BY <1>1, <2>1 DEF InFlight
    <2>2. CASE i = Len(q) + 1
      <3>1. read + i = done + 1
        BY <1>1, <1>2, <2>2
      <3> QED
        BY <1>0, <1>1, <2>2, <3>1
    <2> QED
      BY <1>1, <2>1, <2>2
  <1>5. InFlight(r, flow, read, done + 1)
    BY <1>3, <1>4 DEF InFlight
  <1> QED
    BY <1>0, <1>5 DEF r

LEMMA TailFlight ==
  ASSUME NEW q, q \in Seq(Elems(q)), q # <<>>, NEW flow, NEW read \in Nat,
         NEW done \in Nat, InFlight(q, flow, read, done)
  PROVE  /\ Head(q) = flow[read + 1] /\ read < done
         /\ InFlight(Tail(q), flow, read + 1, done)
  <1>0. PICK r : r = Tail(q)
    OBVIOUS
  <1>1. /\ Len(q) \in Nat /\ Len(q) > 0 /\ Len(r) = Len(q) - 1
        /\ \A i \in 1 .. Len(q) - 1 : r[i] = q[i + 1]
        /\ Head(q) = q[1]
    BY <1>0
  <1>2. Len(q) + read = done /\ \A i \in 1 .. Len(q) : q[i] = flow[read + i]
    BY DEF InFlight
  <1>3. Len(r) + (read + 1) = done /\ read < done
    <2>1. Len(q) \in Nat /\ Len(q) > 0 /\ Len(r) = Len(q) - 1 /\ Len(q) + read = done
      BY <1>1, <1>2, Zenon
    <2> QED
      BY <2>1
  <1>4. ASSUME NEW i \in 1 .. Len(r) PROVE r[i] = flow[(read + 1) + i]
    <2>1. r[i] = q[i + 1] /\ i + 1 \in 1 .. Len(q)
      BY <1>1
    <2>2. q[i + 1] = flow[read + (i + 1)] /\ read + (i + 1) = (read + 1) + i
      BY <1>1, <1>2, <2>1
    <2> QED
      BY <2>1, <2>2
  <1>5. InFlight(r, flow, read + 1, done)
    BY <1>3, <1>4 DEF InFlight
  <1>6. Head(q) = flow[read + 1]
    BY <1>1, <1>2
  <1> QED
    BY <1>0, <1>3, <1>5, <1>6

LEMMA EmitWire ==
  ASSUME TypeOK, NEW s \in Side, NEW m, Emit(s, m)
  PROVE  /\ wire[s] \in Seq(Elems(wire[s]))
         /\ wire'[s] = Append(wire[s], m) /\ wire'[Peer(s)] = wire[Peer(s)]
  BY PeerType DEF TypeOK, RecordSeqs, Emit

LEMMA TakeWire ==
  ASSUME TypeOK, NEW s \in Side, Take(s), Incoming(s)
  PROVE  /\ wire[Peer(s)] \in Seq(Elems(wire[Peer(s)])) /\ wire[Peer(s)] # <<>>
         /\ wire'[Peer(s)] = Tail(wire[Peer(s)]) /\ wire'[s] = wire[s]
  BY PeerType DEF TypeOK, RecordSeqs, Take, Incoming

LEMMA VerifyType ==
  /\ client_verify \in BOOLEAN /\ Answers \in BOOLEAN
  /\ config' = config => client_verify' = client_verify /\ Answers' = Answers
  BY DEF client_verify, Answers

-----------------------------------------------------------------------------
(* The script of TLS 1.2.                                                  *)

LEMMA CountTypes12 ==
  ASSUME NEW v \in BOOLEAN, NEW s, NEW step
  PROVE  SentAt12(v, s, step) \in Nat /\ ReadAt12(v, s, step) \in Nat
  <1>1. SentAt12(v, s, step) \in Nat
    BY DEF SentAt12
  <1>2. ReadAt12(v, s, step) \in Nat
    BY DEF ReadAt12
  <1> QED
    BY <1>1, <1>2

\* What the step of a side leaves alone at its peer.
KeepsKeys(s) ==
    /\ random'[s] = random[s] /\ share'[s] = share[s] /\ secret'[s] = secret[s]
    /\ sendSeq'[s] = sendSeq[s] /\ recvSeq'[s] = recvSeq[s]
    /\ config' = config /\ (s = Client => clientCerts' = clientCerts)
Keeps12(s) == pc'[s] = pc[s] /\ transcript'[s] = transcript[s] /\ KeepsKeys(s)

LEMMA KeepsAt12 ==
  ASSUME NEW s \in Side, NEW v, NEW step, At12(s, step, v), Keeps12(s)
  PROVE  At12(s, step, v)'
  BY DEF At12, Keys12, Keeps12, KeepsKeys

LEMMA Speaks12 ==
  ASSUME TypeOK, Script12, NEW v \in BOOLEAN, v = client_verify, NEW s \in Side,
         NEW m, NEW next, Emit(s, m), Keeps12(Peer(s)), At12(s, next, v)',
         m = Flow12(v, s)[SentAt12(v, s, pc[s]) + 1],
         SentAt12(v, s, next) = SentAt12(v, s, pc[s]) + 1,
         ReadAt12(v, s, next) = ReadAt12(v, s, pc[s])
  PROVE  Script12'
  <1>0. PICK t : t = Peer(s)
    OBVIOUS
  <1>1. t \in Side /\ t # s /\ Peer(t) = s /\ \A x \in Side : x = s \/ x = t
    BY <1>0, PeerType DEF Side
  <1>2. pc'[s] = next /\ pc'[t] = pc[t] /\ client_verify' = v
    BY <1>0, VerifyType DEF At12, Keeps12, KeepsKeys
  <1>3. At12(t, pc[t], v)'
    <2>1. PICK p : p = pc[t]
      OBVIOUS
    <2>2. At12(t, p, v)
      BY <1>1, <2>1 DEF Script12
    <2>3. At12(t, p, v)'
      BY <1>0, <1>1, <2>2, KeepsAt12
    <2> QED
      BY <1>2, <2>1, <2>3
  <1>4. Flight12(s, v)'
    <2>1. InFlight(wire[s], Flow12(v, s), ReadAt12(v, t, pc[t]), SentAt12(v, s, pc[s]))
      BY <1>0 DEF Script12, Flight12
    <2>2. ReadAt12(v, t, pc[t]) \in Nat /\ SentAt12(v, s, pc[s]) \in Nat
      BY CountTypes12
    <2>3. wire'[s] = Append(wire[s], m) /\ wire[s] \in Seq(Elems(wire[s]))
      BY EmitWire
    <2>4. InFlight(wire'[s], Flow12(v, s), ReadAt12(v, t, pc[t]), SentAt12(v, s, pc[s]) + 1)
      BY <2>1, <2>2, <2>3, AppendFlight
    <2> QED
      BY <1>0, <1>2, <2>4 DEF Flight12
  <1>5. Flight12(t, v)'
    <2>1. InFlight(wire[t], Flow12(v, t), ReadAt12(v, s, pc[s]), SentAt12(v, t, pc[t]))
      BY <1>1 DEF Script12, Flight12
    <2>2. wire'[t] = wire[t]
      BY <1>0, EmitWire
    <2> QED
      BY <1>1, <1>2, <2>1, <2>2 DEF Flight12
  <1> QED
    BY <1>1, <1>2, <1>3, <1>4, <1>5 DEF Script12

LEMMA Hears12 ==
  ASSUME TypeOK, Script12, NEW v \in BOOLEAN, v = client_verify, NEW s \in Side,
         NEW next, Take(s), Incoming(s), Keeps12(Peer(s)), At12(s, next, v)',
         SentAt12(v, s, next) = SentAt12(v, s, pc[s]),
         ReadAt12(v, s, next) = ReadAt12(v, s, pc[s]) + 1
  PROVE  Script12'
  <1>0. PICK t : t = Peer(s)
    OBVIOUS
  <1>1. t \in Side /\ t # s /\ Peer(t) = s /\ \A x \in Side : x = s \/ x = t
    BY <1>0, PeerType DEF Side
  <1>2. pc'[s] = next /\ pc'[t] = pc[t] /\ client_verify' = v
    BY <1>0, VerifyType DEF At12, Keeps12, KeepsKeys
  <1>3. At12(t, pc[t], v)'
    <2>1. PICK p : p = pc[t]
      OBVIOUS
    <2>2. At12(t, p, v)
      BY <1>1, <2>1 DEF Script12
    <2>3. At12(t, p, v)'
      BY <1>0, <1>1, <2>2, KeepsAt12
    <2> QED
      BY <1>2, <2>1, <2>3
  <1>4. Flight12(t, v)'
    <2>1. InFlight(wire[t], Flow12(v, t), ReadAt12(v, s, pc[s]), SentAt12(v, t, pc[t]))
      BY <1>1 DEF Script12, Flight12
    <2>2. ReadAt12(v, s, pc[s]) \in Nat /\ SentAt12(v, t, pc[t]) \in Nat
      BY CountTypes12
    <2>3. /\ wire[t] \in Seq(Elems(wire[t])) /\ wire[t] # <<>>
          /\ wire'[t] = Tail(wire[t])
      BY <1>0, TakeWire
    <2>4. InFlight(wire'[t], Flow12(v, t), ReadAt12(v, s, pc[s]) + 1, SentAt12(v, t, pc[t]))
      <3>1. InFlight(Tail(wire[t]), Flow12(v, t), ReadAt12(v, s, pc[s]) + 1,
                     SentAt12(v, t, pc[t]))
        BY <2>1, <2>2, <2>3, TailFlight, Zenon
      <3> QED
        BY <2>3, <3>1, Zenon
    <2> QED
      BY <1>1, <1>2, <2>4 DEF Flight12
  <1>5. Flight12(s, v)'
    <2>1. InFlight(wire[s], Flow12(v, s), ReadAt12(v, t, pc[t]), SentAt12(v, s, pc[s]))
      BY <1>0 DEF Script12, Flight12
    <2>2. wire'[s] = wire[s]
      BY TakeWire
    <2> QED
      BY <1>0, <1>2, <2>1, <2>2 DEF Flight12
  <1> QED
    BY <1>1, <1>2, <1>3, <1>4, <1>5 DEF Script12

\* The record that is next is the one the script has next.
LEMMA First12 ==
  ASSUME TypeOK, Script12, NEW v \in BOOLEAN, v = client_verify, NEW s \in Side, Incoming(s)
  PROVE  First(s) = Flow12(v, Peer(s))[ReadAt12(v, s, pc[s]) + 1]
  <1>0. PICK t : t = Peer(s)
    OBVIOUS
  <1>1. t \in Side /\ Peer(t) = s
    BY <1>0, PeerType
  <1>2. InFlight(wire[t], Flow12(v, t), ReadAt12(v, s, pc[s]), SentAt12(v, t, pc[t]))
    BY <1>1 DEF Script12, Flight12
  <1>3. ReadAt12(v, s, pc[s]) \in Nat /\ SentAt12(v, t, pc[t]) \in Nat
    BY CountTypes12
  <1>4. wire[t] \in Seq(Elems(wire[t])) /\ wire[t] # <<>> /\ First(s) = Head(wire[t])
    BY <1>0, <1>1 DEF TypeOK, RecordSeqs, Incoming, First
  <1> QED
    BY <1>0, <1>2, <1>3, <1>4, TailFlight
\* The message each step of the client is to receive.
LEMMA ClientHears12 ==
  ASSUME TypeOK, Script12, NEW v \in BOOLEAN, v = client_verify, Incoming(Client)
  PROVE  /\ pc[Client] = "recv_server_hello" => First(Client) = Reply12
         /\ pc[Client] = "recv_server_cert" => First(Client) = Cert
         /\ pc[Client] = "recv_server_key_exchange" => First(Client) = ServerKey
         /\ pc[Client] = "recv_cert_request_or_done" => First(Client) = (IF v THEN Request ELSE HelloDone)
         /\ pc[Client] = "recv_server_hello_done" => First(Client) = HelloDone
         /\ pc[Client] = "recv_server_ccs" => First(Client) = CipherSpec
         /\ pc[Client] = "recv_server_finished" => First(Client) = ServerEnd12(v)
  <1>1. \A p : pc[Client] = p => First(Client) = Flow12(v, Server)[ReadAt12(v, Client, p) + 1]
    BY First12, PeerOf
  <1>2. pc[Client] = "recv_server_hello" => First(Client) = Reply12
    <2>1. Flow12(v, Server)[ReadAt12(v, Client, "recv_server_hello") + 1] = Reply12
      BY SidesAssumption DEF Flow12, ReadAt12
    <2> QED
      BY <1>1, <2>1
  <1>3. pc[Client] = "recv_server_cert" => First(Client) = Cert
    <2>1. Flow12(v, Server)[ReadAt12(v, Client, "recv_server_cert") + 1] = Cert
      BY SidesAssumption DEF Flow12, ReadAt12
    <2> QED
      BY <1>1, <2>1
  <1>4. pc[Client] = "recv_server_key_exchange" => First(Client) = ServerKey
    <2>1. Flow12(v, Server)[ReadAt12(v, Client, "recv_server_key_exchange") + 1] = ServerKey
      BY SidesAssumption DEF Flow12, ReadAt12
    <2> QED
      BY <1>1, <2>1
  <1>5. pc[Client] = "recv_cert_request_or_done" => First(Client) = (IF v THEN Request ELSE HelloDone)
    <2>1. Flow12(v, Server)[ReadAt12(v, Client, "recv_cert_request_or_done") + 1] = (IF v THEN Request ELSE HelloDone)
      BY SidesAssumption DEF Flow12, ReadAt12
    <2> QED
      BY <1>1, <2>1
  <1>6. pc[Client] = "recv_server_hello_done" => First(Client) = HelloDone
    <2>1. pc[Client] = "recv_server_hello_done" => v
      BY PeerOf DEF Script12, At12, Step12, Verifying12
    <2>2. v => Flow12(v, Server)[ReadAt12(v, Client, "recv_server_hello_done") + 1] = HelloDone
      BY SidesAssumption DEF Flow12, ReadAt12
    <2> QED
      BY <1>1, <2>1, <2>2
  <1>7. pc[Client] = "recv_server_ccs" => First(Client) = CipherSpec
    <2>1. Flow12(v, Server)[ReadAt12(v, Client, "recv_server_ccs") + 1] = CipherSpec
      BY SidesAssumption DEF Flow12, ReadAt12
    <2> QED
      BY <1>1, <2>1
  <1>8. pc[Client] = "recv_server_finished" => First(Client) = ServerEnd12(v)
    <2>1. Flow12(v, Server)[ReadAt12(v, Client, "recv_server_finished") + 1] = ServerEnd12(v)
      BY SidesAssumption DEF Flow12, ReadAt12
    <2> QED
      BY <1>1, <2>1
  <1> QED
    BY <1>2, <1>3, <1>4, <1>5, <1>6, <1>7, <1>8

LEMMA ClientProofFlow12 == \A v : v => Flow12(v, Client)[4] = ClientProof12(v)
  <1>1. \A v : v => \A m : m = ClientProof12(v) => Flow12(v, Client)[4] = m
    BY DEF Flow12
  <1> QED
    BY <1>1, Zenon

\* The message each step of the server is to receive.
LEMMA ServerHears12 ==
  ASSUME TypeOK, Script12, NEW v \in BOOLEAN, v = client_verify, Incoming(Server)
  PROVE  /\ pc[Server] = "recv_client_hello" => First(Server) = Hello12
         /\ pc[Server] = "recv_client_cert" => First(Server) = Cert
         /\ pc[Server] = "recv_client_key_exchange" => First(Server) = ClientKey
         /\ pc[Server] = "recv_cert_verify" => First(Server) = ClientProof12(v)
         /\ pc[Server] = "recv_client_ccs" => First(Server) = CipherSpec
         /\ pc[Server] = "recv_client_finished" => First(Server) = ClientEnd12(v)
  <1>1. \A p : pc[Server] = p => First(Server) = Flow12(v, Client)[ReadAt12(v, Server, p) + 1]
    BY First12, PeerOf
  <1>2. pc[Server] = "recv_client_hello" => First(Server) = Hello12
    <2>1. Flow12(v, Client)[ReadAt12(v, Server, "recv_client_hello") + 1] = Hello12
      BY SidesAssumption DEF Flow12, ReadAt12
    <2> QED
      BY <1>1, <2>1
  <1>3. pc[Server] = "recv_client_cert" => First(Server) = Cert
    <2>1. pc[Server] = "recv_client_cert" => v
      BY PeerOf DEF Script12, At12, Step12, Verifying12
    <2>2. v => Flow12(v, Client)[ReadAt12(v, Server, "recv_client_cert") + 1] = Cert
      BY SidesAssumption DEF Flow12, ReadAt12
    <2> QED
      BY <1>1, <2>1, <2>2
  <1>4. pc[Server] = "recv_client_key_exchange" => First(Server) = ClientKey
    <2>1. Flow12(v, Client)[ReadAt12(v, Server, "recv_client_key_exchange") + 1] = ClientKey
      BY SidesAssumption DEF Flow12, ReadAt12
    <2> QED
      BY <1>1, <2>1
  <1>5. pc[Server] = "recv_cert_verify" => First(Server) = ClientProof12(v)
    <2>1. pc[Server] = "recv_cert_verify" => v
      BY PeerOf DEF Script12, At12, Step12, Verifying12
    <2>2. v => Flow12(v, Client)[ReadAt12(v, Server, "recv_cert_verify") + 1] = ClientProof12(v)
      <3>1. ReadAt12(v, Server, "recv_cert_verify") + 1 = 4
        BY SidesAssumption DEF ReadAt12
      <3> QED
        BY <3>1, ClientProofFlow12, Zenon
    <2> QED
      BY <1>1, <2>1, <2>2
  <1>6. pc[Server] = "recv_client_ccs" => First(Server) = CipherSpec
    <2>1. Flow12(v, Client)[ReadAt12(v, Server, "recv_client_ccs") + 1] = CipherSpec
      BY SidesAssumption DEF Flow12, ReadAt12
    <2> QED
      BY <1>1, <2>1
  <1>7. pc[Server] = "recv_client_finished" => First(Server) = ClientEnd12(v)
    <2>1. Flow12(v, Client)[ReadAt12(v, Server, "recv_client_finished") + 1] = ClientEnd12(v)
      BY SidesAssumption DEF Flow12, ReadAt12
    <2> QED
      BY <1>1, <2>1
  <1> QED
    BY <1>2, <1>3, <1>4, <1>5, <1>6, <1>7

\* What the steps look at in the messages.
LEMMA Fields12 ==
  ASSUME NEW v
  PROVE  /\ Hello12.type = "client_hello" /\ Hello12.val = "sent" /\ Hello12.random = "cr"
         /\ Hello12.exts = Exts12
         /\ Reply12.type = "server_hello" /\ Reply12.val = "sent" /\ Reply12.random = "sr"
         /\ Reply12.exts = Exts12
         /\ Cert.type = "certificate" /\ Cert.val = "sent"
         /\ ServerKey.type = "server_key_exchange" /\ ServerKey.val = "sent"
         /\ ServerKey.over = Randoms /\ ServerKey.share = "s"
         /\ Request.type = "certificate_request" /\ Request.val = "sent"
         /\ HelloDone.type = "server_hello_done" /\ HelloDone.val = "sent"
         /\ ClientKey.type = "client_key_exchange" /\ ClientKey.val = "sent"
         /\ ClientKey.share = "c"
         /\ CipherSpec.type = "change_cipher_spec" /\ CipherSpec.val = "sent"
  BY DEF Hello12, Reply12, Cert, ServerKey, Request, HelloDone, ClientKey, CipherSpec, Msg

LEMMA SealedFields ==
  ASSUME NEW t, NEW log, NEW k, NEW n
  PROVE  LET m == Sealed(Over(t, log), k, n)
         IN  /\ m.type = t /\ m.val = "sent" /\ m.over = log /\ m.key = k /\ m.seq = n
             /\ Over(t, log).type = t /\ Over(t, log).val = "sent"
             /\ Over(t, log).over = log
  BY DEF Sealed, Over, Msg

LEMMA Proofs12 ==
  ASSUME NEW v \in BOOLEAN
  PROVE  /\ ClientProof12(v).type = "certificate_verify" /\ ClientProof12(v).val = "sent"
         /\ ClientProof12(v).over = Log8(v)
         /\ ClientEnd12(v).type = "client_finished" /\ ClientEnd12(v).val = "sent"
         /\ ClientEnd12(v).over = Log9(v)
         /\ ClientEnd12(v).key = Master /\ ClientEnd12(v).seq = 0
         /\ ServerEnd12(v).type = "server_finished" /\ ServerEnd12(v).val = "sent"
         /\ ServerEnd12(v).over = Log10(v)
         /\ ServerEnd12(v).key = Master /\ ServerEnd12(v).seq = 0
  BY SealedFields DEF ClientProof12, ClientEnd12, ServerEnd12

\* The tables have m as the message that leads from a step to the next one.
Sends12(v, s, step, next, m) ==
    /\ Step12(s, next, v) /\ m = Flow12(v, s)[SentAt12(v, s, step) + 1]
    /\ SentAt12(v, s, next) = SentAt12(v, s, step) + 1
    /\ ReadAt12(v, s, next) = ReadAt12(v, s, step)
Reads12(v, s, step, next) ==
    /\ Step12(s, next, v)
    /\ SentAt12(v, s, next) = SentAt12(v, s, step)
    /\ ReadAt12(v, s, next) = ReadAt12(v, s, step) + 1
Hashes12(v, step, next, m) == HashedAt12(v, next) = Append(HashedAt12(v, step), Content(m))

LEMMA Says12 ==
  ASSUME TypeOK, Script12, NEW v \in BOOLEAN, v = client_verify, NEW s \in Side,
         NEW step, NEW m, NEW next, At(s, step), Emit(s, m), Hash(s, m), Goto(s, next),
         KeepsKeys(Peer(s)), Keys12(s, next, v)', Sends12(v, s, step, next, m),
         Hashes12(v, step, next, m)
  PROVE  Script12'
  <1>1. pc[s] = step /\ pc'[s] = next /\ pc'[Peer(s)] = pc[Peer(s)]
    BY GotoPc DEF At
  <1>2. /\ transcript'[s] = Append(transcript[s], Content(m))
        /\ transcript'[Peer(s)] = transcript[Peer(s)]
    BY HashEffect
  <1>3. At12(s, next, v)'
    BY <1>1, <1>2 DEF At12, Script12, Sends12, Hashes12, Step12
  <1>4. Keeps12(Peer(s))
    BY <1>1, <1>2 DEF Keeps12
  <1> QED
    BY <1>1, <1>3, <1>4, Speaks12 DEF Sends12

LEMMA Gets12 ==
  ASSUME TypeOK, Script12, NEW v \in BOOLEAN, v = client_verify, NEW s \in Side,
         NEW step, NEW m, NEW next, At(s, step), Take(s), Incoming(s), Hash(s, m),
         Goto(s, next), KeepsKeys(Peer(s)), Keys12(s, next, v)', Reads12(v, s, step, next),
         Hashes12(v, step, next, m)
  PROVE  Script12'
  <1>1. pc[s] = step /\ pc'[s] = next /\ pc'[Peer(s)] = pc[Peer(s)]
    BY GotoPc DEF At
  <1>2. /\ transcript'[s] = Append(transcript[s], Content(m))
        /\ transcript'[Peer(s)] = transcript[Peer(s)]
    BY HashEffect
  <1>3. At12(s, next, v)'
    BY <1>1, <1>2 DEF At12, Script12, Reads12, Hashes12, Step12
  <1>4. Keeps12(Peer(s))
    BY <1>1, <1>2 DEF Keeps12
  <1> QED
    BY <1>1, <1>3, <1>4, Hears12 DEF Reads12

\* The same for a record that is not hashed.
LEMMA Shows12 ==
  ASSUME TypeOK, Script12, NEW v \in BOOLEAN, v = client_verify, NEW s \in Side,
         NEW step, NEW m, NEW next, Unhashed(s, step, next), Emit(s, m),
         KeepsKeys(Peer(s)), Keys12(s, next, v)', Sends12(v, s, step, next, m),
         HashedAt12(v, next) = HashedAt12(v, step)
  PROVE  Script12'
  <1>1. pc[s] = step /\ pc'[s] = next /\ pc'[Peer(s)] = pc[Peer(s)]
    BY GotoPc DEF At, Unhashed
  <1>2. transcript' = transcript
    BY DEF Unhashed
  <1>3. At12(s, next, v)'
    BY <1>1, <1>2 DEF At12, Script12, Sends12, Step12
  <1>4. Keeps12(Peer(s))
    BY <1>1, <1>2 DEF Keeps12
  <1> QED
    BY <1>1, <1>3, <1>4, Speaks12 DEF Sends12

LEMMA Skims12 ==
  ASSUME TypeOK, Script12, NEW v \in BOOLEAN, v = client_verify, NEW s \in Side,
         NEW step, NEW next, Unhashed(s, step, next), Take(s), Incoming(s),
         KeepsKeys(Peer(s)), Keys12(s, next, v)', Reads12(v, s, step, next),
         HashedAt12(v, next) = HashedAt12(v, step)
  PROVE  Script12'
  <1>1. pc[s] = step /\ pc'[s] = next /\ pc'[Peer(s)] = pc[Peer(s)]
    BY GotoPc DEF At, Unhashed
  <1>2. transcript' = transcript
    BY DEF Unhashed
  <1>3. At12(s, next, v)'
    BY <1>1, <1>2 DEF At12, Script12, Reads12, Step12
  <1>4. Keeps12(Peer(s))
    BY <1>1, <1>2 DEF Keeps12
  <1> QED
    BY <1>1, <1>3, <1>4, Hears12 DEF Reads12

LEMMA SendClientHello12Script ==
  ASSUME TypeOK, Script12, SendClientHello12
  PROVE  Script12'
  <1>0. PICK v \in BOOLEAN : v = client_verify
    BY VerifyType
  <1>1. At12(Client, "send_client_hello", v) /\ pc[Client] = "send_client_hello"
    BY <1>0, PeerOf DEF Script12, At, SendClientHello12, SendPlain, Send
  <1>2. Sends12(v, Client, "send_client_hello", "recv_server_hello", Hello12)
    BY SidesAssumption DEF Sends12, Step12, ClientPath12, ServerPath12, Asking12,
       Verifying12, Flow12, SentAt12, ReadAt12
  <1>3. Hashes12(v, "send_client_hello", "recv_server_hello", Hello12)
    BY DEF Hashes12, HashedAt12, Log1
  <1>4. /\ At(Client, "send_client_hello") /\ Emit(Client, Hello12)
       /\ Hash(Client, Hello12) /\ Goto(Client, "recv_server_hello")
    BY <1>0, <1>1 DEF SendClientHello12, SendPlain, Send, Hello12
  <1>5. KeepsKeys(Server)
    BY PeerOf, SidesAssumption DEF SendClientHello12, SendPlain, Send, KeepsKeys, TypeOK,
       KeysOK, SeqsOK, state12
  <1>6. Keys12(Client, "recv_server_hello", v)'
    BY <1>0, <1>1, PeerOf, SidesAssumption DEF SendClientHello12, SendPlain, Send, At12,
       Keys12, TypeOK, KeysOK, SeqsOK, RandomAt12, HasShare12, Keyed12, SendNo12, RecvNo12,
       Asking12, ClientPath12, state12
  <1> QED
    BY <1>0, <1>2, <1>3, <1>4, <1>5, <1>6, Says12, PeerOf

LEMMA RecvServerHello12Script ==
  ASSUME TypeOK, Script12, RecvServerHello12
  PROVE  Script12'
  <1>0. PICK v \in BOOLEAN : v = client_verify
    BY VerifyType
  <1>1. At12(Client, "recv_server_hello", v) /\ pc[Client] = "recv_server_hello"
    BY <1>0, PeerOf DEF Script12, At, RecvServerHello12, RecvPlain, Recv
  <1>2. First(Client) = Reply12 /\ First(Client).random = "sr"
    <2>1. Incoming(Client)
      BY DEF RecvServerHello12, RecvPlain, Recv
    <2> QED
      BY <1>0, <1>1, ClientHears12, Fields12, <2>1
  <1>3. Reads12(v, Client, "recv_server_hello", "recv_server_cert")
    BY SidesAssumption DEF Reads12, Step12, ClientPath12, ServerPath12, Asking12,
       Verifying12, SentAt12, ReadAt12
  <1>4. Hashes12(v, "recv_server_hello", "recv_server_cert", Reply12)
    BY DEF Hashes12, HashedAt12, Log2
  <1>5. /\ At(Client, "recv_server_hello") /\ Take(Client) /\ Incoming(Client)
       /\ Hash(Client, Reply12) /\ Goto(Client, "recv_server_cert")
    BY <1>0, <1>1, <1>2 DEF RecvServerHello12, RecvPlain, Recv
  <1>6. KeepsKeys(Server)
    BY PeerOf, SidesAssumption DEF RecvServerHello12, RecvPlain, Recv, KeepsKeys, TypeOK,
       KeysOK, SeqsOK, state12
  <1>7. Keys12(Client, "recv_server_cert", v)'
    BY <1>0, <1>1, <1>2, PeerOf, SidesAssumption DEF RecvServerHello12, RecvPlain, Recv,
       At12, Keys12, TypeOK, KeysOK, SeqsOK, RandomAt12, HasShare12, Keyed12, SendNo12,
       RecvNo12, Asking12, ClientPath12, state12, Randoms
  <1> QED
    BY <1>0, <1>3, <1>4, <1>5, <1>6, <1>7, Gets12, PeerOf

LEMMA RecvServerCertificate12Script ==
  ASSUME TypeOK, Script12, RecvServerCertificate12
  PROVE  Script12'
  <1>0. PICK v \in BOOLEAN : v = client_verify
    BY VerifyType
  <1>1. At12(Client, "recv_server_cert", v) /\ pc[Client] = "recv_server_cert"
    BY <1>0, PeerOf DEF Script12, At, RecvServerCertificate12, RecvPlain, Recv
  <1>2. First(Client) = Cert
    <2>1. Incoming(Client)
      BY DEF RecvServerCertificate12, RecvPlain, Recv
    <2> QED
      BY <1>0, <1>1, ClientHears12, <2>1
  <1>3. Reads12(v, Client, "recv_server_cert", "recv_server_key_exchange")
    BY SidesAssumption DEF Reads12, Step12, ClientPath12, ServerPath12, Asking12,
       Verifying12, SentAt12, ReadAt12
  <1>4. Hashes12(v, "recv_server_cert", "recv_server_key_exchange", Cert)
    BY DEF Hashes12, HashedAt12, Log3
  <1>5. /\ At(Client, "recv_server_cert") /\ Take(Client) /\ Incoming(Client)
       /\ Hash(Client, Cert) /\ Goto(Client, "recv_server_key_exchange")
    BY <1>0, <1>1, <1>2 DEF RecvServerCertificate12, RecvPlain, Recv
  <1>6. KeepsKeys(Server)
    BY PeerOf, SidesAssumption DEF RecvServerCertificate12, RecvPlain, Recv, KeepsKeys,
       TypeOK, KeysOK, SeqsOK, state12
  <1>7. Keys12(Client, "recv_server_key_exchange", v)'
    BY <1>0, <1>1, <1>2, PeerOf, SidesAssumption DEF RecvServerCertificate12, RecvPlain,
       Recv, At12, Keys12, TypeOK, KeysOK, SeqsOK, RandomAt12, HasShare12, Keyed12,
       SendNo12, RecvNo12, Asking12, ClientPath12, state12
  <1> QED
    BY <1>0, <1>3, <1>4, <1>5, <1>6, <1>7, Gets12, PeerOf

LEMMA RecvServerKeyExchange12Script ==
  ASSUME TypeOK, Script12, RecvServerKeyExchange12
  PROVE  Script12'
  <1>0. PICK v \in BOOLEAN : v = client_verify
    BY VerifyType
  <1>1. At12(Client, "recv_server_key_exchange", v) /\ pc[Client] = "recv_server_key_exchange"
    BY <1>0, PeerOf DEF Script12, At, RecvServerKeyExchange12, RecvPlain, Recv
  <1>2. First(Client) = ServerKey /\ First(Client).share = "s"
    <2>1. Incoming(Client)
      BY DEF RecvServerKeyExchange12, RecvPlain, Recv
    <2> QED
      BY <1>0, <1>1, ClientHears12, Fields12, <2>1
  <1>3. Reads12(v, Client, "recv_server_key_exchange", "recv_cert_request_or_done")
    BY SidesAssumption DEF Reads12, Step12, ClientPath12, ServerPath12, Asking12,
       Verifying12, SentAt12, ReadAt12
  <1>4. Hashes12(v, "recv_server_key_exchange", "recv_cert_request_or_done", ServerKey)
    BY DEF Hashes12, HashedAt12, Log4
  <1>5. /\ At(Client, "recv_server_key_exchange") /\ Take(Client) /\ Incoming(Client)
       /\ Hash(Client, ServerKey) /\ Goto(Client, "recv_cert_request_or_done")
    BY <1>0, <1>1, <1>2 DEF RecvServerKeyExchange12, RecvPlain, Recv
  <1>6. KeepsKeys(Server)
    BY PeerOf, SidesAssumption DEF RecvServerKeyExchange12, RecvPlain, Recv, KeepsKeys,
       TypeOK, KeysOK, SeqsOK, state12
  <1>7. Keys12(Client, "recv_cert_request_or_done", v)'
    BY <1>0, <1>1, <1>2, PeerOf, SidesAssumption DEF RecvServerKeyExchange12, RecvPlain,
       Recv, At12, Keys12, TypeOK, KeysOK, SeqsOK, RandomAt12, HasShare12, Keyed12,
       SendNo12, RecvNo12, Asking12, ClientPath12, state12
  <1> QED
    BY <1>0, <1>3, <1>4, <1>5, <1>6, <1>7, Gets12, PeerOf

LEMMA SendClientCertificate12Script ==
  ASSUME TypeOK, Script12, SendClientCertificate12
  PROVE  Script12'
  <1>0. PICK v \in BOOLEAN : v = client_verify
    BY VerifyType
  <1>1. At12(Client, "send_client_cert", v) /\ pc[Client] = "send_client_cert"
    BY <1>0, PeerOf DEF Script12, At, SendClientCertificate12, SendPlain, Send
  <1>2. v
    BY <1>1 DEF At12, Step12, Verifying12
  <1>3. Sends12(v, Client, "send_client_cert", "send_client_key_exchange", Cert)
    BY <1>2, SidesAssumption DEF Sends12, Step12, ClientPath12, ServerPath12, Asking12,
       Verifying12, Flow12, SentAt12, ReadAt12
  <1>4. Hashes12(v, "send_client_cert", "send_client_key_exchange", Cert)
    BY <1>2 DEF Hashes12, HashedAt12, Log7
  <1>5. /\ At(Client, "send_client_cert") /\ Emit(Client, Cert)
       /\ Hash(Client, Cert) /\ Goto(Client, "send_client_key_exchange")
    BY <1>0, <1>1, <1>2 DEF SendClientCertificate12, SendPlain, Send, Cert
  <1>6. KeepsKeys(Server)
    BY PeerOf, SidesAssumption DEF SendClientCertificate12, SendPlain, Send, KeepsKeys,
       TypeOK, KeysOK, SeqsOK, state12
  <1>7. Keys12(Client, "send_client_key_exchange", v)'
    BY <1>0, <1>1, <1>2, PeerOf, SidesAssumption DEF SendClientCertificate12, SendPlain,
       Send, At12, Keys12, TypeOK, KeysOK, SeqsOK, RandomAt12, HasShare12, Keyed12,
       SendNo12, RecvNo12, Asking12, ClientPath12, state12
  <1> QED
    BY <1>0, <1>3, <1>4, <1>5, <1>6, <1>7, Says12, PeerOf

LEMMA SendClientKeyExchange12Script ==
  ASSUME TypeOK, Script12, SendClientKeyExchange12
  PROVE  Script12'
  <1>0. PICK v \in BOOLEAN : v = client_verify
    BY VerifyType
  <1>1. At12(Client, "send_client_key_exchange", v) /\ pc[Client] = "send_client_key_exchange"
    BY <1>0, PeerOf DEF Script12, At, SendClientKeyExchange12, SendPlain, Send
  <1>2. CASE v
    <2>1. Sends12(v, Client, "send_client_key_exchange", "send_cert_verify", ClientKey)
      BY <1>2, SidesAssumption DEF Sends12, Step12, ClientPath12, ServerPath12, Asking12,
         Verifying12, Flow12, SentAt12, ReadAt12
    <2>2. Hashes12(v, "send_client_key_exchange", "send_cert_verify", ClientKey)
      BY <1>2 DEF Hashes12, HashedAt12, Log8, Log9
    <2>3. /\ At(Client, "send_client_key_exchange") /\ Emit(Client, ClientKey)
         /\ Hash(Client, ClientKey) /\ Goto(Client, "send_cert_verify")
      BY <1>0, <1>1, <1>2 DEF SendClientKeyExchange12, SendPlain, Send, ClientKey, At12,
         Keys12, Asking12
    <2>4. KeepsKeys(Server)
      BY PeerOf, SidesAssumption DEF SendClientKeyExchange12, SendPlain, Send, KeepsKeys,
         TypeOK, KeysOK, SeqsOK, state12
    <2>5. Keys12(Client, "send_cert_verify", v)'
      BY <1>0, <1>1, <1>2, PeerOf, SidesAssumption DEF SendClientKeyExchange12, SendPlain,
         Send, At12, Keys12, TypeOK, KeysOK, SeqsOK, RandomAt12, HasShare12, Keyed12,
         SendNo12, RecvNo12, Asking12, ClientPath12, state12, MasterSecret12, Master
    <2> QED
      BY <1>0, <2>1, <2>2, <2>3, <2>4, <2>5, Says12, PeerOf
  <1>3. CASE ~v
    <2>1. Sends12(v, Client, "send_client_key_exchange", "send_client_ccs", ClientKey)
      BY <1>3, SidesAssumption DEF Sends12, Step12, ClientPath12, ServerPath12, Asking12,
         Verifying12, Flow12, SentAt12, ReadAt12
    <2>2. Hashes12(v, "send_client_key_exchange", "send_client_ccs", ClientKey)
      BY <1>3 DEF Hashes12, HashedAt12, Log8, Log9
    <2>3. /\ At(Client, "send_client_key_exchange") /\ Emit(Client, ClientKey)
         /\ Hash(Client, ClientKey) /\ Goto(Client, "send_client_ccs")
      BY <1>0, <1>1, <1>3 DEF SendClientKeyExchange12, SendPlain, Send, ClientKey, At12,
         Keys12, Asking12
    <2>4. KeepsKeys(Server)
      BY PeerOf, SidesAssumption DEF SendClientKeyExchange12, SendPlain, Send, KeepsKeys,
         TypeOK, KeysOK, SeqsOK, state12
    <2>5. Keys12(Client, "send_client_ccs", v)'
      BY <1>0, <1>1, <1>3, PeerOf, SidesAssumption DEF SendClientKeyExchange12, SendPlain,
         Send, At12, Keys12, TypeOK, KeysOK, SeqsOK, RandomAt12, HasShare12, Keyed12,
         SendNo12, RecvNo12, Asking12, ClientPath12, state12, MasterSecret12, Master
    <2> QED
      BY <1>0, <2>1, <2>2, <2>3, <2>4, <2>5, Says12, PeerOf
  <1> QED
    BY <1>2, <1>3

LEMMA SendCertificateVerify12Script ==
  ASSUME TypeOK, Script12, SendCertificateVerify12
  PROVE  Script12'
  <1>0. PICK v \in BOOLEAN : v = client_verify
    BY VerifyType
  <1>1. At12(Client, "send_cert_verify", v) /\ pc[Client] = "send_cert_verify"
    BY <1>0, PeerOf DEF Script12, At, SendCertificateVerify12, SendPlain, Send
  <1>2. v
    BY <1>1 DEF At12, Step12, Verifying12
  <1>3. Sends12(v, Client, "send_cert_verify", "send_client_ccs", ClientProof12(v))
    <2>1. /\ Step12(Client, "send_client_ccs", v)
          /\ SentAt12(v, Client, "send_cert_verify") + 1 = 4
          /\ SentAt12(v, Client, "send_client_ccs") = SentAt12(v, Client, "send_cert_verify") + 1
          /\ ReadAt12(v, Client, "send_client_ccs") = ReadAt12(v, Client, "send_cert_verify")
      BY <1>2 DEF Step12, ClientPath12, Verifying12, SentAt12, ReadAt12
    <2> QED
      BY <1>2, <2>1, ClientProofFlow12, Zenon DEF Sends12
  <1>4. Hashes12(v, "send_cert_verify", "send_client_ccs", ClientProof12(v))
    BY <1>2 DEF Hashes12, HashedAt12, Log9
  <1>5. /\ At(Client, "send_cert_verify") /\ Emit(Client, ClientProof12(v))
       /\ Hash(Client, ClientProof12(v)) /\ Goto(Client, "send_client_ccs")
    BY <1>0, <1>1, <1>2 DEF SendCertificateVerify12, SendPlain, Send, ClientProof12, Over,
       At12, HashedAt12
  <1>6. KeepsKeys(Server)
    BY PeerOf, SidesAssumption DEF SendCertificateVerify12, SendPlain, Send, KeepsKeys,
       TypeOK, KeysOK, SeqsOK, state12
  <1>7. Keys12(Client, "send_client_ccs", v)'
    BY <1>0, <1>1, <1>2, PeerOf, SidesAssumption DEF SendCertificateVerify12, SendPlain,
       Send, At12, Keys12, TypeOK, KeysOK, SeqsOK, RandomAt12, HasShare12, Keyed12,
       SendNo12, RecvNo12, Asking12, ClientPath12, state12
  <1> QED
    BY <1>0, <1>3, <1>4, <1>5, <1>6, <1>7, Says12, PeerOf

LEMMA SendClientChangeCipherSpec12Script ==
  ASSUME TypeOK, Script12, SendClientChangeCipherSpec12
  PROVE  Script12'
  <1>0. PICK v \in BOOLEAN : v = client_verify
    BY VerifyType
  <1>1. At12(Client, "send_client_ccs", v) /\ pc[Client] = "send_client_ccs"
    BY <1>0, PeerOf DEF Script12, At, SendClientChangeCipherSpec12, Unhashed
  <1>2. Sends12(v, Client, "send_client_ccs", "send_client_finished", CipherSpec)
    BY SidesAssumption DEF Sends12, Step12, ClientPath12, ServerPath12, Asking12,
       Verifying12, Flow12, SentAt12, ReadAt12
  <1>3. HashedAt12(v, "send_client_finished") = HashedAt12(v, "send_client_ccs")
    BY DEF HashedAt12
  <1>4. Unhashed(Client, "send_client_ccs", "send_client_finished") /\ Emit(Client, CipherSpec)
    BY <1>0, <1>1 DEF SendClientChangeCipherSpec12, CipherSpec
  <1>5. KeepsKeys(Server)
    BY PeerOf, SidesAssumption DEF SendClientChangeCipherSpec12, Unhashed, KeepsKeys,
       TypeOK, KeysOK, SeqsOK, state12
  <1>6. Keys12(Client, "send_client_finished", v)'
    BY <1>0, <1>1, PeerOf, SidesAssumption DEF SendClientChangeCipherSpec12, Unhashed,
       At12, Keys12, TypeOK, KeysOK, SeqsOK, RandomAt12, HasShare12, Keyed12, SendNo12,
       RecvNo12, Asking12, ClientPath12, state12
  <1> QED
    BY <1>0, <1>2, <1>3, <1>4, <1>5, <1>6, Shows12, PeerOf

LEMMA SendClientFinished12Script ==
  ASSUME TypeOK, Script12, SendClientFinished12
  PROVE  Script12'
  <1>0. PICK v \in BOOLEAN : v = client_verify
    BY VerifyType
  <1>1. At12(Client, "send_client_finished", v) /\ pc[Client] = "send_client_finished"
    BY <1>0, PeerOf DEF Script12, At, SendClientFinished12, SendProtected, Send
  <1>2. Sends12(v, Client, "send_client_finished", "recv_server_ccs", ClientEnd12(v))
    BY SidesAssumption DEF Sends12, Step12, ClientPath12, ServerPath12, Asking12,
       Verifying12, Flow12, SentAt12, ReadAt12
  <1>3. Hashes12(v, "send_client_finished", "recv_server_ccs", ClientEnd12(v))
    BY DEF Hashes12, HashedAt12, Log10
  <1>4. /\ At(Client, "send_client_finished") /\ Emit(Client, ClientEnd12(v))
       /\ Hash(Client, ClientEnd12(v)) /\ Goto(Client, "recv_server_ccs")
    BY <1>0, <1>1 DEF SendClientFinished12, SendProtected, Send, Protected, Over, Signed,
       Finished12, ClientEnd12, Sealed, At12, Keys12, HashedAt12, Keyed12, SendNo12
  <1>5. KeepsKeys(Server)
    BY PeerOf, SidesAssumption DEF SendClientFinished12, SendProtected, Send, Protected,
       Over, Signed, Finished12, KeepsKeys, TypeOK, KeysOK, SeqsOK, state12
  <1>6. Keys12(Client, "recv_server_ccs", v)'
    BY <1>0, <1>1, PeerOf, SidesAssumption DEF SendClientFinished12, SendProtected, Send,
       Protected, Over, Signed, Finished12, At12, Keys12, TypeOK, KeysOK, SeqsOK,
       RandomAt12, HasShare12, Keyed12, SendNo12, RecvNo12, Asking12, ClientPath12, state12
  <1> QED
    BY <1>0, <1>2, <1>3, <1>4, <1>5, <1>6, Says12, PeerOf

LEMMA RecvServerChangeCipherSpec12Script ==
  ASSUME TypeOK, Script12, RecvServerChangeCipherSpec12
  PROVE  Script12'
  <1>0. PICK v \in BOOLEAN : v = client_verify
    BY VerifyType
  <1>1. At12(Client, "recv_server_ccs", v) /\ pc[Client] = "recv_server_ccs"
    BY <1>0, PeerOf DEF Script12, At, RecvServerChangeCipherSpec12, Unhashed
  <1>2. First(Client) = CipherSpec
    <2>1. Incoming(Client)
      BY DEF RecvServerChangeCipherSpec12
    <2> QED
      BY <1>0, <1>1, ClientHears12, <2>1
  <1>3. Reads12(v, Client, "recv_server_ccs", "recv_server_finished")
    BY SidesAssumption DEF Reads12, Step12, ClientPath12, ServerPath12, Asking12,
       Verifying12, SentAt12, ReadAt12
  <1>4. HashedAt12(v, "recv_server_finished") = HashedAt12(v, "recv_server_ccs")
    BY DEF HashedAt12
  <1>5. Unhashed(Client, "recv_server_ccs", "recv_server_finished") /\ Take(Client) /\ Incoming(Client)
    BY DEF RecvServerChangeCipherSpec12
  <1>6. KeepsKeys(Server)
    BY PeerOf, SidesAssumption DEF RecvServerChangeCipherSpec12, Unhashed, KeepsKeys,
       TypeOK, KeysOK, SeqsOK, state12
  <1>7. Keys12(Client, "recv_server_finished", v)'
    BY <1>0, <1>1, <1>2, PeerOf, SidesAssumption DEF RecvServerChangeCipherSpec12,
       Unhashed, At12, Keys12, TypeOK, KeysOK, SeqsOK, RandomAt12, HasShare12, Keyed12,
       SendNo12, RecvNo12, Asking12, ClientPath12, state12
  <1> QED
    BY <1>0, <1>3, <1>4, <1>5, <1>6, <1>7, Skims12, PeerOf

LEMMA RecvServerFinished12Script ==
  ASSUME TypeOK, Script12, RecvServerFinished12
  PROVE  Script12'
  <1>0. PICK v \in BOOLEAN : v = client_verify
    BY VerifyType
  <1>1. At12(Client, "recv_server_finished", v) /\ pc[Client] = "recv_server_finished"
    BY <1>0, PeerOf DEF Script12, At, RecvServerFinished12, Unhashed
  <1>2. First(Client) = ServerEnd12(v)
    <2>1. Incoming(Client)
      BY DEF RecvServerFinished12
    <2> QED
      BY <1>0, <1>1, ClientHears12, <2>1
  <1>3. Reads12(v, Client, "recv_server_finished", "established")
    BY SidesAssumption DEF Reads12, Step12, ClientPath12, ServerPath12, Asking12,
       Verifying12, SentAt12, ReadAt12
  <1>4. HashedAt12(v, "established") = HashedAt12(v, "recv_server_finished")
    BY DEF HashedAt12
  <1>5. Unhashed(Client, "recv_server_finished", "established") /\ Take(Client) /\ Incoming(Client)
    BY DEF RecvServerFinished12
  <1>6. KeepsKeys(Server)
    BY PeerOf, SidesAssumption DEF RecvServerFinished12, Unhashed, KeepsKeys, TypeOK,
       KeysOK, SeqsOK, state12
  <1>7. Keys12(Client, "established", v)'
    BY <1>0, <1>1, <1>2, PeerOf, SidesAssumption DEF RecvServerFinished12, Unhashed, At12,
       Keys12, TypeOK, KeysOK, SeqsOK, RandomAt12, HasShare12, Keyed12, SendNo12, RecvNo12,
       Asking12, ClientPath12, state12
  <1> QED
    BY <1>0, <1>3, <1>4, <1>5, <1>6, <1>7, Skims12, PeerOf

LEMMA RecvClientHello12Script ==
  ASSUME TypeOK, Script12, RecvClientHello12
  PROVE  Script12'
  <1>0. PICK v \in BOOLEAN : v = client_verify
    BY VerifyType
  <1>1. At12(Server, "recv_client_hello", v) /\ pc[Server] = "recv_client_hello"
    BY <1>0, PeerOf DEF Script12, At, RecvClientHello12, RecvPlain, Recv
  <1>2. First(Server) = Hello12 /\ First(Server).random = "cr"
    <2>1. Incoming(Server)
      BY DEF RecvClientHello12, RecvPlain, Recv
    <2> QED
      BY <1>0, <1>1, ServerHears12, Fields12, <2>1
  <1>3. Reads12(v, Server, "recv_client_hello", "send_server_hello")
    BY SidesAssumption DEF Reads12, Step12, ClientPath12, ServerPath12, Asking12,
       Verifying12, SentAt12, ReadAt12
  <1>4. Hashes12(v, "recv_client_hello", "send_server_hello", Hello12)
    BY DEF Hashes12, HashedAt12, Log1
  <1>5. /\ At(Server, "recv_client_hello") /\ Take(Server) /\ Incoming(Server)
       /\ Hash(Server, Hello12) /\ Goto(Server, "send_server_hello")
    BY <1>0, <1>1, <1>2 DEF RecvClientHello12, RecvPlain, Recv
  <1>6. KeepsKeys(Client)
    BY PeerOf, SidesAssumption DEF RecvClientHello12, RecvPlain, Recv, KeepsKeys, TypeOK,
       KeysOK, SeqsOK, state12
  <1>7. Keys12(Server, "send_server_hello", v)'
    BY <1>0, <1>1, <1>2, PeerOf, SidesAssumption DEF RecvClientHello12, RecvPlain, Recv,
       At12, Keys12, TypeOK, KeysOK, SeqsOK, RandomAt12, HasShare12, Keyed12, SendNo12,
       RecvNo12, Asking12, ClientPath12, state12
  <1> QED
    BY <1>0, <1>3, <1>4, <1>5, <1>6, <1>7, Gets12, PeerOf

LEMMA SendServerCertificate12Script ==
  ASSUME TypeOK, Script12, SendServerCertificate12
  PROVE  Script12'
  <1>0. PICK v \in BOOLEAN : v = client_verify
    BY VerifyType
  <1>1. At12(Server, "send_server_cert", v) /\ pc[Server] = "send_server_cert"
    BY <1>0, PeerOf DEF Script12, At, SendServerCertificate12, SendPlain, Send
  <1>2. Sends12(v, Server, "send_server_cert", "send_server_key_exchange", Cert)
    BY SidesAssumption DEF Sends12, Step12, ClientPath12, ServerPath12, Asking12,
       Verifying12, Flow12, SentAt12, ReadAt12
  <1>3. Hashes12(v, "send_server_cert", "send_server_key_exchange", Cert)
    BY DEF Hashes12, HashedAt12, Log3
  <1>4. /\ At(Server, "send_server_cert") /\ Emit(Server, Cert)
       /\ Hash(Server, Cert) /\ Goto(Server, "send_server_key_exchange")
    BY <1>0, <1>1 DEF SendServerCertificate12, SendPlain, Send, Cert
  <1>5. KeepsKeys(Client)
    BY PeerOf, SidesAssumption DEF SendServerCertificate12, SendPlain, Send, KeepsKeys,
       TypeOK, KeysOK, SeqsOK, state12
  <1>6. Keys12(Server, "send_server_key_exchange", v)'
    BY <1>0, <1>1, PeerOf, SidesAssumption DEF SendServerCertificate12, SendPlain, Send,
       At12, Keys12, TypeOK, KeysOK, SeqsOK, RandomAt12, HasShare12, Keyed12, SendNo12,
       RecvNo12, Asking12, ClientPath12, state12
  <1> QED
    BY <1>0, <1>2, <1>3, <1>4, <1>5, <1>6, Says12, PeerOf

LEMMA SendCertificateRequest12Script ==
  ASSUME TypeOK, Script12, SendCertificateRequest12
  PROVE  Script12'
  <1>0. PICK v \in BOOLEAN : v = client_verify
    BY VerifyType
  <1>1. At12(Server, "send_cert_request", v) /\ pc[Server] = "send_cert_request"
    BY <1>0, PeerOf DEF Script12, At, SendCertificateRequest12, SendPlain, Send
  <1>2. v
    BY <1>1 DEF At12, Step12, Verifying12
  <1>3. Sends12(v, Server, "send_cert_request", "send_server_hello_done", Request)
    BY <1>2, SidesAssumption DEF Sends12, Step12, ClientPath12, ServerPath12, Asking12,
       Verifying12, Flow12, SentAt12, ReadAt12
  <1>4. Hashes12(v, "send_cert_request", "send_server_hello_done", Request)
    BY <1>2 DEF Hashes12, HashedAt12, Log5
  <1>5. /\ At(Server, "send_cert_request") /\ Emit(Server, Request)
       /\ Hash(Server, Request) /\ Goto(Server, "send_server_hello_done")
    BY <1>0, <1>1, <1>2 DEF SendCertificateRequest12, SendPlain, Send, Request
  <1>6. KeepsKeys(Client)
    BY PeerOf, SidesAssumption DEF SendCertificateRequest12, SendPlain, Send, KeepsKeys,
       TypeOK, KeysOK, SeqsOK, state12
  <1>7. Keys12(Server, "send_server_hello_done", v)'
    BY <1>0, <1>1, <1>2, PeerOf, SidesAssumption DEF SendCertificateRequest12, SendPlain,
       Send, At12, Keys12, TypeOK, KeysOK, SeqsOK, RandomAt12, HasShare12, Keyed12,
       SendNo12, RecvNo12, Asking12, ClientPath12, state12
  <1> QED
    BY <1>0, <1>3, <1>4, <1>5, <1>6, <1>7, Says12, PeerOf

LEMMA SendServerHelloDone12Script ==
  ASSUME TypeOK, Script12, SendServerHelloDone12
  PROVE  Script12'
  <1>0. PICK v \in BOOLEAN : v = client_verify
    BY VerifyType
  <1>1. At12(Server, "send_server_hello_done", v) /\ pc[Server] = "send_server_hello_done"
    BY <1>0, PeerOf DEF Script12, At, SendServerHelloDone12, SendPlain, Send
  <1>2. CASE v
    <2>1. Sends12(v, Server, "send_server_hello_done", "recv_client_cert", HelloDone)
      BY <1>2, SidesAssumption DEF Sends12, Step12, ClientPath12, ServerPath12, Asking12,
         Verifying12, Flow12, SentAt12, ReadAt12
    <2>2. Hashes12(v, "send_server_hello_done", "recv_client_cert", HelloDone)
      BY <1>2 DEF Hashes12, HashedAt12, Log6, Log7
    <2>3. /\ At(Server, "send_server_hello_done") /\ Emit(Server, HelloDone)
         /\ Hash(Server, HelloDone) /\ Goto(Server, "recv_client_cert")
      BY <1>0, <1>1, <1>2 DEF SendServerHelloDone12, SendPlain, Send, HelloDone
    <2>4. KeepsKeys(Client)
      BY PeerOf, SidesAssumption DEF SendServerHelloDone12, SendPlain, Send, KeepsKeys,
         TypeOK, KeysOK, SeqsOK, state12
    <2>5. Keys12(Server, "recv_client_cert", v)'
      BY <1>0, <1>1, <1>2, PeerOf, SidesAssumption DEF SendServerHelloDone12, SendPlain,
         Send, At12, Keys12, TypeOK, KeysOK, SeqsOK, RandomAt12, HasShare12, Keyed12,
         SendNo12, RecvNo12, Asking12, ClientPath12, state12
    <2> QED
      BY <1>0, <2>1, <2>2, <2>3, <2>4, <2>5, Says12, PeerOf
  <1>3. CASE ~v
    <2>1. Sends12(v, Server, "send_server_hello_done", "recv_client_key_exchange", HelloDone)
      BY <1>3, SidesAssumption DEF Sends12, Step12, ClientPath12, ServerPath12, Asking12,
         Verifying12, Flow12, SentAt12, ReadAt12
    <2>2. Hashes12(v, "send_server_hello_done", "recv_client_key_exchange", HelloDone)
      BY <1>3 DEF Hashes12, HashedAt12, Log6, Log7
    <2>3. /\ At(Server, "send_server_hello_done") /\ Emit(Server, HelloDone)
         /\ Hash(Server, HelloDone) /\ Goto(Server, "recv_client_key_exchange")
      BY <1>0, <1>1, <1>3 DEF SendServerHelloDone12, SendPlain, Send, HelloDone
    <2>4. KeepsKeys(Client)
      BY PeerOf, SidesAssumption DEF SendServerHelloDone12, SendPlain, Send, KeepsKeys,
         TypeOK, KeysOK, SeqsOK, state12
    <2>5. Keys12(Server, "recv_client_key_exchange", v)'
      BY <1>0, <1>1, <1>3, PeerOf, SidesAssumption DEF SendServerHelloDone12, SendPlain,
         Send, At12, Keys12, TypeOK, KeysOK, SeqsOK, RandomAt12, HasShare12, Keyed12,
         SendNo12, RecvNo12, Asking12, ClientPath12, state12
    <2> QED
      BY <1>0, <2>1, <2>2, <2>3, <2>4, <2>5, Says12, PeerOf
  <1> QED
    BY <1>2, <1>3

LEMMA RecvClientCertificate12Script ==
  ASSUME TypeOK, Script12, RecvClientCertificate12
  PROVE  Script12'
  <1>0. PICK v \in BOOLEAN : v = client_verify
    BY VerifyType
  <1>1. At12(Server, "recv_client_cert", v) /\ pc[Server] = "recv_client_cert"
    BY <1>0, PeerOf DEF Script12, At, RecvClientCertificate12, RecvPlain, Recv
  <1>2. v
    BY <1>1 DEF At12, Step12, Verifying12
  <1>3. First(Server) = Cert
    <2>1. Incoming(Server)
      BY DEF RecvClientCertificate12, RecvPlain, Recv
    <2> QED
      BY <1>0, <1>1, ServerHears12, <2>1, <1>2
  <1>4. Reads12(v, Server, "recv_client_cert", "recv_client_key_exchange")
    BY <1>2, SidesAssumption DEF Reads12, Step12, ClientPath12, ServerPath12, Asking12,
       Verifying12, SentAt12, ReadAt12
  <1>5. Hashes12(v, "recv_client_cert", "recv_client_key_exchange", Cert)
    BY <1>2 DEF Hashes12, HashedAt12, Log7
  <1>6. /\ At(Server, "recv_client_cert") /\ Take(Server) /\ Incoming(Server)
       /\ Hash(Server, Cert) /\ Goto(Server, "recv_client_key_exchange")
    BY <1>0, <1>1, <1>3, <1>2 DEF RecvClientCertificate12, RecvPlain, Recv
  <1>7. KeepsKeys(Client)
    BY PeerOf, SidesAssumption DEF RecvClientCertificate12, RecvPlain, Recv, KeepsKeys,
       TypeOK, KeysOK, SeqsOK, state12
  <1>8. Keys12(Server, "recv_client_key_exchange", v)'
    BY <1>0, <1>1, <1>3, <1>2, PeerOf, SidesAssumption DEF RecvClientCertificate12,
       RecvPlain, Recv, At12, Keys12, TypeOK, KeysOK, SeqsOK, RandomAt12, HasShare12,
       Keyed12, SendNo12, RecvNo12, Asking12, ClientPath12, state12
  <1> QED
    BY <1>0, <1>4, <1>5, <1>6, <1>7, <1>8, Gets12, PeerOf

LEMMA RecvClientKeyExchange12Script ==
  ASSUME TypeOK, Script12, RecvClientKeyExchange12
  PROVE  Script12'
  <1>0. PICK v \in BOOLEAN : v = client_verify
    BY VerifyType
  <1>1. At12(Server, "recv_client_key_exchange", v) /\ pc[Server] = "recv_client_key_exchange"
    BY <1>0, PeerOf DEF Script12, At, RecvClientKeyExchange12, RecvPlain, Recv
  <1>2. First(Server) = ClientKey /\ First(Server).share = "c"
    <2>1. Incoming(Server)
      BY DEF RecvClientKeyExchange12, RecvPlain, Recv
    <2> QED
      BY <1>0, <1>1, ServerHears12, Fields12, <2>1
  <1>3. CASE v
    <2>1. Reads12(v, Server, "recv_client_key_exchange", "recv_cert_verify")
      BY <1>3, SidesAssumption DEF Reads12, Step12, ClientPath12, ServerPath12, Asking12,
         Verifying12, SentAt12, ReadAt12
    <2>2. Hashes12(v, "recv_client_key_exchange", "recv_cert_verify", ClientKey)
      BY <1>3 DEF Hashes12, HashedAt12, Log8, Log9
    <2>3. /\ At(Server, "recv_client_key_exchange") /\ Take(Server) /\ Incoming(Server)
         /\ Hash(Server, ClientKey) /\ Goto(Server, "recv_cert_verify")
      BY <1>0, <1>1, <1>2, <1>3 DEF RecvClientKeyExchange12, RecvPlain, Recv
    <2>4. KeepsKeys(Client)
      BY PeerOf, SidesAssumption DEF RecvClientKeyExchange12, RecvPlain, Recv, KeepsKeys,
         TypeOK, KeysOK, SeqsOK, state12
    <2>5. Keys12(Server, "recv_cert_verify", v)'
      BY <1>0, <1>1, <1>2, <1>3, PeerOf, SidesAssumption DEF RecvClientKeyExchange12,
         RecvPlain, Recv, At12, Keys12, TypeOK, KeysOK, SeqsOK, RandomAt12, HasShare12,
         Keyed12, SendNo12, RecvNo12, Asking12, ClientPath12, state12, Master
    <2> QED
      BY <1>0, <2>1, <2>2, <2>3, <2>4, <2>5, Gets12, PeerOf
  <1>4. CASE ~v
    <2>1. Reads12(v, Server, "recv_client_key_exchange", "recv_client_ccs")
      BY <1>4, SidesAssumption DEF Reads12, Step12, ClientPath12, ServerPath12, Asking12,
         Verifying12, SentAt12, ReadAt12
    <2>2. Hashes12(v, "recv_client_key_exchange", "recv_client_ccs", ClientKey)
      BY <1>4 DEF Hashes12, HashedAt12, Log8, Log9
    <2>3. /\ At(Server, "recv_client_key_exchange") /\ Take(Server) /\ Incoming(Server)
         /\ Hash(Server, ClientKey) /\ Goto(Server, "recv_client_ccs")
      BY <1>0, <1>1, <1>2, <1>4 DEF RecvClientKeyExchange12, RecvPlain, Recv
    <2>4. KeepsKeys(Client)
      BY PeerOf, SidesAssumption DEF RecvClientKeyExchange12, RecvPlain, Recv, KeepsKeys,
         TypeOK, KeysOK, SeqsOK, state12
    <2>5. Keys12(Server, "recv_client_ccs", v)'
      BY <1>0, <1>1, <1>2, <1>4, PeerOf, SidesAssumption DEF RecvClientKeyExchange12,
         RecvPlain, Recv, At12, Keys12, TypeOK, KeysOK, SeqsOK, RandomAt12, HasShare12,
         Keyed12, SendNo12, RecvNo12, Asking12, ClientPath12, state12, Master
    <2> QED
      BY <1>0, <2>1, <2>2, <2>3, <2>4, <2>5, Gets12, PeerOf
  <1> QED
    BY <1>3, <1>4

LEMMA RecvCertificateVerify12Script ==
  ASSUME TypeOK, Script12, RecvCertificateVerify12
  PROVE  Script12'
  <1>0. PICK v \in BOOLEAN : v = client_verify
    BY VerifyType
  <1>1. At12(Server, "recv_cert_verify", v) /\ pc[Server] = "recv_cert_verify"
    BY <1>0, PeerOf DEF Script12, At, RecvCertificateVerify12, RecvPlain, Recv
  <1>2. v
    BY <1>1 DEF At12, Step12, Verifying12
  <1>3. First(Server) = ClientProof12(v)
    <2>1. Incoming(Server)
      BY DEF RecvCertificateVerify12, RecvPlain, Recv
    <2> QED
      BY <1>0, <1>1, ServerHears12, <2>1, <1>2
  <1>4. Reads12(v, Server, "recv_cert_verify", "recv_client_ccs")
    BY <1>2, SidesAssumption DEF Reads12, Step12, ClientPath12, ServerPath12, Asking12,
       Verifying12, SentAt12, ReadAt12
  <1>5. Hashes12(v, "recv_cert_verify", "recv_client_ccs", ClientProof12(v))
    BY <1>2 DEF Hashes12, HashedAt12, Log9
  <1>6. /\ At(Server, "recv_cert_verify") /\ Take(Server) /\ Incoming(Server)
       /\ Hash(Server, ClientProof12(v)) /\ Goto(Server, "recv_client_ccs")
    BY <1>0, <1>1, <1>3, <1>2 DEF RecvCertificateVerify12, RecvPlain, Recv
  <1>7. KeepsKeys(Client)
    BY PeerOf, SidesAssumption DEF RecvCertificateVerify12, RecvPlain, Recv, KeepsKeys,
       TypeOK, KeysOK, SeqsOK, state12
  <1>8. Keys12(Server, "recv_client_ccs", v)'
    BY <1>0, <1>1, <1>3, <1>2, PeerOf, SidesAssumption DEF RecvCertificateVerify12,
       RecvPlain, Recv, At12, Keys12, TypeOK, KeysOK, SeqsOK, RandomAt12, HasShare12,
       Keyed12, SendNo12, RecvNo12, Asking12, ClientPath12, state12, MasterSecret12, Master
  <1> QED
    BY <1>0, <1>4, <1>5, <1>6, <1>7, <1>8, Gets12, PeerOf

LEMMA RecvClientChangeCipherSpec12Script ==
  ASSUME TypeOK, Script12, RecvClientChangeCipherSpec12
  PROVE  Script12'
  <1>0. PICK v \in BOOLEAN : v = client_verify
    BY VerifyType
  <1>1. At12(Server, "recv_client_ccs", v) /\ pc[Server] = "recv_client_ccs"
    BY <1>0, PeerOf DEF Script12, At, RecvClientChangeCipherSpec12, Unhashed
  <1>2. First(Server) = CipherSpec
    <2>1. Incoming(Server)
      BY DEF RecvClientChangeCipherSpec12
    <2> QED
      BY <1>0, <1>1, ServerHears12, <2>1
  <1>3. Reads12(v, Server, "recv_client_ccs", "recv_client_finished")
    BY SidesAssumption DEF Reads12, Step12, ClientPath12, ServerPath12, Asking12,
       Verifying12, SentAt12, ReadAt12
  <1>4. HashedAt12(v, "recv_client_finished") = HashedAt12(v, "recv_client_ccs")
    BY DEF HashedAt12
  <1>5. Unhashed(Server, "recv_client_ccs", "recv_client_finished") /\ Take(Server) /\ Incoming(Server)
    BY DEF RecvClientChangeCipherSpec12
  <1>6. KeepsKeys(Client)
    BY PeerOf, SidesAssumption DEF RecvClientChangeCipherSpec12, Unhashed, KeepsKeys,
       TypeOK, KeysOK, SeqsOK, state12
  <1>7. Keys12(Server, "recv_client_finished", v)'
    BY <1>0, <1>1, <1>2, PeerOf, SidesAssumption DEF RecvClientChangeCipherSpec12,
       Unhashed, At12, Keys12, TypeOK, KeysOK, SeqsOK, RandomAt12, HasShare12, Keyed12,
       SendNo12, RecvNo12, Asking12, ClientPath12, state12
  <1> QED
    BY <1>0, <1>3, <1>4, <1>5, <1>6, <1>7, Skims12, PeerOf

LEMMA RecvClientFinished12Script ==
  ASSUME TypeOK, Script12, RecvClientFinished12
  PROVE  Script12'
  <1>0. PICK v \in BOOLEAN : v = client_verify
    BY VerifyType
  <1>1. At12(Server, "recv_client_finished", v) /\ pc[Server] = "recv_client_finished"
    BY <1>0, PeerOf DEF Script12, At, RecvClientFinished12, RecvProtected, Recv
  <1>2. First(Server) = ClientEnd12(v)
    <2>1. Incoming(Server)
      BY DEF RecvClientFinished12, RecvProtected, Recv
    <2> QED
      BY <1>0, <1>1, ServerHears12, <2>1
  <1>3. Reads12(v, Server, "recv_client_finished", "send_server_ccs")
    BY SidesAssumption DEF Reads12, Step12, ClientPath12, ServerPath12, Asking12,
       Verifying12, SentAt12, ReadAt12
  <1>4. Hashes12(v, "recv_client_finished", "send_server_ccs", ClientEnd12(v))
    BY DEF Hashes12, HashedAt12, Log10
  <1>5. /\ At(Server, "recv_client_finished") /\ Take(Server) /\ Incoming(Server)
       /\ Hash(Server, ClientEnd12(v)) /\ Goto(Server, "send_server_ccs")
    BY <1>0, <1>1, <1>2 DEF RecvClientFinished12, RecvProtected, Recv
  <1>6. KeepsKeys(Client)
    BY PeerOf, SidesAssumption DEF RecvClientFinished12, RecvProtected, Recv, KeepsKeys,
       TypeOK, KeysOK, SeqsOK, state12
  <1>7. Keys12(Server, "send_server_ccs", v)'
    BY <1>0, <1>1, <1>2, PeerOf, SidesAssumption DEF RecvClientFinished12, RecvProtected,
       Recv, At12, Keys12, TypeOK, KeysOK, SeqsOK, RandomAt12, HasShare12, Keyed12,
       SendNo12, RecvNo12, Asking12, ClientPath12, state12
  <1> QED
    BY <1>0, <1>3, <1>4, <1>5, <1>6, <1>7, Gets12, PeerOf

LEMMA SendServerChangeCipherSpec12Script ==
  ASSUME TypeOK, Script12, SendServerChangeCipherSpec12
  PROVE  Script12'
  <1>0. PICK v \in BOOLEAN : v = client_verify
    BY VerifyType
  <1>1. At12(Server, "send_server_ccs", v) /\ pc[Server] = "send_server_ccs"
    BY <1>0, PeerOf DEF Script12, At, SendServerChangeCipherSpec12, Unhashed
  <1>2. Sends12(v, Server, "send_server_ccs", "send_server_finished", CipherSpec)
    BY SidesAssumption DEF Sends12, Step12, ClientPath12, ServerPath12, Asking12,
       Verifying12, Flow12, SentAt12, ReadAt12
  <1>3. HashedAt12(v, "send_server_finished") = HashedAt12(v, "send_server_ccs")
    BY DEF HashedAt12
  <1>4. Unhashed(Server, "send_server_ccs", "send_server_finished") /\ Emit(Server, CipherSpec)
    BY <1>0, <1>1 DEF SendServerChangeCipherSpec12, CipherSpec
  <1>5. KeepsKeys(Client)
    BY PeerOf, SidesAssumption DEF SendServerChangeCipherSpec12, Unhashed, KeepsKeys,
       TypeOK, KeysOK, SeqsOK, state12
  <1>6. Keys12(Server, "send_server_finished", v)'
    BY <1>0, <1>1, PeerOf, SidesAssumption DEF SendServerChangeCipherSpec12, Unhashed,
       At12, Keys12, TypeOK, KeysOK, SeqsOK, RandomAt12, HasShare12, Keyed12, SendNo12,
       RecvNo12, Asking12, ClientPath12, state12
  <1> QED
    BY <1>0, <1>2, <1>3, <1>4, <1>5, <1>6, Shows12, PeerOf

LEMMA SendServerFinished12Script ==
  ASSUME TypeOK, Script12, SendServerFinished12
  PROVE  Script12'
  <1>0. PICK v \in BOOLEAN : v = client_verify
    BY VerifyType
  <1>1. At12(Server, "send_server_finished", v) /\ pc[Server] = "send_server_finished"
    BY <1>0, PeerOf DEF Script12, At, SendServerFinished12, Unhashed, Protected
  <1>2. Sends12(v, Server, "send_server_finished", "established", ServerEnd12(v))
    BY SidesAssumption DEF Sends12, Step12, ClientPath12, ServerPath12, Asking12,
       Verifying12, Flow12, SentAt12, ReadAt12
  <1>3. HashedAt12(v, "established") = HashedAt12(v, "send_server_finished")
    BY DEF HashedAt12
  <1>4. Unhashed(Server, "send_server_finished", "established") /\ Emit(Server, ServerEnd12(v))
    BY <1>0, <1>1 DEF SendServerFinished12, Protected, Finished12, Over, ServerEnd12,
       Sealed, At12, Keys12, HashedAt12, Keyed12, SendNo12
  <1>5. KeepsKeys(Client)
    BY PeerOf, SidesAssumption DEF SendServerFinished12, Unhashed, Protected, Finished12,
       Over, KeepsKeys, TypeOK, KeysOK, SeqsOK, state12
  <1>6. Keys12(Server, "established", v)'
    BY <1>0, <1>1, PeerOf, SidesAssumption DEF SendServerFinished12, Unhashed, Protected,
       Finished12, Over, At12, Keys12, TypeOK, KeysOK, SeqsOK, RandomAt12, HasShare12,
       Keyed12, SendNo12, RecvNo12, Asking12, ClientPath12, state12
  <1> QED
    BY <1>0, <1>2, <1>3, <1>4, <1>5, <1>6, Shows12, PeerOf

\* A client that is asked goes on with the request, one that is not with the
\* end of the hello.
LEMMA RecvCertificateRequest12Script ==
  ASSUME TypeOK, Script12, RecvCertificateRequest12
  PROVE  Script12'
  <1>0. PICK v \in BOOLEAN : v = client_verify
    BY VerifyType
  <1>1. At12(Client, "recv_cert_request_or_done", v) /\ pc[Client] = "recv_cert_request_or_done"
    BY <1>0, PeerOf DEF Script12, At, RecvCertificateRequest12, RecvPlain, Recv
  <1>2. v /\ First(Client) = Request
    <2>1. Incoming(Client) /\ First(Client).type = "certificate_request"
      BY DEF RecvCertificateRequest12, RecvPlain, Recv, CertRequestOK12, Parses
    <2>2. First(Client) = (IF v THEN Request ELSE HelloDone)
      BY <1>0, <1>1, <2>1, ClientHears12
    <2> QED
      BY <2>1, <2>2, Fields12
  <1>3. Reads12(v, Client, "recv_cert_request_or_done", "recv_server_hello_done")
    BY <1>2, SidesAssumption DEF Reads12, Step12, ClientPath12, Asking12, Verifying12,
       SentAt12, ReadAt12
  <1>4. Hashes12(v, "recv_cert_request_or_done", "recv_server_hello_done", Request)
    BY <1>2 DEF Hashes12, HashedAt12, Log5
  <1>5. /\ At(Client, "recv_cert_request_or_done") /\ Take(Client) /\ Incoming(Client)
        /\ Hash(Client, Request) /\ Goto(Client, "recv_server_hello_done")
    BY <1>2 DEF RecvCertificateRequest12, RecvPlain, Recv
  <1>6. KeepsKeys(Server)
    BY PeerOf, SidesAssumption DEF RecvCertificateRequest12, RecvPlain, Recv, KeepsKeys,
       TypeOK, KeysOK, SeqsOK, state12
  <1>7. Keys12(Client, "recv_server_hello_done", v)'
    BY <1>0, <1>1, <1>2, PeerOf, SidesAssumption DEF RecvCertificateRequest12, RecvPlain,
       Recv, CertRequestOK12, At12, Keys12, TypeOK, KeysOK, SeqsOK, RandomAt12, HasShare12,
       Keyed12, SendNo12, RecvNo12, Asking12, ClientPath12, state12
  <1> QED
    BY <1>0, <1>3, <1>4, <1>5, <1>6, <1>7, Gets12, PeerOf

LEMMA RecvServerHelloDone12Script ==
  ASSUME TypeOK, Script12, RecvServerHelloDone12
  PROVE  Script12'
  <1>0. PICK v \in BOOLEAN : v = client_verify
    BY VerifyType
  <1>1. /\ Take(Client) /\ Incoming(Client) /\ Hash(Client, First(Client))
        /\ First(Client).type = "server_hello_done"
        /\ UNCHANGED <<config, share, secret, random, sendSeq, recvSeq>>
    BY DEF RecvServerHelloDone12, RecvPlain, Recv, ServerHelloDoneOK12, Intact
  <1>2. KeepsKeys(Server)
    BY <1>1, SidesAssumption DEF KeepsKeys
  <1>3. CASE At(Client, "recv_server_hello_done") /\ Goto(Client, "send_client_cert")
             /\ clientCerts' = TRUE
    <2>1. At12(Client, "recv_server_hello_done", v) /\ pc[Client] = "recv_server_hello_done"
      BY <1>0, <1>3, PeerOf DEF Script12, At
    <2>2. v /\ First(Client) = HelloDone
      BY <1>0, <1>1, <2>1, ClientHears12 DEF At12, Step12, Verifying12
    <2>3. Reads12(v, Client, "recv_server_hello_done", "send_client_cert")
      BY <2>2, SidesAssumption DEF Reads12, Step12, ClientPath12, Asking12, Verifying12,
         SentAt12, ReadAt12
    <2>4. Hashes12(v, "recv_server_hello_done", "send_client_cert", HelloDone)
      BY <2>2 DEF Hashes12, HashedAt12, Log6
    <2>5. Keys12(Client, "send_client_cert", v)'
      BY <1>0, <1>1, <1>3, <2>1, <2>2 DEF At12, Keys12, RandomAt12,
         HasShare12, Keyed12, SendNo12, RecvNo12, Asking12, ClientPath12
    <2> QED
      BY <1>0, <1>1, <1>2, <1>3, <2>2, <2>3, <2>4, <2>5, Gets12, PeerOf
  <1>4. CASE At(Client, "recv_cert_request_or_done")
             /\ Goto(Client, "send_client_key_exchange") /\ clientCerts' = FALSE
    <2>1. /\ At12(Client, "recv_cert_request_or_done", v)
          /\ pc[Client] = "recv_cert_request_or_done"
      BY <1>0, <1>4, PeerOf DEF Script12, At
    <2>2. ~v /\ First(Client) = HelloDone
      <3>1. First(Client) = (IF v THEN Request ELSE HelloDone)
        BY <1>0, <1>1, <2>1, ClientHears12
      <3> QED
        BY <1>1, <3>1, Fields12
    <2>3. Reads12(v, Client, "recv_cert_request_or_done", "send_client_key_exchange")
      BY <2>2, SidesAssumption DEF Reads12, Step12, ClientPath12, Asking12, Verifying12,
         SentAt12, ReadAt12
    <2>4. Hashes12(v, "recv_cert_request_or_done", "send_client_key_exchange", HelloDone)
      BY <2>2 DEF Hashes12, HashedAt12, Log7, Log6, Log5
    <2>5. Keys12(Client, "send_client_key_exchange", v)'
      BY <1>0, <1>1, <1>4, <2>1, <2>2 DEF At12, Keys12, RandomAt12,
         HasShare12, Keyed12, SendNo12, RecvNo12, Asking12, ClientPath12
    <2> QED
      BY <1>0, <1>1, <1>2, <1>4, <2>2, <2>3, <2>4, <2>5, Gets12, PeerOf
  <1> QED
    BY <1>3, <1>4 DEF RecvServerHelloDone12, RecvPlain, Recv

\* The server answers the extensions of the client's hello, all of which it
\* knows.
LEMMA SendServerHello12Script ==
  ASSUME TypeOK, Script12, SendServerHello12
  PROVE  Script12'
  <1>0. PICK v \in BOOLEAN : v = client_verify
    BY VerifyType
  <1>1. At12(Server, "send_server_hello", v) /\ pc[Server] = "send_server_hello"
    BY <1>0, PeerOf DEF Script12, At, SendServerHello12
  <1>2. transcript[Server][1].exts = Exts12
    <2>1. transcript[Server] = Log1
      BY <1>1 DEF At12, HashedAt12
    <2>2. PICK x : x = Content(Hello12)
      OBVIOUS
    <2>3. x.exts = Exts12
      BY <2>2 DEF Content, Hello12, Msg
    <2>4. Log1 = Append(<<>>, x)
      BY <2>2 DEF Log1
    <2>5. Log1[1] = x
      BY <2>4
    <2> QED
      BY <2>1, <2>3, <2>5
  <1>3. Exts12 # {} /\ "unknown" \notin Exts12
    BY DEF Exts12
  <1>4. ServerHellos12 = {Reply12}
    BY <1>2, <1>3 DEF ServerHellos12, AnsweredExts12, Reply12
  <1>5. Sends12(v, Server, "send_server_hello", "send_server_cert", Reply12)
    BY SidesAssumption DEF Sends12, Step12, ClientPath12, ServerPath12, Asking12,
       Verifying12, Flow12, SentAt12, ReadAt12
  <1>6. Hashes12(v, "send_server_hello", "send_server_cert", Reply12)
    BY DEF Hashes12, HashedAt12, Log2
  <1>7. SendPlain(Server, "send_server_hello", Reply12, "send_server_cert")
    BY <1>4 DEF SendServerHello12
  <1>8. /\ At(Server, "send_server_hello") /\ Emit(Server, Reply12) /\ Hash(Server, Reply12)
        /\ Goto(Server, "send_server_cert") /\ UNCHANGED <<config, sendSeq, recvSeq>>
    BY <1>7 DEF SendPlain, Send
  <1>9. KeepsKeys(Client)
    BY <1>8, PeerOf, SidesAssumption DEF SendServerHello12, KeepsKeys, TypeOK, KeysOK
  <1>10. Keys12(Server, "send_server_cert", v)'
    BY <1>1, <1>8, PeerOf, SidesAssumption DEF SendServerHello12, At12, Keys12, TypeOK, KeysOK,
       RandomAt12, HasShare12, Keyed12, SendNo12, RecvNo12, Randoms
  <1> QED
    BY <1>0, <1>5, <1>6, <1>8, <1>9, <1>10, Says12, PeerOf

\* A signature that fails is a disturbance of its own.
LEMMA SendServerKeyExchange12Script ==
  ASSUME TypeOK, Script12, SendServerKeyExchange12, faults' = faults
  PROVE  Script12'
  <1>0. PICK v \in BOOLEAN : v = client_verify
    BY VerifyType
  <1>1. /\ At12(Server, "send_server_key_exchange", v)
        /\ pc[Server] = "send_server_key_exchange"
    BY <1>0, PeerOf DEF Script12, At, SendServerKeyExchange12, SendPlain, Send
  <1>2. random[Server] = Randoms
    BY <1>1 DEF At12, Keys12, RandomAt12
  <1>3. ~SignatureFails
    BY DEF SignatureFails, TypeOK, OtherOK
  <1>4. SendPlain(Server, "send_server_key_exchange", ServerKey,
                  IF v THEN "send_cert_request" ELSE "send_server_hello_done")
    BY <1>0, <1>2, <1>3 DEF SendServerKeyExchange12, ServerKey
  <1>5. UNCHANGED <<config, share, secret, clientCerts, random, sendSeq, recvSeq>>
    BY <1>4 DEF SendServerKeyExchange12, state12, SendPlain, Send
  <1>6. KeepsKeys(Client)
    BY <1>5 DEF KeepsKeys
  <1>7. CASE v
    <2>1. Sends12(v, Server, "send_server_key_exchange", "send_cert_request", ServerKey)
      BY <1>7, SidesAssumption DEF Sends12, Step12, ClientPath12, ServerPath12, Asking12,
         Verifying12, Flow12, SentAt12, ReadAt12
    <2>2. Hashes12(v, "send_server_key_exchange", "send_cert_request", ServerKey)
      BY DEF Hashes12, HashedAt12, Log4
    <2>3. /\ At(Server, "send_server_key_exchange") /\ Emit(Server, ServerKey)
          /\ Hash(Server, ServerKey) /\ Goto(Server, "send_cert_request")
      BY <1>4, <1>7 DEF SendPlain, Send
    <2>4. Keys12(Server, "send_cert_request", v)'
      BY <1>1, <1>5, SidesAssumption DEF At12, Keys12, RandomAt12, HasShare12, Keyed12,
         SendNo12, RecvNo12
    <2> QED
      BY <1>0, <1>6, <2>1, <2>2, <2>3, <2>4, Says12, PeerOf
  <1>8. CASE ~v
    <2>1. Sends12(v, Server, "send_server_key_exchange", "send_server_hello_done", ServerKey)
      BY <1>8, SidesAssumption DEF Sends12, Step12, ClientPath12, ServerPath12, Asking12,
         Verifying12, Flow12, SentAt12, ReadAt12
    <2>2. Hashes12(v, "send_server_key_exchange", "send_server_hello_done", ServerKey)
      BY <1>8 DEF Hashes12, HashedAt12, Log5, Log4
    <2>3. /\ At(Server, "send_server_key_exchange") /\ Emit(Server, ServerKey)
          /\ Hash(Server, ServerKey) /\ Goto(Server, "send_server_hello_done")
      BY <1>4, <1>8 DEF SendPlain, Send
    <2>4. Keys12(Server, "send_server_hello_done", v)'
      BY <1>1, <1>5, SidesAssumption DEF At12, Keys12, RandomAt12, HasShare12, Keyed12,
         SendNo12, RecvNo12
    <2> QED
      BY <1>0, <1>6, <2>1, <2>2, <2>3, <2>4, Says12, PeerOf
  <1> QED
    BY <1>7, <1>8

\* Compatible peers accept every message of the script.
LEMMA Accepts12 ==
  ASSUME TypeOK, Script12, Compatible, NEW s \in Side, Incoming(s), pc[s] \in RecvSteps12
  PROVE  Acceptable12(s)
  <1>0. PICK v \in BOOLEAN : v = client_verify
    BY VerifyType
  <1>1. At12(s, pc[s], v)
    BY <1>0 DEF Script12
  <1>2. CASE s = Client /\ pc[s] = "recv_server_hello"
    <2>1. At12(Client, "recv_server_hello", v) /\ Incoming(Client)
      BY <1>1, <1>2
    <2>2. First(Client) = Reply12
      BY <1>0, <1>2, <2>1, ClientHears12
    <2>3. ServerHelloOK12
      BY <1>0, <2>1, <2>2, SidesAssumption, Fields12 DEF ServerHelloOK12, Parses, At12
    <2> QED
      BY <1>2, <2>3 DEF Acceptable12
  <1>3. CASE s = Client /\ pc[s] = "recv_server_cert"
    <2>1. At12(Client, "recv_server_cert", v) /\ Incoming(Client)
      BY <1>1, <1>3
    <2>2. First(Client) = Cert
      BY <1>0, <1>3, <2>1, ClientHears12
    <2>3. ServerCertOK12
      BY <1>0, <2>1, <2>2, SidesAssumption, Fields12 DEF ServerCertOK12, Intact, At12,
         Compatible
    <2> QED
      BY <1>3, <2>3 DEF Acceptable12
  <1>4. CASE s = Client /\ pc[s] = "recv_server_key_exchange"
    <2>1. At12(Client, "recv_server_key_exchange", v) /\ Incoming(Client)
      BY <1>1, <1>4
    <2>2. First(Client) = ServerKey
      BY <1>0, <1>4, <2>1, ClientHears12
    <2>3. ServerKeyExchangeOK12
      BY <1>0, <2>1, <2>2, SidesAssumption, Fields12 DEF ServerKeyExchangeOK12, Intact,
         At12, Keys12, RandomAt12
    <2> QED
      BY <1>4, <2>3 DEF Acceptable12
  <1>5. CASE s = Client /\ pc[s] = "recv_cert_request_or_done"
    <2>1. At12(Client, "recv_cert_request_or_done", v) /\ Incoming(Client)
      BY <1>1, <1>5
    <2>2. First(Client) = (IF v THEN Request ELSE HelloDone)
      BY <1>0, <1>5, <2>1, ClientHears12
    <2>3. CertRequestOK12 \/ ServerHelloDoneOK12
      BY <1>0, <2>1, <2>2, Fields12 DEF CertRequestOK12, ServerHelloDoneOK12, Parses,
         Intact, At12, Keys12, Asking12, Compatible
    <2> QED
      BY <1>5, <2>3 DEF Acceptable12
  <1>6. CASE s = Client /\ pc[s] = "recv_server_hello_done"
    <2>1. At12(Client, "recv_server_hello_done", v) /\ Incoming(Client)
      BY <1>1, <1>6
    <2>2. First(Client) = HelloDone
      BY <1>0, <1>6, <2>1, ClientHears12
    <2>3. ServerHelloDoneOK12
      BY <1>0, <2>1, <2>2, SidesAssumption, Fields12 DEF ServerHelloDoneOK12, Intact, At12
    <2> QED
      BY <1>6, <2>3 DEF Acceptable12
  <1>7. CASE s = Client /\ pc[s] = "recv_server_ccs"
    <2>1. At12(Client, "recv_server_ccs", v) /\ Incoming(Client)
      BY <1>1, <1>7
    <2>2. First(Client) = CipherSpec
      BY <1>0, <1>7, <2>1, ClientHears12
    <2>3. ChangeCipherSpecOK12(Client)
      BY <1>0, <2>1, <2>2, SidesAssumption, Fields12 DEF ChangeCipherSpecOK12, Intact, At12
    <2> QED
      BY <1>7, <2>3 DEF Acceptable12
  <1>8. CASE s = Client /\ pc[s] = "recv_server_finished"
    <2>1. At12(Client, "recv_server_finished", v) /\ Incoming(Client)
      BY <1>1, <1>8
    <2>2. First(Client) = ServerEnd12(v)
      BY <1>0, <1>8, <2>1, ClientHears12
    <2>3. FinishedOK12(Client, "server_finished")
      BY <1>0, <2>1, <2>2, SidesAssumption, Proofs12 DEF FinishedOK12, Intact, Decrypts,
         At12, Keys12, Keyed12, HashedAt12, RecvNo12
    <2> QED
      BY <1>8, <2>3 DEF Acceptable12
  <1>9. CASE s = Server /\ pc[s] = "recv_client_hello"
    <2>1. At12(Server, "recv_client_hello", v) /\ Incoming(Server)
      BY <1>1, <1>9
    <2>2. First(Server) = Hello12
      BY <1>0, <1>9, <2>1, ServerHears12
    <2>3. ClientHelloOK12
      BY <1>0, <2>1, <2>2, SidesAssumption, Fields12 DEF ClientHelloOK12, Parses, At12
    <2> QED
      BY <1>9, <2>3 DEF Acceptable12
  <1>10. CASE s = Server /\ pc[s] = "recv_client_cert"
    <2>1. At12(Server, "recv_client_cert", v) /\ Incoming(Server)
      BY <1>1, <1>10
    <2>2. First(Server) = Cert
      BY <1>0, <1>10, <2>1, ServerHears12
    <2>3. ClientCertOK12
      BY <1>0, <2>1, <2>2, SidesAssumption, Fields12 DEF ClientCertOK12, Intact, At12,
         Compatible, Step12, Verifying12
    <2> QED
      BY <1>10, <2>3 DEF Acceptable12
  <1>11. CASE s = Server /\ pc[s] = "recv_client_key_exchange"
    <2>1. At12(Server, "recv_client_key_exchange", v) /\ Incoming(Server)
      BY <1>1, <1>11
    <2>2. First(Server) = ClientKey
      BY <1>0, <1>11, <2>1, ServerHears12
    <2>3. ClientKeyExchangeOK12
      BY <1>0, <2>1, <2>2, SidesAssumption, Fields12 DEF ClientKeyExchangeOK12, Parses,
         At12
    <2> QED
      BY <1>11, <2>3 DEF Acceptable12
  <1>12. CASE s = Server /\ pc[s] = "recv_cert_verify"
    <2>1. At12(Server, "recv_cert_verify", v) /\ Incoming(Server)
      BY <1>1, <1>12
    <2>2. First(Server) = ClientProof12(v)
      BY <1>0, <1>12, <2>1, ServerHears12
    <2>3. CertVerifyOK12
      BY <1>0, <2>1, <2>2, SidesAssumption, Proofs12 DEF CertVerifyOK12, Intact, At12,
         HashedAt12
    <2> QED
      BY <1>12, <2>3 DEF Acceptable12
  <1>13. CASE s = Server /\ pc[s] = "recv_client_ccs"
    <2>1. At12(Server, "recv_client_ccs", v) /\ Incoming(Server)
      BY <1>1, <1>13
    <2>2. First(Server) = CipherSpec
      BY <1>0, <1>13, <2>1, ServerHears12
    <2>3. ChangeCipherSpecOK12(Server)
      BY <1>0, <2>1, <2>2, SidesAssumption, Fields12 DEF ChangeCipherSpecOK12, Intact, At12
    <2> QED
      BY <1>13, <2>3 DEF Acceptable12
  <1>14. CASE s = Server /\ pc[s] = "recv_client_finished"
    <2>1. At12(Server, "recv_client_finished", v) /\ Incoming(Server)
      BY <1>1, <1>14
    <2>2. First(Server) = ClientEnd12(v)
      BY <1>0, <1>14, <2>1, ServerHears12
    <2>3. FinishedOK12(Server, "client_finished")
      BY <1>0, <2>1, <2>2, SidesAssumption, Proofs12 DEF FinishedOK12, Intact, Decrypts,
         At12, Keys12, Keyed12, HashedAt12, RecvNo12
    <2> QED
      BY <1>14, <2>3 DEF Acceptable12
  <1> QED
    BY <1>1, <1>2, <1>3, <1>4, <1>5, <1>6, <1>7, <1>8, <1>9, <1>10, <1>11, <1>12, <1>13, <1>14 DEF
       At12, Step12, ClientPath12, ServerPath12, Asking12, RecvSteps12, Side

LEMMA Steps12 ==
  ASSUME Script12, NEW s \in Side
  PROVE  pc[s] \in ClientPath12 \cup ServerPath12
         /\ pc[s] \notin {"failed", "disconnected"}
  BY DEF Script12, At12, Step12, ClientPath12, ServerPath12, Asking12

LEMMA NoRefusal12 ==
  ASSUME TypeOK, Script12, ClosedInv, Compatible, ~config.timeouts,
         config.protocol = "tls12", NEW s \in Side, Refuses(s)
  PROVE  FALSE
  <1>1. \A t \in Side : ~closed[t]
    BY Steps12 DEF ClosedInv
  <1>2. ~closed[Peer(s)]
    BY <1>1, PeerType
  <1>3. CASE Reject12(s)
    BY <1>3, Accepts12 DEF Reject12
  <1>4. CASE IOFails12(s)
    BY <1>2, <1>4 DEF IOFails12, RecvFails, SendFails
  <1>5. CASE ServerCannotGoOn12
    <2>1. pc[Server] = "send_cert_request" /\ config.serverCA = "too_long"
      BY <1>5 DEF ServerCannotGoOn12, At
    <2>2. client_verify
      BY <2>1, PeerOf DEF Script12, At12, Step12, Verifying12
    <2> QED
      BY <2>1, <2>2 DEF Compatible
  <1> QED
    BY <1>3, <1>4, <1>5 DEF Refuses

LEMMA Connect12Script == ASSUME TypeOK, Script12, Connect12 PROVE Script12'
  BY SendClientHello12Script, RecvServerHello12Script, RecvServerCertificate12Script,
     RecvServerKeyExchange12Script, RecvCertificateRequest12Script,
     RecvServerHelloDone12Script, SendClientCertificate12Script,
     SendClientKeyExchange12Script, SendCertificateVerify12Script,
     SendClientChangeCipherSpec12Script, SendClientFinished12Script,
     RecvServerChangeCipherSpec12Script, RecvServerFinished12Script
     DEF Connect12, Client12

LEMMA Accept12Script == ASSUME TypeOK, Script12, Accept12, faults' = faults PROVE Script12'
  BY RecvClientHello12Script, SendServerHello12Script, SendServerCertificate12Script,
     SendServerKeyExchange12Script, SendCertificateRequest12Script,
     SendServerHelloDone12Script, RecvClientCertificate12Script,
     RecvClientKeyExchange12Script, RecvCertificateVerify12Script,
     RecvClientChangeCipherSpec12Script, RecvClientFinished12Script,
     SendServerChangeCipherSpec12Script, SendServerFinished12Script
     DEF Accept12, Server12

-----------------------------------------------------------------------------
(* The script of TLS 1.3.                                                  *)

LEMMA CountTypes13 ==
  ASSUME TypeOK, NEW v \in BOOLEAN, NEW w \in BOOLEAN, NEW s \in Side
  PROVE  /\ SentBy(v, w, s) \in Nat /\ ReadBy(v, w, s) \in Nat
         /\ sent[s] \in Nat /\ Len(got[s]) \in Nat
  <1>1. SentAt13(v, w, s, pc[s]) \in Nat
    BY DEF SentAt13
  <1>2. ReadAt13(v, w, s, pc[s]) \in Nat
    BY DEF ReadAt13
  <1>3. sent[s] \in Nat /\ Len(got[s]) \in Nat
    BY DEF TypeOK, DataOK
  <1> QED
    BY <1>1, <1>2, <1>3 DEF SentBy, ReadBy

KeepsKeys13(s) ==
    /\ appSecret'[s] = appSecret[s] /\ share'[s] = share[s] /\ secret'[s] = secret[s]
    /\ sendSeq'[s] = sendSeq[s] /\ recvSeq'[s] = recvSeq[s]
    /\ sent'[s] = sent[s] /\ got'[s] = got[s]
    /\ config' = config /\ (s = Client => clientCerts' = clientCerts)
Keeps13(s) == pc'[s] = pc[s] /\ transcript'[s] = transcript[s] /\ KeepsKeys13(s)

LEMMA KeepsAt13 ==
  ASSUME NEW s \in Side, NEW v, NEW w, NEW step, At13(s, step, v, w), Keeps13(s)
  PROVE  At13(s, step, v, w)'
  BY DEF At13, Keys13, Keeps13, KeepsKeys13

LEMMA Speaks13 ==
  ASSUME TypeOK, Script13, NEW v \in BOOLEAN, v = client_verify,
         NEW w \in BOOLEAN, w = Answers, NEW s \in Side,
         NEW m, NEW next, Emit(s, m), Keeps13(Peer(s)), At13(s, next, v, w)',
         m = Flow13(v, w, s)[SentBy(v, w, s) + 1],
         SentBy(v, w, s)' = SentBy(v, w, s) + 1,
         ReadBy(v, w, s)' = ReadBy(v, w, s)
  PROVE  Script13'
  <1>0. PICK t : t = Peer(s)
    OBVIOUS
  <1>1. t \in Side /\ t # s /\ Peer(t) = s /\ \A x \in Side : x = s \/ x = t
    BY <1>0, PeerType DEF Side
  <1>2. /\ pc'[s] = next /\ pc'[t] = pc[t] /\ client_verify' = v /\ Answers' = w
        /\ sent'[t] = sent[t] /\ got'[t] = got[t]
    BY <1>0, VerifyType DEF At13, Keeps13, KeepsKeys13
  <1>3. At13(t, pc[t], v, w)'
    <2>1. PICK p : p = pc[t]
      OBVIOUS
    <2>2. At13(t, p, v, w)
      BY <1>1, <2>1 DEF Script13
    <2>3. At13(t, p, v, w)'
      BY <1>0, <1>1, <2>2, KeepsAt13
    <2> QED
      BY <1>2, <2>1, <2>3
  <1>4. SentBy(v, w, t)' = SentBy(v, w, t) /\ ReadBy(v, w, t)' = ReadBy(v, w, t)
    BY <1>2 DEF SentBy, ReadBy
  <1>5. Flight13(s, v, w)'
    <2>1. InFlight(wire[s], Flow13(v, w, s), ReadBy(v, w, t), SentBy(v, w, s))
      BY <1>0 DEF Script13, Flight13
    <2>2. ReadBy(v, w, t) \in Nat /\ SentBy(v, w, s) \in Nat
      BY <1>1, CountTypes13
    <2>3. wire'[s] = Append(wire[s], m) /\ wire[s] \in Seq(Elems(wire[s]))
      BY EmitWire
    <2>4. InFlight(wire'[s], Flow13(v, w, s), ReadBy(v, w, t), SentBy(v, w, s) + 1)
      BY <2>1, <2>2, <2>3, AppendFlight
    <2> QED
      BY <1>0, <1>4, <2>4 DEF Flight13
  <1>6. Flight13(t, v, w)'
    <2>1. InFlight(wire[t], Flow13(v, w, t), ReadBy(v, w, s), SentBy(v, w, t))
      BY <1>1 DEF Script13, Flight13
    <2>2. wire'[t] = wire[t]
      BY <1>0, EmitWire
    <2> QED
      BY <1>1, <1>4, <2>1, <2>2 DEF Flight13
  <1> QED
    BY <1>1, <1>2, <1>3, <1>5, <1>6 DEF Script13

LEMMA Hears13 ==
  ASSUME TypeOK, Script13, NEW v \in BOOLEAN, v = client_verify,
         NEW w \in BOOLEAN, w = Answers, NEW s \in Side,
         NEW next, Take(s), Incoming(s), Keeps13(Peer(s)), At13(s, next, v, w)',
         SentBy(v, w, s)' = SentBy(v, w, s),
         ReadBy(v, w, s)' = ReadBy(v, w, s) + 1
  PROVE  Script13'
  <1>0. PICK t : t = Peer(s)
    OBVIOUS
  <1>1. t \in Side /\ t # s /\ Peer(t) = s /\ \A x \in Side : x = s \/ x = t
    BY <1>0, PeerType DEF Side
  <1>2. /\ pc'[s] = next /\ pc'[t] = pc[t] /\ client_verify' = v /\ Answers' = w
        /\ sent'[t] = sent[t] /\ got'[t] = got[t]
    BY <1>0, VerifyType DEF At13, Keeps13, KeepsKeys13
  <1>3. At13(t, pc[t], v, w)'
    <2>1. PICK p : p = pc[t]
      OBVIOUS
    <2>2. At13(t, p, v, w)
      BY <1>1, <2>1 DEF Script13
    <2>3. At13(t, p, v, w)'
      BY <1>0, <1>1, <2>2, KeepsAt13
    <2> QED
      BY <1>2, <2>1, <2>3
  <1>4. SentBy(v, w, t)' = SentBy(v, w, t) /\ ReadBy(v, w, t)' = ReadBy(v, w, t)
    BY <1>2 DEF SentBy, ReadBy
  <1>5. Flight13(t, v, w)'
    <2>1. InFlight(wire[t], Flow13(v, w, t), ReadBy(v, w, s), SentBy(v, w, t))
      BY <1>1 DEF Script13, Flight13
    <2>2. ReadBy(v, w, s) \in Nat /\ SentBy(v, w, t) \in Nat
      BY <1>1, CountTypes13
    <2>3. /\ wire[t] \in Seq(Elems(wire[t])) /\ wire[t] # <<>>
          /\ wire'[t] = Tail(wire[t])
      BY <1>0, TakeWire
    <2>4. InFlight(Tail(wire[t]), Flow13(v, w, t), ReadBy(v, w, s) + 1, SentBy(v, w, t))
      BY <2>1, <2>2, <2>3, TailFlight, Zenon
    <2> QED
      BY <1>1, <1>4, <2>3, <2>4 DEF Flight13
  <1>6. Flight13(s, v, w)'
    <2>1. InFlight(wire[s], Flow13(v, w, s), ReadBy(v, w, t), SentBy(v, w, s))
      BY <1>0 DEF Script13, Flight13
    <2>2. wire'[s] = wire[s]
      BY TakeWire
    <2> QED
      BY <1>0, <1>4, <2>1, <2>2 DEF Flight13
  <1> QED
    BY <1>1, <1>2, <1>3, <1>5, <1>6 DEF Script13

LEMMA First13 ==
  ASSUME TypeOK, Script13, NEW v \in BOOLEAN, v = client_verify,
         NEW w \in BOOLEAN, w = Answers, NEW s \in Side, Incoming(s)
  PROVE  First(s) = Flow13(v, w, Peer(s))[ReadBy(v, w, s) + 1]
  <1>0. PICK t : t = Peer(s)
    OBVIOUS
  <1>1. t \in Side /\ Peer(t) = s
    BY <1>0, PeerType
  <1>2. InFlight(wire[t], Flow13(v, w, t), ReadBy(v, w, s), SentBy(v, w, t))
    BY <1>1 DEF Script13, Flight13
  <1>3. ReadBy(v, w, s) \in Nat /\ SentBy(v, w, t) \in Nat
    BY <1>1, CountTypes13
  <1>4. wire[t] \in Seq(Elems(wire[t])) /\ wire[t] # <<>> /\ First(s) = Head(wire[t])
    BY <1>0, <1>1 DEF TypeOK, RecordSeqs, Incoming, First
  <1> QED
    BY <1>0, <1>2, <1>3, <1>4, TailFlight

\* The records of the handshake, and of the data after them.
LEMMA OpeningFlow13 ==
  ASSUME NEW v \in BOOLEAN, NEW w \in BOOLEAN, NEW s
  PROVE  \E n, q : /\ n \in Nat /\ n = OpeningLen(v, w, s) /\ q = Opening13(v, w, s)
                           /\ \A i \in 1 .. n : Flow13(v, w, s)[i] = q[i]
  <1>1. OpeningLen(v, w, s) \in Nat
    BY DEF OpeningLen
  <1> QED
    BY <1>1 DEF Flow13

LEMMA ClientFlow13 ==
  ASSUME NEW v \in BOOLEAN, NEW w \in BOOLEAN
  PROVE  /\ Flow13(v, w, Client)[1] = Hello13
         /\ w => /\ Flow13(v, w, Client)[2] = ClientCert13
                 /\ Flow13(v, w, Client)[3] = ClientProof13(v, w)
                 /\ Flow13(v, w, Client)[4] = ClientEnd13(v, w)
         /\ ~w => Flow13(v, w, Client)[2] = ClientEnd13(v, w)
  <1>0. PICK p : p = ClientProof13(v, w)
    OBVIOUS
  <1>1. PICK e : e = ClientEnd13(v, w)
    OBVIOUS
  <1>2. PICK f : f = Flow13(v, w, Client)
    OBVIOUS
  <1>a. PICK n, q : /\ n \in Nat /\ n = OpeningLen(v, w, Client) /\ q = Opening13(v, w, Client)
                    /\ \A i \in 1 .. n : f[i] = q[i]
    BY <1>2, OpeningFlow13
  <1>3. w => n = 4
             /\ q = <<Hello13, ClientCert13, p, e>>
    BY <1>0, <1>1, <1>a, Zenon DEF OpeningLen, Opening13
  <1>4. ~w => n = 2 /\ q = <<Hello13, e>>
    BY <1>1, <1>a, Zenon DEF OpeningLen, Opening13
  <1>5. w => \A i \in 1 .. 4 : f[i] = <<Hello13, ClientCert13, p, e>>[i]
    BY <1>a, <1>3
  <1>6. ~w => \A i \in 1 .. 2 : f[i] = <<Hello13, e>>[i]
    BY <1>a, <1>4
  <1>7. w => f[1] = Hello13 /\ f[2] = ClientCert13 /\ f[3] = p /\ f[4] = e
    BY <1>5
  <1>8. ~w => f[1] = Hello13 /\ f[2] = e
    BY <1>6
  <1> QED
    BY <1>0, <1>1, <1>2, <1>7, <1>8, Zenon

LEMMA ServerFlow13 ==
  ASSUME NEW v \in BOOLEAN, NEW w \in BOOLEAN
  PROVE  /\ Flow13(v, w, Server)[1] = Reply13
         /\ Flow13(v, w, Server)[2] = Extensions13
         /\ v => /\ Flow13(v, w, Server)[3] = Request13
                 /\ Flow13(v, w, Server)[4] = ServerCert13(v)
                 /\ Flow13(v, w, Server)[5] = ServerProof13(v)
                 /\ Flow13(v, w, Server)[6] = ServerEnd13(v)
         /\ ~v => /\ Flow13(v, w, Server)[3] = ServerCert13(v)
                  /\ Flow13(v, w, Server)[4] = ServerProof13(v)
                  /\ Flow13(v, w, Server)[5] = ServerEnd13(v)
  <1>0. PICK c : c = ServerCert13(v)
    OBVIOUS
  <1>1. PICK p : p = ServerProof13(v)
    OBVIOUS
  <1>2. PICK e : e = ServerEnd13(v)
    OBVIOUS
  <1>3. PICK f : f = Flow13(v, w, Server)
    OBVIOUS
  <1>a. PICK n, q : /\ n \in Nat /\ n = OpeningLen(v, w, Server) /\ q = Opening13(v, w, Server)
                    /\ \A i \in 1 .. n : f[i] = q[i]
    BY <1>3, OpeningFlow13
  <1>4. v => n = 6
             /\ q = <<Reply13, Extensions13, Request13, c, p, e>>
    BY <1>0, <1>1, <1>2, SidesAssumption, <1>a, Zenon DEF OpeningLen, Opening13
  <1>5. ~v => n = 5
              /\ q = <<Reply13, Extensions13, c, p, e>>
    BY <1>0, <1>1, <1>2, SidesAssumption, <1>a, Zenon DEF OpeningLen, Opening13
  <1>6. v => \A i \in 1 .. 6 : f[i] = <<Reply13, Extensions13, Request13, c, p, e>>[i]
    BY <1>a, <1>4
  <1>7. ~v => \A i \in 1 .. 5 : f[i] = <<Reply13, Extensions13, c, p, e>>[i]
    BY <1>a, <1>5
  <1>8. v => /\ f[1] = Reply13 /\ f[2] = Extensions13 /\ f[3] = Request13 /\ f[4] = c
             /\ f[5] = p /\ f[6] = e
    BY <1>6
  <1>9. ~v => f[1] = Reply13 /\ f[2] = Extensions13 /\ f[3] = c /\ f[4] = p /\ f[5] = e
    BY <1>7
  <1> QED
    BY <1>0, <1>1, <1>2, <1>3, <1>8, <1>9, Zenon

LEMMA DataFlow13 ==
  ASSUME NEW v \in BOOLEAN, NEW w \in BOOLEAN, NEW s \in Side, NEW i \in Nat, i > 0
  PROVE  /\ OpeningLen(v, w, s) \in Nat
         /\ Flow13(v, w, s)[OpeningLen(v, w, s) + i] = Data(v, i)
  <1>1. OpeningLen(v, w, s) \in Nat
    BY DEF OpeningLen
  <1>2. PICK n \in Nat : n = OpeningLen(v, w, s)
    BY <1>1
  <1>3. n + i \in Nat /\ ~(n + i <= n) /\ (n + i) - n = i
    OBVIOUS
  <1>4. Flow13(v, w, s)[n + i] = Data(v, (n + i) - n)
    BY <1>2, <1>3 DEF Flow13
  <1> QED
    BY <1>2, <1>3, <1>4

\* The tables have m as the message that leads from a step to the next one.
Sends13(v, w, s, step, next, m) ==
    /\ step # "established" /\ Step13(s, next, v, w)
    /\ m = Flow13(v, w, s)[SentAt13(v, w, s, step) + 1]
    /\ SentAt13(v, w, s, next) = SentAt13(v, w, s, step) + 1
    /\ ReadAt13(v, w, s, next) = ReadAt13(v, w, s, step)
Reads13(v, w, s, step, next) ==
    /\ step # "established" /\ Step13(s, next, v, w)
    /\ SentAt13(v, w, s, next) = SentAt13(v, w, s, step)
    /\ ReadAt13(v, w, s, next) = ReadAt13(v, w, s, step) + 1
Hashes13(v, w, step, next, m) ==
    HashedAt13(v, w, next) = Append(HashedAt13(v, w, step), Content(m))

LEMMA TableTypes13 ==
  ASSUME NEW v \in BOOLEAN, NEW w \in BOOLEAN, NEW s, NEW step
  PROVE  SentAt13(v, w, s, step) \in Nat /\ ReadAt13(v, w, s, step) \in Nat
  <1>1. SentAt13(v, w, s, step) \in Nat
    BY DEF SentAt13
  <1>2. ReadAt13(v, w, s, step) \in Nat
    BY DEF ReadAt13
  <1> QED
    BY <1>1, <1>2

LEMMA Says13 ==
  ASSUME TypeOK, Script13, NEW v \in BOOLEAN, v = client_verify,
         NEW w \in BOOLEAN, w = Answers, NEW s \in Side,
         NEW step, NEW m, NEW next, At(s, step), Emit(s, m), Hash(s, m), Goto(s, next),
         KeepsKeys13(Peer(s)), Keys13(s, next, v, w)', Sends13(v, w, s, step, next, m),
         Hashes13(v, w, step, next, m), UNCHANGED <<sent, got>>
  PROVE  Script13'
  <1>1. pc[s] = step /\ pc'[s] = next /\ pc'[Peer(s)] = pc[Peer(s)]
    BY GotoPc DEF At
  <1>2. /\ transcript'[s] = Append(transcript[s], Content(m))
        /\ transcript'[Peer(s)] = transcript[Peer(s)]
    BY HashEffect
  <1>3. At13(s, next, v, w)'
    <2>1. transcript[s] = HashedAt13(v, w, step)
      BY <1>1 DEF At13, Script13
    <2> QED
      BY <1>1, <1>2, <2>1 DEF At13, Sends13, Hashes13, Step13
  <1>4. Keeps13(Peer(s))
    BY <1>1, <1>2 DEF Keeps13
  <1>5. sent[s] = 0 /\ Len(got[s]) \in Nat
    BY <1>1, CountTypes13 DEF Script13, At13, Keys13, Sends13
  <1>6. SentBy(v, w, s) = SentAt13(v, w, s, step)
    BY <1>1, <1>5, TableTypes13 DEF SentBy
  <1>7. SentBy(v, w, s)' = SentBy(v, w, s) + 1 /\ ReadBy(v, w, s)' = ReadBy(v, w, s)
    BY <1>1, <1>5, TableTypes13 DEF SentBy, ReadBy, Sends13
  <1>8. m = Flow13(v, w, s)[SentBy(v, w, s) + 1]
    BY <1>6 DEF Sends13
  <1> QED
    BY <1>3, <1>4, <1>7, <1>8, Speaks13

LEMMA Gets13 ==
  ASSUME TypeOK, Script13, NEW v \in BOOLEAN, v = client_verify,
         NEW w \in BOOLEAN, w = Answers, NEW s \in Side,
         NEW step, NEW m, NEW next, At(s, step), Take(s), Incoming(s), Hash(s, m),
         Goto(s, next), KeepsKeys13(Peer(s)), Keys13(s, next, v, w)',
         Reads13(v, w, s, step, next), Hashes13(v, w, step, next, m),
         UNCHANGED <<sent, got>>
  PROVE  Script13'
  <1>1. pc[s] = step /\ pc'[s] = next /\ pc'[Peer(s)] = pc[Peer(s)]
    BY GotoPc DEF At
  <1>2. /\ transcript'[s] = Append(transcript[s], Content(m))
        /\ transcript'[Peer(s)] = transcript[Peer(s)]
    BY HashEffect
  <1>3. At13(s, next, v, w)'
    <2>1. transcript[s] = HashedAt13(v, w, step)
      BY <1>1 DEF At13, Script13
    <2> QED
      BY <1>1, <1>2, <2>1 DEF At13, Reads13, Hashes13, Step13
  <1>4. Keeps13(Peer(s))
    BY <1>1, <1>2 DEF Keeps13
  <1>5. sent[s] \in Nat /\ Len(got[s]) \in Nat
    BY CountTypes13
  <1>6. SentBy(v, w, s)' = SentBy(v, w, s) /\ ReadBy(v, w, s)' = ReadBy(v, w, s) + 1
    BY <1>1, <1>5, TableTypes13 DEF SentBy, ReadBy, Reads13
  <1> QED
    BY <1>3, <1>4, <1>6, Hears13

\* The message each step of the client is to receive.
LEMMA ClientHears13 ==
  ASSUME TypeOK, Script13, NEW v \in BOOLEAN, v = client_verify,
         NEW w \in BOOLEAN, w = Answers, Incoming(Client)
  PROVE  /\ pc[Client] = "recv_server_hello" => First(Client) = Reply13
         /\ pc[Client] = "recv_encrypted_exts" => First(Client) = Extensions13
         /\ pc[Client] = "recv_cert_request_or_cert" => First(Client) = (IF v THEN Request13 ELSE ServerCert13(v))
         /\ pc[Client] = "recv_server_cert" => First(Client) = ServerCert13(v)
         /\ pc[Client] = "recv_server_cert_verify" => First(Client) = ServerProof13(v)
         /\ pc[Client] = "recv_server_finished" => First(Client) = ServerEnd13(v)
  <1>1. ASSUME NEW p, pc[Client] = p, p # "established"
        PROVE  First(Client) = Flow13(v, w, Server)[ReadAt13(v, w, Client, p) + 1]
    <2>1. got[Client] = <<>>
      BY <1>1, PeerOf DEF Script13, At13, Keys13
    <2>2. ReadBy(v, w, Client) = ReadAt13(v, w, Client, p)
      BY <1>1, <2>1, TableTypes13 DEF ReadBy
    <2> QED
      BY <2>2, First13, PeerOf
  <1>2. pc[Client] = "recv_server_hello" => First(Client) = Reply13
    <2>1. ASSUME pc[Client] = "recv_server_hello" PROVE First(Client) = Reply13
      <3>1. First(Client) = Flow13(v, w, Server)[ReadAt13(v, w, Client, "recv_server_hello") + 1]
        BY <1>1, <2>1
      <3>2. ReadAt13(v, w, Client, "recv_server_hello") + 1 = 1
        BY SidesAssumption DEF ReadAt13
      <3> QED
        BY <3>1, <3>2, ServerFlow13, Zenon
    <2> QED
      BY <2>1
  <1>3. pc[Client] = "recv_encrypted_exts" => First(Client) = Extensions13
    <2>1. ASSUME pc[Client] = "recv_encrypted_exts" PROVE First(Client) = Extensions13
      <3>1. First(Client) = Flow13(v, w, Server)[ReadAt13(v, w, Client, "recv_encrypted_exts") + 1]
        BY <1>1, <2>1
      <3>2. ReadAt13(v, w, Client, "recv_encrypted_exts") + 1 = 2
        BY SidesAssumption DEF ReadAt13
      <3> QED
        BY <3>1, <3>2, ServerFlow13, Zenon
    <2> QED
      BY <2>1
  <1>4. pc[Client] = "recv_cert_request_or_cert" => First(Client) = (IF v THEN Request13 ELSE ServerCert13(v))
    <2>1. ASSUME pc[Client] = "recv_cert_request_or_cert" PROVE First(Client) = (IF v THEN Request13 ELSE ServerCert13(v))
      <3>1. First(Client) = Flow13(v, w, Server)[ReadAt13(v, w, Client, "recv_cert_request_or_cert") + 1]
        BY <1>1, <2>1
      <3>2. ReadAt13(v, w, Client, "recv_cert_request_or_cert") + 1 = 3
        BY SidesAssumption DEF ReadAt13
      <3> QED
        BY <3>1, <3>2, ServerFlow13, Zenon
    <2> QED
      BY <2>1
  <1>5. pc[Client] = "recv_server_cert" => First(Client) = ServerCert13(v)
    <2>1. ASSUME pc[Client] = "recv_server_cert" PROVE First(Client) = ServerCert13(v)
      <3>1. First(Client) = Flow13(v, w, Server)[ReadAt13(v, w, Client, "recv_server_cert") + 1]
        BY <1>1, <2>1
      <3>2. ReadAt13(v, w, Client, "recv_server_cert") + 1 = 4
        BY SidesAssumption DEF ReadAt13
      <3>3. v
        BY <2>1, PeerOf DEF Script13, At13, Step13, Verifying13, Answering13
      <3> QED
        BY <3>1, <3>2, <3>3, ServerFlow13, Zenon
    <2> QED
      BY <2>1
  <1>6. pc[Client] = "recv_server_cert_verify" => First(Client) = ServerProof13(v)
    <2>1. ASSUME pc[Client] = "recv_server_cert_verify" PROVE First(Client) = ServerProof13(v)
      <3>1. First(Client) = Flow13(v, w, Server)[ReadAt13(v, w, Client, "recv_server_cert_verify") + 1]
        BY <1>1, <2>1
      <3>2. v => ReadAt13(v, w, Client, "recv_server_cert_verify") + 1 = 5
        BY SidesAssumption DEF ReadAt13
      <3>3. ~v => ReadAt13(v, w, Client, "recv_server_cert_verify") + 1 = 4
        BY SidesAssumption DEF ReadAt13
      <3> QED
        BY <3>1, <3>2, <3>3, ServerFlow13, Zenon
    <2> QED
      BY <2>1
  <1>7. pc[Client] = "recv_server_finished" => First(Client) = ServerEnd13(v)
    <2>1. ASSUME pc[Client] = "recv_server_finished" PROVE First(Client) = ServerEnd13(v)
      <3>1. First(Client) = Flow13(v, w, Server)[ReadAt13(v, w, Client, "recv_server_finished") + 1]
        BY <1>1, <2>1
      <3>2. v => ReadAt13(v, w, Client, "recv_server_finished") + 1 = 6
        BY SidesAssumption DEF ReadAt13
      <3>3. ~v => ReadAt13(v, w, Client, "recv_server_finished") + 1 = 5
        BY SidesAssumption DEF ReadAt13
      <3> QED
        BY <3>1, <3>2, <3>3, ServerFlow13, Zenon
    <2> QED
      BY <2>1
  <1> QED
    BY <1>2, <1>3, <1>4, <1>5, <1>6, <1>7

\* The message each step of the server is to receive.
LEMMA ServerHears13 ==
  ASSUME TypeOK, Script13, NEW v \in BOOLEAN, v = client_verify,
         NEW w \in BOOLEAN, w = Answers, Incoming(Server)
  PROVE  /\ pc[Server] = "recv_client_hello" => First(Server) = Hello13
         /\ pc[Server] = "recv_client_cert" => First(Server) = (IF w THEN ClientCert13 ELSE ClientEnd13(v, w))
         /\ pc[Server] = "recv_cert_verify" => First(Server) = ClientProof13(v, w)
         /\ pc[Server] = "recv_client_finished" => First(Server) = ClientEnd13(v, w)
  <1>1. ASSUME NEW p, pc[Server] = p, p # "established"
        PROVE  First(Server) = Flow13(v, w, Client)[ReadAt13(v, w, Server, p) + 1]
    <2>1. got[Server] = <<>>
      BY <1>1, PeerOf DEF Script13, At13, Keys13
    <2>2. ReadBy(v, w, Server) = ReadAt13(v, w, Server, p)
      BY <1>1, <2>1, TableTypes13 DEF ReadBy
    <2> QED
      BY <2>2, First13, PeerOf
  <1>2. pc[Server] = "recv_client_hello" => First(Server) = Hello13
    <2>1. ASSUME pc[Server] = "recv_client_hello" PROVE First(Server) = Hello13
      <3>1. First(Server) = Flow13(v, w, Client)[ReadAt13(v, w, Server, "recv_client_hello") + 1]
        BY <1>1, <2>1
      <3>2. ReadAt13(v, w, Server, "recv_client_hello") + 1 = 1
        BY SidesAssumption DEF ReadAt13
      <3> QED
        BY <3>1, <3>2, ClientFlow13, Zenon
    <2> QED
      BY <2>1
  <1>3. pc[Server] = "recv_client_cert" => First(Server) = (IF w THEN ClientCert13 ELSE ClientEnd13(v, w))
    <2>1. ASSUME pc[Server] = "recv_client_cert" PROVE First(Server) = (IF w THEN ClientCert13 ELSE ClientEnd13(v, w))
      <3>1. First(Server) = Flow13(v, w, Client)[ReadAt13(v, w, Server, "recv_client_cert") + 1]
        BY <1>1, <2>1
      <3>2. ReadAt13(v, w, Server, "recv_client_cert") + 1 = 2
        BY SidesAssumption DEF ReadAt13
      <3> QED
        BY <3>1, <3>2, ClientFlow13, Zenon
    <2> QED
      BY <2>1
  <1>4. pc[Server] = "recv_cert_verify" => First(Server) = ClientProof13(v, w)
    <2>1. ASSUME pc[Server] = "recv_cert_verify" PROVE First(Server) = ClientProof13(v, w)
      <3>1. First(Server) = Flow13(v, w, Client)[ReadAt13(v, w, Server, "recv_cert_verify") + 1]
        BY <1>1, <2>1
      <3>2. ReadAt13(v, w, Server, "recv_cert_verify") + 1 = 3
        BY SidesAssumption DEF ReadAt13
      <3>3. w
        BY <2>1, PeerOf DEF Script13, At13, Step13, Verifying13, Answering13
      <3> QED
        BY <3>1, <3>2, <3>3, ClientFlow13, Zenon
    <2> QED
      BY <2>1
  <1>5. pc[Server] = "recv_client_finished" => First(Server) = ClientEnd13(v, w)
    <2>1. ASSUME pc[Server] = "recv_client_finished" PROVE First(Server) = ClientEnd13(v, w)
      <3>1. First(Server) = Flow13(v, w, Client)[ReadAt13(v, w, Server, "recv_client_finished") + 1]
        BY <1>1, <2>1
      <3>2. w => ReadAt13(v, w, Server, "recv_client_finished") + 1 = 4
        BY SidesAssumption DEF ReadAt13
      <3>3. ~w => ReadAt13(v, w, Server, "recv_client_finished") + 1 = 2
        BY SidesAssumption DEF ReadAt13
      <3> QED
        BY <3>1, <3>2, <3>3, ClientFlow13, Zenon
    <2> QED
      BY <2>1
  <1> QED
    BY <1>2, <1>3, <1>4, <1>5

\* What the steps look at in the messages.
LEMMA Sealed13Fields ==
  ASSUME NEW t, NEW log, NEW n
  PROVE  LET m == Sealed13(Over(t, log), n)
         IN  /\ m.type = t /\ m.val = "sent" /\ m.over = log
             /\ m.key = Handshake13 /\ m.seq = n
             /\ Content(m) = Over(t, log)
  <1>1. PICK k : k = Handshake13
    OBVIOUS
  <1>2. PICK a : a = [Msg(t) EXCEPT !.over = log]
    OBVIOUS
  <1>3. a = [type |-> t, random |-> "none", share |-> "none", exts |-> {}, over |-> log,
             val |-> "sent", key |-> None, seq |-> 0]
    BY <1>2 DEF Msg
  <1>4. PICK m : m = [a EXCEPT !.key = k, !.seq = n]
    OBVIOUS
  <1>5. m = [type |-> t, random |-> "none", share |-> "none", exts |-> {}, over |-> log,
             val |-> "sent", key |-> k, seq |-> n]
    <2>1. PICK b : b = [a EXCEPT !.key = k]
      OBVIOUS
    <2>2. b = [type |-> t, random |-> "none", share |-> "none", exts |-> {}, over |-> log,
               val |-> "sent", key |-> k, seq |-> 0]
      BY <1>3, <2>1
    <2>3. m = [b EXCEPT !.seq = n]
      BY <1>4, <2>1
    <2> QED
      BY <2>2, <2>3
  <1>6. Content(m) = a
    <2>1. PICK b : b = [m EXCEPT !.key = None]
      OBVIOUS
    <2>2. b = [type |-> t, random |-> "none", share |-> "none", exts |-> {}, over |-> log,
               val |-> "sent", key |-> None, seq |-> n]
      BY <1>5, <2>1
    <2>3. Content(m) = [b EXCEPT !.seq = 0]
      BY <2>1 DEF Content
    <2> QED
      BY <1>3, <2>2, <2>3
  <1>7. /\ m.type = t /\ m.val = "sent" /\ m.over = log /\ m.key = k /\ m.seq = n
    BY <1>5
  <1> QED
    BY <1>1, <1>2, <1>4, <1>6, <1>7 DEF Sealed13, Sealed, Over

LEMMA Plain13Fields ==
  ASSUME NEW t, NEW n
  PROVE  LET m == Sealed13(Msg(t), n)
         IN  m.type = t /\ m.val = "sent" /\ m.key = Handshake13 /\ m.seq = n
  BY DEF Sealed13, Sealed, Msg

LEMMA Fields13 ==
  ASSUME NEW v \in BOOLEAN, NEW w \in BOOLEAN
  PROVE  /\ Hello13.type = "client_hello" /\ Hello13.val = "sent" /\ Hello13.exts = Exts13
         /\ ShareOf(Hello13) = "c" /\ Hello13.exts # {}
         /\ Reply13.type = "server_hello" /\ Reply13.val = "sent" /\ ShareOf(Reply13) = "s"
         /\ Content(Hello13).exts = Exts13
  <1>1. "key_share" \in Exts13 /\ "key_share" \in AnsweredExts13
    BY DEF Exts13, AnsweredExts13
  <1>2. PICK e : e = Exts13
    OBVIOUS
  <1>3. PICK a : a = AnsweredExts13
    OBVIOUS
  <1>4. PICK h : h = [Msg("client_hello") EXCEPT !.random = "cr", !.share = "c", !.exts = e]
    OBVIOUS
  <1>5. /\ h.type = "client_hello" /\ h.val = "sent" /\ h.exts = e /\ h.share = "c"
        /\ Content(h).exts = e
    BY <1>4 DEF Msg, Content
  <1>6. PICK r : r = [Msg("server_hello") EXCEPT !.random = "sr", !.share = "s", !.exts = a]
    OBVIOUS
  <1>7. r.type = "server_hello" /\ r.val = "sent" /\ r.exts = a /\ r.share = "s"
    BY <1>6 DEF Msg
  <1>8. Hello13 = h /\ Reply13 = r
    BY <1>2, <1>4, <1>3, <1>6 DEF Hello13, Reply13
  <1> QED
    BY <1>1, <1>2, <1>5, <1>7, <1>8, <1>3 DEF ShareOf

\* Under the handshake keys.
LEMMA Seals13 ==
  ASSUME NEW s, NEW m, NEW n, secret[s] = Handshake13, sendSeq[s] = n
  PROVE  Protected(s, m) = Sealed13(m, n)
  BY DEF Protected, Sealed13, Sealed

\* A step that leaves the keys alone and sends a, reads b protected records.
Counts13(v, w, s, step, next, a, b) ==
    /\ step # "established" /\ next # "established"
    /\ next \in Shared13 => step \in Shared13
    /\ next \notin Unkeyed13 => step \notin Unkeyed13
    /\ next \in Derived13 => step \in Derived13
    /\ Number13(next, SentAt13(v, w, s, next)) = Number13(step, SentAt13(v, w, s, step)) + a
    /\ Number13(next, ReadAt13(v, w, s, next)) = Number13(step, ReadAt13(v, w, s, step)) + b

LEMMA NumberType13 ==
  ASSUME NEW v \in BOOLEAN, NEW w \in BOOLEAN, NEW s, NEW step
  PROVE  /\ Number13(step, SentAt13(v, w, s, step)) \in Nat
         /\ Number13(step, ReadAt13(v, w, s, step)) \in Nat
  BY TableTypes13 DEF Number13

LEMMA Goes13 ==
  ASSUME TypeOK, NEW v \in BOOLEAN, NEW w \in BOOLEAN, NEW s \in Side, NEW step, NEW next,
         Keys13(s, step, v, w), NEW a \in Nat, NEW b \in Nat,
         Counts13(v, w, s, step, next, a, b), UNCHANGED <<config, sent, got>>,
         share'[s] = share[s], secret'[s] = secret[s], appSecret'[s] = appSecret[s],
         sendSeq'[s] = sendSeq[s] + a, recvSeq'[s] = recvSeq[s] + b,
         s = Client => clientCerts' = IF next \in Asking13 THEN config.clientCert # "none" ELSE w
  PROVE  Keys13(s, next, v, w)'
  <1>1. PICK x \in Nat : x = Number13(step, SentAt13(v, w, s, step))
    BY NumberType13
  <1>2. PICK y \in Nat : y = Number13(step, ReadAt13(v, w, s, step))
    BY NumberType13
  <1>3. /\ sent[s] = 0 /\ got[s] = <<>> /\ Len(got[s]) = 0
        /\ sendSeq[s] = x + sent[s] /\ recvSeq[s] = y + Len(got[s])
    BY <1>1, <1>2 DEF Keys13, Counts13
  <1>4. /\ Number13(next, SentAt13(v, w, s, next)) = x + a
        /\ Number13(next, ReadAt13(v, w, s, next)) = y + b
    BY <1>1, <1>2 DEF Counts13
  <1>5. /\ sendSeq'[s] = Number13(next, SentAt13(v, w, s, next)) + sent'[s]
        /\ recvSeq'[s] = Number13(next, ReadAt13(v, w, s, next)) + Len(got'[s])
    BY <1>3, <1>4
  <1>6. /\ next \in Shared13 => share'[s] = IF s = Client THEN "s" ELSE "c"
        /\ next \notin Unkeyed13 =>
             secret'[s] = IF next = "established" THEN Application13(v) ELSE Handshake13
        /\ next \in Derived13 => appSecret'[s] = Application13(v)
    BY DEF Keys13, Counts13
  <1>7. next # "established" => sent'[s] = 0 /\ got'[s] = <<>>
    BY <1>3
  <1> QED
    BY <1>5, <1>6, <1>7 DEF Keys13

LEMMA SendClientHello13Script ==
  ASSUME TypeOK, Script13, SendClientHello13
  PROVE  Script13'
  <1>0. PICK v \in BOOLEAN : v = client_verify
    BY VerifyType
  <1>1. PICK w \in BOOLEAN : w = Answers
    BY VerifyType
  <1>2. At13(Client, "send_client_hello", v, w) /\ pc[Client] = "send_client_hello"
    BY <1>0, <1>1, PeerOf DEF Script13, At, SendClientHello13, SendPlain, Send
  <1>3. KeepsKeys13(Server) /\ UNCHANGED <<sent, got>>
    BY PeerOf, SidesAssumption DEF SendClientHello13, SendPlain, Send, Restart,
       KeepsKeys13, TypeOK, KeysOK, SeqsOK, keys13, data13
  <1>4. Sends13(v, w, Client, "send_client_hello", "recv_server_hello", Hello13)
    <2>1. Step13(Client, "recv_server_hello", v, w)
      BY <1>0, <1>1, <1>2, SidesAssumption DEF Step13, ClientPath13, ServerPath13,
         Asking13, Verifying13, Answering13, At13, Answers
    <2>2. /\ SentAt13(v, w, Client, "recv_server_hello") = SentAt13(v, w, Client, "send_client_hello") + 1
         /\ ReadAt13(v, w, Client, "recv_server_hello") = ReadAt13(v, w, Client, "send_client_hello")
      BY SidesAssumption DEF SentAt13, ReadAt13
    <2>3. Hello13 = Flow13(v, w, Client)[SentAt13(v, w, Client, "send_client_hello") + 1]
      <3>1. SentAt13(v, w, Client, "send_client_hello") + 1 = 1
        BY SidesAssumption DEF SentAt13
      <3> QED
        BY <3>1, ClientFlow13, Zenon
    <2> QED
      BY <2>1, <2>2, <2>3 DEF Sends13
  <1>5. Hashes13(v, w, "send_client_hello", "recv_server_hello", Hello13)
    BY DEF Hashes13, HashedAt13, Tape1
  <1>6. /\ At(Client, "send_client_hello") /\ Emit(Client, Hello13)
       /\ Hash(Client, Hello13) /\ Goto(Client, "recv_server_hello")
    BY <1>0, <1>1, <1>2 DEF SendClientHello13, SendPlain, Send, Hello13
  <1>7. Keys13(Client, "recv_server_hello", v, w)'
    <2>1. Counts13(v, w, Client, "send_client_hello", "recv_server_hello", 0, 0)
      BY SidesAssumption DEF Counts13, Number13, SentAt13, ReadAt13, Unkeyed13, Shared13,
         Derived13, Asking13, ClientPath13, ServerPath13
    <2>2. /\ UNCHANGED <<config, share, secret, appSecret, sent, got>>
         /\ sendSeq'[Client] = sendSeq[Client] + 0 /\ recvSeq'[Client] = recvSeq[Client] + 0
      BY PeerOf DEF SendClientHello13, SendPlain, Send, keys13, data13, TypeOK, SeqsOK
    <2>3. clientCerts' = IF "recv_server_hello" \in Asking13 THEN config.clientCert # "none" ELSE w
      BY <1>0, <1>1, <1>2 DEF SendClientHello13, keys13, At13, Keys13, Asking13
    <2> QED
      BY <1>2, <2>1, <2>2, <2>3, Goes13, PeerOf, SidesAssumption DEF At13
  <1> QED
    BY <1>0, <1>1, <1>3, <1>4, <1>5, <1>6, <1>7, Says13, PeerOf

LEMMA RecvEncryptedExtensions13Script ==
  ASSUME TypeOK, Script13, RecvEncryptedExtensions13
  PROVE  Script13'
  <1>0. PICK v \in BOOLEAN : v = client_verify
    BY VerifyType
  <1>1. PICK w \in BOOLEAN : w = Answers
    BY VerifyType
  <1>2. At13(Client, "recv_encrypted_exts", v, w) /\ pc[Client] = "recv_encrypted_exts"
    BY <1>0, <1>1, PeerOf DEF Script13, At, RecvEncryptedExtensions13, RecvProtected, Recv
  <1>3. First(Client) = Extensions13
    <2>1. Incoming(Client)
      BY DEF RecvEncryptedExtensions13, RecvProtected, Recv
    <2> QED
      BY <1>0, <1>1, <1>2, <2>1, ClientHears13
  <1>4. KeepsKeys13(Server) /\ UNCHANGED <<sent, got>>
    BY PeerOf, SidesAssumption DEF RecvEncryptedExtensions13, RecvProtected, Recv, Restart,
       KeepsKeys13, TypeOK, KeysOK, SeqsOK, keys13, data13
  <1>5. Reads13(v, w, Client, "recv_encrypted_exts", "recv_cert_request_or_cert")
    <2>1. Step13(Client, "recv_cert_request_or_cert", v, w)
      BY <1>0, <1>1, <1>2, SidesAssumption DEF Step13, ClientPath13, ServerPath13,
         Asking13, Verifying13, Answering13, At13, Answers
    <2>2. /\ SentAt13(v, w, Client, "recv_cert_request_or_cert") = SentAt13(v, w, Client, "recv_encrypted_exts")
         /\ ReadAt13(v, w, Client, "recv_cert_request_or_cert") = ReadAt13(v, w, Client, "recv_encrypted_exts") + 1
      BY SidesAssumption DEF SentAt13, ReadAt13
    <2> QED
      BY <2>1, <2>2 DEF Reads13
  <1>6. Hashes13(v, w, "recv_encrypted_exts", "recv_cert_request_or_cert", Extensions13)
    BY DEF Hashes13, HashedAt13, Tape3
  <1>7. /\ At(Client, "recv_encrypted_exts") /\ Take(Client) /\ Incoming(Client)
       /\ Hash(Client, Extensions13) /\ Goto(Client, "recv_cert_request_or_cert")
    BY <1>0, <1>1, <1>2, <1>3 DEF RecvEncryptedExtensions13, RecvProtected, Recv
  <1>8. Keys13(Client, "recv_cert_request_or_cert", v, w)'
    <2>1. Counts13(v, w, Client, "recv_encrypted_exts", "recv_cert_request_or_cert", 0, 1)
      BY SidesAssumption DEF Counts13, Number13, SentAt13, ReadAt13, Unkeyed13, Shared13,
         Derived13, Asking13, ClientPath13, ServerPath13
    <2>2. /\ UNCHANGED <<config, share, secret, appSecret, sent, got>>
         /\ sendSeq'[Client] = sendSeq[Client] + 0 /\ recvSeq'[Client] = recvSeq[Client] + 1
      BY PeerOf DEF RecvEncryptedExtensions13, RecvProtected, Recv, keys13, data13, TypeOK,
         SeqsOK
    <2>3. clientCerts' = IF "recv_cert_request_or_cert" \in Asking13 THEN config.clientCert # "none" ELSE w
      BY <1>0, <1>1, <1>2, <1>3 DEF RecvEncryptedExtensions13, keys13, At13, Keys13,
         Asking13
    <2> QED
      BY <1>2, <2>1, <2>2, <2>3, Goes13, PeerOf, SidesAssumption DEF At13
  <1> QED
    BY <1>0, <1>1, <1>4, <1>5, <1>6, <1>7, <1>8, Gets13, PeerOf

LEMMA RecvServerCertificateVerify13Script ==
  ASSUME TypeOK, Script13, RecvServerCertificateVerify13
  PROVE  Script13'
  <1>0. PICK v \in BOOLEAN : v = client_verify
    BY VerifyType
  <1>1. PICK w \in BOOLEAN : w = Answers
    BY VerifyType
  <1>2. At13(Client, "recv_server_cert_verify", v, w) /\ pc[Client] = "recv_server_cert_verify"
    BY <1>0, <1>1, PeerOf DEF Script13, At, RecvServerCertificateVerify13, RecvProtected,
       Recv
  <1>3. First(Client) = ServerProof13(v)
    <2>1. Incoming(Client)
      BY DEF RecvServerCertificateVerify13, RecvProtected, Recv
    <2> QED
      BY <1>0, <1>1, <1>2, <2>1, ClientHears13
  <1>4. KeepsKeys13(Server) /\ UNCHANGED <<sent, got>>
    BY PeerOf, SidesAssumption DEF RecvServerCertificateVerify13, RecvProtected, Recv,
       Restart, KeepsKeys13, TypeOK, KeysOK, SeqsOK, keys13, data13
  <1>5. Reads13(v, w, Client, "recv_server_cert_verify", "recv_server_finished")
    <2>1. Step13(Client, "recv_server_finished", v, w)
      BY <1>0, <1>1, <1>2, SidesAssumption DEF Step13, ClientPath13, ServerPath13,
         Asking13, Verifying13, Answering13, At13, Answers
    <2>2. /\ SentAt13(v, w, Client, "recv_server_finished") = SentAt13(v, w, Client, "recv_server_cert_verify")
         /\ ReadAt13(v, w, Client, "recv_server_finished") = ReadAt13(v, w, Client, "recv_server_cert_verify") + 1
      BY SidesAssumption DEF SentAt13, ReadAt13
    <2> QED
      BY <2>1, <2>2 DEF Reads13
  <1>6. Hashes13(v, w, "recv_server_cert_verify", "recv_server_finished", ServerProof13(v))
    BY DEF Hashes13, HashedAt13, Tape6
  <1>7. /\ At(Client, "recv_server_cert_verify") /\ Take(Client) /\ Incoming(Client)
       /\ Hash(Client, ServerProof13(v)) /\ Goto(Client, "recv_server_finished")
    BY <1>0, <1>1, <1>2, <1>3 DEF RecvServerCertificateVerify13, RecvProtected, Recv
  <1>8. Keys13(Client, "recv_server_finished", v, w)'
    <2>1. Counts13(v, w, Client, "recv_server_cert_verify", "recv_server_finished", 0, 1)
      BY SidesAssumption DEF Counts13, Number13, SentAt13, ReadAt13, Unkeyed13, Shared13,
         Derived13, Asking13, ClientPath13, ServerPath13
    <2>2. /\ UNCHANGED <<config, share, secret, appSecret, sent, got>>
         /\ sendSeq'[Client] = sendSeq[Client] + 0 /\ recvSeq'[Client] = recvSeq[Client] + 1
      BY PeerOf DEF RecvServerCertificateVerify13, RecvProtected, Recv, keys13, data13,
         TypeOK, SeqsOK
    <2>3. clientCerts' = IF "recv_server_finished" \in Asking13 THEN config.clientCert # "none" ELSE w
      BY <1>0, <1>1, <1>2, <1>3 DEF RecvServerCertificateVerify13, keys13, At13, Keys13,
         Asking13
    <2> QED
      BY <1>2, <2>1, <2>2, <2>3, Goes13, PeerOf, SidesAssumption DEF At13
  <1> QED
    BY <1>0, <1>1, <1>4, <1>5, <1>6, <1>7, <1>8, Gets13, PeerOf

LEMMA SendClientCertificate13Script ==
  ASSUME TypeOK, Script13, SendClientCertificate13
  PROVE  Script13'
  <1>0. PICK v \in BOOLEAN : v = client_verify
    BY VerifyType
  <1>1. PICK w \in BOOLEAN : w = Answers
    BY VerifyType
  <1>2. At13(Client, "send_client_cert", v, w) /\ pc[Client] = "send_client_cert"
    BY <1>0, <1>1, PeerOf DEF Script13, At, SendClientCertificate13, SendProtected, Send
  <1>3. w
    BY <1>0, <1>1, <1>2 DEF At13, Step13, Verifying13, Answering13, Answers
  <1>4. Protected(Client, Msg("certificate")) = ClientCert13
    <2>1. secret[Client] = Handshake13 /\ sendSeq[Client] = 0
      <3>1. /\ secret[Client] = Handshake13 /\ sent[Client] = 0
            /\ sendSeq[Client] = Number13("send_client_cert", SentAt13(v, w, Client, "send_client_cert")) + sent[Client]
        BY <1>2 DEF At13, Keys13, Unkeyed13
      <3>2. Number13("send_client_cert", SentAt13(v, w, Client, "send_client_cert")) = 0
        BY SidesAssumption, <1>3 DEF Number13, SentAt13
      <3> QED
        BY <3>1, <3>2
    <2>2. Protected(Client, Msg("certificate")) = Sealed13(Msg("certificate"), 0)
      BY <2>1, Seals13
    <2> QED
      BY <2>2 DEF ClientCert13, Cert
  <1>5. KeepsKeys13(Server) /\ UNCHANGED <<sent, got>>
    BY PeerOf, SidesAssumption DEF SendClientCertificate13, SendProtected, Send, Restart,
       KeepsKeys13, TypeOK, KeysOK, SeqsOK, keys13, data13
  <1>6. Sends13(v, w, Client, "send_client_cert", "send_cert_verify", ClientCert13)
    <2>1. Step13(Client, "send_cert_verify", v, w)
      BY <1>0, <1>1, <1>2, SidesAssumption, <1>3 DEF Step13, ClientPath13, ServerPath13,
         Asking13, Verifying13, Answering13, At13, Answers
    <2>2. /\ SentAt13(v, w, Client, "send_cert_verify") = SentAt13(v, w, Client, "send_client_cert") + 1
         /\ ReadAt13(v, w, Client, "send_cert_verify") = ReadAt13(v, w, Client, "send_client_cert")
      BY SidesAssumption, <1>3 DEF SentAt13, ReadAt13
    <2>3. ClientCert13 = Flow13(v, w, Client)[SentAt13(v, w, Client, "send_client_cert") + 1]
      <3>1. SentAt13(v, w, Client, "send_client_cert") + 1 = 2
        BY SidesAssumption DEF SentAt13
      <3> QED
        BY <3>1, ClientFlow13, <1>3, Zenon
    <2> QED
      BY <2>1, <2>2, <2>3 DEF Sends13
  <1>7. Hashes13(v, w, "send_client_cert", "send_cert_verify", ClientCert13)
    BY <1>3 DEF Hashes13, HashedAt13, Tape8
  <1>8. /\ At(Client, "send_client_cert") /\ Emit(Client, ClientCert13)
       /\ Hash(Client, ClientCert13) /\ Goto(Client, "send_cert_verify")
    BY <1>0, <1>1, <1>2, <1>3, <1>4 DEF SendClientCertificate13, SendProtected, Send
  <1>9. Keys13(Client, "send_cert_verify", v, w)'
    <2>1. Counts13(v, w, Client, "send_client_cert", "send_cert_verify", 1, 0)
      BY SidesAssumption, <1>3 DEF Counts13, Number13, SentAt13, ReadAt13, Unkeyed13,
         Shared13, Derived13, Asking13, ClientPath13, ServerPath13
    <2>2. /\ UNCHANGED <<config, share, secret, appSecret, sent, got>>
         /\ sendSeq'[Client] = sendSeq[Client] + 1 /\ recvSeq'[Client] = recvSeq[Client] + 0
      BY PeerOf DEF SendClientCertificate13, SendProtected, Send, keys13, data13, TypeOK,
         SeqsOK
    <2>3. clientCerts' = IF "send_cert_verify" \in Asking13 THEN config.clientCert # "none" ELSE w
      BY <1>0, <1>1, <1>2, <1>3, <1>4 DEF SendClientCertificate13, keys13, At13, Keys13,
         Asking13
    <2> QED
      BY <1>2, <2>1, <2>2, <2>3, Goes13, PeerOf, SidesAssumption DEF At13
  <1> QED
    BY <1>0, <1>1, <1>5, <1>6, <1>7, <1>8, <1>9, Says13, PeerOf

LEMMA SendEncryptedExtensions13Script ==
  ASSUME TypeOK, Script13, SendEncryptedExtensions13
  PROVE  Script13'
  <1>0. PICK v \in BOOLEAN : v = client_verify
    BY VerifyType
  <1>1. PICK w \in BOOLEAN : w = Answers
    BY VerifyType
  <1>2. At13(Server, "send_encrypted_exts", v, w) /\ pc[Server] = "send_encrypted_exts"
    BY <1>0, <1>1, PeerOf DEF Script13, At, SendEncryptedExtensions13, SendProtected, Send
  <1>3. Protected(Server, Msg("encrypted_extensions")) = Extensions13
    <2>1. secret[Server] = Handshake13 /\ sendSeq[Server] = 0
      <3>1. /\ secret[Server] = Handshake13 /\ sent[Server] = 0
            /\ sendSeq[Server] = Number13("send_encrypted_exts", SentAt13(v, w, Server, "send_encrypted_exts")) + sent[Server]
        BY <1>2 DEF At13, Keys13, Unkeyed13
      <3>2. Number13("send_encrypted_exts", SentAt13(v, w, Server, "send_encrypted_exts")) = 0
        BY SidesAssumption DEF Number13, SentAt13
      <3> QED
        BY <3>1, <3>2
    <2>2. Protected(Server, Msg("encrypted_extensions")) = Sealed13(Msg("encrypted_extensions"), 0)
      BY <2>1, Seals13
    <2> QED
      BY <2>2 DEF Extensions13
  <1>4. KeepsKeys13(Client) /\ UNCHANGED <<sent, got>>
    BY PeerOf, SidesAssumption DEF SendEncryptedExtensions13, SendProtected, Send, Restart,
       KeepsKeys13, TypeOK, KeysOK, SeqsOK, keys13, data13
  <1>5. CASE v
    <2>1. Sends13(v, w, Server, "send_encrypted_exts", "send_cert_request", Extensions13)
      <3>1. Step13(Server, "send_cert_request", v, w)
        BY <1>0, <1>1, <1>2, SidesAssumption, <1>5 DEF Step13, ClientPath13, ServerPath13,
           Asking13, Verifying13, Answering13, At13, Answers
      <3>2. /\ SentAt13(v, w, Server, "send_cert_request") = SentAt13(v, w, Server, "send_encrypted_exts") + 1
           /\ ReadAt13(v, w, Server, "send_cert_request") = ReadAt13(v, w, Server, "send_encrypted_exts")
        BY SidesAssumption, <1>5 DEF SentAt13, ReadAt13
      <3>3. Extensions13 = Flow13(v, w, Server)[SentAt13(v, w, Server, "send_encrypted_exts") + 1]
        <4>1. SentAt13(v, w, Server, "send_encrypted_exts") + 1 = 2
          BY SidesAssumption DEF SentAt13
        <4> QED
          BY <4>1, ServerFlow13, Zenon
      <3> QED
        BY <3>1, <3>2, <3>3 DEF Sends13
    <2>2. Hashes13(v, w, "send_encrypted_exts", "send_cert_request", Extensions13)
      BY <1>5 DEF Hashes13, HashedAt13, Tape3, Tape4
    <2>3. /\ At(Server, "send_encrypted_exts") /\ Emit(Server, Extensions13)
         /\ Hash(Server, Extensions13) /\ Goto(Server, "send_cert_request")
      BY <1>0, <1>1, <1>2, <1>3, <1>5 DEF SendEncryptedExtensions13, SendProtected, Send,
         At13, Keys13, Asking13
    <2>4. Keys13(Server, "send_cert_request", v, w)'
      <3>1. Counts13(v, w, Server, "send_encrypted_exts", "send_cert_request", 1, 0)
        BY SidesAssumption, <1>5 DEF Counts13, Number13, SentAt13, ReadAt13, Unkeyed13,
           Shared13, Derived13, Asking13, ClientPath13, ServerPath13
      <3>2. /\ UNCHANGED <<config, share, secret, appSecret, sent, got>>
           /\ sendSeq'[Server] = sendSeq[Server] + 1 /\ recvSeq'[Server] = recvSeq[Server] + 0
        BY PeerOf DEF SendEncryptedExtensions13, SendProtected, Send, keys13, data13,
           TypeOK, SeqsOK
      <3> QED
        BY <1>2, <3>1, <3>2, Goes13, PeerOf, SidesAssumption DEF At13
    <2> QED
      BY <1>0, <1>1, <1>4, <2>1, <2>2, <2>3, <2>4, Says13, PeerOf
  <1>6. CASE ~v
    <2>1. Sends13(v, w, Server, "send_encrypted_exts", "send_server_cert", Extensions13)
      <3>1. Step13(Server, "send_server_cert", v, w)
        BY <1>0, <1>1, <1>2, SidesAssumption, <1>6 DEF Step13, ClientPath13, ServerPath13,
           Asking13, Verifying13, Answering13, At13, Answers
      <3>2. /\ SentAt13(v, w, Server, "send_server_cert") = SentAt13(v, w, Server, "send_encrypted_exts") + 1
           /\ ReadAt13(v, w, Server, "send_server_cert") = ReadAt13(v, w, Server, "send_encrypted_exts")
        BY SidesAssumption, <1>6 DEF SentAt13, ReadAt13
      <3>3. Extensions13 = Flow13(v, w, Server)[SentAt13(v, w, Server, "send_encrypted_exts") + 1]
        <4>1. SentAt13(v, w, Server, "send_encrypted_exts") + 1 = 2
          BY SidesAssumption DEF SentAt13
        <4> QED
          BY <4>1, ServerFlow13, Zenon
      <3> QED
        BY <3>1, <3>2, <3>3 DEF Sends13
    <2>2. Hashes13(v, w, "send_encrypted_exts", "send_server_cert", Extensions13)
      BY <1>6 DEF Hashes13, HashedAt13, Tape3, Tape4
    <2>3. /\ At(Server, "send_encrypted_exts") /\ Emit(Server, Extensions13)
         /\ Hash(Server, Extensions13) /\ Goto(Server, "send_server_cert")
      BY <1>0, <1>1, <1>2, <1>3, <1>6 DEF SendEncryptedExtensions13, SendProtected, Send,
         At13, Keys13, Asking13
    <2>4. Keys13(Server, "send_server_cert", v, w)'
      <3>1. Counts13(v, w, Server, "send_encrypted_exts", "send_server_cert", 1, 0)
        BY SidesAssumption, <1>6 DEF Counts13, Number13, SentAt13, ReadAt13, Unkeyed13,
           Shared13, Derived13, Asking13, ClientPath13, ServerPath13
      <3>2. /\ UNCHANGED <<config, share, secret, appSecret, sent, got>>
           /\ sendSeq'[Server] = sendSeq[Server] + 1 /\ recvSeq'[Server] = recvSeq[Server] + 0
        BY PeerOf DEF SendEncryptedExtensions13, SendProtected, Send, keys13, data13,
           TypeOK, SeqsOK
      <3> QED
        BY <1>2, <3>1, <3>2, Goes13, PeerOf, SidesAssumption DEF At13
    <2> QED
      BY <1>0, <1>1, <1>4, <2>1, <2>2, <2>3, <2>4, Says13, PeerOf
  <1> QED
    BY <1>5, <1>6

LEMMA SendCertificateRequest13Script ==
  ASSUME TypeOK, Script13, SendCertificateRequest13
  PROVE  Script13'
  <1>0. PICK v \in BOOLEAN : v = client_verify
    BY VerifyType
  <1>1. PICK w \in BOOLEAN : w = Answers
    BY VerifyType
  <1>2. At13(Server, "send_cert_request", v, w) /\ pc[Server] = "send_cert_request"
    BY <1>0, <1>1, PeerOf DEF Script13, At, SendCertificateRequest13, SendProtected, Send
  <1>3. v
    BY <1>0, <1>1, <1>2 DEF At13, Step13, Verifying13, Answering13, Answers
  <1>4. Protected(Server, Msg("certificate_request")) = Request13
    <2>1. secret[Server] = Handshake13 /\ sendSeq[Server] = 1
      <3>1. /\ secret[Server] = Handshake13 /\ sent[Server] = 0
            /\ sendSeq[Server] = Number13("send_cert_request", SentAt13(v, w, Server, "send_cert_request")) + sent[Server]
        BY <1>2 DEF At13, Keys13, Unkeyed13
      <3>2. Number13("send_cert_request", SentAt13(v, w, Server, "send_cert_request")) = 1
        BY SidesAssumption, <1>3 DEF Number13, SentAt13
      <3> QED
        BY <3>1, <3>2
    <2>2. Protected(Server, Msg("certificate_request")) = Sealed13(Msg("certificate_request"), 1)
      BY <2>1, Seals13
    <2> QED
      BY <2>2 DEF Request13, Request
  <1>5. KeepsKeys13(Client) /\ UNCHANGED <<sent, got>>
    BY PeerOf, SidesAssumption DEF SendCertificateRequest13, SendProtected, Send, Restart,
       KeepsKeys13, TypeOK, KeysOK, SeqsOK, keys13, data13
  <1>6. Sends13(v, w, Server, "send_cert_request", "send_server_cert", Request13)
    <2>1. Step13(Server, "send_server_cert", v, w)
      BY <1>0, <1>1, <1>2, SidesAssumption, <1>3 DEF Step13, ClientPath13, ServerPath13,
         Asking13, Verifying13, Answering13, At13, Answers
    <2>2. /\ SentAt13(v, w, Server, "send_server_cert") = SentAt13(v, w, Server, "send_cert_request") + 1
         /\ ReadAt13(v, w, Server, "send_server_cert") = ReadAt13(v, w, Server, "send_cert_request")
      BY SidesAssumption, <1>3 DEF SentAt13, ReadAt13
    <2>3. Request13 = Flow13(v, w, Server)[SentAt13(v, w, Server, "send_cert_request") + 1]
      <3>1. SentAt13(v, w, Server, "send_cert_request") + 1 = 3
        BY SidesAssumption DEF SentAt13
      <3> QED
        BY <3>1, ServerFlow13, <1>3, Zenon
    <2> QED
      BY <2>1, <2>2, <2>3 DEF Sends13
  <1>7. Hashes13(v, w, "send_cert_request", "send_server_cert", Request13)
    BY <1>3 DEF Hashes13, HashedAt13, Tape4
  <1>8. /\ At(Server, "send_cert_request") /\ Emit(Server, Request13)
       /\ Hash(Server, Request13) /\ Goto(Server, "send_server_cert")
    BY <1>0, <1>1, <1>2, <1>3, <1>4 DEF SendCertificateRequest13, SendProtected, Send
  <1>9. Keys13(Server, "send_server_cert", v, w)'
    <2>1. Counts13(v, w, Server, "send_cert_request", "send_server_cert", 1, 0)
      BY SidesAssumption, <1>3 DEF Counts13, Number13, SentAt13, ReadAt13, Unkeyed13,
         Shared13, Derived13, Asking13, ClientPath13, ServerPath13
    <2>2. /\ UNCHANGED <<config, share, secret, appSecret, sent, got>>
         /\ sendSeq'[Server] = sendSeq[Server] + 1 /\ recvSeq'[Server] = recvSeq[Server] + 0
      BY PeerOf DEF SendCertificateRequest13, SendProtected, Send, keys13, data13, TypeOK,
         SeqsOK
    <2> QED
      BY <1>2, <2>1, <2>2, Goes13, PeerOf, SidesAssumption DEF At13
  <1> QED
    BY <1>0, <1>1, <1>5, <1>6, <1>7, <1>8, <1>9, Says13, PeerOf

LEMMA SendServerCertificate13Script ==
  ASSUME TypeOK, Script13, SendServerCertificate13
  PROVE  Script13'
  <1>0. PICK v \in BOOLEAN : v = client_verify
    BY VerifyType
  <1>1. PICK w \in BOOLEAN : w = Answers
    BY VerifyType
  <1>2. At13(Server, "send_server_cert", v, w) /\ pc[Server] = "send_server_cert"
    BY <1>0, <1>1, PeerOf DEF Script13, At, SendServerCertificate13, SendProtected, Send
  <1>3. Protected(Server, Msg("certificate")) = ServerCert13(v)
    <2>1. secret[Server] = Handshake13 /\ sendSeq[Server] = (IF v THEN 2 ELSE 1)
      <3>1. /\ secret[Server] = Handshake13 /\ sent[Server] = 0
            /\ sendSeq[Server] = Number13("send_server_cert", SentAt13(v, w, Server, "send_server_cert")) + sent[Server]
        BY <1>2 DEF At13, Keys13, Unkeyed13
      <3>2. Number13("send_server_cert", SentAt13(v, w, Server, "send_server_cert")) = (IF v THEN 2 ELSE 1)
        BY SidesAssumption DEF Number13, SentAt13
      <3> QED
        BY <3>1, <3>2
    <2>2. Protected(Server, Msg("certificate")) = Sealed13(Msg("certificate"), (IF v THEN 2 ELSE 1))
      BY <2>1, Seals13
    <2> QED
      BY <2>2 DEF ServerCert13, Cert
  <1>4. KeepsKeys13(Client) /\ UNCHANGED <<sent, got>>
    BY PeerOf, SidesAssumption DEF SendServerCertificate13, SendProtected, Send, Restart,
       KeepsKeys13, TypeOK, KeysOK, SeqsOK, keys13, data13
  <1>5. Sends13(v, w, Server, "send_server_cert", "send_server_cert_verify", ServerCert13(v))
    <2>1. Step13(Server, "send_server_cert_verify", v, w)
      BY <1>0, <1>1, <1>2, SidesAssumption DEF Step13, ClientPath13, ServerPath13,
         Asking13, Verifying13, Answering13, At13, Answers
    <2>2. /\ SentAt13(v, w, Server, "send_server_cert_verify") = SentAt13(v, w, Server, "send_server_cert") + 1
         /\ ReadAt13(v, w, Server, "send_server_cert_verify") = ReadAt13(v, w, Server, "send_server_cert")
      BY SidesAssumption DEF SentAt13, ReadAt13
    <2>3. ServerCert13(v) = Flow13(v, w, Server)[SentAt13(v, w, Server, "send_server_cert") + 1]
      <3>1. v => SentAt13(v, w, Server, "send_server_cert") + 1 = 4
        BY SidesAssumption DEF SentAt13
      <3>2. ~v => SentAt13(v, w, Server, "send_server_cert") + 1 = 3
        BY SidesAssumption DEF SentAt13
      <3> QED
        BY <3>1, <3>2, ServerFlow13, Zenon
    <2> QED
      BY <2>1, <2>2, <2>3 DEF Sends13
  <1>6. Hashes13(v, w, "send_server_cert", "send_server_cert_verify", ServerCert13(v))
    BY DEF Hashes13, HashedAt13, Tape5
  <1>7. /\ At(Server, "send_server_cert") /\ Emit(Server, ServerCert13(v))
       /\ Hash(Server, ServerCert13(v)) /\ Goto(Server, "send_server_cert_verify")
    BY <1>0, <1>1, <1>2, <1>3 DEF SendServerCertificate13, SendProtected, Send
  <1>8. Keys13(Server, "send_server_cert_verify", v, w)'
    <2>1. Counts13(v, w, Server, "send_server_cert", "send_server_cert_verify", 1, 0)
      BY SidesAssumption DEF Counts13, Number13, SentAt13, ReadAt13, Unkeyed13, Shared13,
         Derived13, Asking13, ClientPath13, ServerPath13
    <2>2. /\ UNCHANGED <<config, share, secret, appSecret, sent, got>>
         /\ sendSeq'[Server] = sendSeq[Server] + 1 /\ recvSeq'[Server] = recvSeq[Server] + 0
      BY PeerOf DEF SendServerCertificate13, SendProtected, Send, keys13, data13, TypeOK,
         SeqsOK
    <2> QED
      BY <1>2, <2>1, <2>2, Goes13, PeerOf, SidesAssumption DEF At13
  <1> QED
    BY <1>0, <1>1, <1>4, <1>5, <1>6, <1>7, <1>8, Says13, PeerOf

LEMMA RecvCertificateVerify13Script ==
  ASSUME TypeOK, Script13, RecvCertificateVerify13
  PROVE  Script13'
  <1>0. PICK v \in BOOLEAN : v = client_verify
    BY VerifyType
  <1>1. PICK w \in BOOLEAN : w = Answers
    BY VerifyType
  <1>2. At13(Server, "recv_cert_verify", v, w) /\ pc[Server] = "recv_cert_verify"
    BY <1>0, <1>1, PeerOf DEF Script13, At, RecvCertificateVerify13, RecvProtected, Recv
  <1>3. w
    BY <1>0, <1>1, <1>2 DEF At13, Step13, Verifying13, Answering13, Answers
  <1>4. First(Server) = ClientProof13(v, w)
    <2>1. Incoming(Server)
      BY DEF RecvCertificateVerify13, RecvProtected, Recv
    <2> QED
      BY <1>0, <1>1, <1>2, <2>1, ServerHears13, <1>3
  <1>5. KeepsKeys13(Client) /\ UNCHANGED <<sent, got>>
    BY PeerOf, SidesAssumption DEF RecvCertificateVerify13, RecvProtected, Recv, Restart,
       KeepsKeys13, TypeOK, KeysOK, SeqsOK, keys13, data13
  <1>6. Reads13(v, w, Server, "recv_cert_verify", "recv_client_finished")
    <2>1. Step13(Server, "recv_client_finished", v, w)
      BY <1>0, <1>1, <1>2, SidesAssumption, <1>3 DEF Step13, ClientPath13, ServerPath13,
         Asking13, Verifying13, Answering13, At13, Answers
    <2>2. /\ SentAt13(v, w, Server, "recv_client_finished") = SentAt13(v, w, Server, "recv_cert_verify")
         /\ ReadAt13(v, w, Server, "recv_client_finished") = ReadAt13(v, w, Server, "recv_cert_verify") + 1
      BY SidesAssumption, <1>3 DEF SentAt13, ReadAt13
    <2> QED
      BY <2>1, <2>2 DEF Reads13
  <1>7. Hashes13(v, w, "recv_cert_verify", "recv_client_finished", ClientProof13(v, w))
    BY <1>3 DEF Hashes13, HashedAt13, Tape9
  <1>8. /\ At(Server, "recv_cert_verify") /\ Take(Server) /\ Incoming(Server)
       /\ Hash(Server, ClientProof13(v, w)) /\ Goto(Server, "recv_client_finished")
    BY <1>0, <1>1, <1>2, <1>3, <1>4 DEF RecvCertificateVerify13, RecvProtected, Recv
  <1>9. Keys13(Server, "recv_client_finished", v, w)'
    <2>1. Counts13(v, w, Server, "recv_cert_verify", "recv_client_finished", 0, 1)
      BY SidesAssumption, <1>3 DEF Counts13, Number13, SentAt13, ReadAt13, Unkeyed13,
         Shared13, Derived13, Asking13, ClientPath13, ServerPath13
    <2>2. /\ UNCHANGED <<config, share, secret, appSecret, sent, got>>
         /\ sendSeq'[Server] = sendSeq[Server] + 0 /\ recvSeq'[Server] = recvSeq[Server] + 1
      BY PeerOf DEF RecvCertificateVerify13, RecvProtected, Recv, keys13, data13, TypeOK,
         SeqsOK
    <2> QED
      BY <1>2, <2>1, <2>2, Goes13, PeerOf, SidesAssumption DEF At13
  <1> QED
    BY <1>0, <1>1, <1>5, <1>6, <1>7, <1>8, <1>9, Gets13, PeerOf

\* A signature that does not fail.
LEMMA Signs13 ==
  ASSUME TypeOK, faults' = faults, NEW s, NEW step, NEW next, SendSignature(s, step, next)
  PROVE  /\ SendProtected(s, step, Signed(s, "certificate_verify"), next)
         /\ UNCHANGED <<keys13, data13>>
  <1>1. ~SignatureFails
    BY DEF SignatureFails, TypeOK, OtherOK
  <1> QED
    BY <1>1 DEF SendSignature

\* A step that changes the keys.
LEMMA Rekeys13 ==
  ASSUME TypeOK, NEW v \in BOOLEAN, NEW w \in BOOLEAN, NEW s \in Side, NEW step, NEW next,
         Keys13(s, step, v, w), step # "established", UNCHANGED <<config, sent, got>>,
         next \in Shared13 => share'[s] = IF s = Client THEN "s" ELSE "c",
         next \notin Unkeyed13 =>
             secret'[s] = IF next = "established" THEN Application13(v) ELSE Handshake13,
         next \in Derived13 => appSecret'[s] = Application13(v),
         sendSeq'[s] = Number13(next, SentAt13(v, w, s, next)),
         recvSeq'[s] = Number13(next, ReadAt13(v, w, s, next)),
         s = Client => clientCerts' = IF next \in Asking13 THEN config.clientCert # "none" ELSE w
  PROVE  Keys13(s, next, v, w)'
  <1>1. PICK x \in Nat : x = Number13(next, SentAt13(v, w, s, next))
    BY NumberType13
  <1>2. PICK y \in Nat : y = Number13(next, ReadAt13(v, w, s, next))
    BY NumberType13
  <1>3. sent'[s] = 0 /\ got'[s] = <<>> /\ Len(got'[s]) = 0
    BY DEF Keys13
  <1>4. /\ sendSeq'[s] = Number13(next, SentAt13(v, w, s, next)) + sent'[s]
        /\ recvSeq'[s] = Number13(next, ReadAt13(v, w, s, next)) + Len(got'[s])
    BY <1>1, <1>2, <1>3
  <1> QED
    BY <1>3, <1>4 DEF Keys13

LEMMA ReadsServerCertificate13 ==
  ASSUME RecvServerCertificate13, NEW step, pc[Client] = step
  PROVE  /\ RecvProtected(Client, step, "recv_server_cert_verify") /\ ServerCertOK13
         /\ clientCerts' = (clientCerts /\ step = "recv_server_cert")
         /\ UNCHANGED <<share, secret, appSecret, data13>>
  <1>1. PICK x \in {"recv_cert_request_or_cert", "recv_server_cert"} :
           /\ RecvProtected(Client, x, "recv_server_cert_verify")
           /\ clientCerts' = (clientCerts /\ x = "recv_server_cert")
    BY DEF RecvServerCertificate13
  <1>2. x = step
    BY <1>1 DEF RecvProtected, Recv, At
  <1> QED
    BY <1>1, <1>2 DEF RecvServerCertificate13

LEMMA RecvServerHello13Script ==
  ASSUME TypeOK, Script13, RecvServerHello13
  PROVE  Script13'
  <1>0. PICK v \in BOOLEAN : v = client_verify
    BY VerifyType
  <1>1. PICK w \in BOOLEAN : w = Answers
    BY VerifyType
  <1>2. At13(Client, "recv_server_hello", v, w) /\ pc[Client] = "recv_server_hello"
    BY <1>0, <1>1, PeerOf DEF Script13, At, RecvServerHello13, Recv
  <1>3. First(Client) = Reply13
    <2>1. Incoming(Client)
      BY DEF RecvServerHello13, Recv
    <2> QED
      BY <1>0, <1>1, <1>2, <2>1, ClientHears13
  <1>4. KeepsKeys13(Server) /\ UNCHANGED <<sent, got>>
    BY PeerOf, SidesAssumption DEF RecvServerHello13, Recv, Restart, KeepsKeys13, TypeOK,
       KeysOK, SeqsOK, keys13, data13
  <1>5. Reads13(v, w, Client, "recv_server_hello", "recv_encrypted_exts")
    <2>1. Step13(Client, "recv_encrypted_exts", v, w)
      BY <1>0, <1>1, <1>2, SidesAssumption DEF Step13, ClientPath13, ServerPath13,
         Asking13, Verifying13, Answering13, At13, Answers
    <2>2. /\ SentAt13(v, w, Client, "recv_encrypted_exts") = SentAt13(v, w, Client, "recv_server_hello")
         /\ ReadAt13(v, w, Client, "recv_encrypted_exts") = ReadAt13(v, w, Client, "recv_server_hello") + 1
      BY SidesAssumption DEF SentAt13, ReadAt13
    <2> QED
      BY <2>1, <2>2 DEF Reads13
  <1>6. Hashes13(v, w, "recv_server_hello", "recv_encrypted_exts", Reply13)
    BY DEF Hashes13, HashedAt13, Tape2
  <1>7. /\ At(Client, "recv_server_hello") /\ Take(Client) /\ Incoming(Client)
       /\ Hash(Client, Reply13) /\ Goto(Client, "recv_encrypted_exts")
    BY <1>0, <1>1, <1>2, <1>3 DEF RecvServerHello13, Recv
  <1>8. Keys13(Client, "recv_encrypted_exts", v, w)'
    <2>1. Keys13(Client, "recv_server_hello", v, w) /\ UNCHANGED <<config, sent, got>>
      BY <1>2, <1>4 DEF At13, KeepsKeys13
    <2>2. "recv_encrypted_exts" \in Shared13 => share'[Client] = IF Client = Client THEN "s" ELSE "c"
      BY <2>1, <1>3, Fields13, PeerOf DEF RecvServerHello13, Recv, Keys13, TypeOK, KeysOK,
         Shared13, Unkeyed13, ClientPath13, ServerPath13, Asking13
    <2>3. "recv_encrypted_exts" \notin Unkeyed13 =>
           secret'[Client] = IF "recv_encrypted_exts" = "established" THEN Application13(v) ELSE Handshake13
      <3>1. transcript[Client] = Tape1
        BY <1>2 DEF At13, HashedAt13
      <3>2. secret'[Client] = HandshakeSecret(<<"c", "s">>, Append(Tape1, Reply13))
        BY <3>1, <1>3, Fields13, PeerOf DEF RecvServerHello13, TypeOK, KeysOK
      <3> QED
        BY <3>2 DEF Handshake13
    <2>4. "recv_encrypted_exts" \in Derived13 => appSecret'[Client] = Application13(v)
      BY <2>1, <1>3 DEF RecvServerHello13, Recv, Keys13, TypeOK, KeysOK, Derived13
    <2>5. sendSeq'[Client] = Number13("recv_encrypted_exts", SentAt13(v, w, Client, "recv_encrypted_exts"))
      BY SidesAssumption, PeerOf DEF RecvServerHello13, Recv, Restart, TypeOK, SeqsOK,
         Number13, SentAt13
    <2>6. recvSeq'[Client] = Number13("recv_encrypted_exts", ReadAt13(v, w, Client, "recv_encrypted_exts"))
      BY SidesAssumption, PeerOf DEF RecvServerHello13, Recv, Restart, TypeOK, SeqsOK,
         Number13, ReadAt13
    <2>7. clientCerts' = IF "recv_encrypted_exts" \in Asking13 THEN config.clientCert # "none" ELSE w
      BY <2>1, <1>0, <1>1, <1>2, <1>3 DEF RecvServerHello13, Recv, keys13, Keys13,
         Asking13, Answers
    <2> QED
      BY <2>1, <2>2, <2>3, <2>4, <2>5, <2>6, <2>7, Rekeys13, PeerOf, SidesAssumption
  <1> QED
    BY <1>0, <1>1, <1>4, <1>5, <1>6, <1>7, <1>8, Gets13, PeerOf

LEMMA RecvCertificateRequest13Script ==
  ASSUME TypeOK, Script13, RecvCertificateRequest13
  PROVE  Script13'
  <1>0. PICK v \in BOOLEAN : v = client_verify
    BY VerifyType
  <1>1. PICK w \in BOOLEAN : w = Answers
    BY VerifyType
  <1>2. At13(Client, "recv_cert_request_or_cert", v, w) /\ pc[Client] = "recv_cert_request_or_cert"
    BY <1>0, <1>1, PeerOf DEF Script13, At, RecvCertificateRequest13, RecvProtected, Recv
  <1>3. v
    <2>1. First(Client) = (IF v THEN Request13 ELSE ServerCert13(v))
      BY <1>0, <1>1, <1>2, ClientHears13 DEF RecvCertificateRequest13, RecvProtected, Recv
    <2>2. First(Client).type = "certificate_request"
      BY DEF RecvCertificateRequest13, IsHandshake, IsHandshake
    <2>3. ServerCert13(v).type = "certificate"
      BY Plain13Fields, Sealed13Fields DEF ServerCert13, Request13, ClientEnd13, Cert, Request
    <2> QED
      BY <2>1, <2>2, <2>3
  <1>4. First(Client) = Request13
    <2>1. Incoming(Client)
      BY DEF RecvCertificateRequest13, RecvProtected, Recv
    <2> QED
      BY <1>0, <1>1, <1>2, <2>1, ClientHears13, <1>3
  <1>5. KeepsKeys13(Server) /\ UNCHANGED <<sent, got>>
    BY PeerOf, SidesAssumption DEF RecvCertificateRequest13, RecvProtected, Recv, Restart,
       KeepsKeys13, TypeOK, KeysOK, SeqsOK, keys13, data13
  <1>6. Reads13(v, w, Client, "recv_cert_request_or_cert", "recv_server_cert")
    <2>1. Step13(Client, "recv_server_cert", v, w)
      BY <1>0, <1>1, <1>2, SidesAssumption, <1>3 DEF Step13, ClientPath13, ServerPath13,
         Asking13, Verifying13, Answering13, At13, Answers
    <2>2. /\ SentAt13(v, w, Client, "recv_server_cert") = SentAt13(v, w, Client, "recv_cert_request_or_cert")
         /\ ReadAt13(v, w, Client, "recv_server_cert") = ReadAt13(v, w, Client, "recv_cert_request_or_cert") + 1
      BY SidesAssumption, <1>3 DEF SentAt13, ReadAt13
    <2> QED
      BY <2>1, <2>2 DEF Reads13
  <1>7. Hashes13(v, w, "recv_cert_request_or_cert", "recv_server_cert", Request13)
    BY <1>3 DEF Hashes13, HashedAt13, Tape4
  <1>8. /\ At(Client, "recv_cert_request_or_cert") /\ Take(Client) /\ Incoming(Client)
       /\ Hash(Client, Request13) /\ Goto(Client, "recv_server_cert")
    BY <1>0, <1>1, <1>2, <1>3, <1>4 DEF RecvCertificateRequest13, RecvProtected, Recv
  <1>9. Keys13(Client, "recv_server_cert", v, w)'
    <2>1. Counts13(v, w, Client, "recv_cert_request_or_cert", "recv_server_cert", 0, 1)
      BY SidesAssumption, <1>3 DEF Counts13, Number13, SentAt13, ReadAt13, Unkeyed13,
         Shared13, Derived13, Asking13, ClientPath13, ServerPath13
    <2>2. /\ UNCHANGED <<config, share, secret, appSecret, sent, got>>
         /\ sendSeq'[Client] = sendSeq[Client] + 0 /\ recvSeq'[Client] = recvSeq[Client] + 1
      BY PeerOf DEF RecvCertificateRequest13, RecvProtected, Recv, keys13, data13, TypeOK,
         SeqsOK
    <2>3. clientCerts' = IF "recv_server_cert" \in Asking13 THEN config.clientCert # "none" ELSE w
      BY <1>0, <1>1, <1>2, <1>3, <1>4 DEF RecvCertificateRequest13, RecvProtected, Recv,
         keys13, At13, Keys13, Asking13, Answers, TypeOK, KeysOK
    <2> QED
      BY <1>2, <2>1, <2>2, <2>3, Goes13, PeerOf, SidesAssumption DEF At13
  <1> QED
    BY <1>0, <1>1, <1>5, <1>6, <1>7, <1>8, <1>9, Gets13, PeerOf

LEMMA RecvServerCertificateAtOnce13Script ==
  ASSUME TypeOK, Script13, RecvServerCertificate13, pc[Client] = "recv_cert_request_or_cert"
  PROVE  Script13'
  <1>0. PICK v \in BOOLEAN : v = client_verify
    BY VerifyType
  <1>1. PICK w \in BOOLEAN : w = Answers
    BY VerifyType
  <1>2. /\ RecvProtected(Client, "recv_cert_request_or_cert", "recv_server_cert_verify") /\ ServerCertOK13
        /\ clientCerts' = (clientCerts /\ "recv_cert_request_or_cert" = "recv_server_cert")
        /\ UNCHANGED <<share, secret, appSecret, data13>>
    BY ReadsServerCertificate13
  <1>3. At13(Client, "recv_cert_request_or_cert", v, w) /\ pc[Client] = "recv_cert_request_or_cert"
    BY <1>0, <1>1, PeerOf, <1>2 DEF Script13, At, RecvProtected, Recv
  <1>4. ~v
    <2>1. First(Client) = (IF v THEN Request13 ELSE ServerCert13(v))
      BY <1>0, <1>1, <1>2, <1>3, ClientHears13 DEF RecvProtected, Recv
    <2>2. First(Client).type = "certificate"
      BY <1>2 DEF IsHandshake, ServerCertOK13
    <2>3. Request13.type = "certificate_request"
      BY Plain13Fields, Sealed13Fields DEF ServerCert13, Request13, ClientEnd13, Cert, Request
    <2> QED
      BY <2>1, <2>2, <2>3
  <1>5. First(Client) = ServerCert13(v)
    <2>1. Incoming(Client)
      BY <1>2 DEF RecvProtected, Recv
    <2> QED
      BY <1>0, <1>1, <1>3, <2>1, ClientHears13, <1>4
  <1>6. KeepsKeys13(Server) /\ UNCHANGED <<sent, got>>
    BY <1>2, PeerOf, SidesAssumption DEF RecvProtected, Recv, Restart, KeepsKeys13, TypeOK,
       KeysOK, SeqsOK, keys13, data13
  <1>7. Reads13(v, w, Client, "recv_cert_request_or_cert", "recv_server_cert_verify")
    <2>1. Step13(Client, "recv_server_cert_verify", v, w)
      BY <1>0, <1>1, <1>3, SidesAssumption, <1>4 DEF Step13, ClientPath13, ServerPath13,
         Asking13, Verifying13, Answering13, At13, Answers
    <2>2. /\ SentAt13(v, w, Client, "recv_server_cert_verify") = SentAt13(v, w, Client, "recv_cert_request_or_cert")
         /\ ReadAt13(v, w, Client, "recv_server_cert_verify") = ReadAt13(v, w, Client, "recv_cert_request_or_cert") + 1
      BY SidesAssumption, <1>4 DEF SentAt13, ReadAt13
    <2> QED
      BY <2>1, <2>2 DEF Reads13
  <1>8. Hashes13(v, w, "recv_cert_request_or_cert", "recv_server_cert_verify", ServerCert13(v))
    BY <1>4 DEF Hashes13, HashedAt13, Tape4, Tape5
  <1>9. /\ At(Client, "recv_cert_request_or_cert") /\ Take(Client) /\ Incoming(Client)
       /\ Hash(Client, ServerCert13(v)) /\ Goto(Client, "recv_server_cert_verify")
    BY <1>0, <1>1, <1>3, <1>2, <1>4, <1>5 DEF RecvProtected, Recv
  <1>10. Keys13(Client, "recv_server_cert_verify", v, w)'
    <2>1. Counts13(v, w, Client, "recv_cert_request_or_cert", "recv_server_cert_verify", 0, 1)
      BY SidesAssumption, <1>4 DEF Counts13, Number13, SentAt13, ReadAt13, Unkeyed13,
         Shared13, Derived13, Asking13, ClientPath13, ServerPath13
    <2>2. /\ UNCHANGED <<config, share, secret, appSecret, sent, got>>
         /\ sendSeq'[Client] = sendSeq[Client] + 0 /\ recvSeq'[Client] = recvSeq[Client] + 1
      BY <1>2, PeerOf DEF RecvProtected, Recv, keys13, data13, TypeOK, SeqsOK
    <2>3. clientCerts' = IF "recv_server_cert_verify" \in Asking13 THEN config.clientCert # "none" ELSE w
      BY <1>0, <1>1, <1>3, <1>2, <1>4, <1>5 DEF RecvProtected, Recv, keys13, At13, Keys13,
         Asking13, Answers, TypeOK, KeysOK
    <2> QED
      BY <1>3, <2>1, <2>2, <2>3, Goes13, PeerOf, SidesAssumption DEF At13
  <1> QED
    BY <1>0, <1>1, <1>6, <1>7, <1>8, <1>9, <1>10, Gets13, PeerOf

LEMMA RecvServerCertificateAsked13Script ==
  ASSUME TypeOK, Script13, RecvServerCertificate13, pc[Client] = "recv_server_cert"
  PROVE  Script13'
  <1>0. PICK v \in BOOLEAN : v = client_verify
    BY VerifyType
  <1>1. PICK w \in BOOLEAN : w = Answers
    BY VerifyType
  <1>2. /\ RecvProtected(Client, "recv_server_cert", "recv_server_cert_verify") /\ ServerCertOK13
        /\ clientCerts' = (clientCerts /\ "recv_server_cert" = "recv_server_cert")
        /\ UNCHANGED <<share, secret, appSecret, data13>>
    BY ReadsServerCertificate13
  <1>3. At13(Client, "recv_server_cert", v, w) /\ pc[Client] = "recv_server_cert"
    BY <1>0, <1>1, PeerOf, <1>2 DEF Script13, At, RecvProtected, Recv
  <1>4. v
    BY <1>0, <1>1, <1>3 DEF At13, Step13, Verifying13
  <1>5. First(Client) = ServerCert13(v)
    <2>1. Incoming(Client)
      BY <1>2 DEF RecvProtected, Recv
    <2> QED
      BY <1>0, <1>1, <1>3, <2>1, ClientHears13, <1>4
  <1>6. KeepsKeys13(Server) /\ UNCHANGED <<sent, got>>
    BY <1>2, PeerOf, SidesAssumption DEF RecvProtected, Recv, Restart, KeepsKeys13, TypeOK,
       KeysOK, SeqsOK, keys13, data13
  <1>7. Reads13(v, w, Client, "recv_server_cert", "recv_server_cert_verify")
    <2>1. Step13(Client, "recv_server_cert_verify", v, w)
      BY <1>0, <1>1, <1>3, SidesAssumption, <1>4 DEF Step13, ClientPath13, ServerPath13,
         Asking13, Verifying13, Answering13, At13, Answers
    <2>2. /\ SentAt13(v, w, Client, "recv_server_cert_verify") = SentAt13(v, w, Client, "recv_server_cert")
         /\ ReadAt13(v, w, Client, "recv_server_cert_verify") = ReadAt13(v, w, Client, "recv_server_cert") + 1
      BY SidesAssumption, <1>4 DEF SentAt13, ReadAt13
    <2> QED
      BY <2>1, <2>2 DEF Reads13
  <1>8. Hashes13(v, w, "recv_server_cert", "recv_server_cert_verify", ServerCert13(v))
    BY <1>4 DEF Hashes13, HashedAt13, Tape5
  <1>9. /\ At(Client, "recv_server_cert") /\ Take(Client) /\ Incoming(Client)
       /\ Hash(Client, ServerCert13(v)) /\ Goto(Client, "recv_server_cert_verify")
    BY <1>0, <1>1, <1>3, <1>2, <1>4, <1>5 DEF RecvProtected, Recv
  <1>10. Keys13(Client, "recv_server_cert_verify", v, w)'
    <2>1. Counts13(v, w, Client, "recv_server_cert", "recv_server_cert_verify", 0, 1)
      BY SidesAssumption, <1>4 DEF Counts13, Number13, SentAt13, ReadAt13, Unkeyed13,
         Shared13, Derived13, Asking13, ClientPath13, ServerPath13
    <2>2. /\ UNCHANGED <<config, share, secret, appSecret, sent, got>>
         /\ sendSeq'[Client] = sendSeq[Client] + 0 /\ recvSeq'[Client] = recvSeq[Client] + 1
      BY <1>2, PeerOf DEF RecvProtected, Recv, keys13, data13, TypeOK, SeqsOK
    <2>3. clientCerts' = IF "recv_server_cert_verify" \in Asking13 THEN config.clientCert # "none" ELSE w
      BY <1>0, <1>1, <1>3, <1>2, <1>4, <1>5 DEF RecvProtected, Recv, keys13, At13, Keys13,
         Asking13, Answers, TypeOK, KeysOK
    <2> QED
      BY <1>3, <2>1, <2>2, <2>3, Goes13, PeerOf, SidesAssumption DEF At13
  <1> QED
    BY <1>0, <1>1, <1>6, <1>7, <1>8, <1>9, <1>10, Gets13, PeerOf

LEMMA RecvServerFinished13Script ==
  ASSUME TypeOK, Script13, RecvServerFinished13
  PROVE  Script13'
  <1>0. PICK v \in BOOLEAN : v = client_verify
    BY VerifyType
  <1>1. PICK w \in BOOLEAN : w = Answers
    BY VerifyType
  <1>2. At13(Client, "recv_server_finished", v, w) /\ pc[Client] = "recv_server_finished"
    BY <1>0, <1>1, PeerOf DEF Script13, At, RecvServerFinished13, RecvProtected, Recv
  <1>3. First(Client) = ServerEnd13(v)
    <2>1. Incoming(Client)
      BY DEF RecvServerFinished13, RecvProtected, Recv
    <2> QED
      BY <1>0, <1>1, <1>2, <2>1, ClientHears13
  <1>4. KeepsKeys13(Server) /\ UNCHANGED <<sent, got>>
    BY PeerOf, SidesAssumption DEF RecvServerFinished13, RecvProtected, Recv, Restart,
       KeepsKeys13, TypeOK, KeysOK, SeqsOK, keys13, data13
  <1>5. CASE w
    <2>1. Reads13(v, w, Client, "recv_server_finished", "send_client_cert")
      <3>1. Step13(Client, "send_client_cert", v, w)
        BY <1>0, <1>1, <1>2, SidesAssumption, <1>5 DEF Step13, ClientPath13, ServerPath13,
           Asking13, Verifying13, Answering13, At13, Answers
      <3>2. /\ SentAt13(v, w, Client, "send_client_cert") = SentAt13(v, w, Client, "recv_server_finished")
           /\ ReadAt13(v, w, Client, "send_client_cert") = ReadAt13(v, w, Client, "recv_server_finished") + 1
        BY SidesAssumption, <1>5 DEF SentAt13, ReadAt13
      <3> QED
        BY <3>1, <3>2 DEF Reads13
    <2>2. Hashes13(v, w, "recv_server_finished", "send_client_cert", ServerEnd13(v))
      BY <1>5 DEF Hashes13, HashedAt13, Tape7, Tape8, Tape9
    <2>3. /\ At(Client, "recv_server_finished") /\ Take(Client) /\ Incoming(Client)
         /\ Hash(Client, ServerEnd13(v)) /\ Goto(Client, "send_client_cert")
      BY <1>0, <1>1, <1>2, <1>3, <1>5 DEF RecvServerFinished13, RecvProtected, Recv, At13,
         Keys13, Asking13
    <2>4. Keys13(Client, "send_client_cert", v, w)'
      <3>1. Keys13(Client, "recv_server_finished", v, w) /\ UNCHANGED <<config, sent, got>>
        BY <1>2, <1>4 DEF At13, KeepsKeys13
      <3>2. "send_client_cert" \in Shared13 => share'[Client] = IF Client = Client THEN "s" ELSE "c"
        BY <3>1, <1>3 DEF RecvServerFinished13, RecvProtected, Recv, Keys13, TypeOK,
           KeysOK, Shared13, Unkeyed13, ClientPath13, ServerPath13, Asking13
      <3>3. "send_client_cert" \notin Unkeyed13 =>
             secret'[Client] = IF "send_client_cert" = "established" THEN Application13(v) ELSE Handshake13
        BY <3>1, <1>3 DEF RecvServerFinished13, RecvProtected, Recv, Keys13, TypeOK,
           KeysOK, Unkeyed13, Derived13
      <3>4. "send_client_cert" \in Derived13 => appSecret'[Client] = Application13(v)
        <4>1. transcript[Client] = Tape6(v)
          BY <1>2 DEF At13, HashedAt13
        <4>2. Ecdh(Client) = <<"c", "s">>
          BY <3>1, SidesAssumption DEF Keys13, Ecdh, Shared13, ClientPath13, ServerPath13, Unkeyed13, Asking13
        <4>3. appSecret' = [appSecret EXCEPT ![Client] = <<"ap", <<"c", "s">>, Append(Tape6(v), Content(ServerEnd13(v)))>>]
          BY <4>1, <4>2, <1>3 DEF RecvServerFinished13, AppSecret
        <4> QED
          BY <4>3, <4>1, PeerOf DEF Application13, Tape7, TypeOK, KeysOK
      <3>5. sendSeq'[Client] = Number13("send_client_cert", SentAt13(v, w, Client, "send_client_cert"))
        <4>1. Number13("send_client_cert", SentAt13(v, w, Client, "send_client_cert")) = Number13("recv_server_finished", SentAt13(v, w, Client, "recv_server_finished")) + 0
          BY SidesAssumption, <1>5 DEF Number13, SentAt13
        <4>2. Number13("recv_server_finished", SentAt13(v, w, Client, "recv_server_finished")) \in Nat
          BY NumberType13
        <4>3. sendSeq[Client] = Number13("recv_server_finished", SentAt13(v, w, Client, "recv_server_finished")) + sent[Client] /\ sent[Client] = 0
          BY <3>1 DEF Keys13
        <4>4. sendSeq'[Client] = sendSeq[Client] + 0
          BY PeerOf DEF RecvServerFinished13, RecvProtected, Recv, TypeOK, SeqsOK
        <4> QED
          BY <4>1, <4>2, <4>3, <4>4
      <3>6. recvSeq'[Client] = Number13("send_client_cert", ReadAt13(v, w, Client, "send_client_cert"))
        <4>1. Number13("send_client_cert", ReadAt13(v, w, Client, "send_client_cert")) = Number13("recv_server_finished", ReadAt13(v, w, Client, "recv_server_finished")) + 1
          BY SidesAssumption, <1>5 DEF Number13, ReadAt13
        <4>2. Number13("recv_server_finished", ReadAt13(v, w, Client, "recv_server_finished")) \in Nat
          BY NumberType13
        <4>3. recvSeq[Client] = Number13("recv_server_finished", ReadAt13(v, w, Client, "recv_server_finished")) + Len(got[Client]) /\ Len(got[Client]) = 0
          BY <3>1 DEF Keys13
        <4>4. recvSeq'[Client] = recvSeq[Client] + 1
          BY PeerOf DEF RecvServerFinished13, RecvProtected, Recv, TypeOK, SeqsOK
        <4> QED
          BY <4>1, <4>2, <4>3, <4>4
      <3>7. clientCerts' = IF "send_client_cert" \in Asking13 THEN config.clientCert # "none" ELSE w
        BY <3>1, <1>0, <1>1, <1>2, <1>3, <1>5 DEF RecvServerFinished13, RecvProtected,
           Recv, keys13, Keys13, Asking13, Answers
      <3> QED
        BY <3>1, <3>2, <3>3, <3>4, <3>5, <3>6, <3>7, Rekeys13, PeerOf, SidesAssumption
    <2> QED
      BY <1>0, <1>1, <1>4, <2>1, <2>2, <2>3, <2>4, Gets13, PeerOf
  <1>6. CASE ~w
    <2>1. Reads13(v, w, Client, "recv_server_finished", "send_client_finished")
      <3>1. Step13(Client, "send_client_finished", v, w)
        BY <1>0, <1>1, <1>2, SidesAssumption, <1>6 DEF Step13, ClientPath13, ServerPath13,
           Asking13, Verifying13, Answering13, At13, Answers
      <3>2. /\ SentAt13(v, w, Client, "send_client_finished") = SentAt13(v, w, Client, "recv_server_finished")
           /\ ReadAt13(v, w, Client, "send_client_finished") = ReadAt13(v, w, Client, "recv_server_finished") + 1
        BY SidesAssumption, <1>6 DEF SentAt13, ReadAt13
      <3> QED
        BY <3>1, <3>2 DEF Reads13
    <2>2. Hashes13(v, w, "recv_server_finished", "send_client_finished", ServerEnd13(v))
      BY <1>6 DEF Hashes13, HashedAt13, Tape7, Tape8, Tape9
    <2>3. /\ At(Client, "recv_server_finished") /\ Take(Client) /\ Incoming(Client)
         /\ Hash(Client, ServerEnd13(v)) /\ Goto(Client, "send_client_finished")
      BY <1>0, <1>1, <1>2, <1>3, <1>6 DEF RecvServerFinished13, RecvProtected, Recv, At13,
         Keys13, Asking13
    <2>4. Keys13(Client, "send_client_finished", v, w)'
      <3>1. Keys13(Client, "recv_server_finished", v, w) /\ UNCHANGED <<config, sent, got>>
        BY <1>2, <1>4 DEF At13, KeepsKeys13
      <3>2. "send_client_finished" \in Shared13 => share'[Client] = IF Client = Client THEN "s" ELSE "c"
        BY <3>1, <1>3 DEF RecvServerFinished13, RecvProtected, Recv, Keys13, TypeOK,
           KeysOK, Shared13, Unkeyed13, ClientPath13, ServerPath13, Asking13
      <3>3. "send_client_finished" \notin Unkeyed13 =>
             secret'[Client] = IF "send_client_finished" = "established" THEN Application13(v) ELSE Handshake13
        BY <3>1, <1>3 DEF RecvServerFinished13, RecvProtected, Recv, Keys13, TypeOK,
           KeysOK, Unkeyed13, Derived13
      <3>4. "send_client_finished" \in Derived13 => appSecret'[Client] = Application13(v)
        <4>1. transcript[Client] = Tape6(v)
          BY <1>2 DEF At13, HashedAt13
        <4>2. Ecdh(Client) = <<"c", "s">>
          BY <3>1, SidesAssumption DEF Keys13, Ecdh, Shared13, ClientPath13, ServerPath13, Unkeyed13, Asking13
        <4>3. appSecret' = [appSecret EXCEPT ![Client] = <<"ap", <<"c", "s">>, Append(Tape6(v), Content(ServerEnd13(v)))>>]
          BY <4>1, <4>2, <1>3 DEF RecvServerFinished13, AppSecret
        <4> QED
          BY <4>3, <4>1, PeerOf DEF Application13, Tape7, TypeOK, KeysOK
      <3>5. sendSeq'[Client] = Number13("send_client_finished", SentAt13(v, w, Client, "send_client_finished"))
        <4>1. Number13("send_client_finished", SentAt13(v, w, Client, "send_client_finished")) = Number13("recv_server_finished", SentAt13(v, w, Client, "recv_server_finished")) + 0
          BY SidesAssumption, <1>6 DEF Number13, SentAt13
        <4>2. Number13("recv_server_finished", SentAt13(v, w, Client, "recv_server_finished")) \in Nat
          BY NumberType13
        <4>3. sendSeq[Client] = Number13("recv_server_finished", SentAt13(v, w, Client, "recv_server_finished")) + sent[Client] /\ sent[Client] = 0
          BY <3>1 DEF Keys13
        <4>4. sendSeq'[Client] = sendSeq[Client] + 0
          BY PeerOf DEF RecvServerFinished13, RecvProtected, Recv, TypeOK, SeqsOK
        <4> QED
          BY <4>1, <4>2, <4>3, <4>4
      <3>6. recvSeq'[Client] = Number13("send_client_finished", ReadAt13(v, w, Client, "send_client_finished"))
        <4>1. Number13("send_client_finished", ReadAt13(v, w, Client, "send_client_finished")) = Number13("recv_server_finished", ReadAt13(v, w, Client, "recv_server_finished")) + 1
          BY SidesAssumption, <1>6 DEF Number13, ReadAt13
        <4>2. Number13("recv_server_finished", ReadAt13(v, w, Client, "recv_server_finished")) \in Nat
          BY NumberType13
        <4>3. recvSeq[Client] = Number13("recv_server_finished", ReadAt13(v, w, Client, "recv_server_finished")) + Len(got[Client]) /\ Len(got[Client]) = 0
          BY <3>1 DEF Keys13
        <4>4. recvSeq'[Client] = recvSeq[Client] + 1
          BY PeerOf DEF RecvServerFinished13, RecvProtected, Recv, TypeOK, SeqsOK
        <4> QED
          BY <4>1, <4>2, <4>3, <4>4
      <3>7. clientCerts' = IF "send_client_finished" \in Asking13 THEN config.clientCert # "none" ELSE w
        BY <3>1, <1>0, <1>1, <1>2, <1>3, <1>6 DEF RecvServerFinished13, RecvProtected,
           Recv, keys13, Keys13, Asking13, Answers
      <3> QED
        BY <3>1, <3>2, <3>3, <3>4, <3>5, <3>6, <3>7, Rekeys13, PeerOf, SidesAssumption
    <2> QED
      BY <1>0, <1>1, <1>4, <2>1, <2>2, <2>3, <2>4, Gets13, PeerOf
  <1> QED
    BY <1>5, <1>6

LEMMA SendCertificateVerify13Script ==
  ASSUME TypeOK, Script13, SendCertificateVerify13, faults' = faults
  PROVE  Script13'
  <1>0. PICK v \in BOOLEAN : v = client_verify
    BY VerifyType
  <1>1. PICK w \in BOOLEAN : w = Answers
    BY VerifyType
  <1>2. /\ SendProtected(Client, "send_cert_verify", Signed(Client, "certificate_verify"), "send_client_finished")
        /\ UNCHANGED <<keys13, data13>>
    BY Signs13 DEF SendCertificateVerify13
  <1>3. At13(Client, "send_cert_verify", v, w) /\ pc[Client] = "send_cert_verify"
    BY <1>0, <1>1, PeerOf, <1>2 DEF Script13, At, SendProtected, Send
  <1>4. w
    BY <1>3 DEF At13, Step13, Answering13
  <1>5. Protected(Client, Signed(Client, "certificate_verify")) = ClientProof13(v, w)
    <2>1. secret[Client] = Handshake13 /\ sendSeq[Client] = 1
      <3>1. /\ secret[Client] = Handshake13 /\ sent[Client] = 0
            /\ sendSeq[Client] = Number13("send_cert_verify", SentAt13(v, w, Client, "send_cert_verify")) + sent[Client]
        BY <1>3 DEF At13, Keys13, Unkeyed13
      <3>2. Number13("send_cert_verify", SentAt13(v, w, Client, "send_cert_verify")) = 1
        BY SidesAssumption, <1>4 DEF Number13, SentAt13
      <3> QED
        BY <3>1, <3>2
    <2>2. Protected(Client, Signed(Client, "certificate_verify")) = Sealed13(Signed(Client, "certificate_verify"), 1)
      BY <2>1, Seals13
    <2>3. transcript[Client] = Tape8(v, w)
      BY <1>3, <1>4 DEF At13, HashedAt13
    <2> QED
      BY <2>2, <2>3 DEF Signed, Over, ClientProof13
  <1>6. KeepsKeys13(Server) /\ UNCHANGED <<sent, got>>
    BY <1>2, PeerOf, SidesAssumption DEF SendProtected, Send, Restart, KeepsKeys13, TypeOK,
       KeysOK, SeqsOK, keys13, data13
  <1>7. Sends13(v, w, Client, "send_cert_verify", "send_client_finished", ClientProof13(v, w))
    <2>1. Step13(Client, "send_client_finished", v, w)
      BY <1>0, <1>1, <1>3, SidesAssumption, <1>4 DEF Step13, ClientPath13, ServerPath13,
         Asking13, Verifying13, Answering13, At13, Answers
    <2>2. /\ SentAt13(v, w, Client, "send_client_finished") = SentAt13(v, w, Client, "send_cert_verify") + 1
         /\ ReadAt13(v, w, Client, "send_client_finished") = ReadAt13(v, w, Client, "send_cert_verify")
      BY SidesAssumption, <1>4 DEF SentAt13, ReadAt13
    <2>3. ClientProof13(v, w) = Flow13(v, w, Client)[SentAt13(v, w, Client, "send_cert_verify") + 1]
      <3>1. SentAt13(v, w, Client, "send_cert_verify") + 1 = 3
        BY SidesAssumption DEF SentAt13
      <3> QED
        BY <3>1, ClientFlow13, <1>0, <1>1, <1>3, <1>4, Zenon
    <2> QED
      BY <2>1, <2>2, <2>3 DEF Sends13
  <1>8. Hashes13(v, w, "send_cert_verify", "send_client_finished", ClientProof13(v, w))
    BY <1>4 DEF Hashes13, HashedAt13, Tape9
  <1>9. /\ At(Client, "send_cert_verify") /\ Emit(Client, ClientProof13(v, w))
       /\ Hash(Client, ClientProof13(v, w)) /\ Goto(Client, "send_client_finished")
    BY <1>0, <1>1, <1>3, <1>2, <1>4, <1>5 DEF SendProtected, Send
  <1>10. Keys13(Client, "send_client_finished", v, w)'
    <2>1. Counts13(v, w, Client, "send_cert_verify", "send_client_finished", 1, 0)
      BY SidesAssumption, <1>4 DEF Counts13, Number13, SentAt13, ReadAt13, Unkeyed13,
         Shared13, Derived13, Asking13, ClientPath13, ServerPath13
    <2>2. /\ UNCHANGED <<config, share, secret, appSecret, sent, got>>
         /\ sendSeq'[Client] = sendSeq[Client] + 1 /\ recvSeq'[Client] = recvSeq[Client] + 0
      BY <1>2, PeerOf DEF SendProtected, Send, keys13, data13, TypeOK, SeqsOK
    <2>3. clientCerts' = IF "send_client_finished" \in Asking13 THEN config.clientCert # "none" ELSE w
      BY <1>0, <1>1, <1>3, <1>2, <1>4, <1>5 DEF SendProtected, Send, keys13, At13, Keys13,
         Asking13, Answers, TypeOK, KeysOK
    <2> QED
      BY <1>3, <2>1, <2>2, <2>3, Goes13, PeerOf, SidesAssumption DEF At13
  <1> QED
    BY <1>0, <1>1, <1>6, <1>7, <1>8, <1>9, <1>10, Says13, PeerOf

LEMMA SendServerCertificateVerify13Script ==
  ASSUME TypeOK, Script13, SendServerCertificateVerify13, faults' = faults
  PROVE  Script13'
  <1>0. PICK v \in BOOLEAN : v = client_verify
    BY VerifyType
  <1>1. PICK w \in BOOLEAN : w = Answers
    BY VerifyType
  <1>2. /\ SendProtected(Server, "send_server_cert_verify", Signed(Server, "certificate_verify"), "send_server_finished")
        /\ UNCHANGED <<keys13, data13>>
    BY Signs13 DEF SendServerCertificateVerify13
  <1>3. At13(Server, "send_server_cert_verify", v, w) /\ pc[Server] = "send_server_cert_verify"
    BY <1>0, <1>1, PeerOf, <1>2 DEF Script13, At, SendProtected, Send
  <1>4. Protected(Server, Signed(Server, "certificate_verify")) = ServerProof13(v)
    <2>1. secret[Server] = Handshake13 /\ sendSeq[Server] = (IF v THEN 3 ELSE 2)
      <3>1. /\ secret[Server] = Handshake13 /\ sent[Server] = 0
            /\ sendSeq[Server] = Number13("send_server_cert_verify", SentAt13(v, w, Server, "send_server_cert_verify")) + sent[Server]
        BY <1>3 DEF At13, Keys13, Unkeyed13
      <3>2. Number13("send_server_cert_verify", SentAt13(v, w, Server, "send_server_cert_verify")) = (IF v THEN 3 ELSE 2)
        BY SidesAssumption DEF Number13, SentAt13
      <3> QED
        BY <3>1, <3>2
    <2>2. Protected(Server, Signed(Server, "certificate_verify")) = Sealed13(Signed(Server, "certificate_verify"), (IF v THEN 3 ELSE 2))
      BY <2>1, Seals13
    <2>3. transcript[Server] = Tape5(v)
      BY <1>3 DEF At13, HashedAt13
    <2> QED
      BY <2>2, <2>3 DEF Signed, Over, ServerProof13
  <1>5. KeepsKeys13(Client) /\ UNCHANGED <<sent, got>>
    BY <1>2, PeerOf, SidesAssumption DEF SendProtected, Send, Restart, KeepsKeys13, TypeOK,
       KeysOK, SeqsOK, keys13, data13
  <1>6. Sends13(v, w, Server, "send_server_cert_verify", "send_server_finished", ServerProof13(v))
    <2>1. Step13(Server, "send_server_finished", v, w)
      BY <1>0, <1>1, <1>3, SidesAssumption DEF Step13, ClientPath13, ServerPath13,
         Asking13, Verifying13, Answering13, At13, Answers
    <2>2. /\ SentAt13(v, w, Server, "send_server_finished") = SentAt13(v, w, Server, "send_server_cert_verify") + 1
         /\ ReadAt13(v, w, Server, "send_server_finished") = ReadAt13(v, w, Server, "send_server_cert_verify")
      BY SidesAssumption DEF SentAt13, ReadAt13
    <2>3. ServerProof13(v) = Flow13(v, w, Server)[SentAt13(v, w, Server, "send_server_cert_verify") + 1]
      <3>1. v => SentAt13(v, w, Server, "send_server_cert_verify") + 1 = 5
        BY SidesAssumption DEF SentAt13
      <3>2. ~v => SentAt13(v, w, Server, "send_server_cert_verify") + 1 = 4
        BY SidesAssumption DEF SentAt13
      <3> QED
        BY <3>1, <3>2, ServerFlow13, Zenon
    <2> QED
      BY <2>1, <2>2, <2>3 DEF Sends13
  <1>7. Hashes13(v, w, "send_server_cert_verify", "send_server_finished", ServerProof13(v))
    BY DEF Hashes13, HashedAt13, Tape6
  <1>8. /\ At(Server, "send_server_cert_verify") /\ Emit(Server, ServerProof13(v))
       /\ Hash(Server, ServerProof13(v)) /\ Goto(Server, "send_server_finished")
    BY <1>0, <1>1, <1>3, <1>2, <1>4 DEF SendProtected, Send
  <1>9. Keys13(Server, "send_server_finished", v, w)'
    <2>1. Counts13(v, w, Server, "send_server_cert_verify", "send_server_finished", 1, 0)
      BY SidesAssumption DEF Counts13, Number13, SentAt13, ReadAt13, Unkeyed13, Shared13,
         Derived13, Asking13, ClientPath13, ServerPath13
    <2>2. /\ UNCHANGED <<config, share, secret, appSecret, sent, got>>
         /\ sendSeq'[Server] = sendSeq[Server] + 1 /\ recvSeq'[Server] = recvSeq[Server] + 0
      BY <1>2, PeerOf DEF SendProtected, Send, keys13, data13, TypeOK, SeqsOK
    <2> QED
      BY <1>3, <2>1, <2>2, Goes13, PeerOf, SidesAssumption DEF At13
  <1> QED
    BY <1>0, <1>1, <1>5, <1>6, <1>7, <1>8, <1>9, Says13, PeerOf

LEMMA SendClientFinished13Script ==
  ASSUME TypeOK, Script13, SendClientFinished13
  PROVE  Script13'
  <1>0. PICK v \in BOOLEAN : v = client_verify
    BY VerifyType
  <1>1. PICK w \in BOOLEAN : w = Answers
    BY VerifyType
  <1>2. At13(Client, "send_client_finished", v, w) /\ pc[Client] = "send_client_finished"
    BY <1>0, <1>1, PeerOf DEF Script13, At, SendClientFinished13, Send
  <1>3. Protected(Client, Signed(Client, "client_finished")) = ClientEnd13(v, w)
    <2>1. secret[Client] = Handshake13 /\ sendSeq[Client] = (IF w THEN 2 ELSE 0)
      <3>1. /\ secret[Client] = Handshake13 /\ sent[Client] = 0
            /\ sendSeq[Client] = Number13("send_client_finished", SentAt13(v, w, Client, "send_client_finished")) + sent[Client]
        BY <1>2 DEF At13, Keys13, Unkeyed13
      <3>2. Number13("send_client_finished", SentAt13(v, w, Client, "send_client_finished")) = (IF w THEN 2 ELSE 0)
        BY SidesAssumption DEF Number13, SentAt13
      <3> QED
        BY <3>1, <3>2
    <2>2. Protected(Client, Signed(Client, "client_finished")) = Sealed13(Signed(Client, "client_finished"), (IF w THEN 2 ELSE 0))
      BY <2>1, Seals13
    <2>3. transcript[Client] = Tape9(v, w)
      BY <1>2 DEF At13, HashedAt13
    <2> QED
      BY <2>2, <2>3 DEF Signed, Over, ClientEnd13
  <1>4. KeepsKeys13(Server) /\ UNCHANGED <<sent, got>>
    BY PeerOf, SidesAssumption DEF SendClientFinished13, Send, Restart, KeepsKeys13,
       TypeOK, KeysOK, SeqsOK, keys13, data13
  <1>5. Sends13(v, w, Client, "send_client_finished", "established", ClientEnd13(v, w))
    <2>1. Step13(Client, "established", v, w)
      BY <1>0, <1>1, <1>2, SidesAssumption DEF Step13, ClientPath13, ServerPath13,
         Asking13, Verifying13, Answering13, At13, Answers
    <2>2. /\ SentAt13(v, w, Client, "established") = SentAt13(v, w, Client, "send_client_finished") + 1
         /\ ReadAt13(v, w, Client, "established") = ReadAt13(v, w, Client, "send_client_finished")
      BY SidesAssumption DEF SentAt13, ReadAt13
    <2>3. ClientEnd13(v, w) = Flow13(v, w, Client)[SentAt13(v, w, Client, "send_client_finished") + 1]
      <3>1. w => SentAt13(v, w, Client, "send_client_finished") + 1 = 4
        BY SidesAssumption DEF SentAt13
      <3>2. ~w => SentAt13(v, w, Client, "send_client_finished") + 1 = 2
        BY SidesAssumption DEF SentAt13
      <3> QED
        BY <3>1, <3>2, ClientFlow13, Zenon
    <2> QED
      BY <2>1, <2>2, <2>3 DEF Sends13
  <1>6. Hashes13(v, w, "send_client_finished", "established", ClientEnd13(v, w))
    BY DEF Hashes13, HashedAt13, Tape10
  <1>7. /\ At(Client, "send_client_finished") /\ Emit(Client, ClientEnd13(v, w))
       /\ Hash(Client, ClientEnd13(v, w)) /\ Goto(Client, "established")
    BY <1>0, <1>1, <1>2, <1>3 DEF SendClientFinished13, Send
  <1>8. Keys13(Client, "established", v, w)'
    <2>1. Keys13(Client, "send_client_finished", v, w) /\ UNCHANGED <<config, sent, got>>
      BY <1>2, <1>4 DEF At13, KeepsKeys13
    <2>2. "established" \in Shared13 => share'[Client] = IF Client = Client THEN "s" ELSE "c"
      BY <2>1, <1>3 DEF SendClientFinished13, Send, Keys13, TypeOK, KeysOK, Shared13,
         Unkeyed13, ClientPath13, ServerPath13, Asking13
    <2>3. "established" \notin Unkeyed13 =>
           secret'[Client] = IF "established" = "established" THEN Application13(v) ELSE Handshake13
      BY <2>1, <1>3, PeerOf DEF SendClientFinished13, Send, Keys13, TypeOK, KeysOK,
         Unkeyed13, Derived13
    <2>4. "established" \in Derived13 => appSecret'[Client] = Application13(v)
      BY <2>1, <1>3 DEF SendClientFinished13, Send, Keys13, TypeOK, KeysOK, Derived13
    <2>5. sendSeq'[Client] = Number13("established", SentAt13(v, w, Client, "established"))
      BY SidesAssumption, PeerOf DEF SendClientFinished13, Send, Restart, TypeOK, SeqsOK,
         Number13, SentAt13
    <2>6. recvSeq'[Client] = Number13("established", ReadAt13(v, w, Client, "established"))
      BY SidesAssumption, PeerOf DEF SendClientFinished13, Send, Restart, TypeOK, SeqsOK,
         Number13, ReadAt13
    <2>7. clientCerts' = IF "established" \in Asking13 THEN config.clientCert # "none" ELSE w
      BY <2>1, <1>0, <1>1, <1>2, <1>3 DEF SendClientFinished13, Send, keys13, Keys13,
         Asking13, Answers
    <2> QED
      BY <2>1, <2>2, <2>3, <2>4, <2>5, <2>6, <2>7, Rekeys13, PeerOf, SidesAssumption
  <1> QED
    BY <1>0, <1>1, <1>4, <1>5, <1>6, <1>7, <1>8, Says13, PeerOf

LEMMA RecvClientHello13Script ==
  ASSUME TypeOK, Script13, RecvClientHello13
  PROVE  Script13'
  <1>0. PICK v \in BOOLEAN : v = client_verify
    BY VerifyType
  <1>1. PICK w \in BOOLEAN : w = Answers
    BY VerifyType
  <1>2. At13(Server, "recv_client_hello", v, w) /\ pc[Server] = "recv_client_hello"
    BY <1>0, <1>1, PeerOf DEF Script13, At, RecvClientHello13, RecvPlain, Recv
  <1>3. First(Server) = Hello13
    <2>1. Incoming(Server)
      BY DEF RecvClientHello13, RecvPlain, Recv
    <2> QED
      BY <1>0, <1>1, <1>2, <2>1, ServerHears13
  <1>4. KeepsKeys13(Client) /\ UNCHANGED <<sent, got>>
    BY PeerOf, SidesAssumption DEF RecvClientHello13, RecvPlain, Recv, Restart,
       KeepsKeys13, TypeOK, KeysOK, SeqsOK, keys13, data13
  <1>5. Reads13(v, w, Server, "recv_client_hello", "send_server_hello")
    <2>1. Step13(Server, "send_server_hello", v, w)
      BY <1>0, <1>1, <1>2, SidesAssumption DEF Step13, ClientPath13, ServerPath13,
         Asking13, Verifying13, Answering13, At13, Answers
    <2>2. /\ SentAt13(v, w, Server, "send_server_hello") = SentAt13(v, w, Server, "recv_client_hello")
         /\ ReadAt13(v, w, Server, "send_server_hello") = ReadAt13(v, w, Server, "recv_client_hello") + 1
      BY SidesAssumption DEF SentAt13, ReadAt13
    <2> QED
      BY <2>1, <2>2 DEF Reads13
  <1>6. Hashes13(v, w, "recv_client_hello", "send_server_hello", Hello13)
    BY DEF Hashes13, HashedAt13, Tape1
  <1>7. /\ At(Server, "recv_client_hello") /\ Take(Server) /\ Incoming(Server)
       /\ Hash(Server, Hello13) /\ Goto(Server, "send_server_hello")
    BY <1>0, <1>1, <1>2, <1>3 DEF RecvClientHello13, RecvPlain, Recv
  <1>8. Keys13(Server, "send_server_hello", v, w)'
    <2>1. Keys13(Server, "recv_client_hello", v, w) /\ UNCHANGED <<config, sent, got>>
      BY <1>2, <1>4 DEF At13, KeepsKeys13
    <2>2. "send_server_hello" \in Shared13 => share'[Server] = IF Server = Client THEN "s" ELSE "c"
      BY <2>1, <1>3, Fields13, PeerOf, SidesAssumption DEF RecvClientHello13, RecvPlain,
         Recv, Keys13, TypeOK, KeysOK, Shared13, Unkeyed13, ClientPath13, ServerPath13,
         Asking13
    <2>3. "send_server_hello" \notin Unkeyed13 =>
           secret'[Server] = IF "send_server_hello" = "established" THEN Application13(v) ELSE Handshake13
      BY <2>1, <1>3 DEF RecvClientHello13, RecvPlain, Recv, Keys13, TypeOK, KeysOK,
         Unkeyed13, Derived13
    <2>4. "send_server_hello" \in Derived13 => appSecret'[Server] = Application13(v)
      BY <2>1, <1>3 DEF RecvClientHello13, RecvPlain, Recv, Keys13, TypeOK, KeysOK,
         Derived13
    <2>5. sendSeq'[Server] = Number13("send_server_hello", SentAt13(v, w, Server, "send_server_hello"))
      <3>1. Number13("send_server_hello", SentAt13(v, w, Server, "send_server_hello")) = Number13("recv_client_hello", SentAt13(v, w, Server, "recv_client_hello")) + 0
        BY SidesAssumption DEF Number13, SentAt13
      <3>2. Number13("recv_client_hello", SentAt13(v, w, Server, "recv_client_hello")) \in Nat
        BY NumberType13
      <3>3. sendSeq[Server] = Number13("recv_client_hello", SentAt13(v, w, Server, "recv_client_hello")) + sent[Server] /\ sent[Server] = 0
        BY <2>1 DEF Keys13
      <3>4. sendSeq'[Server] = sendSeq[Server] + 0
        BY PeerOf DEF RecvClientHello13, RecvPlain, Recv, TypeOK, SeqsOK
      <3> QED
        BY <3>1, <3>2, <3>3, <3>4
    <2>6. recvSeq'[Server] = Number13("send_server_hello", ReadAt13(v, w, Server, "send_server_hello"))
      <3>1. Number13("send_server_hello", ReadAt13(v, w, Server, "send_server_hello")) = Number13("recv_client_hello", ReadAt13(v, w, Server, "recv_client_hello")) + 0
        BY SidesAssumption DEF Number13, ReadAt13
      <3>2. Number13("recv_client_hello", ReadAt13(v, w, Server, "recv_client_hello")) \in Nat
        BY NumberType13
      <3>3. recvSeq[Server] = Number13("recv_client_hello", ReadAt13(v, w, Server, "recv_client_hello")) + Len(got[Server]) /\ Len(got[Server]) = 0
        BY <2>1 DEF Keys13
      <3>4. recvSeq'[Server] = recvSeq[Server] + 0
        BY PeerOf DEF RecvClientHello13, RecvPlain, Recv, TypeOK, SeqsOK
      <3> QED
        BY <3>1, <3>2, <3>3, <3>4
    <2> QED
      BY <2>1, <2>2, <2>3, <2>4, <2>5, <2>6, Rekeys13, PeerOf, SidesAssumption
  <1> QED
    BY <1>0, <1>1, <1>4, <1>5, <1>6, <1>7, <1>8, Gets13, PeerOf

LEMMA SendServerHello13Script ==
  ASSUME TypeOK, Script13, SendServerHello13
  PROVE  Script13'
  <1>0. PICK v \in BOOLEAN : v = client_verify
    BY VerifyType
  <1>1. PICK w \in BOOLEAN : w = Answers
    BY VerifyType
  <1>2. At13(Server, "send_server_hello", v, w) /\ pc[Server] = "send_server_hello"
    BY <1>0, <1>1, PeerOf DEF Script13, At, SendServerHello13, Send
  <1>3. ServerHello13 = Reply13 /\ transcript[Server] = Tape1
    <2>1. transcript[Server] = Tape1
      BY <1>2 DEF At13, HashedAt13
    <2>2. Tape1[1] = Content(Hello13)
      BY DEF Tape1
    <2>3. transcript[Server][1].exts \cap AnsweredExts13 = AnsweredExts13
      BY <2>1, <2>2, Fields13 DEF Exts13, AnsweredExts13
    <2> QED
      BY <2>1, <2>3 DEF ServerHello13, Reply13
  <1>4. KeepsKeys13(Client) /\ UNCHANGED <<sent, got>>
    BY PeerOf, SidesAssumption DEF SendServerHello13, Send, Restart, KeepsKeys13, TypeOK,
       KeysOK, SeqsOK, keys13, data13
  <1>5. Sends13(v, w, Server, "send_server_hello", "send_encrypted_exts", Reply13)
    <2>1. Step13(Server, "send_encrypted_exts", v, w)
      BY <1>0, <1>1, <1>2, SidesAssumption, <1>3 DEF Step13, ClientPath13, ServerPath13,
         Asking13, Verifying13, Answering13, At13, Answers
    <2>2. /\ SentAt13(v, w, Server, "send_encrypted_exts") = SentAt13(v, w, Server, "send_server_hello") + 1
         /\ ReadAt13(v, w, Server, "send_encrypted_exts") = ReadAt13(v, w, Server, "send_server_hello")
      BY SidesAssumption, <1>3 DEF SentAt13, ReadAt13
    <2>3. Reply13 = Flow13(v, w, Server)[SentAt13(v, w, Server, "send_server_hello") + 1]
      <3>1. SentAt13(v, w, Server, "send_server_hello") + 1 = 1
        BY SidesAssumption DEF SentAt13
      <3> QED
        BY <3>1, ServerFlow13, <1>0, <1>1, <1>2, <1>3, Zenon
    <2> QED
      BY <2>1, <2>2, <2>3 DEF Sends13
  <1>6. Hashes13(v, w, "send_server_hello", "send_encrypted_exts", Reply13)
    BY <1>3 DEF Hashes13, HashedAt13, Tape2
  <1>7. /\ At(Server, "send_server_hello") /\ Emit(Server, Reply13)
       /\ Hash(Server, Reply13) /\ Goto(Server, "send_encrypted_exts")
    BY <1>0, <1>1, <1>2, <1>3 DEF SendServerHello13, Send
  <1>8. Keys13(Server, "send_encrypted_exts", v, w)'
    <2>1. Keys13(Server, "send_server_hello", v, w) /\ UNCHANGED <<config, sent, got>>
      BY <1>2, <1>4 DEF At13, KeepsKeys13
    <2>2. "send_encrypted_exts" \in Shared13 => share'[Server] = IF Server = Client THEN "s" ELSE "c"
      BY <2>1, <1>3 DEF SendServerHello13, Send, Keys13, TypeOK, KeysOK, Shared13,
         Unkeyed13, ClientPath13, ServerPath13, Asking13
    <2>3. "send_encrypted_exts" \notin Unkeyed13 =>
           secret'[Server] = IF "send_encrypted_exts" = "established" THEN Application13(v) ELSE Handshake13
      <3>1. Ecdh(Server) = <<"c", "s">>
        BY <2>1, SidesAssumption DEF Keys13, Ecdh, Shared13
      <3> QED
        BY <3>1, <1>3, PeerOf DEF SendServerHello13, Handshake13, TypeOK, KeysOK
    <2>4. "send_encrypted_exts" \in Derived13 => appSecret'[Server] = Application13(v)
      BY <2>1, <1>3 DEF SendServerHello13, Send, Keys13, TypeOK, KeysOK, Derived13
    <2>5. sendSeq'[Server] = Number13("send_encrypted_exts", SentAt13(v, w, Server, "send_encrypted_exts"))
      BY SidesAssumption, PeerOf, <1>3 DEF SendServerHello13, Send, Restart, TypeOK,
         SeqsOK, Number13, SentAt13
    <2>6. recvSeq'[Server] = Number13("send_encrypted_exts", ReadAt13(v, w, Server, "send_encrypted_exts"))
      BY SidesAssumption, PeerOf, <1>3 DEF SendServerHello13, Send, Restart, TypeOK,
         SeqsOK, Number13, ReadAt13
    <2> QED
      BY <2>1, <2>2, <2>3, <2>4, <2>5, <2>6, Rekeys13, PeerOf, SidesAssumption
  <1> QED
    BY <1>0, <1>1, <1>4, <1>5, <1>6, <1>7, <1>8, Says13, PeerOf

LEMMA SendServerFinished13Script ==
  ASSUME TypeOK, Script13, SendServerFinished13
  PROVE  Script13'
  <1>0. PICK v \in BOOLEAN : v = client_verify
    BY VerifyType
  <1>1. PICK w \in BOOLEAN : w = Answers
    BY VerifyType
  <1>2. At13(Server, "send_server_finished", v, w) /\ pc[Server] = "send_server_finished"
    BY <1>0, <1>1, PeerOf DEF Script13, At, SendServerFinished13, SendProtected, Send
  <1>3. w => v
    BY <1>0, <1>1 DEF Answers
  <1>4. Protected(Server, Signed(Server, "server_finished")) = ServerEnd13(v)
    <2>1. secret[Server] = Handshake13 /\ sendSeq[Server] = (IF v THEN 4 ELSE 3)
      <3>1. /\ secret[Server] = Handshake13 /\ sent[Server] = 0
            /\ sendSeq[Server] = Number13("send_server_finished", SentAt13(v, w, Server, "send_server_finished")) + sent[Server]
        BY <1>2 DEF At13, Keys13, Unkeyed13
      <3>2. Number13("send_server_finished", SentAt13(v, w, Server, "send_server_finished")) = (IF v THEN 4 ELSE 3)
        BY SidesAssumption, <1>3 DEF Number13, SentAt13
      <3> QED
        BY <3>1, <3>2
    <2>2. Protected(Server, Signed(Server, "server_finished")) = Sealed13(Signed(Server, "server_finished"), (IF v THEN 4 ELSE 3))
      BY <2>1, Seals13
    <2>3. transcript[Server] = Tape6(v)
      BY <1>2, <1>3 DEF At13, HashedAt13
    <2> QED
      BY <2>2, <2>3 DEF Signed, Over, ServerEnd13
  <1>5. KeepsKeys13(Client) /\ UNCHANGED <<sent, got>>
    BY PeerOf, SidesAssumption DEF SendServerFinished13, SendProtected, Send, Restart,
       KeepsKeys13, TypeOK, KeysOK, SeqsOK, keys13, data13
  <1>6. CASE v
    <2>1. Sends13(v, w, Server, "send_server_finished", "recv_client_cert", ServerEnd13(v))
      <3>1. Step13(Server, "recv_client_cert", v, w)
        BY <1>0, <1>1, <1>2, SidesAssumption, <1>3, <1>6 DEF Step13, ClientPath13,
           ServerPath13, Asking13, Verifying13, Answering13, At13, Answers
      <3>2. /\ SentAt13(v, w, Server, "recv_client_cert") = SentAt13(v, w, Server, "send_server_finished") + 1
           /\ ReadAt13(v, w, Server, "recv_client_cert") = ReadAt13(v, w, Server, "send_server_finished")
        BY SidesAssumption, <1>3, <1>6 DEF SentAt13, ReadAt13
      <3>3. ServerEnd13(v) = Flow13(v, w, Server)[SentAt13(v, w, Server, "send_server_finished") + 1]
        <4>1. v => SentAt13(v, w, Server, "send_server_finished") + 1 = 6
          BY SidesAssumption DEF SentAt13
        <4>2. ~v => SentAt13(v, w, Server, "send_server_finished") + 1 = 5
          BY SidesAssumption DEF SentAt13
        <4> QED
          BY <4>1, <4>2, ServerFlow13, Zenon
      <3> QED
        BY <3>1, <3>2, <3>3 DEF Sends13
    <2>2. Hashes13(v, w, "send_server_finished", "recv_client_cert", ServerEnd13(v))
      BY <1>3, <1>6 DEF Hashes13, HashedAt13, Tape7, Tape8, Tape9
    <2>3. /\ At(Server, "send_server_finished") /\ Emit(Server, ServerEnd13(v))
         /\ Hash(Server, ServerEnd13(v)) /\ Goto(Server, "recv_client_cert")
      BY <1>0, <1>1, <1>2, <1>3, <1>4, <1>6 DEF SendServerFinished13, SendProtected, Send,
         At13, Keys13, Asking13
    <2>4. Keys13(Server, "recv_client_cert", v, w)'
      <3>1. Keys13(Server, "send_server_finished", v, w) /\ UNCHANGED <<config, sent, got>>
        BY <1>2, <1>5 DEF At13, KeepsKeys13
      <3>2. "recv_client_cert" \in Shared13 => share'[Server] = IF Server = Client THEN "s" ELSE "c"
        BY <3>1, <1>3, <1>4 DEF SendServerFinished13, SendProtected, Send, Keys13, TypeOK,
           KeysOK, Shared13, Unkeyed13, ClientPath13, ServerPath13, Asking13
      <3>3. "recv_client_cert" \notin Unkeyed13 =>
             secret'[Server] = IF "recv_client_cert" = "established" THEN Application13(v) ELSE Handshake13
        BY <3>1, <1>3, <1>4 DEF SendServerFinished13, SendProtected, Send, Keys13, TypeOK,
           KeysOK, Unkeyed13, Derived13
      <3>4. "recv_client_cert" \in Derived13 => appSecret'[Server] = Application13(v)
        <4>1. transcript[Server] = Tape6(v)
          BY <1>2 DEF At13, HashedAt13
        <4>2. Ecdh(Server) = <<"c", "s">>
          BY <3>1, SidesAssumption DEF Keys13, Ecdh, Shared13, ClientPath13, ServerPath13, Unkeyed13, Asking13
        <4>3. appSecret' = [appSecret EXCEPT ![Server] = <<"ap", <<"c", "s">>, Append(Tape6(v), Content(ServerEnd13(v)))>>]
          <5>1. Content(ServerEnd13(v)) = Over("server_finished", Tape6(v))
            BY Sealed13Fields DEF ServerEnd13
          <5>2. Signed(Server, "server_finished") = Over("server_finished", Tape6(v))
            BY <4>1 DEF Signed, Over
          <5> QED
            BY <4>1, <4>2, <5>1, <5>2 DEF SendServerFinished13, AppSecret
        <4> QED
          BY <4>3, <4>1, PeerOf DEF Application13, Tape7, TypeOK, KeysOK
      <3>5. sendSeq'[Server] = Number13("recv_client_cert", SentAt13(v, w, Server, "recv_client_cert"))
        <4>1. Number13("recv_client_cert", SentAt13(v, w, Server, "recv_client_cert")) = Number13("send_server_finished", SentAt13(v, w, Server, "send_server_finished")) + 1
          BY SidesAssumption, <1>3, <1>6 DEF Number13, SentAt13
        <4>2. Number13("send_server_finished", SentAt13(v, w, Server, "send_server_finished")) \in Nat
          BY NumberType13
        <4>3. sendSeq[Server] = Number13("send_server_finished", SentAt13(v, w, Server, "send_server_finished")) + sent[Server] /\ sent[Server] = 0
          BY <3>1 DEF Keys13
        <4>4. sendSeq'[Server] = sendSeq[Server] + 1
          BY PeerOf DEF SendServerFinished13, SendProtected, Send, TypeOK, SeqsOK
        <4> QED
          BY <4>1, <4>2, <4>3, <4>4
      <3>6. recvSeq'[Server] = Number13("recv_client_cert", ReadAt13(v, w, Server, "recv_client_cert"))
        <4>1. Number13("recv_client_cert", ReadAt13(v, w, Server, "recv_client_cert")) = Number13("send_server_finished", ReadAt13(v, w, Server, "send_server_finished")) + 0
          BY SidesAssumption, <1>3, <1>6 DEF Number13, ReadAt13
        <4>2. Number13("send_server_finished", ReadAt13(v, w, Server, "send_server_finished")) \in Nat
          BY NumberType13
        <4>3. recvSeq[Server] = Number13("send_server_finished", ReadAt13(v, w, Server, "send_server_finished")) + Len(got[Server]) /\ Len(got[Server]) = 0
          BY <3>1 DEF Keys13
        <4>4. recvSeq'[Server] = recvSeq[Server] + 0
          BY PeerOf DEF SendServerFinished13, SendProtected, Send, TypeOK, SeqsOK
        <4> QED
          BY <4>1, <4>2, <4>3, <4>4
      <3> QED
        BY <3>1, <3>2, <3>3, <3>4, <3>5, <3>6, Rekeys13, PeerOf, SidesAssumption
    <2> QED
      BY <1>0, <1>1, <1>5, <2>1, <2>2, <2>3, <2>4, Says13, PeerOf
  <1>7. CASE ~v
    <2>1. Sends13(v, w, Server, "send_server_finished", "recv_client_finished", ServerEnd13(v))
      <3>1. Step13(Server, "recv_client_finished", v, w)
        BY <1>0, <1>1, <1>2, SidesAssumption, <1>3, <1>7 DEF Step13, ClientPath13,
           ServerPath13, Asking13, Verifying13, Answering13, At13, Answers
      <3>2. /\ SentAt13(v, w, Server, "recv_client_finished") = SentAt13(v, w, Server, "send_server_finished") + 1
           /\ ReadAt13(v, w, Server, "recv_client_finished") = ReadAt13(v, w, Server, "send_server_finished")
        BY SidesAssumption, <1>3, <1>7 DEF SentAt13, ReadAt13
      <3>3. ServerEnd13(v) = Flow13(v, w, Server)[SentAt13(v, w, Server, "send_server_finished") + 1]
        <4>1. v => SentAt13(v, w, Server, "send_server_finished") + 1 = 6
          BY SidesAssumption DEF SentAt13
        <4>2. ~v => SentAt13(v, w, Server, "send_server_finished") + 1 = 5
          BY SidesAssumption DEF SentAt13
        <4> QED
          BY <4>1, <4>2, ServerFlow13, Zenon
      <3> QED
        BY <3>1, <3>2, <3>3 DEF Sends13
    <2>2. Hashes13(v, w, "send_server_finished", "recv_client_finished", ServerEnd13(v))
      BY <1>3, <1>7 DEF Hashes13, HashedAt13, Tape7, Tape8, Tape9
    <2>3. /\ At(Server, "send_server_finished") /\ Emit(Server, ServerEnd13(v))
         /\ Hash(Server, ServerEnd13(v)) /\ Goto(Server, "recv_client_finished")
      BY <1>0, <1>1, <1>2, <1>3, <1>4, <1>7 DEF SendServerFinished13, SendProtected, Send,
         At13, Keys13, Asking13
    <2>4. Keys13(Server, "recv_client_finished", v, w)'
      <3>1. Keys13(Server, "send_server_finished", v, w) /\ UNCHANGED <<config, sent, got>>
        BY <1>2, <1>5 DEF At13, KeepsKeys13
      <3>2. "recv_client_finished" \in Shared13 => share'[Server] = IF Server = Client THEN "s" ELSE "c"
        BY <3>1, <1>3, <1>4 DEF SendServerFinished13, SendProtected, Send, Keys13, TypeOK,
           KeysOK, Shared13, Unkeyed13, ClientPath13, ServerPath13, Asking13
      <3>3. "recv_client_finished" \notin Unkeyed13 =>
             secret'[Server] = IF "recv_client_finished" = "established" THEN Application13(v) ELSE Handshake13
        BY <3>1, <1>3, <1>4 DEF SendServerFinished13, SendProtected, Send, Keys13, TypeOK,
           KeysOK, Unkeyed13, Derived13
      <3>4. "recv_client_finished" \in Derived13 => appSecret'[Server] = Application13(v)
        <4>1. transcript[Server] = Tape6(v)
          BY <1>2 DEF At13, HashedAt13
        <4>2. Ecdh(Server) = <<"c", "s">>
          BY <3>1, SidesAssumption DEF Keys13, Ecdh, Shared13, ClientPath13, ServerPath13, Unkeyed13, Asking13
        <4>3. appSecret' = [appSecret EXCEPT ![Server] = <<"ap", <<"c", "s">>, Append(Tape6(v), Content(ServerEnd13(v)))>>]
          <5>1. Content(ServerEnd13(v)) = Over("server_finished", Tape6(v))
            BY Sealed13Fields DEF ServerEnd13
          <5>2. Signed(Server, "server_finished") = Over("server_finished", Tape6(v))
            BY <4>1 DEF Signed, Over
          <5> QED
            BY <4>1, <4>2, <5>1, <5>2 DEF SendServerFinished13, AppSecret
        <4> QED
          BY <4>3, <4>1, PeerOf DEF Application13, Tape7, TypeOK, KeysOK
      <3>5. sendSeq'[Server] = Number13("recv_client_finished", SentAt13(v, w, Server, "recv_client_finished"))
        <4>1. Number13("recv_client_finished", SentAt13(v, w, Server, "recv_client_finished")) = Number13("send_server_finished", SentAt13(v, w, Server, "send_server_finished")) + 1
          BY SidesAssumption, <1>3, <1>7 DEF Number13, SentAt13
        <4>2. Number13("send_server_finished", SentAt13(v, w, Server, "send_server_finished")) \in Nat
          BY NumberType13
        <4>3. sendSeq[Server] = Number13("send_server_finished", SentAt13(v, w, Server, "send_server_finished")) + sent[Server] /\ sent[Server] = 0
          BY <3>1 DEF Keys13
        <4>4. sendSeq'[Server] = sendSeq[Server] + 1
          BY PeerOf DEF SendServerFinished13, SendProtected, Send, TypeOK, SeqsOK
        <4> QED
          BY <4>1, <4>2, <4>3, <4>4
      <3>6. recvSeq'[Server] = Number13("recv_client_finished", ReadAt13(v, w, Server, "recv_client_finished"))
        <4>1. Number13("recv_client_finished", ReadAt13(v, w, Server, "recv_client_finished")) = Number13("send_server_finished", ReadAt13(v, w, Server, "send_server_finished")) + 0
          BY SidesAssumption, <1>3, <1>7 DEF Number13, ReadAt13
        <4>2. Number13("send_server_finished", ReadAt13(v, w, Server, "send_server_finished")) \in Nat
          BY NumberType13
        <4>3. recvSeq[Server] = Number13("send_server_finished", ReadAt13(v, w, Server, "send_server_finished")) + Len(got[Server]) /\ Len(got[Server]) = 0
          BY <3>1 DEF Keys13
        <4>4. recvSeq'[Server] = recvSeq[Server] + 0
          BY PeerOf DEF SendServerFinished13, SendProtected, Send, TypeOK, SeqsOK
        <4> QED
          BY <4>1, <4>2, <4>3, <4>4
      <3> QED
        BY <3>1, <3>2, <3>3, <3>4, <3>5, <3>6, Rekeys13, PeerOf, SidesAssumption
    <2> QED
      BY <1>0, <1>1, <1>5, <2>1, <2>2, <2>3, <2>4, Says13, PeerOf
  <1> QED
    BY <1>6, <1>7

LEMMA RecvClientCertificate13Script ==
  ASSUME TypeOK, Script13, RecvClientCertificate13
  PROVE  Script13'
  <1>0. PICK v \in BOOLEAN : v = client_verify
    BY VerifyType
  <1>1. PICK w \in BOOLEAN : w = Answers
    BY VerifyType
  <1>2. At13(Server, "recv_client_cert", v, w) /\ pc[Server] = "recv_client_cert"
    BY <1>0, <1>1, PeerOf DEF Script13, At, RecvClientCertificate13, RecvProtected, Recv
  <1>3. w
    <2>1. First(Server) = (IF w THEN ClientCert13 ELSE ClientEnd13(v, w))
      BY <1>0, <1>1, <1>2, ServerHears13 DEF RecvClientCertificate13, RecvProtected, Recv
    <2>2. First(Server).type = "certificate"
      BY DEF RecvClientCertificate13, IsHandshake, ClientCertOK13
    <2>3. ClientEnd13(v, w).type = "client_finished"
      BY Plain13Fields, Sealed13Fields DEF ServerCert13, Request13, ClientEnd13, Cert, Request
    <2> QED
      BY <2>1, <2>2, <2>3
  <1>4. First(Server) = ClientCert13
    <2>1. Incoming(Server)
      BY DEF RecvClientCertificate13, RecvProtected, Recv
    <2> QED
      BY <1>0, <1>1, <1>2, <2>1, ServerHears13, <1>3
  <1>5. KeepsKeys13(Client) /\ UNCHANGED <<sent, got>>
    BY PeerOf, SidesAssumption DEF RecvClientCertificate13, RecvProtected, Recv, Restart,
       KeepsKeys13, TypeOK, KeysOK, SeqsOK, keys13, data13
  <1>6. Reads13(v, w, Server, "recv_client_cert", "recv_cert_verify")
    <2>1. Step13(Server, "recv_cert_verify", v, w)
      BY <1>0, <1>1, <1>2, SidesAssumption, <1>3 DEF Step13, ClientPath13, ServerPath13,
         Asking13, Verifying13, Answering13, At13, Answers
    <2>2. /\ SentAt13(v, w, Server, "recv_cert_verify") = SentAt13(v, w, Server, "recv_client_cert")
         /\ ReadAt13(v, w, Server, "recv_cert_verify") = ReadAt13(v, w, Server, "recv_client_cert") + 1
      BY SidesAssumption, <1>3 DEF SentAt13, ReadAt13
    <2> QED
      BY <2>1, <2>2 DEF Reads13
  <1>7. Hashes13(v, w, "recv_client_cert", "recv_cert_verify", ClientCert13)
    BY <1>3 DEF Hashes13, HashedAt13, Tape8
  <1>8. /\ At(Server, "recv_client_cert") /\ Take(Server) /\ Incoming(Server)
       /\ Hash(Server, ClientCert13) /\ Goto(Server, "recv_cert_verify")
    BY <1>0, <1>1, <1>2, <1>3, <1>4 DEF RecvClientCertificate13, RecvProtected, Recv
  <1>9. Keys13(Server, "recv_cert_verify", v, w)'
    <2>1. Counts13(v, w, Server, "recv_client_cert", "recv_cert_verify", 0, 1)
      BY SidesAssumption, <1>3 DEF Counts13, Number13, SentAt13, ReadAt13, Unkeyed13,
         Shared13, Derived13, Asking13, ClientPath13, ServerPath13
    <2>2. /\ UNCHANGED <<config, share, secret, appSecret, sent, got>>
         /\ sendSeq'[Server] = sendSeq[Server] + 0 /\ recvSeq'[Server] = recvSeq[Server] + 1
      BY PeerOf DEF RecvClientCertificate13, RecvProtected, Recv, keys13, data13, TypeOK,
         SeqsOK
    <2> QED
      BY <1>2, <2>1, <2>2, Goes13, PeerOf, SidesAssumption DEF At13
  <1> QED
    BY <1>0, <1>1, <1>5, <1>6, <1>7, <1>8, <1>9, Gets13, PeerOf

LEMMA RecvClientFinished13Script ==
  ASSUME TypeOK, Script13, RecvClientFinished13
  PROVE  Script13'
  <1>0. PICK v \in BOOLEAN : v = client_verify
    BY VerifyType
  <1>1. PICK w \in BOOLEAN : w = Answers
    BY VerifyType
  <1>2. At13(Server, "recv_client_finished", v, w) /\ pc[Server] = "recv_client_finished"
    BY <1>0, <1>1, PeerOf DEF Script13, At, RecvClientFinished13, Recv
  <1>3. First(Server) = ClientEnd13(v, w)
    <2>1. Incoming(Server)
      BY DEF RecvClientFinished13, Recv
    <2> QED
      BY <1>0, <1>1, <1>2, <2>1, ServerHears13
  <1>4. KeepsKeys13(Client) /\ UNCHANGED <<sent, got>>
    BY PeerOf, SidesAssumption DEF RecvClientFinished13, Recv, Restart, KeepsKeys13,
       TypeOK, KeysOK, SeqsOK, keys13, data13
  <1>5. Reads13(v, w, Server, "recv_client_finished", "established")
    <2>1. Step13(Server, "established", v, w)
      BY <1>0, <1>1, <1>2, SidesAssumption DEF Step13, ClientPath13, ServerPath13,
         Asking13, Verifying13, Answering13, At13, Answers
    <2>2. /\ SentAt13(v, w, Server, "established") = SentAt13(v, w, Server, "recv_client_finished")
         /\ ReadAt13(v, w, Server, "established") = ReadAt13(v, w, Server, "recv_client_finished") + 1
      BY SidesAssumption DEF SentAt13, ReadAt13
    <2> QED
      BY <2>1, <2>2 DEF Reads13
  <1>6. Hashes13(v, w, "recv_client_finished", "established", ClientEnd13(v, w))
    BY DEF Hashes13, HashedAt13, Tape10
  <1>7. /\ At(Server, "recv_client_finished") /\ Take(Server) /\ Incoming(Server)
       /\ Hash(Server, ClientEnd13(v, w)) /\ Goto(Server, "established")
    BY <1>0, <1>1, <1>2, <1>3 DEF RecvClientFinished13, Recv
  <1>8. Keys13(Server, "established", v, w)'
    <2>1. Keys13(Server, "recv_client_finished", v, w) /\ UNCHANGED <<config, sent, got>>
      BY <1>2, <1>4 DEF At13, KeepsKeys13
    <2>2. "established" \in Shared13 => share'[Server] = IF Server = Client THEN "s" ELSE "c"
      BY <2>1, <1>3 DEF RecvClientFinished13, Recv, Keys13, TypeOK, KeysOK, Shared13,
         Unkeyed13, ClientPath13, ServerPath13, Asking13
    <2>3. "established" \notin Unkeyed13 =>
           secret'[Server] = IF "established" = "established" THEN Application13(v) ELSE Handshake13
      BY <2>1, <1>3, PeerOf DEF RecvClientFinished13, Recv, Keys13, TypeOK, KeysOK,
         Unkeyed13, Derived13
    <2>4. "established" \in Derived13 => appSecret'[Server] = Application13(v)
      BY <2>1, <1>3 DEF RecvClientFinished13, Recv, Keys13, TypeOK, KeysOK, Derived13
    <2>5. sendSeq'[Server] = Number13("established", SentAt13(v, w, Server, "established"))
      BY SidesAssumption, PeerOf DEF RecvClientFinished13, Recv, Restart, TypeOK, SeqsOK,
         Number13, SentAt13
    <2>6. recvSeq'[Server] = Number13("established", ReadAt13(v, w, Server, "established"))
      BY SidesAssumption, PeerOf DEF RecvClientFinished13, Recv, Restart, TypeOK, SeqsOK,
         Number13, ReadAt13
    <2> QED
      BY <2>1, <2>2, <2>3, <2>4, <2>5, <2>6, Rekeys13, PeerOf, SidesAssumption
  <1> QED
    BY <1>0, <1>1, <1>4, <1>5, <1>6, <1>7, <1>8, Gets13, PeerOf

LEMMA RecvServerCertificate13Script ==
  ASSUME TypeOK, Script13, RecvServerCertificate13
  PROVE  Script13'
  BY RecvServerCertificateAtOnce13Script, RecvServerCertificateAsked13Script
     DEF RecvServerCertificate13, RecvProtected, Recv, At

\* The data.
LEMMA Opened13 ==
  ASSUME NEW v \in BOOLEAN, NEW w \in BOOLEAN, NEW s \in Side
  PROVE  /\ SentAt13(v, w, s, "established") = OpeningLen(v, w, s)
         /\ ReadAt13(v, w, s, "established") = OpeningLen(v, w, Peer(s))
  <1>1. CASE s = Client
    BY <1>1, PeerOf, SidesAssumption DEF SentAt13, ReadAt13, OpeningLen
  <1>2. CASE s = Server
    BY <1>2, PeerOf, SidesAssumption DEF SentAt13, ReadAt13, OpeningLen
  <1> QED
    BY <1>1, <1>2 DEF Side

LEMMA Steps13 ==
  ASSUME Script13, NEW s \in Side
  PROVE  pc[s] \in ClientPath13 \cup ServerPath13
         /\ pc[s] \notin {"failed", "disconnected"}
  BY DEF Script13, At13, Step13, ClientPath13, ServerPath13, Asking13

LEMMA Established13 ==
  ASSUME TypeOK, Script13, NEW v \in BOOLEAN, v = client_verify,
         NEW w \in BOOLEAN, w = Answers, NEW s \in Side, pc[s] = "established"
  PROVE  /\ At13(s, "established", v, w)
         /\ secret[s] = Application13(v) /\ sendSeq[s] = sent[s] /\ recvSeq[s] = Len(got[s])
         /\ SentBy(v, w, s) = OpeningLen(v, w, s) + sent[s]
         /\ ReadBy(v, w, s) = OpeningLen(v, w, Peer(s)) + Len(got[s])
  <1>1. At13(s, "established", v, w)
    BY DEF Script13
  <1>2. sent[s] \in Nat /\ Len(got[s]) \in Nat
    BY CountTypes13
  <1>3. secret[s] = Application13(v)
    BY <1>1 DEF At13, Keys13, Unkeyed13
  <1>4. sendSeq[s] = sent[s] /\ recvSeq[s] = Len(got[s])
    <2>1. \A n : Number13("established", n) = 0
      BY DEF Number13
    <2> QED
      BY <1>1, <1>2, <2>1 DEF At13, Keys13
  <1> QED
    BY <1>1, <1>3, <1>4, Opened13 DEF SentBy, ReadBy

LEMMA DataFields ==
  ASSUME NEW v, NEW i
  PROVE  /\ Data(v, i).type = "application_data" /\ Data(v, i).val = "sent"
         /\ Data(v, i).key = Application13(v) /\ Data(v, i).seq = i - 1
  <1>1. PICK k : k = Application13(v)
    OBVIOUS
  <1>2. PICK n : n = i - 1
    OBVIOUS
  <1>3. PICK m : m = [[Msg("application_data") EXCEPT !.over = i] EXCEPT !.key = k, !.seq = n]
    OBVIOUS
  <1>4. m.type = "application_data" /\ m.val = "sent" /\ m.key = k /\ m.seq = n
    BY <1>3 DEF Msg
  <1> QED
    BY <1>1, <1>2, <1>3, <1>4 DEF Data, Sealed, Over

LEMMA Send13Script ==
  ASSUME TypeOK, Script13, ClosedInv, NEW s \in Side, tls13_send(s)
  PROVE  Script13'
  <1>0. PICK v \in BOOLEAN : v = client_verify
    BY VerifyType
  <1>1. PICK w \in BOOLEAN : w = Answers
    BY VerifyType
  <1>2. pc[s] = "established" /\ Emit(s, DataRecord(s))
    BY PeerType, Steps13 DEF tls13_send, At, ClosedInv
  <1>3. /\ At13(s, "established", v, w)
        /\ secret[s] = Application13(v) /\ sendSeq[s] = sent[s]
        /\ SentBy(v, w, s) = OpeningLen(v, w, s) + sent[s]
    BY <1>0, <1>1, <1>2, Established13
  <1>4. sent[s] \in Nat /\ SentBy(v, w, s) \in Nat /\ OpeningLen(v, w, s) \in Nat
    BY CountTypes13 DEF OpeningLen
  <1>5. DataRecord(s) = Flow13(v, w, s)[SentBy(v, w, s) + 1]
    <2>1. PICK n \in Nat : n = sent[s]
      BY <1>4
    <2>2. DataRecord(s) = Data(v, n + 1)
      <3>1. sendSeq[s] = (n + 1) - 1
        BY <1>3, <2>1
      <3> QED
        BY <1>3, <2>1, <3>1 DEF DataRecord, Protected, Data, Sealed, Over
    <2>3. SentBy(v, w, s) + 1 = OpeningLen(v, w, s) + (n + 1)
      BY <1>3, <1>4, <2>1
    <2>4. Flow13(v, w, s)[OpeningLen(v, w, s) + (n + 1)] = Data(v, n + 1)
      BY DataFlow13
    <2> QED
      BY <2>2, <2>3, <2>4
  <1>6. /\ UNCHANGED <<config, pc, transcript, share, secret, appSecret, clientCerts, recvSeq, got>>
        /\ sendSeq'[s] = sendSeq[s] + 1 /\ sendSeq'[Peer(s)] = sendSeq[Peer(s)]
        /\ sent'[s] = sent[s] + 1 /\ sent'[Peer(s)] = sent[Peer(s)]
    BY PeerType DEF tls13_send, keys13, TypeOK, SeqsOK, DataOK
  <1>7. Keeps13(Peer(s))
    BY <1>6 DEF Keeps13, KeepsKeys13
  <1>8. At13(s, "established", v, w)'
    <2>1. sendSeq'[s] = Number13("established", SentAt13(v, w, s, "established")) + sent'[s]
      BY <1>3, <1>4, <1>6 DEF Number13
    <2>2. Keys13(s, "established", v, w)'
      BY <1>3, <1>6, <2>1 DEF At13, Keys13
    <2> QED
      BY <1>3, <1>6, <2>2 DEF At13
  <1>9. SentBy(v, w, s)' = SentBy(v, w, s) + 1 /\ ReadBy(v, w, s)' = ReadBy(v, w, s)
    BY <1>4, <1>6, TableTypes13 DEF SentBy, ReadBy
  <1> QED
    BY <1>0, <1>1, <1>2, <1>5, <1>7, <1>8, <1>9, Speaks13

LEMMA Recv13Script ==
  ASSUME TypeOK, Script13, NEW s \in Side, tls13_recv(s)
  PROVE  Script13'
  <1>0. PICK v \in BOOLEAN : v = client_verify
    BY VerifyType
  <1>1. PICK w \in BOOLEAN : w = Answers
    BY VerifyType
  <1>2. pc[s] = "established" /\ Take(s) /\ Incoming(s)
    BY DEF tls13_recv, At
  <1>3. At13(s, "established", v, w) /\ recvSeq[s] = Len(got[s])
    BY <1>0, <1>1, <1>2, Established13
  <1>4. Len(got[s]) \in Nat
    BY CountTypes13
  <1>5. /\ UNCHANGED <<config, pc, transcript, share, secret, appSecret, clientCerts, sendSeq, sent>>
        /\ recvSeq'[s] = recvSeq[s] + 1 /\ recvSeq'[Peer(s)] = recvSeq[Peer(s)]
        /\ Len(got'[s]) = Len(got[s]) + 1 /\ got'[Peer(s)] = got[Peer(s)]
    BY PeerType DEF tls13_recv, keys13, TypeOK, SeqsOK, DataOK
  <1>6. Keeps13(Peer(s))
    BY <1>5 DEF Keeps13, KeepsKeys13
  <1>7. At13(s, "established", v, w)'
    <2>1. recvSeq'[s] = Number13("established", ReadAt13(v, w, s, "established")) + Len(got'[s])
      BY <1>3, <1>4, <1>5 DEF Number13
    <2>2. Keys13(s, "established", v, w)'
      BY <1>3, <1>5, <2>1 DEF At13, Keys13
    <2> QED
      BY <1>3, <1>5, <2>2 DEF At13
  <1>8. SentBy(v, w, s)' = SentBy(v, w, s) /\ ReadBy(v, w, s)' = ReadBy(v, w, s) + 1
    BY <1>4, <1>5, TableTypes13 DEF SentBy, ReadBy
  <1> QED
    BY <1>0, <1>1, <1>2, <1>6, <1>7, <1>8, Hears13

\* No data is refused.
LEMMA RecvFails13Script ==
  ASSUME TypeOK, Script13, ClosedInv, NEW s \in Side, tls13_recv_fails(s)
  PROVE  FALSE
  <1>0. PICK v \in BOOLEAN : v = client_verify
    BY VerifyType
  <1>1. PICK w \in BOOLEAN : w = Answers
    BY VerifyType
  <1>2. ~closed[Peer(s)]
    BY PeerType, Steps13 DEF ClosedInv
  <1>3. pc[s] = "established" /\ Incoming(s) /\ ~DataOK13(s)
    BY <1>2 DEF tls13_recv_fails, At
  <1>4. /\ secret[s] = Application13(v) /\ recvSeq[s] = Len(got[s])
        /\ ReadBy(v, w, s) = OpeningLen(v, w, Peer(s)) + Len(got[s])
    BY <1>0, <1>1, <1>3, Established13
  <1>5. First(s) = Flow13(v, w, Peer(s))[ReadBy(v, w, s) + 1]
    BY <1>0, <1>1, <1>3, First13
  <1>6. PICK n \in Nat : n = Len(got[s])
    BY CountTypes13
  <1>7. First(s) = Data(v, n + 1)
    <2>1. OpeningLen(v, w, Peer(s)) \in Nat
      BY DEF OpeningLen
    <2>2. ReadBy(v, w, s) + 1 = OpeningLen(v, w, Peer(s)) + (n + 1)
      BY <1>4, <1>6, <2>1
    <2>3. Flow13(v, w, Peer(s))[OpeningLen(v, w, Peer(s)) + (n + 1)] = Data(v, n + 1)
      BY DataFlow13, PeerType
    <2> QED
      BY <1>5, <2>2, <2>3
  <1>8. /\ First(s).type = "application_data" /\ First(s).val = "sent"
        /\ First(s).key = Application13(v) /\ First(s).seq = (n + 1) - 1
    BY <1>7, DataFields
  <1>9. DataOK13(s)
    BY <1>4, <1>6, <1>8 DEF DataOK13, IsHandshake, Decrypts
  <1> QED
    BY <1>3, <1>9

\* A record under the handshake keys decrypts where the script has it.
LEMMA Decrypts13 ==
  ASSUME TypeOK, Script13, NEW v \in BOOLEAN, v = client_verify,
         NEW w \in BOOLEAN, w = Answers, NEW s \in Side, NEW p, pc[s] = p,
         p \notin Unkeyed13, p # "established", First(s).val = "sent",
         First(s).key = Handshake13, NEW n, First(s).seq = n,
         Number13(p, ReadAt13(v, w, s, p)) = n
  PROVE  Decrypts(s)
  <1>1. Keys13(s, p, v, w)
    BY DEF Script13, At13
  <1>2. n \in Nat
    BY NumberType13
  <1>3. secret[s] = Handshake13 /\ recvSeq[s] = n
    BY <1>1, <1>2 DEF Keys13
  <1> QED
    BY <1>3 DEF Decrypts

LEMMA Accepts13 ==
  ASSUME TypeOK, Script13, Compatible, NEW s \in Side, Incoming(s), pc[s] \in RecvSteps13
  PROVE  Acceptable13(s)
  <1>0. PICK v \in BOOLEAN : v = client_verify
    BY VerifyType
  <1>1. PICK w \in BOOLEAN : w = Answers
    BY VerifyType
  <1>2. At13(s, pc[s], v, w)
    BY <1>0, <1>1 DEF Script13
  <1>3. v => w
    BY <1>0, <1>1 DEF Answers, Compatible
  <1>4. v \/ ~v
    OBVIOUS
  <1>5. CASE s = Client /\ pc[s] = "recv_server_hello"
    <2>1. First(Client) = Reply13
      BY <1>0, <1>1, <1>5, ClientHears13
    <2>2. ServerHelloOK13
      BY <2>1, Fields13 DEF ServerHelloOK13, Parses
    <2> QED
      BY <1>5, <2>2 DEF Acceptable13
  <1>6. CASE s = Client /\ pc[s] = "recv_encrypted_exts"
    <2>1. First(Client) = Extensions13
      BY <1>0, <1>1, <1>6, ClientHears13
    <2>2. /\ First(Client).type = "encrypted_extensions" /\ First(Client).val = "sent" /\ First(Client).key = Handshake13
         /\ First(Client).seq = 0
      BY <2>1, Plain13Fields DEF Extensions13
    <2>3. Number13("recv_encrypted_exts", ReadAt13(v, w, Client, "recv_encrypted_exts")) = 0
      BY SidesAssumption, <1>6, <1>3 DEF Number13, ReadAt13
    <2>4. Decrypts(Client)
      <3>1. "recv_encrypted_exts" \notin Unkeyed13 /\ "recv_encrypted_exts" # "established"
        BY DEF Unkeyed13
      <3> QED
        BY <1>0, <1>1, <1>6, <3>1, <2>2, <2>3, Decrypts13, PeerOf
    <2>6. EncryptedExtsOK13
      BY <2>2, <2>4, <1>0 DEF EncryptedExtsOK13, IsHandshake, Compatible
    <2> QED
      BY <1>6, <2>6 DEF Acceptable13
  <1>7. CASE s = Client /\ pc[s] = "recv_cert_request_or_cert"
    <2>1. CASE v
      <3>1. First(Client) = Request13
        BY <1>0, <1>1, <1>7, <2>1, ClientHears13
      <3>2. /\ First(Client).type = "certificate_request" /\ First(Client).val = "sent" /\ First(Client).key = Handshake13
           /\ First(Client).seq = 1
        BY <3>1, Plain13Fields DEF Request13, Request
      <3>3. Number13("recv_cert_request_or_cert", ReadAt13(v, w, Client, "recv_cert_request_or_cert")) = 1
        BY SidesAssumption, <1>7, <2>1, <1>3 DEF Number13, ReadAt13
      <3>4. Decrypts(Client)
        <4>1. "recv_cert_request_or_cert" \notin Unkeyed13 /\ "recv_cert_request_or_cert" # "established"
          BY DEF Unkeyed13
        <4> QED
          BY <1>0, <1>1, <1>7, <2>1, <4>1, <3>2, <3>3, Decrypts13, PeerOf
      <3>5. IsHandshake(Client, "certificate_request")
        BY <3>2, <3>4 DEF IsHandshake, ServerCertOK13, Compatible
      <3> QED
        BY <1>7, <3>5 DEF Acceptable13
    <2>2. CASE ~v
      <3>1. First(Client) = ServerCert13(v)
        BY <1>0, <1>1, <1>7, <2>2, ClientHears13
      <3>2. /\ First(Client).type = "certificate" /\ First(Client).val = "sent" /\ First(Client).key = Handshake13
           /\ First(Client).seq = (IF v THEN 2 ELSE 1)
        BY <3>1, Plain13Fields DEF ServerCert13, Cert
      <3>3. Number13("recv_cert_request_or_cert", ReadAt13(v, w, Client, "recv_cert_request_or_cert")) = (IF v THEN 2 ELSE 1)
        BY SidesAssumption, <1>7, <2>2, <1>3 DEF Number13, ReadAt13
      <3>4. Decrypts(Client)
        <4>1. "recv_cert_request_or_cert" \notin Unkeyed13 /\ "recv_cert_request_or_cert" # "established"
          BY DEF Unkeyed13
        <4> QED
          BY <1>0, <1>1, <1>7, <2>2, <4>1, <3>2, <3>3, Decrypts13, PeerOf
      <3>5. ServerCertOK13
        BY <3>2, <3>4 DEF IsHandshake, ServerCertOK13, Compatible
      <3> QED
        BY <1>7, <3>5 DEF Acceptable13
    <2> QED
      BY <1>4, <2>1, <2>2
  <1>8. CASE s = Client /\ pc[s] = "recv_server_cert"
    <2>0. v
      BY <1>2, <1>8 DEF At13, Step13, Verifying13
    <2>1. First(Client) = ServerCert13(v)
      BY <1>0, <1>1, <1>8, <2>0, ClientHears13
    <2>2. /\ First(Client).type = "certificate" /\ First(Client).val = "sent" /\ First(Client).key = Handshake13
         /\ First(Client).seq = (IF v THEN 2 ELSE 1)
      BY <2>1, Plain13Fields DEF ServerCert13, Cert
    <2>3. Number13("recv_server_cert", ReadAt13(v, w, Client, "recv_server_cert")) = (IF v THEN 2 ELSE 1)
      BY SidesAssumption, <1>8, <2>0, <1>3 DEF Number13, ReadAt13
    <2>4. Decrypts(Client)
      <3>1. "recv_server_cert" \notin Unkeyed13 /\ "recv_server_cert" # "established"
        BY DEF Unkeyed13
      <3> QED
        BY <1>0, <1>1, <1>8, <2>0, <3>1, <2>2, <2>3, Decrypts13, PeerOf
    <2>6. ServerCertOK13
      BY <2>2, <2>4, <2>0, <1>0 DEF ServerCertOK13, IsHandshake, Compatible
    <2> QED
      BY <1>8, <2>6 DEF Acceptable13
  <1>9. CASE s = Client /\ pc[s] = "recv_server_cert_verify"
    <2>1. First(Client) = ServerProof13(v)
      BY <1>0, <1>1, <1>9, ClientHears13
    <2>2. /\ First(Client).type = "certificate_verify" /\ First(Client).val = "sent" /\ First(Client).key = Handshake13
         /\ First(Client).seq = (IF v THEN 3 ELSE 2) /\ First(Client).over = Tape5(v)
      BY <2>1, Sealed13Fields DEF ServerProof13
    <2>3. Number13("recv_server_cert_verify", ReadAt13(v, w, Client, "recv_server_cert_verify")) = (IF v THEN 3 ELSE 2)
      BY SidesAssumption, <1>9, <1>3 DEF Number13, ReadAt13
    <2>4. Decrypts(Client)
      <3>1. "recv_server_cert_verify" \notin Unkeyed13 /\ "recv_server_cert_verify" # "established"
        BY DEF Unkeyed13
      <3> QED
        BY <1>0, <1>1, <1>9, <3>1, <2>2, <2>3, Decrypts13, PeerOf
    <2>5. transcript[Client] = Tape5(v)
      BY <1>2, <1>9 DEF At13, HashedAt13
    <2>6. SignatureOK(Client)
      BY <2>2, <2>4, <2>5, <1>0 DEF SignatureOK, IsHandshake, Compatible
    <2> QED
      BY <1>9, <2>6 DEF Acceptable13
  <1>10. CASE s = Client /\ pc[s] = "recv_server_finished"
    <2>1. First(Client) = ServerEnd13(v)
      BY <1>0, <1>1, <1>10, ClientHears13
    <2>2. /\ First(Client).type = "server_finished" /\ First(Client).val = "sent" /\ First(Client).key = Handshake13
         /\ First(Client).seq = (IF v THEN 4 ELSE 3) /\ First(Client).over = Tape6(v)
      BY <2>1, Sealed13Fields DEF ServerEnd13
    <2>3. Number13("recv_server_finished", ReadAt13(v, w, Client, "recv_server_finished")) = (IF v THEN 4 ELSE 3)
      BY SidesAssumption, <1>10, <1>3 DEF Number13, ReadAt13
    <2>4. Decrypts(Client)
      <3>1. "recv_server_finished" \notin Unkeyed13 /\ "recv_server_finished" # "established"
        BY DEF Unkeyed13
      <3> QED
        BY <1>0, <1>1, <1>10, <3>1, <2>2, <2>3, Decrypts13, PeerOf
    <2>5. transcript[Client] = Tape6(v)
      BY <1>2, <1>10 DEF At13, HashedAt13
    <2>6. FinishedOK13(Client, "server_finished")
      BY <2>2, <2>4, <2>5, <1>0 DEF FinishedOK13, IsHandshake, Compatible
    <2> QED
      BY <1>10, <2>6 DEF Acceptable13
  <1>11. CASE s = Server /\ pc[s] = "recv_client_hello"
    <2>1. First(Server) = Hello13
      BY <1>0, <1>1, <1>11, ServerHears13
    <2>2. ClientHelloOK13
      BY <2>1, Fields13 DEF ClientHelloOK13, Parses
    <2> QED
      BY <1>11, <2>2 DEF Acceptable13
  <1>12. CASE s = Server /\ pc[s] = "recv_client_cert"
    <2>0. v /\ w
      BY <1>2, <1>3, <1>12 DEF At13, Step13, Verifying13
    <2>1. First(Server) = ClientCert13
      BY <1>0, <1>1, <1>12, <2>0, ServerHears13
    <2>2. /\ First(Server).type = "certificate" /\ First(Server).val = "sent" /\ First(Server).key = Handshake13
         /\ First(Server).seq = 0
      BY <2>1, Plain13Fields DEF ClientCert13, Cert
    <2>3. Number13("recv_client_cert", ReadAt13(v, w, Server, "recv_client_cert")) = 0
      BY SidesAssumption, <1>12, <2>0, <1>3 DEF Number13, ReadAt13
    <2>4. Decrypts(Server)
      <3>1. "recv_client_cert" \notin Unkeyed13 /\ "recv_client_cert" # "established"
        BY DEF Unkeyed13
      <3> QED
        BY <1>0, <1>1, <1>12, <2>0, <3>1, <2>2, <2>3, Decrypts13, PeerOf
    <2>6. ClientCertOK13
      BY <2>2, <2>4, <2>0, <1>0 DEF ClientCertOK13, IsHandshake, Compatible
    <2> QED
      BY <1>12, <2>6 DEF Acceptable13
  <1>13. CASE s = Server /\ pc[s] = "recv_cert_verify"
    <2>0. w
      BY <1>2, <1>13 DEF At13, Step13, Answering13
    <2>1. First(Server) = ClientProof13(v, w)
      BY <1>0, <1>1, <1>13, <2>0, ServerHears13
    <2>2. /\ First(Server).type = "certificate_verify" /\ First(Server).val = "sent" /\ First(Server).key = Handshake13
         /\ First(Server).seq = 1 /\ First(Server).over = Tape8(v, w)
      BY <2>1, Sealed13Fields DEF ClientProof13
    <2>3. Number13("recv_cert_verify", ReadAt13(v, w, Server, "recv_cert_verify")) = 1
      BY SidesAssumption, <1>13, <2>0, <1>3 DEF Number13, ReadAt13
    <2>4. Decrypts(Server)
      <3>1. "recv_cert_verify" \notin Unkeyed13 /\ "recv_cert_verify" # "established"
        BY DEF Unkeyed13
      <3> QED
        BY <1>0, <1>1, <1>13, <2>0, <3>1, <2>2, <2>3, Decrypts13, PeerOf
    <2>5. transcript[Server] = Tape8(v, w)
      BY <1>2, <1>13, <2>0 DEF At13, HashedAt13
    <2>6. SignatureOK(Server)
      BY <2>2, <2>4, <2>5, <2>0, <1>0 DEF SignatureOK, IsHandshake, Compatible
    <2> QED
      BY <1>13, <2>6 DEF Acceptable13
  <1>14. CASE s = Server /\ pc[s] = "recv_client_finished"
    <2>1. First(Server) = ClientEnd13(v, w)
      BY <1>0, <1>1, <1>14, ServerHears13
    <2>2. /\ First(Server).type = "client_finished" /\ First(Server).val = "sent" /\ First(Server).key = Handshake13
         /\ First(Server).seq = (IF w THEN 2 ELSE 0) /\ First(Server).over = Tape9(v, w)
      BY <2>1, Sealed13Fields DEF ClientEnd13
    <2>3. Number13("recv_client_finished", ReadAt13(v, w, Server, "recv_client_finished")) = (IF w THEN 2 ELSE 0)
      BY SidesAssumption, <1>14, <1>3 DEF Number13, ReadAt13
    <2>4. Decrypts(Server)
      <3>1. "recv_client_finished" \notin Unkeyed13 /\ "recv_client_finished" # "established"
        BY DEF Unkeyed13
      <3> QED
        BY <1>0, <1>1, <1>14, <3>1, <2>2, <2>3, Decrypts13, PeerOf
    <2>5. transcript[Server] = Tape9(v, w)
      BY <1>2, <1>14 DEF At13, HashedAt13
    <2>6. FinishedOK13(Server, "client_finished")
      BY <2>2, <2>4, <2>5, <1>0 DEF FinishedOK13, IsHandshake, Compatible
    <2> QED
      BY <1>14, <2>6 DEF Acceptable13
  <1> QED
    BY <1>2, <1>5, <1>6, <1>7, <1>8, <1>9, <1>10, <1>11, <1>12, <1>13, <1>14 DEF At13,
       Step13, ClientPath13, ServerPath13, Asking13, RecvSteps13, Side

LEMMA NoRefusal13 ==
  ASSUME TypeOK, Script13, ClosedInv, Compatible, ~config.timeouts, NEW s \in Side,
         Reject13(s) \/ IOFails13(s)
  PROVE  FALSE
  <1>1. ~closed[Peer(s)]
    BY Steps13, PeerType DEF ClosedInv
  <1>2. CASE Reject13(s)
    BY <1>2, Accepts13 DEF Reject13
  <1>3. CASE IOFails13(s)
    BY <1>1, <1>3 DEF IOFails13, RecvFails, SendFails
  <1> QED
    BY <1>2, <1>3

LEMMA Connect13Script == ASSUME TypeOK, Script13, Client13, faults' = faults PROVE Script13'
  BY SendClientHello13Script, RecvServerHello13Script, RecvEncryptedExtensions13Script,
     RecvCertificateRequest13Script, RecvServerCertificate13Script,
     RecvServerCertificateVerify13Script, RecvServerFinished13Script,
     SendClientCertificate13Script, SendCertificateVerify13Script,
     SendClientFinished13Script DEF Client13

LEMMA Accept13Script == ASSUME TypeOK, Script13, Server13, faults' = faults PROVE Script13'
  BY RecvClientHello13Script, SendServerHello13Script, SendEncryptedExtensions13Script,
     SendCertificateRequest13Script, SendServerCertificate13Script,
     SendServerCertificateVerify13Script, SendServerFinished13Script,
     RecvClientCertificate13Script, RecvCertificateVerify13Script,
     RecvClientFinished13Script DEF Server13

-----------------------------------------------------------------------------
(* Messages and data close no connection and fail no handshake.            *)

Onward == /\ closed' = closed /\ config' = config /\ faults' \in {faults, faults + 1}
          /\ \A s \in Side : pc'[s] = "failed" <=> pc[s] = "failed"

LEMMA GotoOnward ==
  ASSUME TypeOK, NEW s \in Side, NEW next, Goto(s, next), next # "failed",
         pc[s] # "failed",
         UNCHANGED <<config, closed>>, faults' \in {faults, faults + 1}
  PROVE  Onward
  BY DEF Goto, Onward, TypeOK

LEMMA Connect12Onward == ASSUME TypeOK, Connect12 PROVE Onward
  <1>1. CASE SendClientHello12
    <2>1. /\ pc[Client] # "failed" /\ \E next : next # "failed" /\ Goto(Client, next)
          /\ UNCHANGED <<config, closed>> /\ faults' \in {faults, faults + 1}
      BY <1>1 DEF SendClientHello12, SendPlain, SendProtected, SendSignature,
         SignatureFails, Send, RecvPlain, RecvProtected, Recv, At, Unhashed
    <2> QED
      BY <2>1, GotoOnward, PeerOf
  <1>2. CASE RecvServerHello12
    <2>1. /\ pc[Client] # "failed" /\ \E next : next # "failed" /\ Goto(Client, next)
          /\ UNCHANGED <<config, closed>> /\ faults' \in {faults, faults + 1}
      BY <1>2 DEF RecvServerHello12, SendPlain, SendProtected, SendSignature,
         SignatureFails, Send, RecvPlain, RecvProtected, Recv, At, Unhashed
    <2> QED
      BY <2>1, GotoOnward, PeerOf
  <1>3. CASE RecvServerCertificate12
    <2>1. /\ pc[Client] # "failed" /\ \E next : next # "failed" /\ Goto(Client, next)
          /\ UNCHANGED <<config, closed>> /\ faults' \in {faults, faults + 1}
      BY <1>3 DEF RecvServerCertificate12, SendPlain, SendProtected, SendSignature,
         SignatureFails, Send, RecvPlain, RecvProtected, Recv, At, Unhashed
    <2> QED
      BY <2>1, GotoOnward, PeerOf
  <1>4. CASE RecvServerKeyExchange12
    <2>1. /\ pc[Client] # "failed" /\ \E next : next # "failed" /\ Goto(Client, next)
          /\ UNCHANGED <<config, closed>> /\ faults' \in {faults, faults + 1}
      BY <1>4 DEF RecvServerKeyExchange12, SendPlain, SendProtected, SendSignature,
         SignatureFails, Send, RecvPlain, RecvProtected, Recv, At, Unhashed
    <2> QED
      BY <2>1, GotoOnward, PeerOf
  <1>5. CASE RecvCertificateRequest12
    <2>1. /\ pc[Client] # "failed" /\ \E next : next # "failed" /\ Goto(Client, next)
          /\ UNCHANGED <<config, closed>> /\ faults' \in {faults, faults + 1}
      BY <1>5 DEF RecvCertificateRequest12, SendPlain, SendProtected, SendSignature,
         SignatureFails, Send, RecvPlain, RecvProtected, Recv, At, Unhashed
    <2> QED
      BY <2>1, GotoOnward, PeerOf
  <1>6. CASE RecvServerHelloDone12
    <2>1. /\ pc[Client] # "failed" /\ \E next : next # "failed" /\ Goto(Client, next)
          /\ UNCHANGED <<config, closed>> /\ faults' \in {faults, faults + 1}
      BY <1>6 DEF RecvServerHelloDone12, SendPlain, SendProtected, SendSignature,
         SignatureFails, Send, RecvPlain, RecvProtected, Recv, At, Unhashed
    <2> QED
      BY <2>1, GotoOnward, PeerOf
  <1>7. CASE SendClientCertificate12
    <2>1. /\ pc[Client] # "failed" /\ \E next : next # "failed" /\ Goto(Client, next)
          /\ UNCHANGED <<config, closed>> /\ faults' \in {faults, faults + 1}
      BY <1>7 DEF SendClientCertificate12, SendPlain, SendProtected, SendSignature,
         SignatureFails, Send, RecvPlain, RecvProtected, Recv, At, Unhashed
    <2> QED
      BY <2>1, GotoOnward, PeerOf
  <1>8. CASE SendClientKeyExchange12
    <2>1. /\ pc[Client] # "failed" /\ \E next : next # "failed" /\ Goto(Client, next)
          /\ UNCHANGED <<config, closed>> /\ faults' \in {faults, faults + 1}
      BY <1>8 DEF SendClientKeyExchange12, SendPlain, SendProtected, SendSignature,
         SignatureFails, Send, RecvPlain, RecvProtected, Recv, At, Unhashed
    <2> QED
      BY <2>1, GotoOnward, PeerOf
  <1>9. CASE SendCertificateVerify12
    <2>1. /\ pc[Client] # "failed" /\ \E next : next # "failed" /\ Goto(Client, next)
          /\ UNCHANGED <<config, closed>> /\ faults' \in {faults, faults + 1}
      BY <1>9 DEF SendCertificateVerify12, SendPlain, SendProtected, SendSignature,
         SignatureFails, Send, RecvPlain, RecvProtected, Recv, At, Unhashed
    <2> QED
      BY <2>1, GotoOnward, PeerOf
  <1>10. CASE SendClientChangeCipherSpec12
    <2>1. /\ pc[Client] # "failed" /\ \E next : next # "failed" /\ Goto(Client, next)
          /\ UNCHANGED <<config, closed>> /\ faults' \in {faults, faults + 1}
      BY <1>10 DEF SendClientChangeCipherSpec12, SendPlain, SendProtected, SendSignature,
         SignatureFails, Send, RecvPlain, RecvProtected, Recv, At, Unhashed
    <2> QED
      BY <2>1, GotoOnward, PeerOf
  <1>11. CASE SendClientFinished12
    <2>1. /\ pc[Client] # "failed" /\ \E next : next # "failed" /\ Goto(Client, next)
          /\ UNCHANGED <<config, closed>> /\ faults' \in {faults, faults + 1}
      BY <1>11 DEF SendClientFinished12, SendPlain, SendProtected, SendSignature,
         SignatureFails, Send, RecvPlain, RecvProtected, Recv, At, Unhashed
    <2> QED
      BY <2>1, GotoOnward, PeerOf
  <1>12. CASE RecvServerChangeCipherSpec12
    <2>1. /\ pc[Client] # "failed" /\ \E next : next # "failed" /\ Goto(Client, next)
          /\ UNCHANGED <<config, closed>> /\ faults' \in {faults, faults + 1}
      BY <1>12 DEF RecvServerChangeCipherSpec12, SendPlain, SendProtected, SendSignature,
         SignatureFails, Send, RecvPlain, RecvProtected, Recv, At, Unhashed
    <2> QED
      BY <2>1, GotoOnward, PeerOf
  <1>13. CASE RecvServerFinished12
    <2>1. /\ pc[Client] # "failed" /\ \E next : next # "failed" /\ Goto(Client, next)
          /\ UNCHANGED <<config, closed>> /\ faults' \in {faults, faults + 1}
      BY <1>13 DEF RecvServerFinished12, SendPlain, SendProtected, SendSignature,
         SignatureFails, Send, RecvPlain, RecvProtected, Recv, At, Unhashed
    <2> QED
      BY <2>1, GotoOnward, PeerOf
  <1> QED
    BY <1>1, <1>2, <1>3, <1>4, <1>5, <1>6, <1>7, <1>8, <1>9, <1>10, <1>11, <1>12, <1>13 DEF
       Connect12, Client12

LEMMA Accept12Onward == ASSUME TypeOK, Accept12 PROVE Onward
  <1>1. CASE RecvClientHello12
    <2>1. /\ pc[Server] # "failed" /\ \E next : next # "failed" /\ Goto(Server, next)
          /\ UNCHANGED <<config, closed>> /\ faults' \in {faults, faults + 1}
      BY <1>1 DEF RecvClientHello12, SendPlain, SendProtected, SendSignature,
         SignatureFails, Send, RecvPlain, RecvProtected, Recv, At, Unhashed
    <2> QED
      BY <2>1, GotoOnward, PeerOf
  <1>2. CASE SendServerHello12
    <2>1. /\ pc[Server] # "failed" /\ \E next : next # "failed" /\ Goto(Server, next)
          /\ UNCHANGED <<config, closed>> /\ faults' \in {faults, faults + 1}
      BY <1>2 DEF SendServerHello12, SendPlain, SendProtected, SendSignature,
         SignatureFails, Send, RecvPlain, RecvProtected, Recv, At, Unhashed
    <2> QED
      BY <2>1, GotoOnward, PeerOf
  <1>3. CASE SendServerCertificate12
    <2>1. /\ pc[Server] # "failed" /\ \E next : next # "failed" /\ Goto(Server, next)
          /\ UNCHANGED <<config, closed>> /\ faults' \in {faults, faults + 1}
      BY <1>3 DEF SendServerCertificate12, SendPlain, SendProtected, SendSignature,
         SignatureFails, Send, RecvPlain, RecvProtected, Recv, At, Unhashed
    <2> QED
      BY <2>1, GotoOnward, PeerOf
  <1>4. CASE SendServerKeyExchange12
    <2>1. /\ pc[Server] # "failed" /\ \E next : next # "failed" /\ Goto(Server, next)
          /\ UNCHANGED <<config, closed>> /\ faults' \in {faults, faults + 1}
      BY <1>4 DEF SendServerKeyExchange12, SendPlain, SendProtected, SendSignature,
         SignatureFails, Send, RecvPlain, RecvProtected, Recv, At, Unhashed
    <2> QED
      BY <2>1, GotoOnward, PeerOf
  <1>5. CASE SendCertificateRequest12
    <2>1. /\ pc[Server] # "failed" /\ \E next : next # "failed" /\ Goto(Server, next)
          /\ UNCHANGED <<config, closed>> /\ faults' \in {faults, faults + 1}
      BY <1>5 DEF SendCertificateRequest12, SendPlain, SendProtected, SendSignature,
         SignatureFails, Send, RecvPlain, RecvProtected, Recv, At, Unhashed
    <2> QED
      BY <2>1, GotoOnward, PeerOf
  <1>6. CASE SendServerHelloDone12
    <2>1. /\ pc[Server] # "failed" /\ \E next : next # "failed" /\ Goto(Server, next)
          /\ UNCHANGED <<config, closed>> /\ faults' \in {faults, faults + 1}
      BY <1>6 DEF SendServerHelloDone12, SendPlain, SendProtected, SendSignature,
         SignatureFails, Send, RecvPlain, RecvProtected, Recv, At, Unhashed
    <2> QED
      BY <2>1, GotoOnward, PeerOf
  <1>7. CASE RecvClientCertificate12
    <2>1. /\ pc[Server] # "failed" /\ \E next : next # "failed" /\ Goto(Server, next)
          /\ UNCHANGED <<config, closed>> /\ faults' \in {faults, faults + 1}
      BY <1>7 DEF RecvClientCertificate12, SendPlain, SendProtected, SendSignature,
         SignatureFails, Send, RecvPlain, RecvProtected, Recv, At, Unhashed
    <2> QED
      BY <2>1, GotoOnward, PeerOf
  <1>8. CASE RecvClientKeyExchange12
    <2>1. /\ pc[Server] # "failed" /\ \E next : next # "failed" /\ Goto(Server, next)
          /\ UNCHANGED <<config, closed>> /\ faults' \in {faults, faults + 1}
      BY <1>8 DEF RecvClientKeyExchange12, SendPlain, SendProtected, SendSignature,
         SignatureFails, Send, RecvPlain, RecvProtected, Recv, At, Unhashed
    <2> QED
      BY <2>1, GotoOnward, PeerOf
  <1>9. CASE RecvCertificateVerify12
    <2>1. /\ pc[Server] # "failed" /\ \E next : next # "failed" /\ Goto(Server, next)
          /\ UNCHANGED <<config, closed>> /\ faults' \in {faults, faults + 1}
      BY <1>9 DEF RecvCertificateVerify12, SendPlain, SendProtected, SendSignature,
         SignatureFails, Send, RecvPlain, RecvProtected, Recv, At, Unhashed
    <2> QED
      BY <2>1, GotoOnward, PeerOf
  <1>10. CASE RecvClientChangeCipherSpec12
    <2>1. /\ pc[Server] # "failed" /\ \E next : next # "failed" /\ Goto(Server, next)
          /\ UNCHANGED <<config, closed>> /\ faults' \in {faults, faults + 1}
      BY <1>10 DEF RecvClientChangeCipherSpec12, SendPlain, SendProtected, SendSignature,
         SignatureFails, Send, RecvPlain, RecvProtected, Recv, At, Unhashed
    <2> QED
      BY <2>1, GotoOnward, PeerOf
  <1>11. CASE RecvClientFinished12
    <2>1. /\ pc[Server] # "failed" /\ \E next : next # "failed" /\ Goto(Server, next)
          /\ UNCHANGED <<config, closed>> /\ faults' \in {faults, faults + 1}
      BY <1>11 DEF RecvClientFinished12, SendPlain, SendProtected, SendSignature,
         SignatureFails, Send, RecvPlain, RecvProtected, Recv, At, Unhashed
    <2> QED
      BY <2>1, GotoOnward, PeerOf
  <1>12. CASE SendServerChangeCipherSpec12
    <2>1. /\ pc[Server] # "failed" /\ \E next : next # "failed" /\ Goto(Server, next)
          /\ UNCHANGED <<config, closed>> /\ faults' \in {faults, faults + 1}
      BY <1>12 DEF SendServerChangeCipherSpec12, SendPlain, SendProtected, SendSignature,
         SignatureFails, Send, RecvPlain, RecvProtected, Recv, At, Unhashed
    <2> QED
      BY <2>1, GotoOnward, PeerOf
  <1>13. CASE SendServerFinished12
    <2>1. /\ pc[Server] # "failed" /\ \E next : next # "failed" /\ Goto(Server, next)
          /\ UNCHANGED <<config, closed>> /\ faults' \in {faults, faults + 1}
      BY <1>13 DEF SendServerFinished12, SendPlain, SendProtected, SendSignature,
         SignatureFails, Send, RecvPlain, RecvProtected, Recv, At, Unhashed
    <2> QED
      BY <2>1, GotoOnward, PeerOf
  <1> QED
    BY <1>1, <1>2, <1>3, <1>4, <1>5, <1>6, <1>7, <1>8, <1>9, <1>10, <1>11, <1>12, <1>13 DEF
       Accept12, Server12

LEMMA Connect13Onward == ASSUME TypeOK, Connect13 PROVE Onward
  <1>1. CASE SendClientHello13
    <2>1. /\ pc[Client] # "failed" /\ \E next : next # "failed" /\ Goto(Client, next)
          /\ UNCHANGED <<config, closed>> /\ faults' \in {faults, faults + 1}
      BY <1>1 DEF SendClientHello13, SendPlain, SendProtected, SendSignature,
         SignatureFails, Send, RecvPlain, RecvProtected, Recv, At
    <2> QED
      BY <2>1, GotoOnward, PeerOf
  <1>2. CASE RecvServerHello13
    <2>1. /\ pc[Client] # "failed" /\ \E next : next # "failed" /\ Goto(Client, next)
          /\ UNCHANGED <<config, closed>> /\ faults' \in {faults, faults + 1}
      BY <1>2 DEF RecvServerHello13, SendPlain, SendProtected, SendSignature,
         SignatureFails, Send, RecvPlain, RecvProtected, Recv, At
    <2> QED
      BY <2>1, GotoOnward, PeerOf
  <1>3. CASE RecvEncryptedExtensions13
    <2>1. /\ pc[Client] # "failed" /\ \E next : next # "failed" /\ Goto(Client, next)
          /\ UNCHANGED <<config, closed>> /\ faults' \in {faults, faults + 1}
      BY <1>3 DEF RecvEncryptedExtensions13, SendPlain, SendProtected, SendSignature,
         SignatureFails, Send, RecvPlain, RecvProtected, Recv, At
    <2> QED
      BY <2>1, GotoOnward, PeerOf
  <1>4. CASE RecvCertificateRequest13
    <2>1. /\ pc[Client] # "failed" /\ \E next : next # "failed" /\ Goto(Client, next)
          /\ UNCHANGED <<config, closed>> /\ faults' \in {faults, faults + 1}
      BY <1>4 DEF RecvCertificateRequest13, SendPlain, SendProtected, SendSignature,
         SignatureFails, Send, RecvPlain, RecvProtected, Recv, At
    <2> QED
      BY <2>1, GotoOnward, PeerOf
  <1>5. CASE RecvServerCertificate13
    <2>1. /\ pc[Client] # "failed" /\ \E next : next # "failed" /\ Goto(Client, next)
          /\ UNCHANGED <<config, closed>> /\ faults' \in {faults, faults + 1}
      BY <1>5 DEF RecvServerCertificate13, SendPlain, SendProtected, SendSignature,
         SignatureFails, Send, RecvPlain, RecvProtected, Recv, At
    <2> QED
      BY <2>1, GotoOnward, PeerOf
  <1>6. CASE RecvServerCertificateVerify13
    <2>1. /\ pc[Client] # "failed" /\ \E next : next # "failed" /\ Goto(Client, next)
          /\ UNCHANGED <<config, closed>> /\ faults' \in {faults, faults + 1}
      BY <1>6 DEF RecvServerCertificateVerify13, SendPlain, SendProtected, SendSignature,
         SignatureFails, Send, RecvPlain, RecvProtected, Recv, At
    <2> QED
      BY <2>1, GotoOnward, PeerOf
  <1>7. CASE RecvServerFinished13
    <2>1. /\ pc[Client] # "failed" /\ \E next : next # "failed" /\ Goto(Client, next)
          /\ UNCHANGED <<config, closed>> /\ faults' \in {faults, faults + 1}
      BY <1>7 DEF RecvServerFinished13, SendPlain, SendProtected, SendSignature,
         SignatureFails, Send, RecvPlain, RecvProtected, Recv, At
    <2> QED
      BY <2>1, GotoOnward, PeerOf
  <1>8. CASE SendClientCertificate13
    <2>1. /\ pc[Client] # "failed" /\ \E next : next # "failed" /\ Goto(Client, next)
          /\ UNCHANGED <<config, closed>> /\ faults' \in {faults, faults + 1}
      BY <1>8 DEF SendClientCertificate13, SendPlain, SendProtected, SendSignature,
         SignatureFails, Send, RecvPlain, RecvProtected, Recv, At
    <2> QED
      BY <2>1, GotoOnward, PeerOf
  <1>9. CASE SendCertificateVerify13
    <2>1. /\ pc[Client] # "failed" /\ \E next : next # "failed" /\ Goto(Client, next)
          /\ UNCHANGED <<config, closed>> /\ faults' \in {faults, faults + 1}
      BY <1>9 DEF SendCertificateVerify13, SendPlain, SendProtected, SendSignature,
         SignatureFails, Send, RecvPlain, RecvProtected, Recv, At
    <2> QED
      BY <2>1, GotoOnward, PeerOf
  <1>10. CASE SendClientFinished13
    <2>1. /\ pc[Client] # "failed" /\ \E next : next # "failed" /\ Goto(Client, next)
          /\ UNCHANGED <<config, closed>> /\ faults' \in {faults, faults + 1}
      BY <1>10 DEF SendClientFinished13, SendPlain, SendProtected, SendSignature,
         SignatureFails, Send, RecvPlain, RecvProtected, Recv, At
    <2> QED
      BY <2>1, GotoOnward, PeerOf
  <1> QED
    BY <1>1, <1>2, <1>3, <1>4, <1>5, <1>6, <1>7, <1>8, <1>9, <1>10 DEF Connect13, Client13

LEMMA Accept13Onward == ASSUME TypeOK, Accept13 PROVE Onward
  <1>1. CASE RecvClientHello13
    <2>1. /\ pc[Server] # "failed" /\ \E next : next # "failed" /\ Goto(Server, next)
          /\ UNCHANGED <<config, closed>> /\ faults' \in {faults, faults + 1}
      BY <1>1 DEF RecvClientHello13, SendPlain, SendProtected, SendSignature,
         SignatureFails, Send, RecvPlain, RecvProtected, Recv, At
    <2> QED
      BY <2>1, GotoOnward, PeerOf
  <1>2. CASE SendServerHello13
    <2>1. /\ pc[Server] # "failed" /\ \E next : next # "failed" /\ Goto(Server, next)
          /\ UNCHANGED <<config, closed>> /\ faults' \in {faults, faults + 1}
      BY <1>2 DEF SendServerHello13, SendPlain, SendProtected, SendSignature,
         SignatureFails, Send, RecvPlain, RecvProtected, Recv, At
    <2> QED
      BY <2>1, GotoOnward, PeerOf
  <1>3. CASE SendEncryptedExtensions13
    <2>1. /\ pc[Server] # "failed" /\ \E next : next # "failed" /\ Goto(Server, next)
          /\ UNCHANGED <<config, closed>> /\ faults' \in {faults, faults + 1}
      BY <1>3 DEF SendEncryptedExtensions13, SendPlain, SendProtected, SendSignature,
         SignatureFails, Send, RecvPlain, RecvProtected, Recv, At
    <2> QED
      BY <2>1, GotoOnward, PeerOf
  <1>4. CASE SendCertificateRequest13
    <2>1. /\ pc[Server] # "failed" /\ \E next : next # "failed" /\ Goto(Server, next)
          /\ UNCHANGED <<config, closed>> /\ faults' \in {faults, faults + 1}
      BY <1>4 DEF SendCertificateRequest13, SendPlain, SendProtected, SendSignature,
         SignatureFails, Send, RecvPlain, RecvProtected, Recv, At
    <2> QED
      BY <2>1, GotoOnward, PeerOf
  <1>5. CASE SendServerCertificate13
    <2>1. /\ pc[Server] # "failed" /\ \E next : next # "failed" /\ Goto(Server, next)
          /\ UNCHANGED <<config, closed>> /\ faults' \in {faults, faults + 1}
      BY <1>5 DEF SendServerCertificate13, SendPlain, SendProtected, SendSignature,
         SignatureFails, Send, RecvPlain, RecvProtected, Recv, At
    <2> QED
      BY <2>1, GotoOnward, PeerOf
  <1>6. CASE SendServerCertificateVerify13
    <2>1. /\ pc[Server] # "failed" /\ \E next : next # "failed" /\ Goto(Server, next)
          /\ UNCHANGED <<config, closed>> /\ faults' \in {faults, faults + 1}
      BY <1>6 DEF SendServerCertificateVerify13, SendPlain, SendProtected, SendSignature,
         SignatureFails, Send, RecvPlain, RecvProtected, Recv, At
    <2> QED
      BY <2>1, GotoOnward, PeerOf
  <1>7. CASE SendServerFinished13
    <2>1. /\ pc[Server] # "failed" /\ \E next : next # "failed" /\ Goto(Server, next)
          /\ UNCHANGED <<config, closed>> /\ faults' \in {faults, faults + 1}
      BY <1>7 DEF SendServerFinished13, SendPlain, SendProtected, SendSignature,
         SignatureFails, Send, RecvPlain, RecvProtected, Recv, At
    <2> QED
      BY <2>1, GotoOnward, PeerOf
  <1>8. CASE RecvClientCertificate13
    <2>1. /\ pc[Server] # "failed" /\ \E next : next # "failed" /\ Goto(Server, next)
          /\ UNCHANGED <<config, closed>> /\ faults' \in {faults, faults + 1}
      BY <1>8 DEF RecvClientCertificate13, SendPlain, SendProtected, SendSignature,
         SignatureFails, Send, RecvPlain, RecvProtected, Recv, At
    <2> QED
      BY <2>1, GotoOnward, PeerOf
  <1>9. CASE RecvCertificateVerify13
    <2>1. /\ pc[Server] # "failed" /\ \E next : next # "failed" /\ Goto(Server, next)
          /\ UNCHANGED <<config, closed>> /\ faults' \in {faults, faults + 1}
      BY <1>9 DEF RecvCertificateVerify13, SendPlain, SendProtected, SendSignature,
         SignatureFails, Send, RecvPlain, RecvProtected, Recv, At
    <2> QED
      BY <2>1, GotoOnward, PeerOf
  <1>10. CASE RecvClientFinished13
    <2>1. /\ pc[Server] # "failed" /\ \E next : next # "failed" /\ Goto(Server, next)
          /\ UNCHANGED <<config, closed>> /\ faults' \in {faults, faults + 1}
      BY <1>10 DEF RecvClientFinished13, SendPlain, SendProtected, SendSignature,
         SignatureFails, Send, RecvPlain, RecvProtected, Recv, At
    <2> QED
      BY <2>1, GotoOnward, PeerOf
  <1> QED
    BY <1>1, <1>2, <1>3, <1>4, <1>5, <1>6, <1>7, <1>8, <1>9, <1>10 DEF Accept13, Server13

LEMMA DataOnward == ASSUME TypeOK, NEW s \in Side, Data13(s) PROVE Onward
  <1>1. CASE tls13_send(s) \/ tls13_recv(s)
    BY <1>1 DEF tls13_send, tls13_recv, Onward
  <1>2. CASE tls13_recv_fails(s)
    BY <1>2, GotoOnward DEF tls13_recv_fails, At
  <1> QED
    BY <1>1, <1>2 DEF Data13

\* What a message or data does to the script.
LEMMA MessageScript ==
  ASSUME TypeOK, ClosedInv, ScriptInv, Calm',
         Connect12 \/ Accept12 \/ Connect13 \/ Accept13 \/ \E s \in Side : Data13(s)
  PROVE  ScriptInv'
  <1>1. Onward
    BY Connect12Onward, Accept12Onward, Connect13Onward, Accept13Onward, DataOnward
  <1>2. Calm /\ faults' = faults
    BY <1>1, PeerOf DEF Onward, Calm, TypeOK, OtherOK
  <1>3. Tls13' = Tls13
    BY <1>1 DEF Onward, Tls13
  <1>4. CASE Connect12 \/ Accept12
    <2>1. ~Tls13
      BY <1>4 DEF Connect12, Accept12, Tls13
    <2>2. Script12'
      BY <1>2, <1>4, <2>1, Connect12Script, Accept12Script DEF ScriptInv
    <2> QED
      BY <1>3, <2>1, <2>2 DEF ScriptInv
  <1>5. CASE Connect13 \/ Accept13 \/ \E s \in Side : Data13(s)
    <2>1. Tls13
      BY <1>5 DEF Connect13, Accept13, Data13, Tls13
    <2>2. Script13
      BY <1>2, <2>1 DEF ScriptInv
    <2>3. ASSUME NEW s \in Side, Data13(s) PROVE Script13'
      BY <2>2, <2>3, Send13Script, Recv13Script, RecvFails13Script DEF Data13
    <2>4. Script13'
      BY <1>2, <1>5, <2>2, <2>3, Connect13Script, Accept13Script DEF Connect13, Accept13
    <2> QED
      BY <1>3, <2>1, <2>4 DEF ScriptInv
  <1> QED
    BY <1>4, <1>5

LEMMA SameScript ==
  ASSUME ScriptInv, UNCHANGED vars
  PROVE  ScriptInv'
  BY DEF ScriptInv, Calm, Script12, Script13, At12, At13, Step12, Step13, Keys12, Keys13,
     Flight12, Flight13, SentBy, ReadBy, Answers, Tls13, client_verify, vars

LEMMA QuietCases ==
  ASSUME TypeOK, Quiet
  PROVE  \/ UNCHANGED vars
         \/ \E s \in Side : Refuses(s) /\ Fails(s)
         \/ \E s \in Side : /\ pc[s] = "failed" /\ closed' = [closed EXCEPT ![s] = TRUE]
                            /\ UNCHANGED <<pc, config, faults>>
         \/ faults' = faults + 1 /\ UNCHANGED <<pc, config, closed>>
  BY RefusesFails DEF Quiet, Environment, CloseFailed, NetworkFault

\* Only a handshake that has failed is closed; it stays failed.
LEMMA EndsStep ==
  ASSUME TypeOK, ClosedInv, [Next]_vars
  PROVE  /\ ClosedInv' /\ config' = config /\ faults' \in {faults, faults + 1}
         /\ \A s \in Side : pc[s] = "failed" => pc'[s] = "failed"
         /\ \A s \in Side : pc'[s] = "failed" => pc[s] = "failed" \/ Refuses(s)
  <1>1. CASE Onward
    BY <1>1 DEF Onward, ClosedInv
  <1>2. CASE Quiet
    <2>1. CASE UNCHANGED vars
      BY <2>1 DEF vars, ClosedInv
    <2>2. ASSUME NEW t \in Side, Refuses(t), Fails(t)
          PROVE  /\ closed' = closed /\ config' = config /\ faults' = faults
                 /\ \A s \in Side : \/ pc'[s] = pc[s]
                                    \/ s = t /\ pc'[s] = "failed"
      BY <2>2 DEF Fails, Side, Peer
    <2>3. ASSUME NEW t \in Side, pc[t] = "failed", closed' = [closed EXCEPT ![t] = TRUE],
                 UNCHANGED <<pc, config, faults>>
          PROVE  ClosedInv'
      BY <2>3 DEF ClosedInv, TypeOK, OtherOK
    <2>4. CASE faults' = faults + 1 /\ UNCHANGED <<pc, config, closed>>
      BY <2>4 DEF ClosedInv
    <2>5. CASE \E t \in Side : Refuses(t) /\ Fails(t)
      BY <2>2, <2>5 DEF ClosedInv
    <2>6. CASE \E t \in Side : /\ pc[t] = "failed" /\ closed' = [closed EXCEPT ![t] = TRUE]
                               /\ UNCHANGED <<pc, config, faults>>
      BY <2>3, <2>6
    <2> QED
      BY <1>2, <2>1, <2>4, <2>5, <2>6, QuietCases
  <1> QED
    BY <1>1, <1>2, NextCases, Connect12Onward, Accept12Onward, Connect13Onward,
       Accept13Onward, DataOnward

LEMMA ScriptStep ==
  ASSUME TypeOK, ClosedInv, ScriptInv, [Next]_vars
  PROVE  ScriptInv'
  <1> SUFFICES ASSUME Calm' PROVE ScriptInv'
    BY DEF ScriptInv
  <1>1. CASE Quiet
    <2>1. CASE UNCHANGED vars
      BY <2>1, SameScript
    <2>2. ~\E s \in Side : Fails(s)
      BY DEF Fails, Calm, Side
    <2>3. ASSUME NEW s \in Side, pc[s] = "failed", pc' = pc PROVE FALSE
      BY <2>3 DEF Calm, Side
    <2>4. faults' # faults + 1
      BY DEF Calm, TypeOK, OtherOK
    <2> QED
      BY <1>1, <2>1, <2>2, <2>3, <2>4, QuietCases
  <1> QED
    BY <1>1, NextCases, MessageScript

LEMMA ReasonStep ==
  ASSUME TypeOK, ClosedInv, ScriptInv, FailsForAReason, [Next]_vars
  PROVE  FailsForAReason'
  <1> SUFFICES ASSUME NEW s \in Side, pc'[s] = "failed"
               PROVE  faults' > 0 \/ config'.timeouts \/ ~Compatible'
    BY DEF FailsForAReason
  <1>1. /\ config' = config /\ faults' \in {faults, faults + 1}
        /\ pc[s] = "failed" \/ Refuses(s)
    BY EndsStep
  <1>2. faults \in Nat /\ Compatible' = Compatible
    BY <1>1 DEF TypeOK, OtherOK, Compatible, client_verify
  <1>3. CASE pc[s] = "failed"
    BY <1>1, <1>2, <1>3 DEF FailsForAReason
  <1>4. CASE Refuses(s)
    <2> SUFFICES ASSUME faults = 0, ~config.timeouts, Compatible PROVE FALSE
      BY <1>1, <1>2
    <2>1. Calm
      BY PeerOf DEF Calm, FailsForAReason
    <2>2. CASE config.protocol = "tls12"
      <3>1. Script12
        BY <2>1, <2>2 DEF ScriptInv, Tls13
      <3> QED
        BY <1>4, <2>2, <3>1, NoRefusal12
    <2>3. CASE config.protocol = "tls13"
      <3>1. Script13
        BY <2>1, <2>3 DEF ScriptInv, Tls13
      <3>2. Reject13(s) \/ IOFails13(s)
        BY <1>4, <2>3 DEF Refuses
      <3> QED
        BY <3>1, <3>2, NoRefusal13
    <2> QED
      BY <1>4, <2>2, <2>3 DEF Refuses
  <1> QED
    BY <1>1, <1>3, <1>4

LEMMA ScriptInit ==
  ASSUME Init
  PROVE  ClosedInv /\ ScriptInv /\ FailsForAReason
  <1>0. PICK v \in BOOLEAN : v = client_verify
    BY VerifyType
  <1>1. PICK w \in BOOLEAN : w = Answers
    BY VerifyType
  <1>2. /\ pc[Client] = "send_client_hello" /\ pc[Server] = "recv_client_hello"
        /\ clientCerts = (config.clientCert # "none")
        /\ \A s \in Side : /\ wire[s] = <<>> /\ transcript[s] = <<>> /\ sendSeq[s] = 0
                           /\ recvSeq[s] = 0 /\ random[s] = <<"none", "none">>
                           /\ sent[s] = 0 /\ got[s] = <<>> /\ ~closed[s]
    BY SidesAssumption DEF Init, LinkInit, Side
  <1>3. \A flow : InFlight(<<>>, flow, 0, 0)
    BY DEF InFlight
  <1>4. Script12
    <2>1. At12(Client, "send_client_hello", v)
      BY <1>2, SidesAssumption, PeerOf DEF At12, Step12, Keys12, RandomAt12, HasShare12,
         Keyed12, SendNo12, RecvNo12, Asking12, ClientPath12, Verifying12, HashedAt12
    <2>2. At12(Server, "recv_client_hello", v)
      BY <1>2, SidesAssumption, PeerOf DEF At12, Step12, Keys12, RandomAt12, HasShare12,
         Keyed12, SendNo12, RecvNo12, ServerPath12, Verifying12, HashedAt12
    <2>3. /\ SentAt12(v, Client, "send_client_hello") = 0
          /\ ReadAt12(v, Client, "send_client_hello") = 0
      BY DEF SentAt12, ReadAt12
    <2>4. /\ SentAt12(v, Server, "recv_client_hello") = 0
          /\ ReadAt12(v, Server, "recv_client_hello") = 0
      BY SidesAssumption DEF SentAt12, ReadAt12
    <2>5. Flight12(Client, v) /\ Flight12(Server, v)
      BY <1>2, <1>3, <2>3, <2>4, PeerOf DEF Flight12
    <2> QED
      BY <1>0, <1>2, <2>1, <2>2, <2>5 DEF Script12, Side
  <1>5. Script13
    <2>1. /\ SentAt13(v, w, Client, "send_client_hello") = 0
          /\ ReadAt13(v, w, Client, "send_client_hello") = 0
      BY DEF SentAt13, ReadAt13
    <2>2. /\ SentAt13(v, w, Server, "recv_client_hello") = 0
          /\ ReadAt13(v, w, Server, "recv_client_hello") = 0
      BY SidesAssumption DEF SentAt13, ReadAt13
    <2>3. At13(Client, "send_client_hello", v, w)
      BY <1>2, <2>1, SidesAssumption, PeerOf DEF At13, Step13, Keys13, Number13, Shared13,
         Unkeyed13, Derived13, Asking13, ClientPath13, Verifying13, Answering13, HashedAt13
    <2>4. At13(Server, "recv_client_hello", v, w)
      BY <1>2, <2>2, SidesAssumption, PeerOf DEF At13, Step13, Keys13, Number13, Shared13,
         Unkeyed13, Derived13, ServerPath13, Verifying13, Answering13, HashedAt13
    <2>5. \A s \in Side : SentBy(v, w, s) = 0 /\ ReadBy(v, w, s) = 0
      BY <1>2, <2>1, <2>2 DEF SentBy, ReadBy, Side
    <2>6. \A s \in Side : Flight13(s, v, w)
      BY <1>2, <1>3, <2>5, PeerType DEF Flight13
    <2> QED
      BY <1>0, <1>1, <1>2, <2>3, <2>4, <2>6 DEF Script13, Side
  <1> QED
    BY <1>2, <1>4, <1>5 DEF ClosedInv, ScriptInv, FailsForAReason, Side

\* Where both have completed, the script has the records of ReadyForData.
LEMMA Ready12 ==
  ASSUME TypeOK, Script12, pc[Client] = "established", pc[Server] = "established",
         NEW s \in Side
  PROVE  sendSeq[s] = recvSeq[Peer(s)] /\ Len(wire[s]) = 0
  <1>0. PICK v \in BOOLEAN : v = client_verify
    BY VerifyType
  <1>1. \A t \in Side : pc[t] = "established"
    BY DEF Side
  <1>2. \A t \in Side : sendSeq[t] = 1 /\ recvSeq[t] = 1
    BY <1>1 DEF Script12, At12, Keys12, SendNo12, RecvNo12
  <1>3. SentAt12(v, s, "established") = ReadAt12(v, Peer(s), "established")
    <2>1. CASE s = Client
      BY <2>1, PeerOf, SidesAssumption DEF SentAt12, ReadAt12
    <2>2. CASE s = Server
      BY <2>2, PeerOf, SidesAssumption DEF SentAt12, ReadAt12
    <2> QED
      BY <2>1, <2>2 DEF Side
  <1>4. PICK n \in Nat : n = SentAt12(v, s, "established")
    BY DEF SentAt12
  <1>5. Len(wire[s]) + n = n
    BY <1>0, <1>1, <1>3, <1>4, PeerType DEF Script12, Flight12, InFlight
  <1>6. Len(wire[s]) \in Nat
    BY DEF TypeOK, RecordSeqs
  <1> QED
    BY <1>2, <1>4, <1>5, <1>6, PeerType

LEMMA Ready13 ==
  ASSUME TypeOK, Script13, pc[Client] = "established", pc[Server] = "established",
         NEW s \in Side
  PROVE  /\ sendSeq[s] = recvSeq[Peer(s)] + Len(wire[s])
         /\ \A k \in 1 .. Len(wire[s]) : /\ wire[s][k].type = "application_data"
                                         /\ wire[s][k].seq = recvSeq[Peer(s)] + k - 1
  <1>0. PICK v \in BOOLEAN : v = client_verify
    BY VerifyType
  <1>1. PICK w \in BOOLEAN : w = Answers
    BY VerifyType
  <1>2. PICK t : t = Peer(s)
    OBVIOUS
  <1>3. t \in Side /\ Peer(t) = s /\ pc[s] = "established" /\ pc[t] = "established"
    BY <1>2, PeerType DEF Side
  <1>4. PICK o \in Nat : o = OpeningLen(v, w, s)
    BY DEF OpeningLen
  <1>5. PICK n \in Nat : n = Len(got[t])
    BY <1>3, CountTypes13
  <1>6. PICK x \in Nat : x = sent[s]
    BY CountTypes13
  <1>7. /\ sendSeq[s] = x /\ recvSeq[t] = n
        /\ SentBy(v, w, s) = o + x /\ ReadBy(v, w, t) = o + n
    BY <1>0, <1>1, <1>3, <1>4, <1>5, <1>6, Established13
  <1>8. /\ Len(wire[s]) + (o + n) = o + x
        /\ \A i \in 1 .. Len(wire[s]) : wire[s][i] = Flow13(v, w, s)[(o + n) + i]
    BY <1>0, <1>1, <1>2, <1>7 DEF Script13, Flight13, InFlight
  <1>9. Len(wire[s]) \in Nat
    BY DEF TypeOK, RecordSeqs
  <1>10. ASSUME NEW k \in 1 .. Len(wire[s])
         PROVE  /\ wire[s][k].type = "application_data" /\ wire[s][k].seq = n + k - 1
    <2>1. n + k \in Nat /\ n + k > 0 /\ (o + n) + k = o + (n + k)
      BY <1>9
    <2>2. Flow13(v, w, s)[o + (n + k)] = Data(v, n + k)
      BY <1>4, <2>1, DataFlow13
    <2>3. wire[s][k] = Data(v, n + k)
      BY <1>8, <2>1, <2>2
    <2> QED
      BY <2>3, DataFields
  <1>11. sendSeq[s] = n + Len(wire[s])
    <2>1. PICK l \in Nat : l = Len(wire[s])
      BY <1>9
    <2>2. l + (o + n) = o + x
      BY <1>8, <2>1
    <2>3. x = n + l
      BY <2>2
    <2> QED
      BY <1>7, <2>1, <2>3
  <1>12. recvSeq[Peer(s)] = n
    BY <1>2, <1>7
  <1> QED
    BY <1>10, <1>11, <1>12

LEMMA ScriptReady ==
  ASSUME TypeOK, ScriptInv, SameKeys
  PROVE  ReadyForData
  <1> SUFFICES ASSUME Completed(Client), Completed(Server), faults = 0, NEW s \in Side
               PROVE  /\ sendSeq[s] = recvSeq[Peer(s)] + Len(wire[s])
                      /\ \A k \in 1 .. Len(wire[s]) :
                             /\ wire[s][k].type = "application_data"
                             /\ wire[s][k].seq = recvSeq[Peer(s)] + k - 1
    BY DEF ReadyForData, SameKeys
  <1>1. Calm
    BY DEF Calm, Completed
  <1>2. CASE Tls13
    <2>1. Script13
      BY <1>1, <1>2 DEF ScriptInv
    <2>2. pc[Client] = "established" /\ pc[Server] = "established"
      BY <2>1, Steps13, PeerOf DEF Completed
    <2> QED
      BY <2>1, <2>2, Ready13
  <1>3. CASE ~Tls13
    <2>1. Script12
      BY <1>1, <1>3 DEF ScriptInv
    <2>2. pc[Client] = "established" /\ pc[Server] = "established"
      BY <2>1, Steps12, PeerOf DEF Completed
    <2>3. sendSeq[s] = recvSeq[Peer(s)] /\ Len(wire[s]) = 0 /\ sendSeq[s] \in Nat
      BY <2>1, <2>2, Ready12 DEF TypeOK, SeqsOK
    <2> QED
      BY <2>3
  <1> QED
    BY <1>2, <1>3

\* An undisturbed connection follows the script, and a connection is closed
\* only after its handshake has failed.
THEOREM ScriptCorrect == Spec => [](ClosedInv /\ ScriptInv)
  <1>1. Init => ClosedInv /\ ScriptInv
    BY ScriptInit
  <1>2. TypeOK /\ ClosedInv /\ ScriptInv /\ [Next]_vars => ClosedInv' /\ ScriptInv'
    BY EndsStep, ScriptStep
  <1> QED
    BY <1>1, <1>2, TypeCorrect, PTL DEF Spec

\* Peers that have both completed have the same keys under any disturbance, and
\* without one the numbers tls13_send and tls13_recv count agree with the data
\* in flight, all of it and only it, at any moment.
THEOREM ReadyForDataCorrect == Spec => []ReadyForData
  <1>1. TypeOK /\ ClosedInv /\ ScriptInv /\ SameKeys => ReadyForData
    BY ScriptReady
  <1> QED
    BY <1>1, TypeCorrect, ScriptCorrect, SameKeysCorrect, PTL

\* The handshake of compatible peers that wait for each other without a timeout
\* fails on no step of its own: whatever the interleaving, every record is one
\* the step it arrives at accepts.
THEOREM FailsForAReasonCorrect == Spec => []FailsForAReason
  <1>1. Init => FailsForAReason
    BY ScriptInit
  <1>2. TypeOK /\ ClosedInv /\ ScriptInv /\ FailsForAReason /\ [Next]_vars => FailsForAReason'
    BY ReasonStep
  <1> QED
    BY <1>1, <1>2, TypeCorrect, ScriptCorrect, PTL DEF Spec
=============================================================================
