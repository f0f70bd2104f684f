------------------------ MODULE TlcpHandshakeProofs ------------------------
(***************************************************************************)
(* TLAPS proofs about TlcpHandshake, for every number of network faults:   *)
(* its type invariant; that it implements KeyAgreement; that the key the   *)
(* client encrypts to is the server's, a completed handshake was not       *)
(* altered and authenticated whom it had to, and an undisturbed handshake  *)
(* runs to its end and leaves nothing behind.                              *)
(***************************************************************************)
EXTENDS TlcpHandshake, TLAPS

-----------------------------------------------------------------------------
(* Sequences of records.  A queue or a transcript is a sequence over its   *)
(* own elements; what the model does to it adds or keeps elements.         *)

\* q is a sequence of records.
IsRecordSeq(q) == q \in Seq(Elems(q)) /\ \A m \in Elems(q) : RecordOK(m)

\* A sequence over any set is a sequence over its own elements.
LEMMA OwnElems ==
  ASSUME NEW S, NEW q \in Seq(S)
  PROVE  q \in Seq(Elems(q)) /\ Elems(q) \subseteq S
  <1>1. Len(q) \in Nat /\ DOMAIN q = 1 .. Len(q) /\ q = [i \in 1 .. Len(q) |-> q[i]]
    OBVIOUS
  <1>2. \A i \in 1 .. Len(q) : q[i] \in Elems(q) /\ q[i] \in S
    BY <1>1 DEF Elems
  <1>3. q \in [1 .. Len(q) -> Elems(q)]
    BY <1>1, <1>2
  <1>4. q \in Seq(Elems(q))
    BY <1>1, <1>3
  <1>5. Elems(q) \subseteq S
    BY <1>1, <1>2 DEF Elems
  <1> QED
    BY <1>4, <1>5

LEMMA EmptySeq == IsRecordSeq(<<>>) /\ Elems(<<>>) = {}
  BY DEF IsRecordSeq, Elems

LEMMA AppendSeq ==
  ASSUME NEW q, q \in Seq(Elems(q)), NEW m
  PROVE  /\ Append(q, m) \in Seq(Elems(Append(q, m)))
         /\ Elems(Append(q, m)) = Elems(q) \cup {m}
         /\ Append(q, m) # <<>>
         /\ Append(q, m)[Len(Append(q, m))] = m
  <1> DEFINE r == Append(q, m)
  <1>1. r \in Seq(Elems(q) \cup {m})
    OBVIOUS
  <1>2. /\ Len(q) \in Nat /\ Len(r) = Len(q) + 1 /\ DOMAIN q = 1 .. Len(q)
        /\ DOMAIN r = 1 .. Len(q) + 1
        /\ \A i \in 1 .. Len(q) : r[i] = q[i]
        /\ r[Len(q) + 1] = m
    OBVIOUS
  <1>3. Elems(r) = Elems(q) \cup {m}
    <2>1. Elems(r) \subseteq Elems(q) \cup {m}
      BY <1>1, OwnElems
    <2>2. Elems(q) \subseteq Elems(r)
      <3>1. \A i \in 1 .. Len(q) : q[i] \in Elems(r)
        BY <1>2 DEF Elems
      <3> QED
        BY <1>2, <3>1 DEF Elems
    <2>3. m \in Elems(r)
      BY <1>2 DEF Elems
    <2> QED
      BY <2>1, <2>2, <2>3
  <1>4. r \in Seq(Elems(r))
    BY <1>1, <1>3
  <1>5. r # <<>>
    BY <1>2
  <1> QED
    BY <1>2, <1>3, <1>4, <1>5

LEMMA TailSeq ==
  ASSUME NEW q, q \in Seq(Elems(q)), q # <<>>
  PROVE  /\ Head(q) \in Elems(q)
         /\ Tail(q) \in Seq(Elems(Tail(q)))
         /\ Elems(Tail(q)) \subseteq Elems(q)
  <1>1. Tail(q) \in Seq(Elems(q)) /\ Head(q) \in Elems(q)
    OBVIOUS
  <1> QED
    BY <1>1, OwnElems

\* What the network does to a queue, apart from altering a record, leaves it
\* with records it had.
LEMMA FaultSeq ==
  ASSUME NEW q, q \in Seq(Elems(q)), NEW k \in 1 .. Len(q)
  PROVE  /\ Without(q, k) \in Seq(Elems(q))
         /\ Twice(q, k) \in Seq(Elems(q))
         /\ k < Len(q) => Swapped(q, k) \in Seq(Elems(q))
         /\ q[k] \in Elems(q)
  <1>1. /\ Len(q) \in Nat /\ q \in [1 .. Len(q) -> Elems(q)]
        /\ Len(q) - 1 \in Nat /\ Len(q) + 1 \in Nat
    OBVIOUS
  <1>2. Without(q, k) \in [1 .. Len(q) - 1 -> Elems(q)]
    <2>1. ASSUME NEW i \in 1 .. Len(q) - 1
          PROVE  (IF i < k THEN q[i] ELSE q[i + 1]) \in Elems(q)
      BY <1>1
    <2> QED
      BY <2>1 DEF Without
  <1>3. Twice(q, k) \in [1 .. Len(q) + 1 -> Elems(q)]
    <2>1. ASSUME NEW i \in 1 .. Len(q) + 1
          PROVE  (IF i <= k THEN q[i] ELSE q[i - 1]) \in Elems(q)
      BY <1>1
    <2> QED
      BY <2>1 DEF Twice
  <1>4. k < Len(q) => Swapped(q, k) \in [1 .. Len(q) -> Elems(q)]
    BY <1>1 DEF Swapped
  <1> QED
    BY <1>1, <1>2, <1>3, <1>4

LEMMA PeerType == \A s \in Side : /\ Peer(s) \in Side /\ Peer(s) # s
                                 /\ Peer(Peer(s)) = s
  BY SidesAssumption DEF Side, Peer

LEMMA PeerOf == /\ Peer(Client) = Server /\ Peer(Server) = Client
                /\ Client \in Side /\ Server \in Side
  BY SidesAssumption DEF Side, Peer

LEMMA SeqsOf ==
  ASSUME NEW q, RecordSeqs(q), NEW s \in Side
  PROVE  q[s] \in Seq(Elems(q[s])) /\ \A m \in Elems(q[s]) : RecordOK(m)
  BY DEF RecordSeqs

\* Replacing one side's sequence by a sequence of records.
LEMMA SetSeq ==
  ASSUME NEW q, RecordSeqs(q), NEW s \in Side, NEW r, IsRecordSeq(r)
  PROVE  RecordSeqs([q EXCEPT ![s] = r])
  <1> DEFINE e == [q EXCEPT ![s] = r]
  <1>1. e = [t \in Side |-> e[t]] /\ e[s] = r /\ \A t \in Side : t # s => e[t] = q[t]
    BY DEF RecordSeqs
  <1>2. ASSUME NEW t \in Side
        PROVE  e[t] \in Seq(Elems(e[t])) /\ \A m \in Elems(e[t]) : RecordOK(m)
    <2>1. CASE t = s
      BY <1>1, <2>1 DEF IsRecordSeq
    <2>2. CASE t # s
      BY <1>1, <2>2 DEF RecordSeqs
    <2> QED
      BY <2>1, <2>2
  <1> HIDE DEF e
  <1>3. RecordSeqs(e)
    BY <1>1, <1>2 DEF RecordSeqs
  <1> QED
    BY <1>3 DEF e

LEMMA AppendTo ==
  ASSUME NEW q, RecordSeqs(q), NEW s \in Side, NEW m, RecordOK(m)
  PROVE  RecordSeqs([q EXCEPT ![s] = Append(@, m)])
  <1>1. IsRecordSeq(Append(q[s], m))
    BY AppendSeq, SeqsOf DEF IsRecordSeq
  <1> QED
    BY <1>1, SetSeq

LEMMA TailOf ==
  ASSUME NEW q, RecordSeqs(q), NEW s \in Side, q[s] # <<>>
  PROVE  RecordSeqs([q EXCEPT ![s] = Tail(@)]) /\ RecordOK(Head(q[s]))
  <1>1. IsRecordSeq(Tail(q[s])) /\ RecordOK(Head(q[s]))
    BY TailSeq, SeqsOf DEF IsRecordSeq
  <1> QED
    BY <1>1, SetSeq

LEMMA PlainOK == \A t \in Types : RecordOK(Plain(t))
  BY DEF RecordOK, Plain, Message

LEMMA MessageOK == \A t \in Types : \A a, b, c, d : RecordOK(Message(t, a, b, c, d))
  BY DEF RecordOK, Message

-----------------------------------------------------------------------------
(* Type correctness.                                                       *)

Steps == SendSteps \cup RecvSteps \cup {"established", "failed"}

\* The effect of sending or receiving a record on the parts it touches.
LEMMA EmitType ==
  ASSUME TypeOK, NEW s \in Side, NEW m, RecordOK(m), Emit(s, m)
  PROVE  RecordSeqs(wire')
  BY AppendTo DEF TypeOK, Emit

LEMMA HashType ==
  ASSUME TypeOK, NEW s \in Side, NEW m, RecordOK(m), Hash(s, m)
  PROVE  RecordSeqs(transcript')
  BY AppendTo DEF TypeOK, Hash

LEMMA TakeType ==
  ASSUME TypeOK, NEW s \in Side, Incoming(s), Take(s)
  PROVE  RecordSeqs(wire') /\ RecordOK(First(s))
  BY TailOf, PeerType DEF TypeOK, Take, Incoming, First

LEMMA GotoType ==
  ASSUME TypeOK, NEW s \in Side, NEW next \in Steps, Goto(s, next)
  PROVE  pc' \in [Side -> Steps]
  BY DEF TypeOK, Goto, Steps

\* The parts the messages leave alone or change in a typed way.
KeysOK ==
    /\ random \in [Side -> {"none", "cr", "other"} \X {"none", "sr", "other"}]
    /\ certsOf \in [Side -> {"none", "sent", "core", "rest"}]
    /\ clientCerts \in BOOLEAN
    /\ secret = [s \in Side |-> secret[s]]
SeqsOK == clientSeq \in [Side -> Nat] /\ serverSeq \in [Side -> Nat]
OtherOK == config \in Configs /\ closed \in [Side -> BOOLEAN] /\ faults \in Nat

LEMMA TypeParts ==
  TypeOK <=> /\ pc \in [Side -> Steps] /\ RecordSeqs(wire) /\ RecordSeqs(transcript)
             /\ KeysOK /\ SeqsOK /\ OtherOK
  BY DEF TypeOK, KeysOK, SeqsOK, OtherOK, Steps

LEMMA TypePartsNext ==
  TypeOK' <=> /\ pc' \in [Side -> Steps] /\ RecordSeqs(wire') /\ RecordSeqs(transcript')
              /\ KeysOK' /\ SeqsOK' /\ OtherOK'
  BY DEF TypeOK, KeysOK, SeqsOK, OtherOK, Steps

LEMMA KeysSame == ASSUME KeysOK, UNCHANGED keys PROVE KeysOK'
  BY DEF KeysOK, keys
LEMMA SeqsSame == ASSUME SeqsOK, UNCHANGED seqs PROVE SeqsOK'
  BY DEF SeqsOK, seqs
LEMMA OtherSame == ASSUME OtherOK, UNCHANGED <<config, closed, faults>> PROVE OtherOK'
  BY DEF OtherOK

LEMMA SendType ==
  ASSUME TypeOK, NEW s \in Side, NEW step, NEW m, RecordOK(m), NEW next \in Steps,
         Send(s, step, m, next), KeysOK', SeqsOK'
  PROVE  TypeOK'
  <1>1. pc' \in [Side -> Steps]
    BY GotoType DEF Send
  <1>2. RecordSeqs(wire') /\ RecordSeqs(transcript')
    BY EmitType, HashType DEF Send
  <1>3. OtherOK'
    BY TypeParts, OtherSame DEF Send
  <1> QED
    BY <1>1, <1>2, <1>3, TypePartsNext

LEMMA RecvType ==
  ASSUME TypeOK, NEW s \in Side, NEW step, NEW next \in Steps,
         Recv(s, step, next), KeysOK', SeqsOK'
  PROVE  TypeOK'
  <1>1. pc' \in [Side -> Steps]
    BY GotoType DEF Recv
  <1>2. RecordSeqs(wire') /\ RecordOK(First(s))
    BY TakeType DEF Recv
  <1>3. RecordSeqs(transcript')
    BY <1>2, HashType DEF Recv
  <1>4. OtherOK'
    BY TypeParts, OtherSame DEF Recv
  <1> QED
    BY <1>1, <1>2, <1>3, <1>4, TypePartsNext

\* A message outside the transcript: ChangeCipherSpec and the server's Finished.
LEMMA EmitOnlyType ==
  ASSUME TypeOK, NEW s \in Side, NEW m, RecordOK(m), NEW next \in Steps,
         Emit(s, m), Goto(s, next), UNCHANGED <<config, transcript, closed, faults>>,
         KeysOK', SeqsOK'
  PROVE  TypeOK'
  <1>1. pc' \in [Side -> Steps] /\ RecordSeqs(wire')
    BY GotoType, EmitType
  <1>2. RecordSeqs(transcript') /\ OtherOK'
    BY TypeParts, OtherSame
  <1> QED
    BY <1>1, <1>2, TypePartsNext

LEMMA TakeOnlyType ==
  ASSUME TypeOK, NEW s \in Side, NEW next \in Steps,
         Incoming(s), Take(s), Goto(s, next),
         UNCHANGED <<config, transcript, closed, faults>>, KeysOK', SeqsOK'
  PROVE  TypeOK'
  <1>1. pc' \in [Side -> Steps] /\ RecordSeqs(wire')
    BY GotoType, TakeType
  <1>2. RecordSeqs(transcript') /\ OtherOK'
    BY TypeParts, OtherSame
  <1> QED
    BY <1>1, <1>2, TypePartsNext

LEMMA ClientSendType == ASSUME TypeOK, ClientSend PROVE TypeOK'
  <1> USE PeerOf
  <1>0. KeysOK /\ SeqsOK
    BY TypeParts
  <1>1. CASE SendClientHello
    <2>1. KeysOK' /\ SeqsOK'
      BY <1>0, <1>1 DEF SendClientHello, KeysOK, SeqsOK, seqs
    <2>2. RecordOK(Plain("client_hello")) /\ "recv_server_hello" \in Steps
      BY PlainOK DEF Types, Steps, RecvSteps
    <2> QED
      BY <1>1, <2>1, <2>2, SendType DEF SendClientHello
  <1>2. CASE SendClientCertificate
    <2>1. KeysOK' /\ SeqsOK'
      BY <1>0, <1>2, KeysSame, SeqsSame DEF SendClientCertificate
    <2>2. RecordOK(Plain("certificate")) /\ "send_client_key_exchange" \in Steps
      BY PlainOK DEF Types, Steps, SendSteps
    <2> QED
      BY <1>2, <2>1, <2>2, SendType DEF SendClientCertificate
  <1>3. CASE SendClientKeyExchange
    <2>1. KeysOK' /\ SeqsOK'
      BY <1>0, <1>3 DEF SendClientKeyExchange, KeysOK, SeqsOK, seqs
    <2>2. /\ RecordOK(Plain("client_key_exchange"))
          /\ (IF clientCerts THEN "send_cert_verify" ELSE "send_client_ccs") \in Steps
      BY PlainOK DEF Types, Steps, SendSteps
    <2> QED
      BY <1>3, <2>1, <2>2, SendType DEF SendClientKeyExchange
  <1>4. CASE SendCertificateVerify
    <2>1. KeysOK' /\ SeqsOK'
      BY <1>0, <1>4, KeysSame, SeqsSame DEF SendCertificateVerify
    <2>2. /\ RecordOK(Message("certificate_verify", <<>>, transcript[Client], <<>>, 0))
          /\ "send_client_ccs" \in Steps
      BY MessageOK DEF Types, Steps, SendSteps
    <2> QED
      BY <1>4, <2>1, <2>2, SendType DEF SendCertificateVerify
  <1>5. CASE SendClientChangeCipherSpec
    <2>1. KeysOK' /\ SeqsOK'
      BY <1>0, <1>5, KeysSame, SeqsSame DEF SendClientChangeCipherSpec
    <2>2. RecordOK(Plain("change_cipher_spec")) /\ "send_client_finished" \in Steps
      BY PlainOK DEF Types, Steps, SendSteps
    <2> QED
      BY <1>5, <2>1, <2>2, EmitOnlyType DEF SendClientChangeCipherSpec
  <1>6. CASE SendClientFinished
    <2>1. KeysOK' /\ SeqsOK'
      <3>1. KeysOK'
        BY <1>0, <1>6, KeysSame DEF SendClientFinished
      <3> QED
        BY <1>0, <1>6, <3>1 DEF SendClientFinished, SeqsOK
    <2>2. /\ RecordOK(Finished(Client, "client_finished", clientSeq[Client]))
          /\ "recv_server_ccs" \in Steps
      BY MessageOK DEF Finished, Types, Steps, RecvSteps
    <2> QED
      BY <1>6, <2>1, <2>2, SendType DEF SendClientFinished
  <1> QED
    BY <1>1, <1>2, <1>3, <1>4, <1>5, <1>6 DEF ClientSend

\* What a message that parses says of the peer's random and certificates.
LEMMA ClientRecvType == ASSUME TypeOK, ClientRecv PROVE TypeOK'
  <1> USE PeerOf
  <1>0. KeysOK /\ SeqsOK
    BY TypeParts
  <1>1. CASE RecvServerHello
    <2>1. SeqsOK'
      BY <1>0, <1>1, SeqsSame DEF RecvServerHello
    <2>2. RandomOf(First(Client), "sr") \in {"none", "sr", "other"}
      BY DEF RandomOf
    <2>3. KeysOK'
      BY <1>0, <1>1, <2>2 DEF RecvServerHello, KeysOK
    <2>4. "recv_server_cert" \in Steps
      BY DEF Steps, RecvSteps
    <2> QED
      BY <1>1, <2>1, <2>3, <2>4, RecvType DEF RecvServerHello
  <1>2. CASE RecvServerCertificate
    <2>1. SeqsOK'
      BY <1>0, <1>2, SeqsSame DEF RecvServerCertificate
    <2>2. RecordOK(First(Client))
      BY <1>2, TakeType DEF RecvServerCertificate, Recv
    <2>3. First(Client).val \in {"none", "sent", "core", "rest"}
      BY <1>2, <2>2 DEF RecvServerCertificate, ServerCertOK, Parses, RecordOK
    <2>4. KeysOK'
      BY <1>0, <1>2, <2>3 DEF RecvServerCertificate, KeysOK
    <2>5. "recv_server_key_exchange" \in Steps
      BY DEF Steps, RecvSteps
    <2> QED
      BY <1>2, <2>1, <2>4, <2>5, RecvType DEF RecvServerCertificate
  <1>3. CASE RecvServerKeyExchange
    <2>1. KeysOK' /\ SeqsOK' /\ "recv_cert_request_or_done" \in Steps
      BY <1>0, <1>3, KeysSame, SeqsSame DEF RecvServerKeyExchange, Steps, RecvSteps
    <2> QED
      BY <1>3, <2>1, RecvType DEF RecvServerKeyExchange
  <1>4. CASE RecvCertificateRequest
    <2>1. KeysOK' /\ SeqsOK' /\ "recv_server_hello_done" \in Steps
      BY <1>0, <1>4, KeysSame, SeqsSame DEF RecvCertificateRequest, Steps, RecvSteps
    <2> QED
      BY <1>4, <2>1, RecvType DEF RecvCertificateRequest
  <1>5. CASE RecvServerHelloDone
    <2>1. KeysOK' /\ SeqsOK'
      BY <1>0, <1>5, KeysSame, SeqsSame DEF RecvServerHelloDone
    <2>2. AfterHelloDone(clientCerts) \in Steps
      BY DEF AfterHelloDone, Steps, SendSteps
    <2> QED
      BY <1>5, <2>1, <2>2, RecvType DEF RecvServerHelloDone
  <1>6. CASE RecvServerHelloDoneNoRequest
    <2>1. SeqsOK'
      BY <1>0, <1>6, SeqsSame DEF RecvServerHelloDoneNoRequest
    <2>2. KeysOK'
      BY <1>0, <1>6 DEF RecvServerHelloDoneNoRequest, KeysOK
    <2>3. AfterHelloDone(FALSE) \in Steps
      BY DEF AfterHelloDone, Steps, SendSteps
    <2> QED
      BY <1>6, <2>1, <2>2, <2>3, RecvType DEF RecvServerHelloDoneNoRequest
  <1>7. CASE RecvServerChangeCipherSpec
    <2>1. KeysOK' /\ SeqsOK' /\ "recv_server_finished" \in Steps
      BY <1>0, <1>7, KeysSame, SeqsSame DEF RecvServerChangeCipherSpec, Steps, RecvSteps
    <2> QED
      BY <1>7, <2>1, TakeOnlyType DEF RecvServerChangeCipherSpec
  <1>8. CASE RecvServerFinished
    <2>1. KeysOK' /\ "established" \in Steps
      BY <1>0, <1>8, KeysSame DEF RecvServerFinished, Steps
    <2>2. SeqsOK'
      BY <1>0, <1>8 DEF RecvServerFinished, SeqsOK
    <2> QED
      BY <1>8, <2>1, <2>2, TakeOnlyType DEF RecvServerFinished
  <1> QED
    BY <1>1, <1>2, <1>3, <1>4, <1>5, <1>6, <1>7, <1>8 DEF ClientRecv

LEMMA ServerSendType == ASSUME TypeOK, ServerSend PROVE TypeOK'
  <1> USE PeerOf
  <1>0. KeysOK /\ SeqsOK
    BY TypeParts
  <1>1. CASE SendServerHello
    <2>1. KeysOK' /\ SeqsOK'
      <3>1. SeqsOK'
        BY <1>0, <1>1, SeqsSame DEF SendServerHello
      <3> QED
        BY <1>0, <1>1, <3>1 DEF SendServerHello, KeysOK
    <2>2. RecordOK(Plain("server_hello")) /\ "send_server_cert" \in Steps
      BY PlainOK DEF Types, Steps, SendSteps
    <2> QED
      BY <1>1, <2>1, <2>2, SendType DEF SendServerHello
  <1>2. CASE SendServerCertificate
    <2>1. KeysOK' /\ SeqsOK'
      BY <1>0, <1>2, KeysSame, SeqsSame DEF SendServerCertificate
    <2>2. RecordOK(Plain("certificate")) /\ "send_server_key_exchange" \in Steps
      BY PlainOK DEF Types, Steps, SendSteps
    <2> QED
      BY <1>2, <2>1, <2>2, SendType DEF SendServerCertificate
  <1>3. CASE SendServerKeyExchange
    <2>1. KeysOK' /\ SeqsOK'
      BY <1>0, <1>3, KeysSame, SeqsSame DEF SendServerKeyExchange
    <2>2. /\ RecordOK(Message("server_key_exchange", random[Server], <<>>, <<>>, 0))
          /\ (IF client_verify THEN "send_cert_request"
                               ELSE "send_server_hello_done") \in Steps
      BY MessageOK DEF Types, Steps, SendSteps
    <2> QED
      BY <1>3, <2>1, <2>2, SendType DEF SendServerKeyExchange
  <1>4. CASE SendCertificateRequest
    <2>1. KeysOK' /\ SeqsOK'
      BY <1>0, <1>4, KeysSame, SeqsSame DEF SendCertificateRequest
    <2>2. RecordOK(Plain("certificate_request")) /\ "send_server_hello_done" \in Steps
      BY PlainOK DEF Types, Steps, SendSteps
    <2> QED
      BY <1>4, <2>1, <2>2, SendType DEF SendCertificateRequest
  <1>5. CASE SendServerHelloDone
    <2>1. KeysOK' /\ SeqsOK'
      BY <1>0, <1>5, KeysSame, SeqsSame DEF SendServerHelloDone
    <2>2. /\ RecordOK(Plain("server_hello_done"))
          /\ (IF client_verify THEN "recv_client_cert"
                               ELSE "recv_client_key_exchange") \in Steps
      BY PlainOK DEF Types, Steps, RecvSteps
    <2> QED
      BY <1>5, <2>1, <2>2, SendType DEF SendServerHelloDone
  <1>6. CASE SendServerChangeCipherSpec
    <2>1. KeysOK' /\ SeqsOK'
      BY <1>0, <1>6, KeysSame, SeqsSame DEF SendServerChangeCipherSpec
    <2>2. RecordOK(Plain("change_cipher_spec")) /\ "send_server_finished" \in Steps
      BY PlainOK DEF Types, Steps, SendSteps
    <2> QED
      BY <1>6, <2>1, <2>2, EmitOnlyType DEF SendServerChangeCipherSpec
  <1>7. CASE SendServerFinished
    <2>1. KeysOK' /\ "established" \in Steps
      BY <1>0, <1>7, KeysSame DEF SendServerFinished, Steps
    <2>2. SeqsOK'
      BY <1>0, <1>7 DEF SendServerFinished, SeqsOK
    <2>3. RecordOK(Finished(Server, "server_finished", serverSeq[Server]))
      BY MessageOK DEF Finished, Types
    <2> QED
      BY <1>7, <2>1, <2>2, <2>3, EmitOnlyType DEF SendServerFinished
  <1> QED
    BY <1>1, <1>2, <1>3, <1>4, <1>5, <1>6, <1>7 DEF ServerSend

LEMMA ServerRecvType == ASSUME TypeOK, ServerRecv PROVE TypeOK'
  <1> USE PeerOf
  <1>0. KeysOK /\ SeqsOK
    BY TypeParts
  <1>1. CASE RecvClientHello
    <2>1. SeqsOK'
      BY <1>0, <1>1, SeqsSame DEF RecvClientHello
    <2>2. RandomOf(First(Server), "cr") \in {"none", "cr", "other"}
      BY DEF RandomOf
    <2>3. KeysOK'
      BY <1>0, <1>1, <2>2 DEF RecvClientHello, KeysOK
    <2>4. "send_server_hello" \in Steps
      BY DEF Steps, SendSteps
    <2> QED
      BY <1>1, <2>1, <2>3, <2>4, RecvType DEF RecvClientHello
  <1>2. CASE RecvClientCertificate
    <2>1. SeqsOK'
      BY <1>0, <1>2, SeqsSame DEF RecvClientCertificate
    <2>2. First(Server).val \in {"none", "sent", "core", "rest"}
      BY <1>2 DEF RecvClientCertificate, ClientCertOK, Intact
    <2>3. KeysOK'
      BY <1>0, <1>2, <2>2 DEF RecvClientCertificate, KeysOK
    <2>4. "recv_client_key_exchange" \in Steps
      BY DEF Steps, RecvSteps
    <2> QED
      BY <1>2, <2>1, <2>3, <2>4, RecvType DEF RecvClientCertificate
  <1>3. CASE RecvClientKeyExchange
    <2>1. SeqsOK'
      BY <1>0, <1>3, SeqsSame DEF RecvClientKeyExchange
    <2>2. KeysOK'
      BY <1>0, <1>3 DEF RecvClientKeyExchange, KeysOK
    <2>3. (IF client_verify THEN "recv_cert_verify" ELSE "recv_client_ccs") \in Steps
      BY DEF Steps, RecvSteps
    <2> QED
      BY <1>3, <2>1, <2>2, <2>3, RecvType DEF RecvClientKeyExchange
  <1>4. CASE RecvCertificateVerify
    <2>1. SeqsOK' /\ "recv_client_ccs" \in Steps
      BY <1>0, <1>4, SeqsSame DEF RecvCertificateVerify, Steps, RecvSteps
    <2>2. KeysOK'
      BY <1>0, <1>4 DEF RecvCertificateVerify, KeysOK
    <2> QED
      BY <1>4, <2>1, <2>2, RecvType DEF RecvCertificateVerify
  <1>5. CASE RecvClientChangeCipherSpec
    <2>1. KeysOK' /\ SeqsOK' /\ "recv_client_finished" \in Steps
      BY <1>0, <1>5, KeysSame, SeqsSame DEF RecvClientChangeCipherSpec, Steps, RecvSteps
    <2> QED
      BY <1>5, <2>1, TakeOnlyType DEF RecvClientChangeCipherSpec
  <1>6. CASE RecvClientFinished
    <2>1. KeysOK' /\ "send_server_ccs" \in Steps
      BY <1>0, <1>6, KeysSame DEF RecvClientFinished, Steps, SendSteps
    <2>2. SeqsOK'
      BY <1>0, <1>6 DEF RecvClientFinished, SeqsOK
    <2> QED
      BY <1>6, <2>1, <2>2, RecvType DEF RecvClientFinished
  <1> QED
    BY <1>1, <1>2, <1>3, <1>4, <1>5, <1>6 DEF ServerRecv

\* Failing with an alert, after taking a record or without.
LEMMA AlertType ==
  ASSUME TypeOK, NEW s \in Side, NEW rest, IsRecordSeq(rest), FailWithAlert(s, rest)
  PROVE  TypeOK'
  <1> DEFINE w == [wire EXCEPT ![s] = Append(@, Plain("alert"))]
  <1>1. RecordSeqs(w)
    BY AppendTo, PlainOK DEF TypeOK, Types
  <1>2. RecordSeqs([w EXCEPT ![Peer(s)] = rest])
    <2> HIDE DEF w
    <2> QED
      BY <1>1, SetSeq, PeerType
  <1>3. RecordSeqs(wire')
    BY <1>2 DEF FailWithAlert
  <1>4. pc' \in [Side -> Steps]
    BY GotoType DEF FailWithAlert, Steps
  <1>5. RecordSeqs(transcript') /\ KeysOK' /\ SeqsOK' /\ OtherOK'
    BY TypeParts, KeysSame, SeqsSame, OtherSame DEF FailWithAlert
  <1> QED
    BY <1>3, <1>4, <1>5, TypePartsNext

LEMMA SilentType ==
  ASSUME TypeOK, NEW s \in Side, FailSilently(s)
  PROVE  TypeOK'
  <1>1. pc' \in [Side -> Steps]
    BY GotoType DEF FailSilently, Steps
  <1>2. /\ RecordSeqs(wire') /\ RecordSeqs(transcript')
        /\ KeysOK' /\ SeqsOK' /\ OtherOK'
    BY TypeParts, KeysSame, SeqsSame, OtherSame DEF FailSilently
  <1> QED
    BY <1>1, <1>2, TypePartsNext

\* What is left after taking a record, or the whole queue.
LEMMA RestType ==
  ASSUME TypeOK, NEW s \in Side
  PROVE  /\ IsRecordSeq(wire[s])
         /\ wire[s] # <<>> => IsRecordSeq(Tail(wire[s]))
  BY TailSeq, SeqsOf DEF TypeOK, IsRecordSeq

LEMMA AlteredSeq ==
  ASSUME NEW q, IsRecordSeq(q), NEW k \in 1 .. Len(q),
         NEW a \in {"core", "rest", "bad"}
  PROVE  /\ IsRecordSeq([q EXCEPT ![k] = [q[k] EXCEPT !.val = a]])
         /\ \A m \in Elems([q EXCEPT ![k] = [q[k] EXCEPT !.val = a]]) :
                m \in Elems(q) \/ m = [q[k] EXCEPT !.val = a]
  <1>0. PICK x : x = [q[k] EXCEPT !.val = a]
    OBVIOUS
  <1> DEFINE r == [q EXCEPT ![k] = x]
  <1>1. /\ q \in [1 .. Len(q) -> Elems(q)] /\ Len(q) \in Nat
        /\ \A m \in Elems(q) : RecordOK(m)
    BY DEF IsRecordSeq
  <1>2. r \in [1 .. Len(q) -> Elems(q) \cup {x}]
    BY <1>1
  <1>3. r \in Seq(Elems(q) \cup {x})
    BY <1>1, <1>2
  <1>4. r \in Seq(Elems(r)) /\ Elems(r) \subseteq Elems(q) \cup {x}
    BY <1>3, OwnElems
  <1>5. q[k] \in Elems(q)
    BY <1>1
  <1>6. RecordOK(q[k])
    BY <1>1, <1>5
  <1>7. x = [type |-> q[k].type, rnd |-> q[k].rnd, over |-> q[k].over,
             key |-> q[k].key, seq |-> q[k].seq, val |-> a]
    BY <1>0, <1>6 DEF RecordOK
  <1>8. RecordOK(x)
    BY <1>6, <1>7 DEF RecordOK
  <1> QED
    BY <1>0, <1>1, <1>4, <1>8 DEF IsRecordSeq

\* What the network makes of a queue: a queue of records, each of which was
\* there before or is no longer as it was sent.
LEMMA FaultEffect ==
  ASSUME TypeOK, NEW s \in Side, NetworkFault(s)
  PROVE  \E r : /\ wire' = [wire EXCEPT ![s] = r]
               /\ IsRecordSeq(r)
               /\ \A m \in Elems(r) : m \in Elems(wire[s]) \/ m.val # "sent"
  <1>0. PICK q : q = wire[s]
    OBVIOUS
  <1>1. IsRecordSeq(q) /\ q \in Seq(Elems(q)) /\ \A m \in Elems(q) : RecordOK(m)
    BY <1>0, RestType DEF IsRecordSeq
  <1>2. PICK k \in 1 .. Len(q) :
          \/ \E a \in Alterations(q[k].type) :
               wire' = [wire EXCEPT ![s] = [q EXCEPT ![k] = [q[k] EXCEPT !.val = a]]]
          \/ wire' = [wire EXCEPT ![s] = Without(q, k)]
          \/ wire' = [wire EXCEPT ![s] = Twice(q, k)]
          \/ k < Len(q) /\ wire' = [wire EXCEPT ![s] = Swapped(q, k)]
    BY <1>0 DEF NetworkFault
  <1>3. ASSUME NEW r, r \in Seq(Elems(q)) PROVE IsRecordSeq(r) /\ Elems(r) \subseteq Elems(q)
    BY <1>1, <1>3, OwnElems DEF IsRecordSeq
  <1>4. CASE \E a \in Alterations(q[k].type) :
               wire' = [wire EXCEPT ![s] = [q EXCEPT ![k] = [q[k] EXCEPT !.val = a]]]
    <2>1. PICK a \in {"core", "rest", "bad"} :
            wire' = [wire EXCEPT ![s] = [q EXCEPT ![k] = [q[k] EXCEPT !.val = a]]]
      BY <1>4 DEF Alterations
    <2>2. PICK x : x = [q[k] EXCEPT !.val = a]
      OBVIOUS
    <2>3. /\ IsRecordSeq([q EXCEPT ![k] = x])
          /\ \A m \in Elems([q EXCEPT ![k] = x]) : m \in Elems(q) \/ m = x
      BY <1>1, <2>2, AlteredSeq
    <2>4. x.val = a
      <3>1. q[k] \in Elems(q)
        BY <1>1, FaultSeq
      <3>2. RecordOK(q[k])
        BY <1>1, <3>1
      <3> QED
        BY <2>2, <3>2 DEF RecordOK
    <2> QED
      BY <1>0, <2>1, <2>2, <2>3, <2>4
  <1>5. CASE wire' = [wire EXCEPT ![s] = Without(q, k)]
    <2>1. Without(q, k) \in Seq(Elems(q))
      BY <1>1, FaultSeq
    <2> QED
      BY <1>0, <1>3, <1>5, <2>1
  <1>6. CASE wire' = [wire EXCEPT ![s] = Twice(q, k)]
    <2>1. Twice(q, k) \in Seq(Elems(q))
      BY <1>1, FaultSeq
    <2> QED
      BY <1>0, <1>3, <1>6, <2>1
  <1>7. CASE k < Len(q) /\ wire' = [wire EXCEPT ![s] = Swapped(q, k)]
    <2>1. Swapped(q, k) \in Seq(Elems(q))
      BY <1>1, <1>7, FaultSeq
    <2> QED
      BY <1>0, <1>3, <1>7, <2>1
  <1> QED
    BY <1>2, <1>4, <1>5, <1>6, <1>7

LEMMA FaultType ==
  ASSUME TypeOK, NEW s \in Side, NetworkFault(s)
  PROVE  TypeOK'
  <1>1. PICK r : wire' = [wire EXCEPT ![s] = r] /\ IsRecordSeq(r)
    BY FaultEffect
  <1>2. RecordSeqs(wire')
    BY <1>1, SetSeq DEF TypeOK
  <1>3. RecordSeqs(transcript') /\ pc' \in [Side -> Steps]
    BY TypeParts DEF NetworkFault
  <1>4. KeysOK' /\ SeqsOK'
    BY TypeParts, KeysSame, SeqsSame DEF NetworkFault
  <1>5. OtherOK'
    BY TypeParts DEF NetworkFault, OtherOK
  <1> QED
    BY <1>2, <1>3, <1>4, <1>5, TypePartsNext

LEMMA CloseType ==
  ASSUME TypeOK, NEW s \in Side, CloseSocket(s)
  PROVE  TypeOK'
  <1>1. /\ RecordSeqs(wire') /\ RecordSeqs(transcript') /\ pc' \in [Side -> Steps]
        /\ KeysOK' /\ SeqsOK'
    BY TypeParts, KeysSame, SeqsSame DEF CloseSocket
  <1>2. OtherOK'
    BY TypeParts DEF CloseSocket, OtherOK
  <1> QED
    BY <1>1, <1>2, TypePartsNext

LEMMA TypeStep == TypeOK /\ [Next]_vars => TypeOK'
  <1> SUFFICES ASSUME TypeOK, [Next]_vars PROVE TypeOK'
    OBVIOUS
  <1>1. ASSUME NEW s \in Side, Handshake(s) PROVE TypeOK'
    <2>1. CASE ClientSend \/ ClientRecv
      BY <2>1, ClientSendType, ClientRecvType
    <2>2. CASE ServerSend \/ ServerRecv
      BY <2>2, ServerSendType, ServerRecvType
    <2>3. CASE ServerCannotGoOn
      BY <2>3, SilentType, PeerOf DEF ServerCannotGoOn
    <2>4. CASE Reject(s)
      <3>1. IsRecordSeq(Tail(wire[Peer(s)]))
        BY <2>4, RestType, PeerType DEF Reject, Incoming
      <3> QED
        BY <2>4, <3>1, AlertType DEF Reject
    <2>5. CASE RecvFails(s)
      <3>1. IsRecordSeq(wire[Peer(s)])
        BY RestType, PeerType
      <3> QED
        BY <2>5, <3>1, AlertType DEF RecvFails
    <2>6. CASE SendFails(s)
      BY <2>6, SilentType DEF SendFails
    <2> QED
      BY <1>1, <2>1, <2>2, <2>3, <2>4, <2>5, <2>6 DEF Handshake
  <1>2. ASSUME NEW s \in Side, CloseFailed(s) \/ Crash(s) PROVE TypeOK'
    BY <1>2, CloseType DEF CloseFailed, Crash
  <1>3. ASSUME NEW s \in Side, NetworkFault(s) PROVE TypeOK'
    BY <1>3, FaultType
  <1>4. CASE UNCHANGED vars
    BY <1>4, TypeParts, TypePartsNext, KeysSame, SeqsSame, OtherSame DEF vars
  <1> QED
    BY <1>1, <1>2, <1>3, <1>4 DEF Next

LEMMA TypeInit == Init => TypeOK
  <1> SUFFICES ASSUME Init PROVE TypeOK
    OBVIOUS
  <1>1. pc \in [Side -> Steps]
    BY DEF Init, Steps, SendSteps, RecvSteps
  <1>2. RecordSeqs(wire) /\ RecordSeqs(transcript)
    BY EmptySeq DEF Init, RecordSeqs, IsRecordSeq
  <1>3. KeysOK /\ SeqsOK /\ OtherOK
    BY DEF Init, KeysOK, SeqsOK, OtherOK
  <1> QED
    BY <1>1, <1>2, <1>3, TypeParts

\* The state of tlcp_do_connect and tlcp_do_accept keeps its types: every
\* queue and transcript is a sequence of well-formed records, whatever the
\* network does to them.
THEOREM TypeCorrect == Spec => []TypeOK
  BY TypeInit, TypeStep, PTL DEF Spec

-----------------------------------------------------------------------------
(* Agreement.                                                              *)

\* The steps of the client after its Finished, of the server after that.
Sent == {"recv_server_ccs", "recv_server_finished", "established", "failed"}
Committed == {"send_server_ccs", "send_server_finished", "established"}

\* The Finished of s in m, as s sent it.
IntactFinished(s, m) ==
    /\ m.type = (IF s = Client THEN "client_finished" ELSE "server_finished")
    /\ m.val = "sent"

\* The steps at which tls_do_handshake has returned.
Ended == {"established", "failed"}

\* A step of the handshake is one of KeyAgreement, or changes nothing there.
AgreementSame == UNCHANGED Agreement!avars
AgreementStep == Agreement!Next \/ AgreementSame

LEMMA EmitElems ==
  ASSUME TypeOK, NEW s \in Side, NEW m, Emit(s, m)
  PROVE  Elems(wire'[s]) = Elems(wire[s]) \cup {m} /\ wire'[Peer(s)] = wire[Peer(s)]
  <1>1. wire'[s] = Append(wire[s], m) /\ wire'[Peer(s)] = wire[Peer(s)]
    BY PeerType DEF TypeOK, RecordSeqs, Emit
  <1>2. wire[s] \in Seq(Elems(wire[s]))
    BY DEF TypeOK, RecordSeqs
  <1> QED
    BY <1>1, <1>2, AppendSeq

LEMMA TakeElems ==
  ASSUME TypeOK, NEW s \in Side, Incoming(s), Take(s)
  PROVE  /\ Elems(wire'[Peer(s)]) \subseteq Elems(wire[Peer(s)])
         /\ wire'[s] = wire[s]
         /\ First(s) \in Elems(wire[Peer(s)])
  <1>1. wire'[Peer(s)] = Tail(wire[Peer(s)]) /\ wire'[s] = wire[s]
    BY PeerType DEF TypeOK, RecordSeqs, Take
  <1>2. wire[Peer(s)] \in Seq(Elems(wire[Peer(s)])) /\ wire[Peer(s)] # <<>>
    BY PeerType DEF TypeOK, RecordSeqs, Incoming
  <1> QED
    BY <1>1, <1>2, TailSeq DEF First

LEMMA HashClient ==
  ASSUME TypeOK, NEW m, Hash(Client, m)
  PROVE  /\ transcript'[Client] = Append(transcript[Client], m)
         /\ transcript'[Server] = transcript[Server]
         /\ Settled' <=> m.type = "client_finished"
  <1>1. /\ transcript'[Client] = Append(transcript[Client], m)
        /\ transcript'[Server] = transcript[Server]
    BY PeerOf, SidesAssumption DEF TypeOK, RecordSeqs, Hash
  <1>2. transcript[Client] \in Seq(Elems(transcript[Client]))
    BY PeerOf DEF TypeOK, RecordSeqs
  <1>3. /\ transcript'[Client] # <<>>
        /\ transcript'[Client][Len(transcript'[Client])] = m
    BY <1>1, <1>2, AppendSeq
  <1> QED
    BY <1>1, <1>3 DEF Settled

LEMMA HashServer ==
  ASSUME TypeOK, NEW m, Hash(Server, m)
  PROVE  /\ transcript'[Server] = Append(transcript[Server], m)
         /\ transcript'[Client] = transcript[Client]
  BY PeerOf, SidesAssumption DEF TypeOK, RecordSeqs, Hash

LEMMA GotoPc ==
  ASSUME TypeOK, NEW s \in Side, NEW next, Goto(s, next)
  PROVE  pc'[s] = next /\ pc'[Peer(s)] = pc[Peer(s)]
  BY PeerType DEF TypeOK, Goto

\* A step that changes neither what the client has settled on nor what a side
\* that has completed agreed to.
LEMMA SameAgreement ==
  ASSUME \A s \in Side : \/ pc'[s] = pc[s]
                         \/ pc[s] \notin Ended /\ pc'[s] \notin Ended,
         \A s \in Side : Established(s) => View(s)' = View(s),
         \/ ~Settled /\ ~Settled'
         \/ (Settled' <=> Settled) /\ View(Client)' = View(Client)
  PROVE  AgreementSame
  <1>1. [s \in Side |-> IF pc'[s] \in {"established", "failed"} THEN pc'[s]
                                                                ELSE "running"]
        = [s \in Side |-> IF pc[s] \in {"established", "failed"} THEN pc[s]
                                                                ELSE "running"]
    BY DEF Ended
  <1>2. [s \in Side |-> IF Established(s)' THEN View(s)' ELSE <<>>]
        = [s \in Side |-> IF Established(s) THEN View(s) ELSE <<>>]
    BY DEF Ended, Established
  <1>3. (IF Settled' THEN View(Client)' ELSE <<>>)
        = (IF Settled THEN View(Client) ELSE <<>>)
    OBVIOUS
  <1> QED
    BY <1>1, <1>2, <1>3 DEF AgreementSame, Agreement!avars

LEMMA QuietAgreement ==
  ASSUME UNCHANGED <<transcript, secret>>,
         \A s \in Side : \/ pc'[s] = pc[s]
                         \/ pc[s] \notin Ended /\ pc'[s] \notin Ended
  PROVE  AgreementSame
  <1>1. (Settled' <=> Settled) /\ \A s : View(s)' = View(s)
    BY DEF Settled, View
  <1> QED
    BY <1>1, SameAgreement

\* The last step of a side: what it completes with is what the client has
\* settled on.
LEMMA EstablishAgreement ==
  ASSUME UNCHANGED <<transcript, secret>>, NEW s \in Side,
         pc[s] \notin Ended, pc'[s] = "established", pc'[Peer(s)] = pc[Peer(s)],
         Settled, View(s) = View(Client), s = Client => pc[Server] = "established"
  PROVE  AgreementStep
  <1>1. (Settled' <=> Settled) /\ \A t : View(t)' = View(t)
    BY DEF Settled, View
  <1>2. \A t \in Side : t # s => pc'[t] = pc[t]
    BY DEF Side, Peer
  <1>3. View(Client) # <<>>
    BY DEF View
  <1>4. [t \in Side |-> IF pc'[t] \in {"established", "failed"} THEN pc'[t]
                                                                ELSE "running"]
        = [[t \in Side |-> IF pc[t] \in {"established", "failed"} THEN pc[t]
                                                                  ELSE "running"]
            EXCEPT ![s] = "established"]
    BY <1>2
  <1>5. [t \in Side |-> IF Established(t)' THEN View(t)' ELSE <<>>]
        = [[t \in Side |-> IF Established(t) THEN View(t) ELSE <<>>]
            EXCEPT ![s] = IF Settled THEN View(Client) ELSE <<>>]
    BY <1>1, <1>2 DEF Established
  <1>6. Agreement!Establish(s)
    BY <1>1, <1>3, <1>4, <1>5, PeerOf DEF Agreement!Establish, Ended
  <1> QED
    BY <1>6 DEF AgreementStep, Agreement!Next, Agreement!Side, Side

\* tls_do_handshake of a side fails.
LEMMA FailAgreement ==
  ASSUME UNCHANGED <<transcript, secret>>, NEW s \in Side,
         pc[s] \notin Ended, pc'[s] = "failed", pc'[Peer(s)] = pc[Peer(s)]
  PROVE  AgreementStep
  <1>1. (Settled' <=> Settled) /\ \A t : View(t)' = View(t)
    BY DEF Settled, View
  <1>2. \A t \in Side : t # s => pc'[t] = pc[t]
    BY DEF Side, Peer
  <1>3. [t \in Side |-> IF pc'[t] \in {"established", "failed"} THEN pc'[t]
                                                                ELSE "running"]
        = [[t \in Side |-> IF pc[t] \in {"established", "failed"} THEN pc[t]
                                                                  ELSE "running"]
            EXCEPT ![s] = "failed"]
    BY <1>2
  <1>4. [t \in Side |-> IF Established(t)' THEN View(t)' ELSE <<>>]
        = [t \in Side |-> IF Established(t) THEN View(t) ELSE <<>>]
    BY <1>1, <1>2 DEF Established, Ended
  <1>5. Agreement!Fail(s)
    BY <1>1, <1>3, <1>4 DEF Agreement!Fail, Ended
  <1> QED
    BY <1>5 DEF AgreementStep, Agreement!Next, Agreement!Side, Side

\* A step of the client before its Finished.
LEMMA ClientMoves ==
  ASSUME AgreeInv, pc[Client] \notin Sent,
         pc'[Server] = pc[Server], pc'[Client] \notin Ended, ~Settled',
         \A m \in Elems(wire'[Client]) :
            m \in Elems(wire[Client]) \/ ~IntactFinished(Client, m),
         \A m \in Elems(wire'[Server]) : m \in Elems(wire[Server])
  PROVE  AgreeInv' /\ AgreementSame
  <1>1. ~Settled
    BY DEF AgreeInv, SettledInv, Sent
  <1>2. pc[Server] \notin Committed
    BY <1>1 DEF AgreeInv, CommitInv, Committed
  <1>3. SettledInv'
    BY DEF SettledInv
  <1>4. \A m \in Elems(wire'[Client]) : ~IntactFinished(Client, m)
    BY <1>1 DEF AgreeInv, FinishedInv, IntactFinished
  <1>5. \A m \in Elems(wire'[Server]) : ~IntactFinished(Server, m)
    BY <1>2, SidesAssumption DEF AgreeInv, FinishedInv, IntactFinished, Established, Committed
  <1>6. FinishedInv'
    BY <1>4, <1>5, SidesAssumption DEF FinishedInv, IntactFinished
  <1>7. CommitInv'
    BY <1>2 DEF CommitInv, Committed, Established, Ended
  <1>8. AgreementSame
    BY <1>1, <1>2, SameAgreement DEF Side, Sent, Ended, Committed, Established
  <1> QED
    BY <1>3, <1>6, <1>7, <1>8 DEF AgreeInv

\* A step of the server before it has the client's Finished.
LEMMA ServerMoves ==
  ASSUME AgreeInv, pc'[Server] \notin Committed \cup Ended, pc[Server] \notin Ended,
         pc'[Client] = pc[Client],
         transcript'[Client] = transcript[Client], secret'[Client] = secret[Client],
         \A m \in Elems(wire'[Client]) : m \in Elems(wire[Client]),
         \A m \in Elems(wire'[Server]) :
            m \in Elems(wire[Server]) \/ ~IntactFinished(Server, m)
  PROVE  AgreeInv' /\ AgreementSame
  <1>1. Settled' <=> Settled
    BY DEF Settled
  <1>2. SettledInv'
    BY <1>1 DEF AgreeInv, SettledInv
  <1>3. \A m \in Elems(wire'[Server]) : ~IntactFinished(Server, m)
    BY SidesAssumption DEF AgreeInv, FinishedInv, IntactFinished, Established, Ended
  <1>4. \A m \in Elems(wire'[Client]) : IntactFinished(Client, m) =>
            Settled /\ transcript[Client] = Append(m.over, m) /\ m.key = secret[Client]
    BY DEF AgreeInv, FinishedInv, IntactFinished
  <1>5. FinishedInv'
    BY <1>1, <1>3, <1>4, SidesAssumption DEF FinishedInv, IntactFinished
  <1>6. CommitInv'
    BY DEF AgreeInv, CommitInv, Committed, Established, Ended
  <1>7. AgreementSame
    BY <1>1, SameAgreement DEF Side, Ended, Established, View
  <1> QED
    BY <1>2, <1>5, <1>6, <1>7 DEF AgreeInv

\* A step that neither hashes a message nor generates a secret.
LEMMA QuietMoves ==
  ASSUME AgreeInv, UNCHANGED <<transcript, secret>>,
         pc[Client] \in Sent => pc'[Client] \in Sent,
         pc'[Server] \in Committed => pc[Server] \in Committed,
         pc[Server] = "established" => pc'[Server] = "established",
         pc'[Client] = "established" => pc'[Server] = "established",
         \A m \in Elems(wire'[Client]) :
            m \in Elems(wire[Client]) \/ ~IntactFinished(Client, m),
         \A m \in Elems(wire'[Server]) :
            \/ m \in Elems(wire[Server]) \/ ~IntactFinished(Server, m)
            \/ pc'[Server] = "established"
  PROVE  AgreeInv'
  <1>1. (Settled' <=> Settled) /\ \A s : View(s)' = View(s)
    BY DEF Settled, View
  <1>2. SettledInv'
    BY <1>1 DEF AgreeInv, SettledInv, Sent
  <1>3. \A m \in Elems(wire'[Client]) : IntactFinished(Client, m) =>
            Settled /\ transcript[Client] = Append(m.over, m) /\ m.key = secret[Client]
    BY DEF AgreeInv, FinishedInv, IntactFinished
  <1>4. \A m \in Elems(wire'[Server]) : IntactFinished(Server, m) => pc'[Server] = "established"
    BY SidesAssumption DEF AgreeInv, FinishedInv, IntactFinished, Established
  <1>5. FinishedInv'
    BY <1>1, <1>3, <1>4, SidesAssumption DEF FinishedInv, IntactFinished, Established
  <1>6. CommitInv'
    BY <1>1 DEF AgreeInv, CommitInv, Committed, Established
  <1> QED
    BY <1>2, <1>5, <1>6 DEF AgreeInv

LEMMA ClientSends ==
  ASSUME TypeOK, AgreeInv, NEW step, NEW m, NEW next, Send(Client, step, m, next),
         step \notin Sent, next \notin Ended, m.type # "client_finished"
  PROVE  AgreeInv' /\ AgreementSame
  <1>1. /\ Elems(wire'[Client]) = Elems(wire[Client]) \cup {m}
        /\ wire'[Server] = wire[Server]
    BY EmitElems, PeerOf DEF Send
  <1>2. pc[Client] \notin Sent /\ pc'[Client] = next /\ pc'[Server] = pc[Server]
    BY GotoPc, PeerOf DEF Send, At
  <1>3. ~Settled'
    BY HashClient DEF Send
  <1>4. ~IntactFinished(Client, m)
    BY DEF IntactFinished
  <1>5. \A x \in Elems(wire'[Client]) :
            x \in Elems(wire[Client]) \/ ~IntactFinished(Client, x)
    BY <1>1, <1>4
  <1>6. \A x \in Elems(wire'[Server]) : x \in Elems(wire[Server])
    BY <1>1
  <1> QED
    BY <1>2, <1>3, <1>5, <1>6, ClientMoves

LEMMA ClientReads ==
  ASSUME TypeOK, AgreeInv, NEW step, NEW next, Recv(Client, step, next),
         step \notin Sent, next \notin Ended, First(Client).type # "client_finished"
  PROVE  AgreeInv' /\ AgreementSame
  <1>1. /\ Elems(wire'[Server]) \subseteq Elems(wire[Server])
        /\ wire'[Client] = wire[Client]
    BY TakeElems, PeerOf DEF Recv
  <1>2. pc[Client] \notin Sent /\ pc'[Client] = next /\ pc'[Server] = pc[Server]
    BY GotoPc, PeerOf DEF Recv, At
  <1>3. ~Settled'
    BY HashClient DEF Recv
  <1>4. /\ \A x \in Elems(wire'[Client]) : x \in Elems(wire[Client])
        /\ \A x \in Elems(wire'[Server]) : x \in Elems(wire[Server])
    BY <1>1
  <1> QED
    BY <1>2, <1>3, <1>4, ClientMoves

LEMMA ServerSends ==
  ASSUME TypeOK, AgreeInv, NEW step, NEW m, NEW next, Send(Server, step, m, next),
         step \notin Ended, next \notin Committed \cup Ended, m.type # "server_finished",
         secret'[Client] = secret[Client]
  PROVE  AgreeInv' /\ AgreementSame
  <1>1. /\ Elems(wire'[Server]) = Elems(wire[Server]) \cup {m}
        /\ wire'[Client] = wire[Client]
    BY EmitElems, PeerOf DEF Send
  <1>2. pc[Server] \notin Ended /\ pc'[Server] = next /\ pc'[Client] = pc[Client]
    BY GotoPc, PeerOf DEF Send, At
  <1>3. transcript'[Client] = transcript[Client]
    BY HashServer DEF Send
  <1>4. ~IntactFinished(Server, m)
    BY SidesAssumption DEF IntactFinished
  <1>5. \A x \in Elems(wire'[Server]) :
            x \in Elems(wire[Server]) \/ ~IntactFinished(Server, x)
    BY <1>1, <1>4
  <1>6. \A x \in Elems(wire'[Client]) : x \in Elems(wire[Client])
    BY <1>1
  <1> QED
    BY <1>2, <1>3, <1>5, <1>6, ServerMoves

LEMMA ServerReads ==
  ASSUME TypeOK, AgreeInv, NEW step, NEW next, Recv(Server, step, next),
         step \notin Ended, next \notin Committed \cup Ended, secret'[Client] = secret[Client]
  PROVE  AgreeInv' /\ AgreementSame
  <1>1. /\ Elems(wire'[Client]) \subseteq Elems(wire[Client])
        /\ wire'[Server] = wire[Server]
    BY TakeElems, PeerOf DEF Recv
  <1>2. pc[Server] \notin Ended /\ pc'[Server] = next /\ pc'[Client] = pc[Client]
    BY GotoPc, PeerOf DEF Recv, At
  <1>3. transcript'[Client] = transcript[Client]
    BY HashServer DEF Recv
  <1>4. /\ \A x \in Elems(wire'[Client]) : x \in Elems(wire[Client])
        /\ \A x \in Elems(wire'[Server]) : x \in Elems(wire[Server])
    BY <1>1
  <1> QED
    BY <1>2, <1>3, <1>4, ServerMoves

\* The client's Finished covers the transcript it extends.
LEMMA ClientFinishedAgrees ==
  ASSUME TypeOK, AgreeInv, SendClientFinished
  PROVE  AgreeInv' /\ AgreementStep
  <1>0. PICK f : f = Finished(Client, "client_finished", clientSeq[Client])
    OBVIOUS
  <1>1. Send(Client, "send_client_finished", f, "recv_server_ccs") /\ secret' = secret
    BY <1>0 DEF SendClientFinished, keys
  <1>2. /\ Elems(wire'[Client]) = Elems(wire[Client]) \cup {f}
        /\ wire'[Server] = wire[Server]
    BY <1>1, EmitElems, PeerOf DEF Send
  <1>3. /\ pc[Client] = "send_client_finished" /\ pc'[Client] = "recv_server_ccs"
        /\ pc'[Server] = pc[Server]
    BY <1>1, GotoPc, PeerOf DEF Send, At
  <1>4. f.type = "client_finished" /\ f.over = transcript[Client] /\ f.key = secret[Client]
    BY <1>0 DEF Finished, Message
  <1>5. transcript'[Client] = Append(f.over, f) /\ Settled'
    BY <1>1, <1>4, HashClient DEF Send
  <1>6. ~Settled
    BY <1>3 DEF AgreeInv, SettledInv
  <1>7. pc[Server] \notin Committed
    BY <1>6 DEF AgreeInv, CommitInv, Committed
  <1>8. SettledInv'
    BY <1>3 DEF SettledInv
  <1>9. \A m \in Elems(wire'[Client]) : IntactFinished(Client, m) => m = f
    BY <1>2, <1>6 DEF AgreeInv, FinishedInv, IntactFinished
  <1>10. \A m \in Elems(wire'[Server]) : ~IntactFinished(Server, m)
    BY <1>2, <1>7, SidesAssumption DEF AgreeInv, FinishedInv, IntactFinished, Established, Committed
  <1>11. FinishedInv'
    BY <1>1, <1>4, <1>5, <1>9, <1>10, SidesAssumption DEF FinishedInv, IntactFinished
  <1>12. CommitInv'
    BY <1>3, <1>7 DEF CommitInv, Committed, Established
  <1>13. Agreement!Offer
    <2>1. View(Client)' # <<>>
      BY DEF View
    <2>2. [t \in Side |-> IF pc'[t] \in {"established", "failed"} THEN pc'[t]
                                                                  ELSE "running"]
          = [t \in Side |-> IF pc[t] \in {"established", "failed"} THEN pc[t]
                                                                  ELSE "running"]
      BY <1>3 DEF Side
    <2>3. [t \in Side |-> IF Established(t)' THEN View(t)' ELSE <<>>]
          = [t \in Side |-> IF Established(t) THEN View(t) ELSE <<>>]
      BY <1>3, <1>7 DEF Side, Established, Committed
    <2> QED
      BY <1>3, <1>5, <1>6, <2>1, <2>2, <2>3, PeerOf DEF Agreement!Offer
  <1> QED
    BY <1>8, <1>11, <1>12, <1>13 DEF AgreeInv, AgreementStep, Agreement!Next

\* The server accepts only the client's own Finished, which fixes its view.
LEMMA ServerCommits ==
  ASSUME TypeOK, AgreeInv, RecvClientFinished
  PROVE  AgreeInv' /\ AgreementStep
  <1>0. PICK f : f = First(Server)
    OBVIOUS
  <1>1. /\ Recv(Server, "recv_client_finished", "send_server_ccs") /\ secret' = secret
        /\ f.type = "client_finished" /\ f.val = "sent"
        /\ f.key = secret[Server] /\ f.over = transcript[Server]
    BY <1>0 DEF RecvClientFinished, FinishedOK, Intact, keys
  <1>2. /\ Elems(wire'[Client]) \subseteq Elems(wire[Client])
        /\ wire'[Server] = wire[Server]
        /\ f \in Elems(wire[Client])
    BY <1>0, <1>1, TakeElems, PeerOf DEF Recv
  <1>3. Settled /\ transcript[Client] = Append(f.over, f) /\ f.key = secret[Client]
    BY <1>1, <1>2 DEF AgreeInv, FinishedInv
  <1>4. /\ pc[Server] = "recv_client_finished" /\ pc'[Server] = "send_server_ccs"
        /\ pc'[Client] = pc[Client]
    BY <1>1, GotoPc, PeerOf DEF Recv, At
  <1>5. /\ transcript'[Server] = Append(transcript[Server], f)
        /\ transcript'[Client] = transcript[Client]
    BY <1>0, <1>1, HashServer DEF Recv
  <1>6. Settled' /\ View(Server)' = View(Client)'
    BY <1>1, <1>3, <1>5 DEF Settled, View
  <1>7. SettledInv'
    BY <1>3, <1>4 DEF AgreeInv, SettledInv
  <1>8. \A m \in Elems(wire'[Client]) : IntactFinished(Client, m) =>
            transcript[Client] = Append(m.over, m) /\ m.key = secret[Client]
    BY <1>2 DEF AgreeInv, FinishedInv, IntactFinished
  <1>9. \A m \in Elems(wire'[Server]) : ~IntactFinished(Server, m)
    BY <1>2, <1>4, SidesAssumption DEF AgreeInv, FinishedInv, IntactFinished, Established
  <1>10. FinishedInv'
    BY <1>1, <1>5, <1>6, <1>8, <1>9, SidesAssumption DEF FinishedInv, IntactFinished
  <1>11. CommitInv'
    BY <1>4, <1>6 DEF AgreeInv, CommitInv, Established
  <1>12. AgreementSame
    <2>1. View(Client)' = View(Client) /\ (Settled' <=> Settled)
      BY <1>1, <1>3, <1>5, <1>6 DEF View
    <2> QED
      BY <1>4, <2>1, SameAgreement DEF Side, Ended, Established
  <1> QED
    BY <1>7, <1>10, <1>11, <1>12 DEF AgreeInv, AgreementStep

LEMMA ClientSendAgrees == ASSUME TypeOK, AgreeInv, ClientSend PROVE AgreeInv' /\ AgreementStep
  <1>1. CASE SendClientHello
    <2>1. "send_client_hello" \notin Sent /\ Plain("client_hello").type # "client_finished"
      BY DEF Sent, Ended, Plain, Message
    <2> QED
      BY <1>1, <2>1, ClientSends DEF SendClientHello, AgreementStep, Ended
  <1>2. CASE SendClientCertificate
    <2>1. "send_client_cert" \notin Sent /\ Plain("certificate").type # "client_finished"
      BY DEF Sent, Ended, Plain, Message
    <2> QED
      BY <1>2, <2>1, ClientSends DEF SendClientCertificate, AgreementStep, Ended
  <1>3. CASE SendClientKeyExchange
    <2>1. /\ "send_client_key_exchange" \notin Sent
          /\ Plain("client_key_exchange").type # "client_finished"
          /\ (IF clientCerts THEN "send_cert_verify" ELSE "send_client_ccs") \notin Ended
      BY DEF Sent, Ended, Plain, Message
    <2> QED
      BY <1>3, <2>1, ClientSends DEF SendClientKeyExchange, AgreementStep, Ended
  <1>4. CASE SendCertificateVerify
    <2>1. /\ "send_cert_verify" \notin Sent
          /\ Message("certificate_verify", <<>>, transcript[Client], <<>>, 0).type
                # "client_finished"
      BY DEF Sent, Ended, Message
    <2> QED
      BY <1>4, <2>1, ClientSends DEF SendCertificateVerify, AgreementStep, Ended
  <1>5. CASE SendClientChangeCipherSpec
    <2>1. ~IntactFinished(Client, Plain("change_cipher_spec"))
      BY DEF IntactFinished, Plain, Message
    <2>2. /\ Elems(wire'[Client]) = Elems(wire[Client]) \cup {Plain("change_cipher_spec")}
          /\ wire'[Server] = wire[Server]
      BY <1>5, EmitElems, PeerOf DEF SendClientChangeCipherSpec
    <2>3. /\ pc[Client] = "send_client_ccs" /\ pc'[Client] = "send_client_finished"
          /\ pc'[Server] = pc[Server]
      BY <1>5, GotoPc, PeerOf DEF SendClientChangeCipherSpec, At
    <2>4. UNCHANGED <<transcript, secret>>
      BY <1>5 DEF SendClientChangeCipherSpec, keys
    <2>5. /\ \A m \in Elems(wire'[Client]) :
                m \in Elems(wire[Client]) \/ ~IntactFinished(Client, m)
          /\ \A m \in Elems(wire'[Server]) : m \in Elems(wire[Server])
      BY <2>1, <2>2
    <2>6. AgreementSame
      BY <2>3, <2>4, QuietAgreement DEF Side, Ended
    <2> QED
      BY <2>3, <2>4, <2>5, <2>6, QuietMoves DEF Sent, AgreementStep
  <1>6. CASE SendClientFinished
    BY <1>6, ClientFinishedAgrees
  <1> QED
    BY <1>1, <1>2, <1>3, <1>4, <1>5, <1>6 DEF ClientSend

LEMMA ClientRecvAgrees == ASSUME TypeOK, AgreeInv, ClientRecv PROVE AgreeInv' /\ AgreementStep
  <1>1. CASE RecvServerHello
    <2>1. "recv_server_hello" \notin Sent /\ First(Client).type # "client_finished"
      BY <1>1 DEF Sent, Ended, RecvServerHello, ServerHelloOK, Parses
    <2> QED
      BY <1>1, <2>1, ClientReads DEF RecvServerHello, AgreementStep, Ended
  <1>2. CASE RecvServerCertificate
    <2>1. "recv_server_cert" \notin Sent /\ First(Client).type # "client_finished"
      BY <1>2 DEF Sent, Ended, RecvServerCertificate, ServerCertOK, Parses
    <2> QED
      BY <1>2, <2>1, ClientReads DEF RecvServerCertificate, AgreementStep, Ended
  <1>3. CASE RecvServerKeyExchange
    <2>1. "recv_server_key_exchange" \notin Sent /\ First(Client).type # "client_finished"
      BY <1>3 DEF Sent, Ended, RecvServerKeyExchange, ServerKeyExchangeOK, Intact
    <2> QED
      BY <1>3, <2>1, ClientReads DEF RecvServerKeyExchange, AgreementStep, Ended
  <1>4. CASE RecvCertificateRequest
    <2>1. "recv_cert_request_or_done" \notin Sent /\ First(Client).type # "client_finished"
      BY <1>4 DEF Sent, Ended, RecvCertificateRequest, CertRequestOK, Parses
    <2> QED
      BY <1>4, <2>1, ClientReads DEF RecvCertificateRequest, AgreementStep, Ended
  <1>5. CASE RecvServerHelloDone
    <2>1. /\ "recv_server_hello_done" \notin Sent /\ First(Client).type # "client_finished"
          /\ AfterHelloDone(clientCerts) \notin Ended
      BY <1>5 DEF Sent, Ended, RecvServerHelloDone, ServerHelloDoneOK, Intact, AfterHelloDone
    <2> QED
      BY <1>5, <2>1, ClientReads DEF RecvServerHelloDone, AgreementStep, Ended
  <1>6. CASE RecvServerHelloDoneNoRequest
    <2>1. /\ "recv_cert_request_or_done" \notin Sent
          /\ First(Client).type # "client_finished"
          /\ AfterHelloDone(FALSE) \notin Ended
      BY <1>6 DEF Sent, Ended, RecvServerHelloDoneNoRequest, ServerHelloDoneOK, Intact, AfterHelloDone
    <2> QED
      BY <1>6, <2>1, ClientReads DEF RecvServerHelloDoneNoRequest, AgreementStep, Ended
  <1>7. CASE RecvServerChangeCipherSpec
    <2>1. /\ Elems(wire'[Server]) \subseteq Elems(wire[Server])
          /\ wire'[Client] = wire[Client]
      BY <1>7, TakeElems, PeerOf DEF RecvServerChangeCipherSpec
    <2>2. /\ pc[Client] = "recv_server_ccs" /\ pc'[Client] = "recv_server_finished"
          /\ pc'[Server] = pc[Server]
      BY <1>7, GotoPc, PeerOf DEF RecvServerChangeCipherSpec, At
    <2>3. UNCHANGED <<transcript, secret>>
      BY <1>7 DEF RecvServerChangeCipherSpec, keys
    <2>4. /\ \A m \in Elems(wire'[Client]) : m \in Elems(wire[Client])
          /\ \A m \in Elems(wire'[Server]) : m \in Elems(wire[Server])
      BY <2>1
    <2>5. AgreementSame
      BY <2>2, <2>3, QuietAgreement DEF Side, Ended
    <2> QED
      BY <2>2, <2>3, <2>4, <2>5, QuietMoves DEF Sent, AgreementStep
  <1>8. CASE RecvServerFinished
    <2>1. /\ Elems(wire'[Server]) \subseteq Elems(wire[Server])
          /\ wire'[Client] = wire[Client]
          /\ First(Client) \in Elems(wire[Server])
      BY <1>8, TakeElems, PeerOf DEF RecvServerFinished
    <2>2. /\ pc[Client] = "recv_server_finished" /\ pc'[Client] = "established"
          /\ pc'[Server] = pc[Server]
      BY <1>8, GotoPc, PeerOf DEF RecvServerFinished, At
    <2>3. UNCHANGED <<transcript, secret>>
      BY <1>8 DEF RecvServerFinished, keys
    <2>4. pc[Server] = "established"
      <3>1. First(Client).type = "server_finished" /\ First(Client).val = "sent"
        BY <1>8 DEF RecvServerFinished, FinishedOK, Intact
      <3> QED
        BY <2>1, <3>1 DEF AgreeInv, FinishedInv, Established
    <2>5. /\ \A m \in Elems(wire'[Client]) : m \in Elems(wire[Client])
          /\ \A m \in Elems(wire'[Server]) : m \in Elems(wire[Server])
      BY <2>1
    <2>6. AgreementStep
      <3>1. Settled
        BY <2>4 DEF AgreeInv, CommitInv
      <3> QED
        BY <2>2, <2>3, <2>4, <3>1, EstablishAgreement, PeerOf DEF Ended
    <2> QED
      BY <2>2, <2>3, <2>4, <2>5, <2>6, QuietMoves DEF Sent
  <1> QED
    BY <1>1, <1>2, <1>3, <1>4, <1>5, <1>6, <1>7, <1>8 DEF ClientRecv

LEMMA ServerSendAgrees == ASSUME TypeOK, AgreeInv, ServerSend PROVE AgreeInv' /\ AgreementStep
  <1>1. CASE SendServerHello
    <2>1. "send_server_cert" \notin Committed \cup Ended /\ Plain("server_hello").type # "server_finished"
      BY DEF Committed, Ended, Plain, Message
    <2>2. secret' = secret
      BY <1>1 DEF SendServerHello
    <2> QED
      BY <1>1, <2>1, <2>2, ServerSends DEF SendServerHello, AgreementStep, Ended
  <1>2. CASE SendServerCertificate
    <2>1. /\ "send_server_key_exchange" \notin Committed \cup Ended
          /\ Plain("certificate").type # "server_finished"
      BY DEF Committed, Ended, Plain, Message
    <2>2. secret' = secret
      BY <1>2 DEF SendServerCertificate, keys
    <2> QED
      BY <1>2, <2>1, <2>2, ServerSends DEF SendServerCertificate, AgreementStep, Ended
  <1>3. CASE SendServerKeyExchange
    <2>1. /\ (IF client_verify THEN "send_cert_request" ELSE "send_server_hello_done")
                \notin Committed \cup Ended
          /\ Message("server_key_exchange", random[Server], <<>>, <<>>, 0).type
                # "server_finished"
      BY DEF Committed, Ended, Message
    <2>2. secret' = secret
      BY <1>3 DEF SendServerKeyExchange, keys
    <2> QED
      BY <1>3, <2>1, <2>2, ServerSends DEF SendServerKeyExchange, AgreementStep, Ended
  <1>4. CASE SendCertificateRequest
    <2>1. /\ "send_server_hello_done" \notin Committed \cup Ended
          /\ Plain("certificate_request").type # "server_finished"
      BY DEF Committed, Ended, Plain, Message
    <2>2. secret' = secret
      BY <1>4 DEF SendCertificateRequest, keys
    <2> QED
      BY <1>4, <2>1, <2>2, ServerSends DEF SendCertificateRequest, AgreementStep, Ended
  <1>5. CASE SendServerHelloDone
    <2>1. /\ (IF client_verify THEN "recv_client_cert" ELSE "recv_client_key_exchange")
                \notin Committed \cup Ended
          /\ Plain("server_hello_done").type # "server_finished"
      BY DEF Committed, Ended, Plain, Message
    <2>2. secret' = secret
      BY <1>5 DEF SendServerHelloDone, keys
    <2> QED
      BY <1>5, <2>1, <2>2, ServerSends DEF SendServerHelloDone, AgreementStep, Ended
  <1>6. CASE SendServerChangeCipherSpec
    <2>1. ~IntactFinished(Server, Plain("change_cipher_spec"))
      BY SidesAssumption DEF IntactFinished, Plain, Message
    <2>2. /\ Elems(wire'[Server]) = Elems(wire[Server]) \cup {Plain("change_cipher_spec")}
          /\ wire'[Client] = wire[Client]
      BY <1>6, EmitElems, PeerOf DEF SendServerChangeCipherSpec
    <2>3. /\ pc[Server] = "send_server_ccs" /\ pc'[Server] = "send_server_finished"
          /\ pc'[Client] = pc[Client]
      BY <1>6, GotoPc, PeerOf DEF SendServerChangeCipherSpec, At
    <2>4. UNCHANGED <<transcript, secret>>
      BY <1>6 DEF SendServerChangeCipherSpec, keys
    <2>5. /\ \A m \in Elems(wire'[Server]) :
                m \in Elems(wire[Server]) \/ ~IntactFinished(Server, m)
          /\ \A m \in Elems(wire'[Client]) : m \in Elems(wire[Client])
      BY <2>1, <2>2
    <2>6. pc[Client] # "established"
      BY <2>3 DEF AgreeInv, CommitInv, Established
    <2>7. AgreementSame
      BY <2>3, <2>4, QuietAgreement DEF Side, Ended
    <2> QED
      BY <2>3, <2>4, <2>5, <2>6, <2>7, QuietMoves DEF Committed, AgreementStep
  <1>7. CASE SendServerFinished
    <2>1. /\ pc[Server] = "send_server_finished" /\ pc'[Server] = "established"
          /\ pc'[Client] = pc[Client]
      BY <1>7, GotoPc, PeerOf DEF SendServerFinished, At
    <2>2. wire'[Client] = wire[Client]
      BY <1>7, EmitElems, PeerOf DEF SendServerFinished
    <2>3. UNCHANGED <<transcript, secret>>
      BY <1>7 DEF SendServerFinished, keys
    <2>4. AgreementStep
      <3>1. Settled /\ View(Server) = View(Client)
        BY <2>1 DEF AgreeInv, CommitInv
      <3> QED
        BY <2>1, <2>3, <3>1, EstablishAgreement, PeerOf, SidesAssumption DEF Ended
    <2> QED
      BY <2>1, <2>2, <2>3, <2>4, QuietMoves DEF Committed
  <1> QED
    BY <1>1, <1>2, <1>3, <1>4, <1>5, <1>6, <1>7 DEF ServerSend

LEMMA ServerRecvAgrees == ASSUME TypeOK, AgreeInv, ServerRecv PROVE AgreeInv' /\ AgreementStep
  <1>1. CASE RecvClientHello
    BY <1>1, ServerReads DEF RecvClientHello, Committed, AgreementStep, Ended
  <1>2. CASE RecvClientCertificate
    BY <1>2, ServerReads DEF RecvClientCertificate, Committed, AgreementStep, Ended
  <1>3. CASE RecvClientKeyExchange
    <2>1. (IF client_verify THEN "recv_cert_verify" ELSE "recv_client_ccs") \notin Committed \cup Ended
      BY DEF Committed, Ended
    <2>2. secret'[Client] = secret[Client]
      BY <1>3, PeerOf, SidesAssumption DEF RecvClientKeyExchange, TypeOK
    <2> QED
      BY <1>3, <2>1, <2>2, ServerReads DEF RecvClientKeyExchange, AgreementStep, Ended
  <1>4. CASE RecvCertificateVerify
    <2>1. secret'[Client] = secret[Client]
      BY <1>4, PeerOf, SidesAssumption DEF RecvCertificateVerify, TypeOK
    <2> QED
      BY <1>4, <2>1, ServerReads DEF RecvCertificateVerify, Committed, AgreementStep, Ended
  <1>5. CASE RecvClientChangeCipherSpec
    <2>1. /\ Elems(wire'[Client]) \subseteq Elems(wire[Client])
          /\ wire'[Server] = wire[Server]
      BY <1>5, TakeElems, PeerOf DEF RecvClientChangeCipherSpec
    <2>2. /\ pc[Server] = "recv_client_ccs" /\ pc'[Server] = "recv_client_finished"
          /\ pc'[Client] = pc[Client]
      BY <1>5, GotoPc, PeerOf DEF RecvClientChangeCipherSpec, At
    <2>3. UNCHANGED <<transcript, secret>>
      BY <1>5 DEF RecvClientChangeCipherSpec, keys
    <2>4. /\ \A m \in Elems(wire'[Client]) : m \in Elems(wire[Client])
          /\ \A m \in Elems(wire'[Server]) : m \in Elems(wire[Server])
      BY <2>1
    <2>5. pc[Client] # "established"
      BY <2>2 DEF AgreeInv, CommitInv, Established
    <2>6. AgreementSame
      BY <2>2, <2>3, QuietAgreement DEF Side, Ended
    <2> QED
      BY <2>2, <2>3, <2>4, <2>5, <2>6, QuietMoves DEF Committed, AgreementStep
  <1>6. CASE RecvClientFinished
    BY <1>6, ServerCommits
  <1> QED
    BY <1>1, <1>2, <1>3, <1>4, <1>5, <1>6 DEF ServerRecv

\* A failing side leaves the other one's records and views alone.
LEMMA FailAgrees ==
  ASSUME TypeOK, AgreeInv, NEW s \in Side, pc[s] \notin Ended, Goto(s, "failed"),
         UNCHANGED <<transcript, secret>>,
         \A t \in Side : \A m \in Elems(wire'[t]) :
            m \in Elems(wire[t]) \/ ~IntactFinished(t, m)
  PROVE  AgreeInv' /\ AgreementStep
  <1>1. pc'[s] = "failed" /\ pc'[Peer(s)] = pc[Peer(s)]
    BY GotoPc
  <1>2. AgreementStep
    BY <1>1, FailAgreement
  <1>3. pc'[Client] = "established" => pc'[Server] = "established"
    BY <1>1, PeerOf DEF AgreeInv, CommitInv, Established, Side, Ended
  <1>4. /\ pc[Client] \in Sent => pc'[Client] \in Sent
        /\ pc'[Server] \in Committed => pc[Server] \in Committed
        /\ pc[Server] = "established" => pc'[Server] = "established"
    BY <1>1, PeerOf DEF Side, Ended, Sent, Committed
  <1>5. AgreeInv'
    BY <1>3, <1>4, QuietMoves, PeerOf
  <1> QED
    BY <1>2, <1>5

LEMMA AlertAgrees ==
  ASSUME TypeOK, AgreeInv, NEW s \in Side, Waiting(s), NEW rest,
         FailWithAlert(s, rest), Elems(rest) \subseteq Elems(wire[Peer(s)])
  PROVE  AgreeInv' /\ AgreementStep
  <1>1. wire'[s] = Append(wire[s], Plain("alert")) /\ wire'[Peer(s)] = rest
    BY PeerType DEF TypeOK, RecordSeqs, FailWithAlert
  <1>2. Elems(wire'[s]) = Elems(wire[s]) \cup {Plain("alert")}
    <2>1. wire[s] \in Seq(Elems(wire[s]))
      BY DEF TypeOK, RecordSeqs
    <2> QED
      BY <1>1, <2>1, AppendSeq
  <1>3. ~IntactFinished(s, Plain("alert"))
    BY DEF IntactFinished, Plain, Message
  <1>4. \A t \in Side : t = s \/ t = Peer(s)
    BY DEF Side, Peer
  <1>5. \A t \in Side : \A m \in Elems(wire'[t]) :
            m \in Elems(wire[t]) \/ ~IntactFinished(t, m)
    BY <1>1, <1>2, <1>3, <1>4
  <1>6. pc[s] \notin Ended
    BY DEF Waiting, RecvSteps, Ended
  <1>7. Goto(s, "failed") /\ UNCHANGED <<transcript, secret>>
    BY DEF FailWithAlert, keys
  <1> QED
    BY <1>5, <1>6, <1>7, FailAgrees

LEMMA SilentAgrees ==
  ASSUME TypeOK, AgreeInv, NEW s \in Side, pc[s] \notin Ended, FailSilently(s)
  PROVE  AgreeInv' /\ AgreementStep
  BY FailAgrees DEF FailSilently, keys

LEMMA FaultAgrees ==
  ASSUME TypeOK, AgreeInv, NEW s \in Side, NetworkFault(s)
  PROVE  AgreeInv' /\ AgreementStep
  <1>1. PICK r : /\ wire' = [wire EXCEPT ![s] = r]
                 /\ \A m \in Elems(r) : m \in Elems(wire[s]) \/ m.val # "sent"
    BY FaultEffect
  <1>2. UNCHANGED <<transcript, secret, pc>>
    BY DEF NetworkFault, keys
  <1>3. wire'[s] = r /\ \A t \in Side : t # s => wire'[t] = wire[t]
    BY <1>1 DEF TypeOK, RecordSeqs
  <1>4. \A t \in Side : \A m \in Elems(wire'[t]) :
            m \in Elems(wire[t]) \/ ~IntactFinished(t, m)
    BY <1>1, <1>3 DEF IntactFinished
  <1>5. AgreeInv'
    BY <1>2, <1>4, QuietMoves, PeerOf DEF AgreeInv, CommitInv, Established
  <1>6. AgreementSame
    BY <1>2, QuietAgreement
  <1> QED
    BY <1>5, <1>6 DEF AgreementStep

LEMMA UnchangedAgrees ==
  ASSUME AgreeInv, UNCHANGED <<transcript, secret, pc, wire>>
  PROVE  AgreeInv' /\ AgreementStep
  <1>1. AgreeInv'
    BY QuietMoves DEF AgreeInv, CommitInv, Established
  <1>2. AgreementSame
    BY QuietAgreement
  <1> QED
    BY <1>1, <1>2 DEF AgreementStep

LEMMA AgreeStep == TypeOK /\ AgreeInv /\ [Next]_vars => AgreeInv' /\ AgreementStep
  <1> SUFFICES ASSUME TypeOK, AgreeInv, [Next]_vars PROVE AgreeInv' /\ AgreementStep
    OBVIOUS
  <1>1. ASSUME NEW s \in Side, Handshake(s) PROVE AgreeInv' /\ AgreementStep
    <2>1. CASE ClientSend \/ ClientRecv
      BY <2>1, ClientSendAgrees, ClientRecvAgrees
    <2>2. CASE ServerSend \/ ServerRecv
      BY <2>2, ServerSendAgrees, ServerRecvAgrees
    <2>3. CASE ServerCannotGoOn
      BY <2>3, SilentAgrees, PeerOf DEF ServerCannotGoOn, At, Ended
    <2>4. CASE Reject(s)
      <3>1. Elems(Tail(wire[Peer(s)])) \subseteq Elems(wire[Peer(s)])
        BY <2>4, TailSeq, SeqsOf, PeerType DEF Reject, Incoming, TypeOK
      <3> QED
        BY <2>4, <3>1, AlertAgrees DEF Reject
    <2>5. CASE RecvFails(s)
      BY <2>5, AlertAgrees DEF RecvFails
    <2>6. CASE SendFails(s)
      BY <2>6, SilentAgrees DEF SendFails, SendSteps, Ended
    <2> QED
      BY <1>1, <2>1, <2>2, <2>3, <2>4, <2>5, <2>6 DEF Handshake
  <1>2. ASSUME NEW s \in Side, CloseFailed(s) \/ Crash(s) PROVE AgreeInv' /\ AgreementStep
    BY <1>2, UnchangedAgrees DEF CloseFailed, Crash, CloseSocket, keys
  <1>3. ASSUME NEW s \in Side, NetworkFault(s) PROVE AgreeInv' /\ AgreementStep
    BY <1>3, FaultAgrees
  <1>4. CASE UNCHANGED vars
    BY <1>4, UnchangedAgrees DEF vars, keys
  <1> QED
    BY <1>1, <1>2, <1>3, <1>4 DEF Next

LEMMA AgreeInit == Init => AgreeInv /\ Agreement!Init
  <1> SUFFICES ASSUME Init PROVE AgreeInv /\ Agreement!Init
    OBVIOUS
  <1>1. ~Settled
    BY PeerOf DEF Init, Settled
  <1>2. /\ pc[Client] = "send_client_hello" /\ pc[Server] = "recv_client_hello"
        /\ Elems(wire[Client]) = {} /\ Elems(wire[Server]) = {}
    BY PeerOf, EmptySeq, SidesAssumption DEF Init
  <1>3. AgreeInv
    BY <1>1, <1>2 DEF AgreeInv, SettledInv, FinishedInv, CommitInv, Established
  <1>4. Agreement!Init
    BY <1>1, <1>2 DEF Agreement!Init, Agreement!Side, Side, Established
  <1> QED
    BY <1>3, <1>4

\* What the two peers have agreed on while they run: an intact Finished in
\* flight stands for its sender's transcript and keys, the server has the
\* client's view from the client's Finished on, and the client completes only
\* after the server.
THEOREM AgreeCorrect == Spec => []AgreeInv
  BY TypeInit, TypeStep, AgreeInit, AgreeStep, PTL DEF Spec

\* tlcp_do_connect and tlcp_do_accept implement KeyAgreement: for any number
\* of records altered, lost, repeated or overtaken, and any timeouts and
\* crashes, the server completes only with the keys and the transcript the
\* client has settled on, and the client only after the server has.
THEOREM AgreementCorrect == Spec => ImplementsAgreement
  <1>1. TypeOK /\ AgreeInv /\ [Next]_vars => [Agreement!Next]_(Agreement!avars)
    BY AgreeStep DEF AgreementStep, AgreementSame
  <1> QED
    BY <1>1, TypeCorrect, AgreeCorrect, AgreeInit, PTL
    DEF Spec, ImplementsAgreement, Agreement!Spec

-----------------------------------------------------------------------------
(* What sending, receiving and failing do to the state.                    *)

LEMMA SendEffect ==
  ASSUME TypeOK, NEW s \in Side, NEW step, NEW m, NEW next, Send(s, step, m, next)
  PROVE  /\ pc[s] = step /\ pc'[s] = next /\ pc'[Peer(s)] = pc[Peer(s)]
         /\ Elems(wire'[s]) = Elems(wire[s]) \cup {m} /\ wire'[Peer(s)] = wire[Peer(s)]
         /\ transcript'[s] = Append(transcript[s], m)
         /\ Elems(transcript'[s]) = Elems(transcript[s]) \cup {m}
         /\ transcript'[Peer(s)] = transcript[Peer(s)]
         /\ UNCHANGED <<config, closed, faults>> /\ ~closed[s]
  <1>1. /\ transcript'[s] = Append(transcript[s], m)
        /\ transcript'[Peer(s)] = transcript[Peer(s)]
    BY PeerType DEF TypeOK, RecordSeqs, Send, Hash
  <1>2. transcript[s] \in Seq(Elems(transcript[s]))
    BY DEF TypeOK, RecordSeqs
  <1>3. Elems(transcript'[s]) = Elems(transcript[s]) \cup {m}
    BY <1>1, <1>2, AppendSeq
  <1>4. /\ Elems(wire'[s]) = Elems(wire[s]) \cup {m} /\ wire'[Peer(s)] = wire[Peer(s)]
    BY EmitElems DEF Send
  <1>5. pc'[s] = next /\ pc'[Peer(s)] = pc[Peer(s)]
    BY GotoPc DEF Send
  <1> QED
    BY <1>1, <1>3, <1>4, <1>5 DEF Send, At

LEMMA RecvEffect ==
  ASSUME TypeOK, NEW s \in Side, NEW step, NEW next, Recv(s, step, next)
  PROVE  /\ pc[s] = step /\ pc'[s] = next /\ pc'[Peer(s)] = pc[Peer(s)]
         /\ Elems(wire'[Peer(s)]) \subseteq Elems(wire[Peer(s)]) /\ wire'[s] = wire[s]
         /\ First(s) \in Elems(wire[Peer(s)]) /\ RecordOK(First(s))
         /\ transcript'[s] = Append(transcript[s], First(s))
         /\ Elems(transcript'[s]) = Elems(transcript[s]) \cup {First(s)}
         /\ transcript'[Peer(s)] = transcript[Peer(s)]
         /\ UNCHANGED <<config, closed, faults>> /\ ~closed[s]
  <1>0. PICK m : m = First(s)
    OBVIOUS
  <1>1. /\ transcript'[s] = Append(transcript[s], m)
        /\ transcript'[Peer(s)] = transcript[Peer(s)]
    BY <1>0, PeerType DEF TypeOK, RecordSeqs, Recv, Hash
  <1>2. transcript[s] \in Seq(Elems(transcript[s]))
    BY DEF TypeOK, RecordSeqs
  <1>3. Elems(transcript'[s]) = Elems(transcript[s]) \cup {m}
    BY <1>1, <1>2, AppendSeq
  <1>4. /\ Elems(wire'[Peer(s)]) \subseteq Elems(wire[Peer(s)]) /\ wire'[s] = wire[s]
        /\ First(s) \in Elems(wire[Peer(s)])
    BY TakeElems DEF Recv
  <1>5. pc'[s] = next /\ pc'[Peer(s)] = pc[Peer(s)]
    BY GotoPc DEF Recv
  <1>6. RecordOK(First(s))
    BY TakeType DEF Recv
  <1> QED
    BY <1>0, <1>1, <1>3, <1>4, <1>5, <1>6 DEF Recv, At

\* A message outside the transcript is sent or received.
LEMMA EmitEffect ==
  ASSUME TypeOK, NEW s \in Side, NEW m, NEW next, Emit(s, m), Goto(s, next)
  PROVE  /\ pc'[s] = next /\ pc'[Peer(s)] = pc[Peer(s)]
         /\ Elems(wire'[s]) = Elems(wire[s]) \cup {m} /\ wire'[Peer(s)] = wire[Peer(s)]
  BY EmitElems, GotoPc

LEMMA TakeEffect ==
  ASSUME TypeOK, NEW s \in Side, NEW next, Incoming(s), Take(s), Goto(s, next)
  PROVE  /\ pc'[s] = next /\ pc'[Peer(s)] = pc[Peer(s)]
         /\ Elems(wire'[Peer(s)]) \subseteq Elems(wire[Peer(s)]) /\ wire'[s] = wire[s]
         /\ First(s) \in Elems(wire[Peer(s)])
  BY TakeElems, GotoPc

\* The steps that are no message of the handshake: a side fails, a socket is
\* closed, the network disturbs a record, nothing happens.
Other(s) == \/ Reject(s) \/ RecvFails(s) \/ SendFails(s)
            \/ s = Server /\ ServerCannotGoOn
            \/ CloseFailed(s) \/ Crash(s) \/ NetworkFault(s)

Quiet == UNCHANGED vars \/ \E s \in Side : Other(s)

LEMMA NextCases ==
  ASSUME [Next]_vars
  PROVE  ClientSend \/ ClientRecv \/ ServerSend \/ ServerRecv \/ Quiet
  BY DEF Next, Handshake, Quiet, Other

\* What they leave alone; a record they put into a queue is an alert, was
\* there before or is no longer as it was sent.
LEMMA AlertEffect ==
  ASSUME TypeOK, NEW s \in Side, NEW rest, FailWithAlert(s, rest),
         Elems(rest) \subseteq Elems(wire[Peer(s)])
  PROVE  /\ UNCHANGED <<config, transcript, keys, seqs, closed, faults>>
         /\ pc'[s] = "failed" /\ pc'[Peer(s)] = pc[Peer(s)]
         /\ \A t \in Side : \A m \in Elems(wire'[t]) :
                m \in Elems(wire[t]) \/ m = Plain("alert")
  <1>1. wire'[s] = Append(wire[s], Plain("alert")) /\ wire'[Peer(s)] = rest
    BY PeerType DEF TypeOK, RecordSeqs, FailWithAlert
  <1>2. Elems(wire'[s]) = Elems(wire[s]) \cup {Plain("alert")}
    <2>1. wire[s] \in Seq(Elems(wire[s]))
      BY DEF TypeOK, RecordSeqs
    <2> QED
      BY <1>1, <2>1, AppendSeq
  <1>3. \A t \in Side : t = s \/ t = Peer(s)
    BY DEF Side, Peer
  <1>4. pc'[s] = "failed" /\ pc'[Peer(s)] = pc[Peer(s)]
    BY GotoPc DEF FailWithAlert
  <1> QED
    BY <1>1, <1>2, <1>3, <1>4 DEF FailWithAlert

LEMMA QuietEffect ==
  ASSUME TypeOK, Quiet
  PROVE  /\ UNCHANGED <<config, transcript, random, certsOf, clientCerts, secret, seqs>>
         /\ \A s \in Side : pc'[s] = pc[s] \/ pc'[s] = "failed"
         /\ \A s \in Side : \A m \in Elems(wire'[s]) :
                m \in Elems(wire[s]) \/ m.val # "sent" \/ m = Plain("alert")
  <1>1. CASE UNCHANGED vars
    BY <1>1 DEF vars, keys
  <1>2. ASSUME NEW s \in Side, Reject(s) \/ RecvFails(s)
        PROVE  /\ UNCHANGED <<config, transcript, keys, seqs>>
               /\ pc'[s] = "failed" /\ pc'[Peer(s)] = pc[Peer(s)]
               /\ \A t \in Side : \A m \in Elems(wire'[t]) :
                      m \in Elems(wire[t]) \/ m = Plain("alert")
    <2>1. Reject(s) => Elems(Tail(wire[Peer(s)])) \subseteq Elems(wire[Peer(s)])
      BY TailSeq, SeqsOf, PeerType DEF Reject, Incoming, TypeOK
    <2> QED
      BY <1>2, <2>1, AlertEffect DEF Reject, RecvFails
  <1>3. ASSUME NEW s \in Side, FailSilently(s)
        PROVE  /\ UNCHANGED <<config, transcript, keys, seqs, wire>>
               /\ pc'[s] = "failed" /\ pc'[Peer(s)] = pc[Peer(s)]
    BY <1>3, GotoPc DEF FailSilently
  <1>4. ASSUME NEW s \in Side, CloseFailed(s) \/ Crash(s)
        PROVE  UNCHANGED <<config, transcript, keys, seqs, wire, pc>>
    BY <1>4 DEF CloseFailed, Crash, CloseSocket
  <1>5. ASSUME NEW s \in Side, NetworkFault(s)
        PROVE  /\ UNCHANGED <<config, transcript, keys, seqs, pc>>
               /\ \A t \in Side : \A m \in Elems(wire'[t]) :
                      m \in Elems(wire[t]) \/ m.val # "sent"
    <2>1. PICK r : /\ wire' = [wire EXCEPT ![s] = r]
                   /\ \A m \in Elems(r) : m \in Elems(wire[s]) \/ m.val # "sent"
      BY <1>5, FaultEffect
    <2>2. wire'[s] = r /\ \A t \in Side : t # s => wire'[t] = wire[t]
      BY <2>1 DEF TypeOK, RecordSeqs
    <2> QED
      BY <1>5, <2>1, <2>2 DEF NetworkFault
  <1>6. \A s \in Side : \A t \in Side : t = s \/ t = Peer(s)
    BY DEF Side, Peer
  <1>7. ASSUME NEW s \in Side, Other(s)
        PROVE  /\ UNCHANGED <<config, transcript, keys, seqs>>
               /\ \A t \in Side : pc'[t] = pc[t] \/ pc'[t] = "failed"
               /\ \A t \in Side : \A m \in Elems(wire'[t]) :
                      m \in Elems(wire[t]) \/ m.val # "sent" \/ m = Plain("alert")
    <2>1. CASE Reject(s) \/ RecvFails(s)
      BY <1>2, <1>6, <2>1
    <2>2. CASE SendFails(s) \/ (s = Server /\ ServerCannotGoOn)
      <3>1. FailSilently(s)
        BY <2>2 DEF SendFails, ServerCannotGoOn
      <3> QED
        BY <1>3, <1>6, <3>1
    <2>3. CASE CloseFailed(s) \/ Crash(s)
      BY <1>4, <2>3
    <2>4. CASE NetworkFault(s)
      BY <1>5, <2>4
    <2> QED
      BY <1>7, <2>1, <2>2, <2>3, <2>4 DEF Other
  <1> QED
    BY <1>1, <1>7 DEF Quiet, keys

-----------------------------------------------------------------------------
(* The key the client encrypts to.                                         *)

\* The client before it has verified ServerKeyExchange; the server before it
\* has both randoms.
Unverified == {"send_client_hello", "recv_server_hello", "recv_server_cert",
               "recv_server_key_exchange"}
Greeting == {"recv_client_hello", "send_server_hello"}

\* The client's view of the exchange is the server's.
SameExchange ==
    /\ certsOf[Client] \in {"sent", "rest"}
    /\ random[Client] = random[Server]
    /\ pc[Server] \notin Greeting

\* A ServerKeyExchange in flight signs the randoms the server still has.  A
\* client that has verified one, or has a secret, is in the server's exchange,
\* and has no secret before.
KeyInv ==
    /\ \A m \in Elems(wire[Server]) :
        m.type = "server_key_exchange" /\ m.val = "sent" =>
            m.rnd = random[Server] /\ pc[Server] \notin Greeting
    /\ pc[Client] = "recv_server_key_exchange" => certsOf[Client] # "none"
    /\ pc[Client] \in Unverified => secret[Client] = <<>>
    /\ pc[Client] \notin Unverified \cup {"failed"} \/ secret[Client] # <<>> =>
        SameExchange

\* A step that leaves the randoms, certificates and secrets alone.
LEMMA KeyQuiet ==
  ASSUME KeyInv, UNCHANGED <<random, certsOf, secret>>,
         \/ pc'[Client] = pc[Client] \/ pc'[Client] = "failed"
         \/ pc[Client] \notin Unverified \cup {"failed"} /\ pc'[Client] \notin Unverified,
         pc[Server] \notin Greeting => pc'[Server] \notin Greeting,
         \A m \in Elems(wire'[Server]) :
            m \in Elems(wire[Server]) \/ m.val # "sent" \/ m.type # "server_key_exchange"
  PROVE  KeyInv'
  BY DEF KeyInv, SameExchange, Unverified

LEMMA ClientSendKey == ASSUME TypeOK, KeyInv, ClientSend PROVE KeyInv'
  <1> USE PeerOf
  <1>1. CASE SendClientHello
    <2>1. /\ pc[Client] = "send_client_hello" /\ pc'[Client] = "recv_server_hello"
          /\ pc'[Server] = pc[Server] /\ wire'[Server] = wire[Server]
      BY <1>1, SendEffect DEF SendClientHello
    <2>2. random'[Server] = random[Server] /\ UNCHANGED <<certsOf, secret>>
      BY <1>1, SidesAssumption DEF SendClientHello, TypeOK
    <2> QED
      BY <2>1, <2>2 DEF KeyInv, Unverified, SameExchange
  <1>2. CASE SendClientCertificate
    <2>1. /\ pc[Client] = "send_client_cert" /\ pc'[Client] = "send_client_key_exchange"
          /\ pc'[Server] = pc[Server] /\ wire'[Server] = wire[Server]
      BY <1>2, SendEffect DEF SendClientCertificate
    <2> QED
      BY <1>2, <2>1, KeyQuiet DEF SendClientCertificate, keys, Unverified
  <1>3. CASE SendClientKeyExchange
    <2>1. /\ pc[Client] = "send_client_key_exchange"
          /\ pc'[Client] \in {"send_cert_verify", "send_client_ccs"}
          /\ pc'[Server] = pc[Server] /\ wire'[Server] = wire[Server]
      BY <1>3, SendEffect DEF SendClientKeyExchange
    <2>2. UNCHANGED <<random, certsOf>>
      BY <1>3 DEF SendClientKeyExchange
    <2> QED
      BY <2>1, <2>2 DEF KeyInv, Unverified, SameExchange
  <1>4. CASE SendCertificateVerify
    <2>1. /\ pc[Client] = "send_cert_verify" /\ pc'[Client] = "send_client_ccs"
          /\ pc'[Server] = pc[Server] /\ wire'[Server] = wire[Server]
      BY <1>4, SendEffect DEF SendCertificateVerify
    <2> QED
      BY <1>4, <2>1, KeyQuiet DEF SendCertificateVerify, keys, Unverified
  <1>5. CASE SendClientChangeCipherSpec
    <2>1. /\ pc[Client] = "send_client_ccs" /\ pc'[Client] = "send_client_finished"
          /\ pc'[Server] = pc[Server] /\ wire'[Server] = wire[Server]
      BY <1>5, EmitEffect DEF SendClientChangeCipherSpec, At
    <2> QED
      BY <1>5, <2>1, KeyQuiet DEF SendClientChangeCipherSpec, keys, Unverified
  <1>6. CASE SendClientFinished
    <2>1. /\ pc[Client] = "send_client_finished" /\ pc'[Client] = "recv_server_ccs"
          /\ pc'[Server] = pc[Server] /\ wire'[Server] = wire[Server]
      BY <1>6, SendEffect DEF SendClientFinished
    <2> QED
      BY <1>6, <2>1, KeyQuiet DEF SendClientFinished, keys, Unverified
  <1> QED
    BY <1>1, <1>2, <1>3, <1>4, <1>5, <1>6 DEF ClientSend

LEMMA ClientRecvKey == ASSUME TypeOK, KeyInv, ClientRecv PROVE KeyInv'
  <1> USE PeerOf
  <1>1. CASE RecvServerHello
    <2>1. /\ pc[Client] = "recv_server_hello" /\ pc'[Client] = "recv_server_cert"
          /\ pc'[Server] = pc[Server] /\ Elems(wire'[Server]) \subseteq Elems(wire[Server])
      BY <1>1, RecvEffect DEF RecvServerHello
    <2>2. random'[Server] = random[Server] /\ UNCHANGED <<certsOf, secret>>
      BY <1>1, SidesAssumption DEF RecvServerHello, TypeOK
    <2> QED
      BY <2>1, <2>2 DEF KeyInv, Unverified, SameExchange
  <1>2. CASE RecvServerCertificate
    <2>1. /\ pc[Client] = "recv_server_cert" /\ pc'[Client] = "recv_server_key_exchange"
          /\ pc'[Server] = pc[Server] /\ Elems(wire'[Server]) \subseteq Elems(wire[Server])
          /\ RecordOK(First(Client))
      BY <1>2, RecvEffect DEF RecvServerCertificate
    <2>2. certsOf'[Client] # "none" /\ UNCHANGED <<random, secret>>
      BY <1>2, <2>1 DEF RecvServerCertificate, TypeOK, RecordOK
    <2> QED
      BY <2>1, <2>2 DEF KeyInv, Unverified, SameExchange
  <1>3. CASE RecvServerKeyExchange
    <2>1. /\ pc[Client] = "recv_server_key_exchange"
          /\ pc'[Client] = "recv_cert_request_or_done"
          /\ pc'[Server] = pc[Server] /\ Elems(wire'[Server]) \subseteq Elems(wire[Server])
          /\ First(Client) \in Elems(wire[Server])
      BY <1>3, RecvEffect DEF RecvServerKeyExchange
    <2>2. UNCHANGED <<random, certsOf, secret>>
      BY <1>3 DEF RecvServerKeyExchange, keys
    <2>3. /\ First(Client).type = "server_key_exchange" /\ First(Client).val = "sent"
          /\ certsOf[Client] # "core" /\ First(Client).rnd = random[Client]
      BY <1>3 DEF RecvServerKeyExchange, ServerKeyExchangeOK, Intact
    <2>4. certsOf[Client] \in {"sent", "rest"}
      BY <2>1, <2>3 DEF KeyInv, TypeOK
    <2>5. random[Client] = random[Server] /\ pc[Server] \notin Greeting
      BY <2>1, <2>3 DEF KeyInv
    <2>6. SameExchange'
      BY <2>1, <2>2, <2>4, <2>5 DEF SameExchange
    <2> QED
      BY <2>1, <2>2, <2>6 DEF KeyInv, Unverified
  <1>4. CASE RecvCertificateRequest
    <2>1. /\ pc[Client] = "recv_cert_request_or_done"
          /\ pc'[Client] = "recv_server_hello_done"
          /\ pc'[Server] = pc[Server] /\ Elems(wire'[Server]) \subseteq Elems(wire[Server])
      BY <1>4, RecvEffect DEF RecvCertificateRequest
    <2> QED
      BY <1>4, <2>1, KeyQuiet DEF RecvCertificateRequest, keys, Unverified
  <1>5. CASE RecvServerHelloDone
    <2>1. /\ pc[Client] = "recv_server_hello_done"
          /\ pc'[Client] \in {"send_client_cert", "send_client_key_exchange"}
          /\ pc'[Server] = pc[Server] /\ Elems(wire'[Server]) \subseteq Elems(wire[Server])
      BY <1>5, RecvEffect DEF RecvServerHelloDone, AfterHelloDone
    <2> QED
      BY <1>5, <2>1, KeyQuiet DEF RecvServerHelloDone, keys, Unverified
  <1>6. CASE RecvServerHelloDoneNoRequest
    <2>1. /\ pc[Client] = "recv_cert_request_or_done"
          /\ pc'[Client] = "send_client_key_exchange"
          /\ pc'[Server] = pc[Server] /\ Elems(wire'[Server]) \subseteq Elems(wire[Server])
      BY <1>6, RecvEffect DEF RecvServerHelloDoneNoRequest, AfterHelloDone
    <2> QED
      BY <1>6, <2>1, KeyQuiet DEF RecvServerHelloDoneNoRequest, Unverified
  <1>7. CASE RecvServerChangeCipherSpec
    <2>1. /\ pc[Client] = "recv_server_ccs" /\ pc'[Client] = "recv_server_finished"
          /\ pc'[Server] = pc[Server] /\ Elems(wire'[Server]) \subseteq Elems(wire[Server])
      BY <1>7, TakeEffect DEF RecvServerChangeCipherSpec, At
    <2> QED
      BY <1>7, <2>1, KeyQuiet DEF RecvServerChangeCipherSpec, keys, Unverified
  <1>8. CASE RecvServerFinished
    <2>1. /\ pc[Client] = "recv_server_finished" /\ pc'[Client] = "established"
          /\ pc'[Server] = pc[Server] /\ Elems(wire'[Server]) \subseteq Elems(wire[Server])
      BY <1>8, TakeEffect DEF RecvServerFinished, At
    <2> QED
      BY <1>8, <2>1, KeyQuiet DEF RecvServerFinished, keys, Unverified
  <1> QED
    BY <1>1, <1>2, <1>3, <1>4, <1>5, <1>6, <1>7, <1>8 DEF ClientRecv

\* What the server does after the two hellos leaves its randoms alone.
LEMMA ServerMovesKey ==
  ASSUME KeyInv, random' = random, certsOf'[Client] = certsOf[Client],
         secret'[Client] = secret[Client],
         pc'[Client] = pc[Client], pc'[Server] \notin Greeting,
         \A m \in Elems(wire'[Server]) :
            \/ m \in Elems(wire[Server])
            \/ m.type # "server_key_exchange" \/ m.rnd = random[Server]
  PROVE  KeyInv'
  BY DEF KeyInv, SameExchange

\* While the server greets, the client has nothing of it yet to verify.
LEMMA GreetingKey ==
  ASSUME KeyInv, pc[Server] \in Greeting, pc'[Client] = pc[Client],
         random'[Client] = random[Client], certsOf'[Client] = certsOf[Client],
         secret'[Client] = secret[Client],
         \A m \in Elems(wire'[Server]) :
            m \in Elems(wire[Server]) \/ m.type # "server_key_exchange"
  PROVE  KeyInv'
  BY DEF KeyInv, SameExchange

LEMMA ServerSendKey == ASSUME TypeOK, KeyInv, ServerSend PROVE KeyInv'
  <1> USE PeerOf
  <1>1. CASE SendServerHello
    <2>1. /\ pc[Server] = "send_server_hello" /\ pc'[Client] = pc[Client]
          /\ Elems(wire'[Server]) = Elems(wire[Server]) \cup {Plain("server_hello")}
      BY <1>1, SendEffect DEF SendServerHello
    <2>2. random'[Client] = random[Client] /\ UNCHANGED <<certsOf, secret>>
      BY <1>1, SidesAssumption DEF SendServerHello, TypeOK
    <2>3. Plain("server_hello").type # "server_key_exchange"
      BY DEF Plain, Message
    <2> QED
      BY <2>1, <2>2, <2>3, GreetingKey DEF Greeting
  <1>2. CASE SendServerCertificate
    <2>1. /\ pc'[Server] = "send_server_key_exchange" /\ pc'[Client] = pc[Client]
          /\ Elems(wire'[Server]) = Elems(wire[Server]) \cup {Plain("certificate")}
      BY <1>2, SendEffect DEF SendServerCertificate
    <2>2. Plain("certificate").type # "server_key_exchange"
      BY DEF Plain, Message
    <2> QED
      BY <1>2, <2>1, <2>2, ServerMovesKey DEF SendServerCertificate, keys, Greeting
  <1>3. CASE SendServerKeyExchange
    <2>0. PICK m : m = Message("server_key_exchange", random[Server], <<>>, <<>>, 0)
      OBVIOUS
    <2>1. /\ pc'[Server] \in {"send_cert_request", "send_server_hello_done"}
          /\ pc'[Client] = pc[Client]
          /\ Elems(wire'[Server]) = Elems(wire[Server]) \cup {m}
      BY <1>3, <2>0, SendEffect DEF SendServerKeyExchange
    <2>2. m.rnd = random[Server]
      BY <2>0 DEF Message
    <2> QED
      BY <1>3, <2>1, <2>2, ServerMovesKey DEF SendServerKeyExchange, keys, Greeting
  <1>4. CASE SendCertificateRequest
    <2>1. /\ pc'[Server] = "send_server_hello_done" /\ pc'[Client] = pc[Client]
          /\ Elems(wire'[Server]) = Elems(wire[Server]) \cup {Plain("certificate_request")}
      BY <1>4, SendEffect DEF SendCertificateRequest
    <2>2. Plain("certificate_request").type # "server_key_exchange"
      BY DEF Plain, Message
    <2> QED
      BY <1>4, <2>1, <2>2, ServerMovesKey DEF SendCertificateRequest, keys, Greeting
  <1>5. CASE SendServerHelloDone
    <2>1. /\ pc'[Server] \in {"recv_client_cert", "recv_client_key_exchange"}
          /\ pc'[Client] = pc[Client]
          /\ Elems(wire'[Server]) = Elems(wire[Server]) \cup {Plain("server_hello_done")}
      BY <1>5, SendEffect DEF SendServerHelloDone
    <2>2. Plain("server_hello_done").type # "server_key_exchange"
      BY DEF Plain, Message
    <2> QED
      BY <1>5, <2>1, <2>2, ServerMovesKey DEF SendServerHelloDone, keys, Greeting
  <1>6. CASE SendServerChangeCipherSpec
    <2>1. /\ pc'[Server] = "send_server_finished" /\ pc'[Client] = pc[Client]
          /\ Elems(wire'[Server]) = Elems(wire[Server]) \cup {Plain("change_cipher_spec")}
      BY <1>6, EmitEffect DEF SendServerChangeCipherSpec
    <2>2. Plain("change_cipher_spec").type # "server_key_exchange"
      BY DEF Plain, Message
    <2> QED
      BY <1>6, <2>1, <2>2, ServerMovesKey DEF SendServerChangeCipherSpec, keys, Greeting
  <1>7. CASE SendServerFinished
    <2>0. PICK m : m = Finished(Server, "server_finished", serverSeq[Server])
      OBVIOUS
    <2>1. /\ pc'[Server] = "established" /\ pc'[Client] = pc[Client]
          /\ Elems(wire'[Server]) = Elems(wire[Server]) \cup {m}
      BY <1>7, <2>0, EmitEffect DEF SendServerFinished
    <2>2. m.type # "server_key_exchange"
      BY <2>0 DEF Finished, Message
    <2> QED
      BY <1>7, <2>1, <2>2, ServerMovesKey DEF SendServerFinished, keys, Greeting
  <1> QED
    BY <1>1, <1>2, <1>3, <1>4, <1>5, <1>6, <1>7 DEF ServerSend

LEMMA ServerRecvKey == ASSUME TypeOK, KeyInv, ServerRecv PROVE KeyInv'
  <1> USE PeerOf
  <1>1. CASE RecvClientHello
    <2>1. /\ pc[Server] = "recv_client_hello" /\ pc'[Client] = pc[Client]
          /\ wire'[Server] = wire[Server]
      BY <1>1, RecvEffect DEF RecvClientHello
    <2>2. random'[Client] = random[Client] /\ UNCHANGED <<certsOf, secret>>
      BY <1>1, SidesAssumption DEF RecvClientHello, TypeOK
    <2> QED
      BY <2>1, <2>2, GreetingKey DEF Greeting
  <1>2. CASE RecvClientCertificate
    <2>1. /\ pc'[Server] = "recv_client_key_exchange" /\ pc'[Client] = pc[Client]
          /\ wire'[Server] = wire[Server]
      BY <1>2, RecvEffect DEF RecvClientCertificate
    <2>2. certsOf'[Client] = certsOf[Client]
      BY <1>2, SidesAssumption DEF RecvClientCertificate, TypeOK
    <2> QED
      BY <1>2, <2>1, <2>2, ServerMovesKey DEF RecvClientCertificate, Greeting
  <1>3. CASE RecvClientKeyExchange
    <2>1. /\ pc'[Server] \in {"recv_cert_verify", "recv_client_ccs"}
          /\ pc'[Client] = pc[Client] /\ wire'[Server] = wire[Server]
      BY <1>3, RecvEffect DEF RecvClientKeyExchange
    <2>2. secret'[Client] = secret[Client]
      BY <1>3, SidesAssumption DEF RecvClientKeyExchange, TypeOK
    <2> QED
      BY <1>3, <2>1, <2>2, ServerMovesKey DEF RecvClientKeyExchange, Greeting
  <1>4. CASE RecvCertificateVerify
    <2>1. /\ pc'[Server] = "recv_client_ccs" /\ pc'[Client] = pc[Client]
          /\ wire'[Server] = wire[Server]
      BY <1>4, RecvEffect DEF RecvCertificateVerify
    <2>2. secret'[Client] = secret[Client]
      BY <1>4, SidesAssumption DEF RecvCertificateVerify, TypeOK
    <2> QED
      BY <1>4, <2>1, <2>2, ServerMovesKey DEF RecvCertificateVerify, Greeting
  <1>5. CASE RecvClientChangeCipherSpec
    <2>1. /\ pc'[Server] = "recv_client_finished" /\ pc'[Client] = pc[Client]
          /\ wire'[Server] = wire[Server]
      BY <1>5, TakeEffect DEF RecvClientChangeCipherSpec
    <2> QED
      BY <1>5, <2>1, ServerMovesKey DEF RecvClientChangeCipherSpec, keys, Greeting
  <1>6. CASE RecvClientFinished
    <2>1. /\ pc'[Server] = "send_server_ccs" /\ pc'[Client] = pc[Client]
          /\ wire'[Server] = wire[Server]
      BY <1>6, RecvEffect DEF RecvClientFinished
    <2> QED
      BY <1>6, <2>1, ServerMovesKey DEF RecvClientFinished, keys, Greeting
  <1> QED
    BY <1>1, <1>2, <1>3, <1>4, <1>5, <1>6 DEF ServerRecv

LEMMA QuietKey == ASSUME TypeOK, KeyInv, Quiet PROVE KeyInv'
  <1>1. Plain("alert").type # "server_key_exchange"
    BY DEF Plain, Message
  <1>2. \A m \in Elems(wire'[Server]) :
            m \in Elems(wire[Server]) \/ m.val # "sent" \/ m.type # "server_key_exchange"
    BY <1>1, QuietEffect, PeerOf
  <1>3. /\ pc'[Client] = pc[Client] \/ pc'[Client] = "failed"
        /\ pc'[Server] = pc[Server] \/ pc'[Server] = "failed"
        /\ UNCHANGED <<random, certsOf, secret>>
    BY QuietEffect, PeerOf
  <1> QED
    BY <1>2, <1>3, KeyQuiet DEF Greeting

\* tlcp_do_connect encrypts the pre-master secret only to a key that the
\* server signed for this exchange, whatever happens to the records.
THEOREM KeyFromServerCorrect == Spec => []KeyFromServer
  <1>1. Init => KeyInv
    <2> SUFFICES ASSUME Init PROVE KeyInv
      OBVIOUS
    <2>1. /\ pc[Client] = "send_client_hello" /\ secret[Client] = <<>>
          /\ Elems(wire[Server]) = {}
      BY PeerOf, EmptySeq DEF Init
    <2> QED
      BY <2>1 DEF KeyInv, Unverified
  <1>2. TypeOK /\ KeyInv /\ [Next]_vars => KeyInv'
    BY NextCases, ClientSendKey, ClientRecvKey, ServerSendKey, ServerRecvKey, QuietKey
  <1>3. KeyInv => KeyFromServer
    BY DEF KeyInv, SameExchange, KeyFromServer
  <1> QED
    BY <1>1, <1>2, <1>3, TypeCorrect, PTL DEF Spec

-----------------------------------------------------------------------------
(* An altered handshake is not completed.                                  *)

\* The one message the server accepts altered is ClientHello, which the
\* client has as it sent it.
AlteredInv ==
    /\ \A m \in Elems(transcript[Server]) : m.val = "sent" \/ m.type = "client_hello"
    /\ \A m \in Elems(transcript[Client]) : m.val = "sent" \/ m.type # "client_hello"

LEMMA ClientSendUnaltered == ASSUME TypeOK, AlteredInv, ClientSend PROVE AlteredInv'
  <1> USE PeerOf
  <1>1. ASSUME NEW step, NEW m, NEW next, Send(Client, step, m, next), m.val = "sent"
        PROVE  AlteredInv'
    <2>1. /\ transcript'[Server] = transcript[Server]
          /\ Elems(transcript'[Client]) = Elems(transcript[Client]) \cup {m}
      BY <1>1, SendEffect
    <2> QED
      BY <1>1, <2>1 DEF AlteredInv
  <1>2. /\ \A t : Plain(t).val = "sent"
        /\ \A t, a, b, c, d : Message(t, a, b, c, d).val = "sent"
    BY DEF Plain, Message
  <1>3. CASE SendClientChangeCipherSpec
    BY <1>3 DEF SendClientChangeCipherSpec, AlteredInv
  <1> QED
    BY <1>1, <1>2, <1>3 DEF ClientSend, SendClientHello, SendClientCertificate,
        SendClientKeyExchange, SendCertificateVerify, SendClientFinished, Finished

LEMMA ClientRecvUnaltered == ASSUME TypeOK, AlteredInv, ClientRecv PROVE AlteredInv'
  <1> USE PeerOf
  <1>1. ASSUME NEW step, NEW next, Recv(Client, step, next),
               First(Client).type # "client_hello"
        PROVE  AlteredInv'
    <2>1. /\ transcript'[Server] = transcript[Server]
          /\ Elems(transcript'[Client]) = Elems(transcript[Client]) \cup {First(Client)}
      BY <1>1, RecvEffect
    <2> QED
      BY <1>1, <2>1 DEF AlteredInv
  <1>2. CASE RecvServerChangeCipherSpec \/ RecvServerFinished
    BY <1>2 DEF RecvServerChangeCipherSpec, RecvServerFinished, AlteredInv
  <1> QED
    BY <1>1, <1>2 DEF ClientRecv, RecvServerHello, ServerHelloOK, RecvServerCertificate,
        ServerCertOK, RecvServerKeyExchange, ServerKeyExchangeOK, RecvCertificateRequest,
        CertRequestOK, RecvServerHelloDone, RecvServerHelloDoneNoRequest,
        ServerHelloDoneOK, Parses, Intact

LEMMA ServerSendUnaltered == ASSUME TypeOK, AlteredInv, ServerSend PROVE AlteredInv'
  <1> USE PeerOf
  <1>1. ASSUME NEW step, NEW m, NEW next, Send(Server, step, m, next), m.val = "sent"
        PROVE  AlteredInv'
    <2>1. /\ transcript'[Client] = transcript[Client]
          /\ Elems(transcript'[Server]) = Elems(transcript[Server]) \cup {m}
      BY <1>1, SendEffect
    <2> QED
      BY <1>1, <2>1 DEF AlteredInv
  <1>2. /\ \A t : Plain(t).val = "sent"
        /\ \A t, a, b, c, d : Message(t, a, b, c, d).val = "sent"
    BY DEF Plain, Message
  <1>3. CASE SendServerChangeCipherSpec \/ SendServerFinished
    BY <1>3 DEF SendServerChangeCipherSpec, SendServerFinished, AlteredInv
  <1> QED
    BY <1>1, <1>2, <1>3 DEF ServerSend, SendServerHello, SendServerCertificate,
        SendServerKeyExchange, SendCertificateRequest, SendServerHelloDone

LEMMA ServerRecvUnaltered == ASSUME TypeOK, AlteredInv, ServerRecv PROVE AlteredInv'
  <1> USE PeerOf
  <1>1. ASSUME NEW step, NEW next, Recv(Server, step, next),
               First(Server).type = "client_hello" \/ First(Server).val = "sent"
        PROVE  AlteredInv'
    <2>1. /\ transcript'[Client] = transcript[Client]
          /\ Elems(transcript'[Server]) = Elems(transcript[Server]) \cup {First(Server)}
      BY <1>1, RecvEffect
    <2> QED
      BY <1>1, <2>1 DEF AlteredInv
  <1>2. CASE RecvClientChangeCipherSpec
    BY <1>2 DEF RecvClientChangeCipherSpec, AlteredInv
  <1> QED
    BY <1>1, <1>2 DEF ServerRecv, RecvClientHello, ClientHelloOK, RecvClientCertificate,
        ClientCertOK, RecvClientKeyExchange, ClientKeyExchangeOK, RecvCertificateVerify,
        CertVerifyOK, RecvClientFinished, FinishedOK, Parses, Intact

\* A side completes the TLCP handshake only if every message of it reached
\* its reader as it was sent, the ones no single check protects included.
THEOREM UnalteredCorrect == Spec => []UnalteredView
  <1>1. Init => AlteredInv
    BY PeerOf, EmptySeq DEF Init, AlteredInv
  <1>2. TypeOK /\ AlteredInv /\ [Next]_vars => AlteredInv'
    <2>1. ASSUME TypeOK, AlteredInv, Quiet PROVE AlteredInv'
      BY <2>1, QuietEffect DEF AlteredInv
    <2> QED
      BY <2>1, NextCases, ClientSendUnaltered, ClientRecvUnaltered, ServerSendUnaltered,
         ServerRecvUnaltered
  <1>3. TypeOK /\ AgreeInv /\ AlteredInv => UnalteredView
    <2> SUFFICES ASSUME TypeOK, AgreeInv, AlteredInv, NEW s \in Side, Established(s)
                 PROVE  \A t \in Side : \A i \in 1 .. Len(transcript[t]) :
                            transcript[t][i].val = "sent"
      BY DEF UnalteredView
    <2>1. transcript[Server] = transcript[Client]
      BY DEF AgreeInv, CommitInv, View, Established, Side
    <2>2. \A m \in Elems(transcript[Client]) : m.val = "sent"
      BY <2>1 DEF AlteredInv
    <2>3. \A i \in 1 .. Len(transcript[Client]) :
            transcript[Client][i] \in Elems(transcript[Client])
      BY PeerOf, SeqsOf DEF TypeOK, Elems
    <2> QED
      BY <2>1, <2>2, <2>3 DEF Side
  <1> QED
    BY <1>1, <1>2, <1>3, TypeCorrect, AgreeCorrect, PTL DEF Spec

-----------------------------------------------------------------------------
(* Authentication.                                                         *)

\* The server once it has the client's certificate, or needs none; once it has
\* the client's signature, or needs none; the client before it has the
\* server's certificate.
HasCert == {"recv_client_key_exchange", "recv_cert_verify", "recv_client_ccs",
            "recv_client_finished"} \cup Committed
HasSignature == {"recv_client_ccs", "recv_client_finished"} \cup Committed
NoCert == {"send_client_hello", "recv_server_hello", "recv_server_cert"}

\* The transcript q holds a CertificateVerify that signs all that precedes it.
SignedIn(q) == \E i \in 1 .. Len(q) :
    q[i].type = "certificate_verify" /\ q[i].over = SubSeq(q, 1, i - 1)

AuthInv ==
    /\ pc[Server] \in HasCert /\ client_verify => config.clientCert = "good"
    /\ pc[Server] \in HasSignature /\ client_verify => SignedIn(transcript[Server])
    /\ pc[Server] = "recv_cert_verify" => client_verify
    /\ pc[Client] \notin NoCert \cup {"failed"} /\ config.clientCA =>
        config.serverCerts = "good"

\* A transcript that grows keeps its signature, and one that grows by a
\* signature over itself has one.
LEMMA AppendSigned ==
  ASSUME NEW q, q \in Seq(Elems(q)), NEW m
  PROVE  /\ SignedIn(q) => SignedIn(Append(q, m))
         /\ m.type = "certificate_verify" /\ m.over = q => SignedIn(Append(q, m))
  <1> DEFINE r == Append(q, m)
  <1>1. /\ Len(q) \in Nat /\ Len(r) = Len(q) + 1
        /\ \A i \in 1 .. Len(q) : r[i] = q[i]
        /\ r[Len(q) + 1] = m
    OBVIOUS
  <1>2. ASSUME NEW i \in 1 .. Len(q) + 1
        PROVE  SubSeq(r, 1, i - 1) = SubSeq(q, 1, i - 1)
    <2>1. /\ SubSeq(r, 1, i - 1) = [j \in 1 .. i - 1 |-> r[j]]
          /\ SubSeq(q, 1, i - 1) = [j \in 1 .. i - 1 |-> q[j]]
      BY <1>1, <1>2
    <2>2. \A j \in 1 .. i - 1 : r[j] = q[j]
      BY <1>1, <1>2
    <2> QED
      BY <2>1, <2>2
  <1>3. SubSeq(q, 1, Len(q)) = q
    OBVIOUS
  <1> HIDE DEF r
  <1>4. SignedIn(q) => SignedIn(r)
    BY <1>1, <1>2 DEF SignedIn
  <1>5. m.type = "certificate_verify" /\ m.over = q => SignedIn(r)
    <2>1. Len(q) + 1 \in 1 .. Len(r) /\ SubSeq(r, 1, Len(q) + 1 - 1) = q
      BY <1>1, <1>2, <1>3
    <2> QED
      BY <1>1, <2>1 DEF SignedIn
  <1> QED
    BY <1>4, <1>5 DEF r

LEMMA ClientAuth ==
  ASSUME AuthInv, UNCHANGED config, pc'[Server] = pc[Server],
         transcript'[Server] = transcript[Server],
         \/ pc'[Client] \in NoCert \cup {"failed"}
         \/ pc[Client] \notin NoCert \cup {"failed"}
         \/ config.clientCA => config.serverCerts = "good"
  PROVE  AuthInv'
  BY DEF AuthInv, client_verify

LEMMA ServerAuth ==
  ASSUME AuthInv, UNCHANGED config, pc'[Client] = pc[Client],
         pc'[Server] \in HasCert =>
            pc[Server] \in HasCert \/ ~client_verify \/ config.clientCert = "good",
         pc'[Server] \in HasSignature /\ client_verify => SignedIn(transcript'[Server]),
         pc'[Server] = "recv_cert_verify" => client_verify
  PROVE  AuthInv'
  BY DEF AuthInv, client_verify

LEMMA ClientSendAuth == ASSUME TypeOK, AuthInv, ClientSend PROVE AuthInv'
  <1> USE PeerOf
  <1>1. ASSUME NEW step, NEW m, NEW next, Send(Client, step, m, next),
               next \in NoCert \/ step \notin NoCert \cup {"failed"}
        PROVE  AuthInv'
    <2>1. /\ pc[Client] = step /\ pc'[Client] = next /\ pc'[Server] = pc[Server]
          /\ transcript'[Server] = transcript[Server] /\ config' = config
      BY <1>1, SendEffect
    <2> QED
      BY <1>1, <2>1, ClientAuth
  <1>2. CASE SendClientHello
    BY <1>1, <1>2 DEF SendClientHello, NoCert
  <1>3. CASE SendClientCertificate
    BY <1>1, <1>3 DEF SendClientCertificate, NoCert
  <1>4. CASE SendClientKeyExchange
    BY <1>1, <1>4 DEF SendClientKeyExchange, NoCert
  <1>5. CASE SendCertificateVerify
    BY <1>1, <1>5 DEF SendCertificateVerify, NoCert
  <1>6. CASE SendClientChangeCipherSpec
    <2>1. pc[Client] = "send_client_ccs" /\ pc'[Server] = pc[Server]
      BY <1>6, EmitEffect DEF SendClientChangeCipherSpec, At
    <2> QED
      BY <1>6, <2>1, ClientAuth DEF SendClientChangeCipherSpec, NoCert
  <1>7. CASE SendClientFinished
    BY <1>1, <1>7 DEF SendClientFinished, NoCert
  <1> QED
    BY <1>2, <1>3, <1>4, <1>5, <1>6, <1>7 DEF ClientSend

LEMMA ClientRecvAuth == ASSUME TypeOK, AuthInv, ClientRecv PROVE AuthInv'
  <1> USE PeerOf
  <1>1. ASSUME NEW step, NEW next, Recv(Client, step, next),
               \/ next \in NoCert \/ step \notin NoCert \cup {"failed"}
               \/ config.clientCA => config.serverCerts = "good"
        PROVE  AuthInv'
    <2>1. /\ pc[Client] = step /\ pc'[Client] = next /\ pc'[Server] = pc[Server]
          /\ transcript'[Server] = transcript[Server] /\ config' = config
      BY <1>1, RecvEffect
    <2> QED
      BY <1>1, <2>1, ClientAuth
  <1>2. CASE RecvServerHello
    BY <1>1, <1>2 DEF RecvServerHello, NoCert
  <1>3. CASE RecvServerCertificate
    BY <1>1, <1>3 DEF RecvServerCertificate, ServerCertOK
  <1>4. CASE RecvServerKeyExchange
    BY <1>1, <1>4 DEF RecvServerKeyExchange, NoCert
  <1>5. CASE RecvCertificateRequest
    BY <1>1, <1>5 DEF RecvCertificateRequest, NoCert
  <1>6. CASE RecvServerHelloDone \/ RecvServerHelloDoneNoRequest
    BY <1>1, <1>6 DEF RecvServerHelloDone, RecvServerHelloDoneNoRequest, NoCert
  <1>7. CASE RecvServerChangeCipherSpec
    <2>1. pc[Client] = "recv_server_ccs" /\ pc'[Server] = pc[Server]
      BY <1>7, TakeEffect DEF RecvServerChangeCipherSpec, At
    <2> QED
      BY <1>7, <2>1, ClientAuth DEF RecvServerChangeCipherSpec, NoCert
  <1>8. CASE RecvServerFinished
    <2>1. pc[Client] = "recv_server_finished" /\ pc'[Server] = pc[Server]
      BY <1>8, TakeEffect DEF RecvServerFinished, At
    <2> QED
      BY <1>8, <2>1, ClientAuth DEF RecvServerFinished, NoCert
  <1> QED
    BY <1>2, <1>3, <1>4, <1>5, <1>6, <1>7, <1>8 DEF ClientRecv

LEMMA ServerSendAuth == ASSUME TypeOK, AuthInv, ServerSend PROVE AuthInv'
  <1> USE PeerOf
  <1>1. ASSUME NEW step, NEW m, NEW next, Send(Server, step, m, next),
               next \notin HasSignature, next # "recv_cert_verify",
               next \in HasCert => ~client_verify
        PROVE  AuthInv'
    <2>1. /\ pc'[Server] = next /\ pc'[Client] = pc[Client] /\ config' = config
      BY <1>1, SendEffect
    <2> QED
      BY <1>1, <2>1, ServerAuth
  <1>2. CASE SendServerHello
    BY <1>1, <1>2 DEF SendServerHello, HasCert, HasSignature, Committed
  <1>3. CASE SendServerCertificate
    BY <1>1, <1>3 DEF SendServerCertificate, HasCert, HasSignature, Committed
  <1>4. CASE SendServerKeyExchange
    BY <1>1, <1>4 DEF SendServerKeyExchange, HasCert, HasSignature, Committed
  <1>5. CASE SendCertificateRequest
    BY <1>1, <1>5 DEF SendCertificateRequest, HasCert, HasSignature, Committed
  <1>6. CASE SendServerHelloDone
    BY <1>1, <1>6 DEF SendServerHelloDone, HasCert, HasSignature, Committed
  <1>7. CASE SendServerChangeCipherSpec
    <2>1. /\ pc[Server] = "send_server_ccs" /\ pc'[Server] = "send_server_finished"
          /\ pc'[Client] = pc[Client] /\ UNCHANGED <<config, transcript>>
      BY <1>7, EmitEffect DEF SendServerChangeCipherSpec, At
    <2> QED
      BY <2>1, ServerAuth DEF AuthInv, HasCert, HasSignature, Committed
  <1>8. CASE SendServerFinished
    <2>1. /\ pc[Server] = "send_server_finished" /\ pc'[Server] = "established"
          /\ pc'[Client] = pc[Client] /\ UNCHANGED <<config, transcript>>
      BY <1>8, EmitEffect DEF SendServerFinished, At
    <2> QED
      BY <2>1, ServerAuth DEF AuthInv, HasCert, HasSignature, Committed
  <1> QED
    BY <1>2, <1>3, <1>4, <1>5, <1>6, <1>7, <1>8 DEF ServerSend

LEMMA ServerRecvAuth == ASSUME TypeOK, AuthInv, ServerRecv PROVE AuthInv'
  <1> USE PeerOf
  <1>0. transcript[Server] \in Seq(Elems(transcript[Server]))
    BY DEF TypeOK, RecordSeqs
  <1>1. CASE RecvClientHello
    <2>1. pc'[Server] = "send_server_hello" /\ pc'[Client] = pc[Client] /\ config' = config
      BY <1>1, RecvEffect DEF RecvClientHello
    <2> QED
      BY <2>1, ServerAuth DEF HasCert, HasSignature, Committed
  <1>2. CASE RecvClientCertificate
    <2>1. /\ pc'[Server] = "recv_client_key_exchange" /\ pc'[Client] = pc[Client]
          /\ config' = config
      BY <1>2, RecvEffect DEF RecvClientCertificate
    <2>2. config.clientCert = "good"
      BY <1>2 DEF RecvClientCertificate, ClientCertOK
    <2> QED
      BY <2>1, <2>2, ServerAuth DEF HasSignature, Committed
  <1>3. CASE RecvClientKeyExchange
    <2>1. /\ pc[Server] = "recv_client_key_exchange" /\ pc'[Client] = pc[Client]
          /\ pc'[Server] = IF client_verify THEN "recv_cert_verify" ELSE "recv_client_ccs"
          /\ config' = config
      BY <1>3, RecvEffect DEF RecvClientKeyExchange
    <2> QED
      BY <2>1, ServerAuth DEF HasCert, HasSignature, Committed
  <1>4. CASE RecvCertificateVerify
    <2>1. /\ pc[Server] = "recv_cert_verify" /\ pc'[Server] = "recv_client_ccs"
          /\ pc'[Client] = pc[Client] /\ config' = config
          /\ transcript'[Server] = Append(transcript[Server], First(Server))
      BY <1>4, RecvEffect DEF RecvCertificateVerify
    <2>2. /\ First(Server).type = "certificate_verify"
          /\ First(Server).over = transcript[Server]
      BY <1>4 DEF RecvCertificateVerify, CertVerifyOK, Intact
    <2>3. SignedIn(transcript'[Server])
      BY <1>0, <2>1, <2>2, AppendSigned
    <2> QED
      BY <2>1, <2>3, ServerAuth DEF HasCert
  <1>5. CASE RecvClientChangeCipherSpec
    <2>1. /\ pc[Server] = "recv_client_ccs" /\ pc'[Server] = "recv_client_finished"
          /\ pc'[Client] = pc[Client] /\ UNCHANGED <<config, transcript>>
      BY <1>5, TakeEffect DEF RecvClientChangeCipherSpec, At
    <2> QED
      BY <2>1, ServerAuth DEF AuthInv, HasCert, HasSignature
  <1>6. CASE RecvClientFinished
    <2>1. /\ pc[Server] = "recv_client_finished" /\ pc'[Server] = "send_server_ccs"
          /\ pc'[Client] = pc[Client] /\ config' = config
          /\ transcript'[Server] = Append(transcript[Server], First(Server))
      BY <1>6, RecvEffect DEF RecvClientFinished
    <2>2. client_verify => SignedIn(transcript'[Server])
      BY <1>0, <2>1, AppendSigned DEF AuthInv, HasSignature
    <2> QED
      BY <2>1, <2>2, ServerAuth DEF HasCert
  <1> QED
    BY <1>1, <1>2, <1>3, <1>4, <1>5, <1>6 DEF ServerRecv

LEMMA QuietAuth == ASSUME TypeOK, AuthInv, Quiet PROVE AuthInv'
  <1>1. /\ pc'[Client] = pc[Client] \/ pc'[Client] = "failed"
        /\ pc'[Server] = pc[Server] \/ pc'[Server] = "failed"
        /\ UNCHANGED <<config, transcript>>
    BY QuietEffect, PeerOf
  <1> QED
    BY <1>1 DEF AuthInv, client_verify, HasCert, HasSignature, Committed

\* A TLCP server with CA certificates completes only with a client whose
\* certificate they verify and that signed the exchange so far; a client with
\* CA certificates only with a server whose chain they verify.
THEOREM AuthenticatedCorrect == Spec => []Authenticated
  <1>1. Init => AuthInv
    <2> SUFFICES ASSUME Init PROVE AuthInv
      OBVIOUS
    <2>1. pc[Client] = "send_client_hello" /\ pc[Server] = "recv_client_hello"
      BY PeerOf, SidesAssumption DEF Init
    <2> QED
      BY <2>1 DEF AuthInv, NoCert, HasCert, HasSignature, Committed
  <1>2. TypeOK /\ AuthInv /\ [Next]_vars => AuthInv'
    BY NextCases, ClientSendAuth, ClientRecvAuth, ServerSendAuth, ServerRecvAuth, QuietAuth
  <1>3. AgreeInv /\ AuthInv => Authenticated
    <2> SUFFICES ASSUME AgreeInv, AuthInv PROVE Authenticated
      OBVIOUS
    <2>1. Established(Server) => transcript[Server] = transcript[Client]
      BY DEF AgreeInv, CommitInv, View, Established
    <2> QED
      BY <2>1 DEF AuthInv, Authenticated, SignedIn, Established, HasCert, HasSignature,
         Committed, NoCert
  <1> QED
    BY <1>1, <1>2, <1>3, TypeCorrect, AgreeCorrect, PTL DEF Spec

-----------------------------------------------------------------------------
(* The undisturbed handshake.  While no record has been disturbed and      *)
(* neither side has failed, the two sides follow one script: what each has *)
(* sent, what is in flight and what each has hashed is fixed by its step.  *)

Calm == faults = 0 /\ pc[Client] # "failed" /\ pc[Server] # "failed"

Randoms == <<"cr", "sr">>
Master == <<"pms", "cr", "sr">>

\* The messages of the script, and the transcript as it grows by them; v says
\* whether the server verifies its client.
ServerKeyExchange == Message("server_key_exchange", Randoms, <<>>, <<>>, 0)
Log1 == Append(<<>>, Plain("client_hello"))
Log2 == Append(Log1, Plain("server_hello"))
Log3 == Append(Log2, Plain("certificate"))
Log4 == Append(Log3, ServerKeyExchange)
Log5(v) == IF v THEN Append(Log4, Plain("certificate_request")) ELSE Log4
Log6(v) == Append(Log5(v), Plain("server_hello_done"))
Log7(v) == IF v THEN Append(Log6(v), Plain("certificate")) ELSE Log6(v)
Log8(v) == Append(Log7(v), Plain("client_key_exchange"))
CertificateVerify(v) == Message("certificate_verify", <<>>, Log8(v), <<>>, 0)
Log9(v) == IF v THEN Append(Log8(v), CertificateVerify(v)) ELSE Log8(v)
ClientFinished(v) == Message("client_finished", <<>>, Log9(v), Master, 0)
Log10(v) == Append(Log9(v), ClientFinished(v))
ServerFinished(v) == Message("server_finished", <<>>, Log10(v), Master, 0)

\* What a side has hashed when it is at a step.
Hashed(v, step) ==
    CASE step \in {"send_client_hello", "recv_client_hello"} -> <<>>
      [] step \in {"recv_server_hello", "send_server_hello"} -> Log1
      [] step \in {"recv_server_cert", "send_server_cert"} -> Log2
      [] step \in {"recv_server_key_exchange", "send_server_key_exchange"} -> Log3
      [] step \in {"recv_cert_request_or_done", "send_cert_request"} -> Log4
      [] step \in {"recv_server_hello_done", "send_server_hello_done"} -> Log5(v)
      [] step \in {"send_client_cert", "recv_client_cert"} -> Log6(v)
      [] step \in {"send_client_key_exchange", "recv_client_key_exchange"} -> Log7(v)
      [] step \in {"send_cert_verify", "recv_cert_verify"} -> Log8(v)
      [] step \in {"send_client_ccs", "recv_client_ccs", "send_client_finished",
                   "recv_client_finished"} -> Log9(v)
      [] OTHER -> Log10(v)

\* The records of each side in the order it sends them.
ClientFlow(v) ==
    IF v
    THEN <<Plain("client_hello"), Plain("certificate"), Plain("client_key_exchange"),
           CertificateVerify(v), Plain("change_cipher_spec"), ClientFinished(v)>>
    ELSE <<Plain("client_hello"), Plain("client_key_exchange"),
           Plain("change_cipher_spec"), ClientFinished(v)>>
ServerFlow(v) ==
    IF v
    THEN <<Plain("server_hello"), Plain("certificate"), ServerKeyExchange,
           Plain("certificate_request"), Plain("server_hello_done"),
           Plain("change_cipher_spec"), ServerFinished(v)>>
    ELSE <<Plain("server_hello"), Plain("certificate"), ServerKeyExchange,
           Plain("server_hello_done"), Plain("change_cipher_spec"), ServerFinished(v)>>

\* How many of them it has sent when it is at a step; how many of the peer's
\* it has read.
ClientSent(v, step) ==
    CASE step = "send_client_hello" -> 0
      [] step \in {"recv_server_hello", "recv_server_cert", "recv_server_key_exchange",
                   "recv_cert_request_or_done", "recv_server_hello_done",
                   "send_client_cert"} -> 1
      [] step = "send_client_key_exchange" -> IF v THEN 2 ELSE 1
      [] step = "send_cert_verify" -> 3
      [] step = "send_client_ccs" -> IF v THEN 4 ELSE 2
      [] step = "send_client_finished" -> IF v THEN 5 ELSE 3
      [] OTHER -> IF v THEN 6 ELSE 4
ServerRead(v, step) ==
    CASE step = "recv_client_hello" -> 0
      [] step \in {"send_server_hello", "send_server_cert", "send_server_key_exchange",
                   "send_cert_request", "send_server_hello_done",
                   "recv_client_cert"} -> 1
      [] step = "recv_client_key_exchange" -> IF v THEN 2 ELSE 1
      [] step = "recv_cert_verify" -> 3
      [] step = "recv_client_ccs" -> IF v THEN 4 ELSE 2
      [] step = "recv_client_finished" -> IF v THEN 5 ELSE 3
      [] OTHER -> IF v THEN 6 ELSE 4
ServerSent(v, step) ==
    CASE step \in {"recv_client_hello", "send_server_hello"} -> 0
      [] step = "send_server_cert" -> 1
      [] step = "send_server_key_exchange" -> 2
      [] step = "send_cert_request" -> 3
      [] step = "send_server_hello_done" -> IF v THEN 4 ELSE 3
      [] step = "send_server_finished" -> IF v THEN 6 ELSE 5
      [] step = "established" -> IF v THEN 7 ELSE 6
      [] OTHER -> IF v THEN 5 ELSE 4
ClientRead(v, step) ==
    CASE step \in {"send_client_hello", "recv_server_hello"} -> 0
      [] step = "recv_server_cert" -> 1
      [] step = "recv_server_key_exchange" -> 2
      [] step = "recv_cert_request_or_done" -> 3
      [] step = "recv_server_hello_done" -> 4
      [] step = "recv_server_finished" -> IF v THEN 6 ELSE 5
      [] step = "established" -> IF v THEN 7 ELSE 6
      [] OTHER -> IF v THEN 5 ELSE 4

\* The queue q holds the records of flow after the first read, up to sent.
InFlight(q, flow, read, sent) ==
    /\ Len(q) + read = sent
    /\ \A i \in 1 .. Len(q) : q[i] = flow[read + i]

\* The steps at which the client still has its certificates for a request, at
\* which a side takes part in the authentication of the client, and at which
\* it has the secret.
Asking == Unverified \cup {"recv_cert_request_or_done"}
Verifying == {"recv_server_hello_done", "send_client_cert", "send_cert_verify",
              "send_cert_request", "recv_client_cert", "recv_cert_verify"}
Keyed == {"send_cert_verify", "send_client_ccs", "send_client_finished",
          "recv_server_ccs", "recv_server_finished", "established",
          "recv_client_ccs", "recv_client_finished", "send_server_ccs",
          "send_server_finished"}

ClientScript ==
    /\ transcript[Client] = Hashed(client_verify, pc[Client])
    /\ pc[Client] # "send_client_hello" => random[Client][1] = "cr"
    /\ pc[Client] \notin {"send_client_hello", "recv_server_hello"} =>
        random[Client] = Randoms
    /\ pc[Client] \notin NoCert => certsOf[Client] = "sent"
    /\ clientCerts = IF pc[Client] \in Asking THEN config.clientCert # "none"
                                              ELSE client_verify
    /\ pc[Client] \in Verifying => client_verify
    /\ pc[Client] \in Keyed => secret[Client] = Master

ServerScript ==
    /\ transcript[Server] = Hashed(client_verify, pc[Server])
    /\ pc[Server] # "recv_client_hello" => random[Server][1] = "cr"
    /\ pc[Server] \notin Greeting => random[Server] = Randoms
    /\ pc[Server] \in Verifying => client_verify
    /\ pc[Server] \in Keyed => secret[Server] = Master

FlightInv ==
    /\ InFlight(wire[Client], ClientFlow(client_verify),
                ServerRead(client_verify, pc[Server]), ClientSent(client_verify, pc[Client]))
    /\ InFlight(wire[Server], ServerFlow(client_verify),
                ClientRead(client_verify, pc[Client]), ServerSent(client_verify, pc[Server]))

ScriptInv == Calm => ClientScript /\ ServerScript /\ FlightInv

\* A side counts its records in each direction, the Finished ones only.
NumberInv ==
    /\ pc[Client] # "failed" =>
        /\ clientSeq[Client] = IF pc[Client] \in Sent THEN 1 ELSE 0
        /\ serverSeq[Client] = IF pc[Client] = "established" THEN 1 ELSE 0
    /\ pc[Server] # "failed" =>
        /\ clientSeq[Server] = IF pc[Server] \in Committed THEN 1 ELSE 0
        /\ serverSeq[Server] = IF pc[Server] = "established" THEN 1 ELSE 0

LEMMA AppendFlight ==
  ASSUME NEW q, q \in Seq(Elems(q)), NEW flow, NEW read \in Nat, NEW sent \in Nat,
         InFlight(q, flow, read, sent)
  PROVE  InFlight(Append(q, flow[sent + 1]), flow, read, sent + 1)
  <1>0. PICK m : m = flow[sent + 1]
    OBVIOUS
  <1> DEFINE r == Append(q, m)
  <1>1. /\ Len(q) \in Nat /\ Len(r) = Len(q) + 1
        /\ \A i \in 1 .. Len(q) : r[i] = q[i]
        /\ r[Len(q) + 1] = m
    OBVIOUS
  <1> HIDE DEF r
  <1>2. Len(q) + read = sent
    BY DEF InFlight
  <1>3. Len(r) + read = sent + 1
    BY <1>1, <1>2
  <1>4. ASSUME NEW i \in 1 .. Len(r) PROVE r[i] = flow[read + i]
    <2>1. CASE i \in 1 .. Len(q)
      BY <1>1, <2>1 DEF InFlight
    <2>2. CASE i = Len(q) + 1
      <3>1. read + i = sent + 1
        BY <1>1, <1>2, <2>2
      <3> QED
        BY <1>0, <1>1, <2>2, <3>1
    <2> QED
      BY <1>1, <2>1, <2>2
  <1>5. InFlight(r, flow, read, sent + 1)
    BY <1>3, <1>4 DEF InFlight
  <1> QED
    BY <1>0, <1>5 DEF r

LEMMA TailFlight ==
  ASSUME NEW q, q \in Seq(Elems(q)), q # <<>>, NEW flow, NEW read \in Nat,
         NEW sent \in Nat, InFlight(q, flow, read, sent)
  PROVE  /\ Head(q) = flow[read + 1] /\ read < sent
         /\ InFlight(Tail(q), flow, read + 1, sent)
  <1>0. PICK r : r = Tail(q)
    OBVIOUS
  <1>1. /\ Len(q) \in Nat /\ Len(q) > 0 /\ Len(r) = Len(q) - 1
        /\ \A i \in 1 .. Len(q) - 1 : r[i] = q[i + 1]
        /\ Head(q) = q[1]
    BY <1>0
  <1>2. Len(q) + read = sent /\ \A i \in 1 .. Len(q) : q[i] = flow[read + i]
    BY DEF InFlight
  <1>3. Len(r) + (read + 1) = sent /\ read < sent
    <2>1. Len(q) \in Nat /\ Len(q) > 0 /\ Len(r) = Len(q) - 1 /\ Len(q) + read = sent
      BY <1>1, <1>2, Zenon
    <2> QED
      BY <2>1
  <1>4. ASSUME NEW i \in 1 .. Len(r) PROVE r[i] = flow[(read + 1) + i]
    <2>1. r[i] = q[i + 1] /\ i + 1 \in 1 .. Len(q)
      BY <1>1
    <2>2. q[i + 1] = flow[read + (i + 1)] /\ read + (i + 1) = (read + 1) + i
      BY <1>1, <1>2, <2>1
    <2> QED
      BY <2>1, <2>2
  <1>5. InFlight(r, flow, read + 1, sent)
    BY <1>3, <1>4 DEF InFlight
  <1>6. Head(q) = flow[read + 1]
    BY <1>1, <1>2
  <1> QED
    BY <1>0, <1>3, <1>5, <1>6

LEMMA CountTypes ==
  \A v \in BOOLEAN : \A step :
    /\ ClientSent(v, step) \in Nat /\ ServerRead(v, step) \in Nat
    /\ ServerSent(v, step) \in Nat /\ ClientRead(v, step) \in Nat
  BY DEF ClientSent, ServerRead, ServerSent, ClientRead

LEMMA VerifyType == client_verify \in BOOLEAN /\ (config' = config => client_verify' = client_verify)
  BY DEF client_verify

\* The client or the server sends, or reads, the next record of its script.
LEMMA ClientEmits ==
  ASSUME TypeOK, FlightInv, NEW m, Emit(Client, m), pc'[Server] = pc[Server],
         config' = config, NEW v \in BOOLEAN, v = client_verify,
         m = ClientFlow(v)[ClientSent(v, pc[Client]) + 1],
         ClientSent(v, pc'[Client]) = ClientSent(v, pc[Client]) + 1,
         ClientRead(v, pc'[Client]) = ClientRead(v, pc[Client])
  PROVE  FlightInv'
  <1>1. wire'[Client] = Append(wire[Client], m) /\ wire'[Server] = wire[Server]
    BY PeerOf, SidesAssumption DEF TypeOK, RecordSeqs, Emit
  <1>2. wire[Client] \in Seq(Elems(wire[Client]))
    BY PeerOf DEF TypeOK, RecordSeqs
  <1>3. InFlight(wire'[Client], ClientFlow(v), ServerRead(v, pc[Server]),
                 ClientSent(v, pc[Client]) + 1)
    <2>1. InFlight(wire[Client], ClientFlow(v), ServerRead(v, pc[Server]), ClientSent(v, pc[Client]))
      BY DEF FlightInv
    <2>2. ServerRead(v, pc[Server]) \in Nat /\ ClientSent(v, pc[Client]) \in Nat
      BY CountTypes
    <2> QED
      BY <1>1, <1>2, <2>1, <2>2, AppendFlight
  <1>4. client_verify' = v
    BY VerifyType
  <1> QED
    BY <1>1, <1>3, <1>4 DEF FlightInv

LEMMA ServerEmits ==
  ASSUME TypeOK, FlightInv, NEW m, Emit(Server, m), pc'[Client] = pc[Client],
         config' = config, NEW v \in BOOLEAN, v = client_verify,
         m = ServerFlow(v)[ServerSent(v, pc[Server]) + 1],
         ServerSent(v, pc'[Server]) = ServerSent(v, pc[Server]) + 1,
         ServerRead(v, pc'[Server]) = ServerRead(v, pc[Server])
  PROVE  FlightInv'
  <1>1. wire'[Server] = Append(wire[Server], m) /\ wire'[Client] = wire[Client]
    BY PeerOf, SidesAssumption DEF TypeOK, RecordSeqs, Emit
  <1>2. wire[Server] \in Seq(Elems(wire[Server]))
    BY PeerOf DEF TypeOK, RecordSeqs
  <1>3. InFlight(wire'[Server], ServerFlow(v), ClientRead(v, pc[Client]),
                 ServerSent(v, pc[Server]) + 1)
    <2>1. InFlight(wire[Server], ServerFlow(v), ClientRead(v, pc[Client]), ServerSent(v, pc[Server]))
      BY DEF FlightInv
    <2>2. ClientRead(v, pc[Client]) \in Nat /\ ServerSent(v, pc[Server]) \in Nat
      BY CountTypes
    <2> QED
      BY <1>1, <1>2, <2>1, <2>2, AppendFlight
  <1>4. client_verify' = v
    BY VerifyType
  <1> QED
    BY <1>1, <1>3, <1>4 DEF FlightInv

LEMMA ClientFirst ==
  ASSUME TypeOK, FlightInv, Incoming(Client), NEW v \in BOOLEAN, v = client_verify
  PROVE  First(Client) = ServerFlow(v)[ClientRead(v, pc[Client]) + 1]
  <1>1. InFlight(wire[Server], ServerFlow(v), ClientRead(v, pc[Client]), ServerSent(v, pc[Server]))
    BY DEF FlightInv
  <1>2. ClientRead(v, pc[Client]) \in Nat /\ ServerSent(v, pc[Server]) \in Nat
    BY CountTypes
  <1>3. /\ wire[Server] \in Seq(Elems(wire[Server])) /\ wire[Server] # <<>>
        /\ First(Client) = Head(wire[Server])
    BY PeerOf DEF First, Incoming, TypeOK, RecordSeqs
  <1> QED
    BY <1>1, <1>2, <1>3, TailFlight

LEMMA ServerFirst ==
  ASSUME TypeOK, FlightInv, Incoming(Server), NEW v \in BOOLEAN, v = client_verify
  PROVE  First(Server) = ClientFlow(v)[ServerRead(v, pc[Server]) + 1]
  <1>1. InFlight(wire[Client], ClientFlow(v), ServerRead(v, pc[Server]), ClientSent(v, pc[Client]))
    BY DEF FlightInv
  <1>2. ServerRead(v, pc[Server]) \in Nat /\ ClientSent(v, pc[Client]) \in Nat
    BY CountTypes
  <1>3. /\ wire[Client] \in Seq(Elems(wire[Client])) /\ wire[Client] # <<>>
        /\ First(Server) = Head(wire[Client])
    BY PeerOf DEF First, Incoming, TypeOK, RecordSeqs
  <1> QED
    BY <1>1, <1>2, <1>3, TailFlight

LEMMA ClientTakes ==
  ASSUME TypeOK, FlightInv, Incoming(Client), Take(Client), pc'[Server] = pc[Server],
         config' = config, NEW v \in BOOLEAN, v = client_verify,
         ClientSent(v, pc'[Client]) = ClientSent(v, pc[Client]),
         ClientRead(v, pc'[Client]) = ClientRead(v, pc[Client]) + 1
  PROVE  FlightInv'
  <1>1. wire'[Server] = Tail(wire[Server]) /\ wire'[Client] = wire[Client]
    BY PeerOf, SidesAssumption DEF TypeOK, RecordSeqs, Take
  <1>2. wire[Server] \in Seq(Elems(wire[Server])) /\ wire[Server] # <<>>
    BY PeerOf DEF TypeOK, RecordSeqs, Incoming
  <1>3. InFlight(wire'[Server], ServerFlow(v), ClientRead(v, pc[Client]) + 1,
                 ServerSent(v, pc[Server]))
    <2>1. InFlight(wire[Server], ServerFlow(v), ClientRead(v, pc[Client]), ServerSent(v, pc[Server]))
      BY DEF FlightInv
    <2>2. ClientRead(v, pc[Client]) \in Nat /\ ServerSent(v, pc[Server]) \in Nat
      BY CountTypes
    <2> QED
      BY <1>1, <1>2, <2>1, <2>2, TailFlight
  <1>4. client_verify' = v
    BY VerifyType
  <1> QED
    BY <1>1, <1>3, <1>4 DEF FlightInv

LEMMA ServerTakes ==
  ASSUME TypeOK, FlightInv, Incoming(Server), Take(Server), pc'[Client] = pc[Client],
         config' = config, NEW v \in BOOLEAN, v = client_verify,
         ServerSent(v, pc'[Server]) = ServerSent(v, pc[Server]),
         ServerRead(v, pc'[Server]) = ServerRead(v, pc[Server]) + 1
  PROVE  FlightInv'
  <1>1. wire'[Client] = Tail(wire[Client]) /\ wire'[Server] = wire[Server]
    BY PeerOf, SidesAssumption DEF TypeOK, RecordSeqs, Take
  <1>2. wire[Client] \in Seq(Elems(wire[Client])) /\ wire[Client] # <<>>
    BY PeerOf DEF TypeOK, RecordSeqs, Incoming
  <1>3. InFlight(wire'[Client], ClientFlow(v), ServerRead(v, pc[Server]) + 1,
                 ClientSent(v, pc[Client]))
    <2>1. InFlight(wire[Client], ClientFlow(v), ServerRead(v, pc[Server]), ClientSent(v, pc[Client]))
      BY DEF FlightInv
    <2>2. ServerRead(v, pc[Server]) \in Nat /\ ClientSent(v, pc[Client]) \in Nat
      BY CountTypes
    <2> QED
      BY <1>1, <1>2, <2>1, <2>2, TailFlight
  <1>4. client_verify' = v
    BY VerifyType
  <1> QED
    BY <1>1, <1>3, <1>4 DEF FlightInv

LEMMA ClientScriptSame ==
  ASSUME ClientScript, UNCHANGED <<config, clientCerts>>, pc'[Client] = pc[Client],
         transcript'[Client] = transcript[Client], random'[Client] = random[Client],
         certsOf'[Client] = certsOf[Client], secret'[Client] = secret[Client]
  PROVE  ClientScript'
  BY VerifyType DEF ClientScript

LEMMA ServerScriptSame ==
  ASSUME ServerScript, UNCHANGED config, pc'[Server] = pc[Server],
         transcript'[Server] = transcript[Server], random'[Server] = random[Server],
         secret'[Server] = secret[Server]
  PROVE  ServerScript'
  BY VerifyType DEF ServerScript

\* The client's part of the script where only a client that is verified goes.
LEMMA CertificateTable == ASSUME NEW v, v
  PROVE  /\ Plain("certificate") = ClientFlow(v)[ClientSent(v, "send_client_cert") + 1]
         /\ ClientSent(v, "send_client_key_exchange") = ClientSent(v, "send_client_cert") + 1
         /\ ClientRead(v, "send_client_key_exchange") = ClientRead(v, "send_client_cert")
         /\ Hashed(v, "send_client_key_exchange")
                = Append(Hashed(v, "send_client_cert"), Plain("certificate"))
  <1>1. Plain("certificate") = ClientFlow(v)[ClientSent(v, "send_client_cert") + 1]
    BY DEF ClientFlow, ClientSent
  <1>2. ClientSent(v, "send_client_key_exchange") = ClientSent(v, "send_client_cert") + 1
    BY DEF ClientSent
  <1>3. ClientRead(v, "send_client_key_exchange") = ClientRead(v, "send_client_cert")
    BY DEF ClientRead
  <1>4. Hashed(v, "send_client_key_exchange")
                = Append(Hashed(v, "send_client_cert"), Plain("certificate"))
    BY DEF Hashed, Log7
  <1> QED
    BY <1>1, <1>2, <1>3, <1>4

LEMMA VerifyTable == ASSUME NEW v, v
  PROVE  /\ CertificateVerify(v) = ClientFlow(v)[ClientSent(v, "send_cert_verify") + 1]
         /\ ClientSent(v, "send_client_ccs") = ClientSent(v, "send_cert_verify") + 1
         /\ ClientRead(v, "send_client_ccs") = ClientRead(v, "send_cert_verify")
         /\ Hashed(v, "send_client_ccs")
                = Append(Hashed(v, "send_cert_verify"), CertificateVerify(v))
  <1>1. CertificateVerify(v) = ClientFlow(v)[ClientSent(v, "send_cert_verify") + 1]
    <2>1. \A m : m = CertificateVerify(v) => ClientFlow(v)[4] = m
      BY DEF ClientFlow
    <2>2. ClientSent(v, "send_cert_verify") + 1 = 4
      BY DEF ClientSent
    <2> QED
      BY <2>1, <2>2, Zenon
  <1>2. ClientSent(v, "send_client_ccs") = ClientSent(v, "send_cert_verify") + 1
    BY DEF ClientSent
  <1>3. ClientRead(v, "send_client_ccs") = ClientRead(v, "send_cert_verify")
    BY DEF ClientRead
  <1>4. Hashed(v, "send_client_ccs")
                = Append(Hashed(v, "send_cert_verify"), CertificateVerify(v))
    BY DEF Hashed, Log9
  <1> QED
    BY <1>1, <1>2, <1>3, <1>4

LEMMA HelloDoneTable == ASSUME NEW v, v
  PROVE  /\ ClientSent(v, "send_client_cert") = ClientSent(v, "recv_server_hello_done")
         /\ ClientRead(v, "send_client_cert") = ClientRead(v, "recv_server_hello_done") + 1
         /\ ServerFlow(v)[ClientRead(v, "recv_server_hello_done") + 1]
                = Plain("server_hello_done")
         /\ Append(Hashed(v, "recv_server_hello_done"), Plain("server_hello_done"))
                = Hashed(v, "send_client_cert")
  <1>1. ClientSent(v, "send_client_cert") = ClientSent(v, "recv_server_hello_done")
    BY DEF ClientSent
  <1>2. ClientRead(v, "send_client_cert") = ClientRead(v, "recv_server_hello_done") + 1
    BY DEF ClientRead
  <1>3. ServerFlow(v)[ClientRead(v, "recv_server_hello_done") + 1]
                = Plain("server_hello_done")
    BY DEF ServerFlow, ClientRead
  <1>4. Append(Hashed(v, "recv_server_hello_done"), Plain("server_hello_done"))
                = Hashed(v, "send_client_cert")
    BY DEF Hashed, Log6
  <1> QED
    BY <1>1, <1>2, <1>3, <1>4

LEMMA ClientSendScript ==
  ASSUME TypeOK, NumberInv, ClientScript, ServerScript, FlightInv, ClientSend
  PROVE  ClientScript' /\ ServerScript' /\ FlightInv'
  <1> USE PeerOf
  <1>0. PICK v \in BOOLEAN : v = client_verify
    BY VerifyType
  <1>1. ASSUME NEW step, NEW m, NEW next, Send(Client, step, m, next),
               random'[Server] = random[Server], secret'[Server] = secret[Server],
               m = ClientFlow(v)[ClientSent(v, step) + 1],
               ClientSent(v, next) = ClientSent(v, step) + 1,
               ClientRead(v, next) = ClientRead(v, step),
               Hashed(v, next) = Append(Hashed(v, step), m)
        PROVE  /\ pc[Client] = step /\ pc'[Client] = next /\ config' = config
               /\ transcript'[Client] = Hashed(v, next)
               /\ client_verify' = v
               /\ ServerScript' /\ FlightInv'
    <2>1. /\ pc[Client] = step /\ pc'[Client] = next /\ pc'[Server] = pc[Server]
          /\ transcript'[Client] = Append(transcript[Client], m) /\ config' = config
          /\ transcript'[Server] = transcript[Server]
      BY <1>1, SendEffect
    <2>2. FlightInv'
      BY <1>0, <1>1, <2>1, ClientEmits DEF Send
    <2>3. ServerScript'
      BY <1>1, <2>1, ServerScriptSame
    <2> QED
      BY <1>0, <1>1, <2>1, <2>2, <2>3, VerifyType DEF ClientScript
  <1>2. CASE SendClientHello
    <2>1. /\ Plain("client_hello") = ClientFlow(v)[ClientSent(v, "send_client_hello") + 1]
          /\ ClientSent(v, "recv_server_hello") = ClientSent(v, "send_client_hello") + 1
          /\ ClientRead(v, "recv_server_hello") = ClientRead(v, "send_client_hello")
          /\ Hashed(v, "recv_server_hello")
                = Append(Hashed(v, "send_client_hello"), Plain("client_hello"))
      BY DEF ClientFlow, ClientSent, ClientRead, Hashed, Log1
    <2>2. /\ random'[Server] = random[Server] /\ random'[Client][1] = "cr"
          /\ UNCHANGED <<certsOf, clientCerts, secret>>
      BY <1>2, SidesAssumption DEF SendClientHello, TypeOK
    <2>3. /\ pc[Client] = "send_client_hello" /\ pc'[Client] = "recv_server_hello"
          /\ config' = config /\ transcript'[Client] = Hashed(v, "recv_server_hello")
          /\ client_verify' = v /\ ServerScript' /\ FlightInv'
      BY <1>1, <1>2, <2>1, <2>2 DEF SendClientHello
    <2>4. ClientScript'
      BY <2>2, <2>3 DEF ClientScript, Asking, Unverified, NoCert, Verifying, Keyed
    <2> QED
      BY <2>3, <2>4
  <1>3. CASE SendClientCertificate
    <2>1. v
      BY <1>0, <1>3 DEF SendClientCertificate, Send, At, ClientScript, Verifying
    <2>2. /\ Plain("certificate") = ClientFlow(v)[ClientSent(v, "send_client_cert") + 1]
          /\ ClientSent(v, "send_client_key_exchange") = ClientSent(v, "send_client_cert") + 1
          /\ ClientRead(v, "send_client_key_exchange") = ClientRead(v, "send_client_cert")
          /\ Hashed(v, "send_client_key_exchange")
                = Append(Hashed(v, "send_client_cert"), Plain("certificate"))
      BY <2>1, CertificateTable
    <2>3. UNCHANGED <<random, certsOf, clientCerts, secret>>
      BY <1>3 DEF SendClientCertificate, keys
    <2>4. /\ pc[Client] = "send_client_cert" /\ pc'[Client] = "send_client_key_exchange"
          /\ config' = config /\ transcript'[Client] = Hashed(v, "send_client_key_exchange")
          /\ client_verify' = v /\ ServerScript' /\ FlightInv'
      BY <1>1, <1>3, <2>2, <2>3 DEF SendClientCertificate
    <2>5. ClientScript'
      BY <1>0, <2>3, <2>4 DEF ClientScript, Asking, Unverified, NoCert, Verifying, Keyed
    <2> QED
      BY <2>4, <2>5
  <1>4. CASE SendClientKeyExchange
    <2>0. PICK next \in {"send_cert_verify", "send_client_ccs"} :
            next = IF v THEN "send_cert_verify" ELSE "send_client_ccs"
      OBVIOUS
    <2>1. Send(Client, "send_client_key_exchange", Plain("client_key_exchange"), next)
      BY <1>0, <1>4, <2>0
      DEF SendClientKeyExchange, Send, At, ClientScript, Asking, Unverified
    <2>2. /\ Plain("client_key_exchange")
                = ClientFlow(v)[ClientSent(v, "send_client_key_exchange") + 1]
          /\ ClientSent(v, next) = ClientSent(v, "send_client_key_exchange") + 1
          /\ ClientRead(v, next) = ClientRead(v, "send_client_key_exchange")
          /\ Hashed(v, next)
                = Append(Hashed(v, "send_client_key_exchange"), Plain("client_key_exchange"))
      BY <2>0 DEF ClientFlow, ClientSent, ClientRead, Hashed, Log8, Log9
    <2>3. UNCHANGED <<random, certsOf, clientCerts>> /\ secret'[Server] = secret[Server]
          /\ secret'[Client] = MasterSecret(Client)
      BY <1>4, SidesAssumption DEF SendClientKeyExchange, TypeOK
    <2>4. /\ pc[Client] = "send_client_key_exchange" /\ pc'[Client] = next
          /\ config' = config /\ transcript'[Client] = Hashed(v, next)
          /\ client_verify' = v /\ ServerScript' /\ FlightInv'
      BY <1>1, <2>1, <2>2, <2>3
    <2>5. secret'[Client] = Master
      BY <2>3, <2>4 DEF ClientScript, MasterSecret, Master, Randoms
    <2>6. ClientScript'
      BY <1>0, <2>0, <2>3, <2>4, <2>5
      DEF ClientScript, Asking, Unverified, NoCert, Verifying, Keyed
    <2> QED
      BY <2>4, <2>6
  <1>5. CASE SendCertificateVerify
    <2>0. PICK m : m = Message("certificate_verify", <<>>, transcript[Client], <<>>, 0)
      OBVIOUS
    <2>1. v /\ transcript[Client] = Log8(v)
      BY <1>0, <1>5 DEF SendCertificateVerify, Send, At, ClientScript, Verifying, Hashed
    <2>2. /\ m = ClientFlow(v)[ClientSent(v, "send_cert_verify") + 1]
          /\ ClientSent(v, "send_client_ccs") = ClientSent(v, "send_cert_verify") + 1
          /\ ClientRead(v, "send_client_ccs") = ClientRead(v, "send_cert_verify")
          /\ Hashed(v, "send_client_ccs") = Append(Hashed(v, "send_cert_verify"), m)
      <3>1. m = CertificateVerify(v)
        BY <2>0, <2>1 DEF CertificateVerify
      <3> QED
        BY <2>1, <3>1, VerifyTable
    <2>3. UNCHANGED <<random, certsOf, clientCerts, secret>>
      BY <1>5 DEF SendCertificateVerify, keys
    <2>4. /\ pc[Client] = "send_cert_verify" /\ pc'[Client] = "send_client_ccs"
          /\ config' = config /\ transcript'[Client] = Hashed(v, "send_client_ccs")
          /\ client_verify' = v /\ ServerScript' /\ FlightInv'
      BY <1>1, <1>5, <2>0, <2>2, <2>3 DEF SendCertificateVerify
    <2>5. ClientScript'
      BY <1>0, <2>3, <2>4 DEF ClientScript, Asking, Unverified, NoCert, Verifying, Keyed
    <2> QED
      BY <2>4, <2>5
  <1>6. CASE SendClientChangeCipherSpec
    <2>1. /\ pc[Client] = "send_client_ccs" /\ pc'[Client] = "send_client_finished"
          /\ pc'[Server] = pc[Server] /\ Emit(Client, Plain("change_cipher_spec"))
          /\ UNCHANGED <<config, transcript, random, certsOf, clientCerts, secret>>
      BY <1>6, EmitEffect DEF SendClientChangeCipherSpec, At, keys
    <2>2. /\ Plain("change_cipher_spec")
                = ClientFlow(v)[ClientSent(v, "send_client_ccs") + 1]
          /\ ClientSent(v, "send_client_finished") = ClientSent(v, "send_client_ccs") + 1
          /\ ClientRead(v, "send_client_finished") = ClientRead(v, "send_client_ccs")
          /\ Hashed(v, "send_client_finished") = Hashed(v, "send_client_ccs")
      BY DEF ClientFlow, ClientSent, ClientRead, Hashed
    <2>3. FlightInv'
      BY <1>0, <2>1, <2>2, ClientEmits
    <2>4. ServerScript'
      BY <2>1, ServerScriptSame
    <2>5. client_verify' = v
      BY <1>0, <2>1, VerifyType
    <2>6. ClientScript'
      BY <1>0, <2>1, <2>2, <2>5
      DEF ClientScript, Asking, Unverified, NoCert, Verifying, Keyed
    <2> QED
      BY <2>3, <2>4, <2>6
  <1>7. CASE SendClientFinished
    <2>0. PICK m : m = Finished(Client, "client_finished", clientSeq[Client])
      OBVIOUS
    <2>1. /\ transcript[Client] = Log9(v) /\ secret[Client] = Master
          /\ clientSeq[Client] = 0
      BY <1>0, <1>7
      DEF SendClientFinished, Send, At, ClientScript, NumberInv, Keyed, Sent, Hashed
    <2>2. m = ClientFinished(v)
      BY <2>0, <2>1 DEF Finished, ClientFinished
    <2>3. /\ m = ClientFlow(v)[ClientSent(v, "send_client_finished") + 1]
          /\ ClientSent(v, "recv_server_ccs") = ClientSent(v, "send_client_finished") + 1
          /\ ClientRead(v, "recv_server_ccs") = ClientRead(v, "send_client_finished")
          /\ Hashed(v, "recv_server_ccs") = Append(Hashed(v, "send_client_finished"), m)
      BY <2>2 DEF ClientFlow, ClientSent, ClientRead, Hashed, Log10
    <2>4. UNCHANGED <<random, certsOf, clientCerts, secret>>
      BY <1>7 DEF SendClientFinished, keys
    <2>5. /\ pc[Client] = "send_client_finished" /\ pc'[Client] = "recv_server_ccs"
          /\ config' = config /\ transcript'[Client] = Hashed(v, "recv_server_ccs")
          /\ client_verify' = v /\ ServerScript' /\ FlightInv'
      BY <1>1, <1>7, <2>0, <2>3, <2>4 DEF SendClientFinished
    <2>6. ClientScript'
      BY <1>0, <2>4, <2>5 DEF ClientScript, Asking, Unverified, NoCert, Verifying, Keyed
    <2> QED
      BY <2>5, <2>6
  <1> QED
    BY <1>2, <1>3, <1>4, <1>5, <1>6, <1>7 DEF ClientSend

LEMMA ClientRecvScript ==
  ASSUME TypeOK, ClientScript, ServerScript, FlightInv, ClientRecv
  PROVE  ClientScript' /\ ServerScript' /\ FlightInv'
  <1> USE PeerOf
  <1>0. PICK v \in BOOLEAN : v = client_verify
    BY VerifyType
  <1>1. ASSUME NEW step, NEW next, Recv(Client, step, next),
               random'[Server] = random[Server], secret' = secret,
               ClientSent(v, next) = ClientSent(v, step),
               ClientRead(v, next) = ClientRead(v, step) + 1
        PROVE  /\ pc[Client] = step /\ pc'[Client] = next /\ config' = config
               /\ transcript'[Client] = Append(Hashed(v, step), First(Client))
               /\ client_verify' = v
               /\ ServerScript' /\ FlightInv'
    <2>1. /\ pc[Client] = step /\ pc'[Client] = next /\ pc'[Server] = pc[Server]
          /\ transcript'[Client] = Append(transcript[Client], First(Client))
          /\ config' = config /\ transcript'[Server] = transcript[Server]
      BY <1>1, RecvEffect
    <2>2. FlightInv'
      BY <1>0, <1>1, <2>1, ClientTakes DEF Recv
    <2>3. ServerScript'
      BY <1>1, <2>1, ServerScriptSame
    <2> QED
      BY <1>0, <2>1, <2>2, <2>3, VerifyType DEF ClientScript
  <1>2. ASSUME NEW step, pc[Client] = step, Incoming(Client)
        PROVE  First(Client) = ServerFlow(v)[ClientRead(v, step) + 1]
    BY <1>0, <1>2, ClientFirst
  <1>3. CASE RecvServerHello
    <2>1. /\ ClientSent(v, "recv_server_cert") = ClientSent(v, "recv_server_hello")
          /\ ClientRead(v, "recv_server_cert") = ClientRead(v, "recv_server_hello") + 1
          /\ ServerFlow(v)[ClientRead(v, "recv_server_hello") + 1] = Plain("server_hello")
          /\ Append(Hashed(v, "recv_server_hello"), Plain("server_hello"))
                = Hashed(v, "recv_server_cert")
      BY DEF ClientSent, ClientRead, ServerFlow, Hashed, Log2
    <2>2. First(Client) = Plain("server_hello") /\ pc[Client] = "recv_server_hello"
      BY <1>2, <1>3, <2>1 DEF RecvServerHello, Recv, At
    <2>3. First(Client).val = "sent"
      BY <2>2 DEF Plain, Message
    <2>4. /\ random'[Server] = random[Server] /\ UNCHANGED <<certsOf, clientCerts, secret>>
          /\ random'[Client] = Randoms
      BY <1>3, <2>2, <2>3, SidesAssumption
      DEF RecvServerHello, TypeOK, RandomOf, Randoms, ClientScript
    <2>5. /\ pc'[Client] = "recv_server_cert" /\ config' = config
          /\ transcript'[Client] = Hashed(v, "recv_server_cert")
          /\ client_verify' = v /\ ServerScript' /\ FlightInv'
      BY <1>1, <1>3, <2>1, <2>2, <2>4 DEF RecvServerHello
    <2>6. ClientScript'
      BY <2>2, <2>4, <2>5
      DEF ClientScript, Asking, Unverified, NoCert, Verifying, Keyed, Randoms
    <2> QED
      BY <2>5, <2>6
  <1>4. CASE RecvServerCertificate
    <2>1. /\ ClientSent(v, "recv_server_key_exchange") = ClientSent(v, "recv_server_cert")
          /\ ClientRead(v, "recv_server_key_exchange") = ClientRead(v, "recv_server_cert") + 1
          /\ ServerFlow(v)[ClientRead(v, "recv_server_cert") + 1] = Plain("certificate")
          /\ Append(Hashed(v, "recv_server_cert"), Plain("certificate"))
                = Hashed(v, "recv_server_key_exchange")
      BY DEF ClientSent, ClientRead, ServerFlow, Hashed, Log3
    <2>2. First(Client) = Plain("certificate") /\ pc[Client] = "recv_server_cert"
      BY <1>2, <1>4, <2>1 DEF RecvServerCertificate, Recv, At
    <2>3. First(Client).val = "sent"
      BY <2>2 DEF Plain, Message
    <2>4. UNCHANGED <<random, clientCerts, secret>> /\ certsOf'[Client] = "sent"
      BY <1>4, <2>3 DEF RecvServerCertificate, TypeOK
    <2>5. /\ pc'[Client] = "recv_server_key_exchange" /\ config' = config
          /\ transcript'[Client] = Hashed(v, "recv_server_key_exchange")
          /\ client_verify' = v /\ ServerScript' /\ FlightInv'
      BY <1>1, <1>4, <2>1, <2>2, <2>4 DEF RecvServerCertificate
    <2>6. ClientScript'
      BY <2>2, <2>4, <2>5
      DEF ClientScript, Asking, Unverified, NoCert, Verifying, Keyed, Randoms
    <2> QED
      BY <2>5, <2>6
  <1>5. CASE RecvServerKeyExchange
    <2>1. /\ ClientSent(v, "recv_cert_request_or_done") = ClientSent(v, "recv_server_key_exchange")
          /\ ClientRead(v, "recv_cert_request_or_done")
                = ClientRead(v, "recv_server_key_exchange") + 1
          /\ ServerFlow(v)[ClientRead(v, "recv_server_key_exchange") + 1] = ServerKeyExchange
          /\ Append(Hashed(v, "recv_server_key_exchange"), ServerKeyExchange)
                = Hashed(v, "recv_cert_request_or_done")
      BY DEF ClientSent, ClientRead, ServerFlow, Hashed, Log4
    <2>2. First(Client) = ServerKeyExchange /\ pc[Client] = "recv_server_key_exchange"
      BY <1>2, <1>5, <2>1 DEF RecvServerKeyExchange, Recv, At
    <2>3. UNCHANGED <<random, certsOf, clientCerts, secret>>
      BY <1>5 DEF RecvServerKeyExchange, keys
    <2>4. /\ pc'[Client] = "recv_cert_request_or_done" /\ config' = config
          /\ transcript'[Client] = Hashed(v, "recv_cert_request_or_done")
          /\ client_verify' = v /\ ServerScript' /\ FlightInv'
      BY <1>1, <1>5, <2>1, <2>2, <2>3 DEF RecvServerKeyExchange
    <2>5. ClientScript'
      BY <2>2, <2>3, <2>4
      DEF ClientScript, Asking, Unverified, NoCert, Verifying, Keyed, Randoms
    <2> QED
      BY <2>4, <2>5
  <1>6. CASE RecvCertificateRequest
    <2>1. /\ pc[Client] = "recv_cert_request_or_done" /\ Incoming(Client)
          /\ First(Client).type = "certificate_request" /\ clientCerts
      BY <1>6 DEF RecvCertificateRequest, Recv, At, CertRequestOK, Parses
    <2>2. First(Client) = ServerFlow(v)[ClientRead(v, "recv_cert_request_or_done") + 1]
      BY <1>2, <2>1
    <2>3. v
      BY <2>1, <2>2 DEF ClientRead, ServerFlow, Plain, Message
    <2>4. /\ ClientSent(v, "recv_server_hello_done") = ClientSent(v, "recv_cert_request_or_done")
          /\ ClientRead(v, "recv_server_hello_done")
                = ClientRead(v, "recv_cert_request_or_done") + 1
          /\ First(Client) = Plain("certificate_request")
          /\ Append(Hashed(v, "recv_cert_request_or_done"), Plain("certificate_request"))
                = Hashed(v, "recv_server_hello_done")
      BY <2>2, <2>3 DEF ClientSent, ClientRead, ServerFlow, Hashed, Log5
    <2>5. UNCHANGED <<random, certsOf, clientCerts, secret>>
      BY <1>6 DEF RecvCertificateRequest, keys
    <2>6. /\ pc'[Client] = "recv_server_hello_done" /\ config' = config
          /\ transcript'[Client] = Hashed(v, "recv_server_hello_done")
          /\ client_verify' = v /\ ServerScript' /\ FlightInv'
      BY <1>1, <1>6, <2>4, <2>5 DEF RecvCertificateRequest
    <2>7. ClientScript'
      BY <2>1, <2>3, <2>5, <2>6
      DEF ClientScript, Asking, Unverified, NoCert, Verifying, Keyed, Randoms, TypeOK
    <2> QED
      BY <2>6, <2>7
  <1>7. CASE RecvServerHelloDone
    <2>1. /\ pc[Client] = "recv_server_hello_done" /\ Incoming(Client)
          /\ v /\ clientCerts
      BY <1>0, <1>7
      DEF RecvServerHelloDone, Recv, At, ClientScript, Verifying, Asking, Unverified
    <2>2. First(Client) = ServerFlow(v)[ClientRead(v, "recv_server_hello_done") + 1]
      BY <1>2, <2>1
    <2>3. /\ ClientSent(v, "send_client_cert") = ClientSent(v, "recv_server_hello_done")
          /\ ClientRead(v, "send_client_cert") = ClientRead(v, "recv_server_hello_done") + 1
          /\ First(Client) = Plain("server_hello_done")
          /\ Append(Hashed(v, "recv_server_hello_done"), Plain("server_hello_done"))
                = Hashed(v, "send_client_cert")
      BY <2>1, <2>2, HelloDoneTable
    <2>4. UNCHANGED <<random, certsOf, clientCerts, secret>>
      BY <1>7 DEF RecvServerHelloDone, keys
    <2>5. Recv(Client, "recv_server_hello_done", "send_client_cert")
      BY <1>7, <2>1 DEF RecvServerHelloDone, AfterHelloDone
    <2>6. /\ pc'[Client] = "send_client_cert" /\ config' = config
          /\ transcript'[Client] = Hashed(v, "send_client_cert")
          /\ client_verify' = v /\ ServerScript' /\ FlightInv'
      BY <1>1, <2>3, <2>4, <2>5
    <2>7. ClientScript'
      BY <1>0, <2>1, <2>4, <2>6
      DEF ClientScript, Asking, Unverified, NoCert, Verifying, Keyed, Randoms
    <2> QED
      BY <2>6, <2>7
  <1>8. CASE RecvServerHelloDoneNoRequest
    <2>1. /\ pc[Client] = "recv_cert_request_or_done" /\ Incoming(Client)
          /\ First(Client).type = "server_hello_done"
      BY <1>8 DEF RecvServerHelloDoneNoRequest, Recv, At, ServerHelloDoneOK, Intact
    <2>2. First(Client) = ServerFlow(v)[ClientRead(v, "recv_cert_request_or_done") + 1]
      BY <1>2, <2>1
    <2>3. ~v
      BY <2>1, <2>2 DEF ClientRead, ServerFlow, Plain, Message
    <2>4. /\ ClientSent(v, "send_client_key_exchange")
                = ClientSent(v, "recv_cert_request_or_done")
          /\ ClientRead(v, "send_client_key_exchange")
                = ClientRead(v, "recv_cert_request_or_done") + 1
          /\ First(Client) = Plain("server_hello_done")
          /\ Append(Hashed(v, "recv_cert_request_or_done"), Plain("server_hello_done"))
                = Hashed(v, "send_client_key_exchange")
      BY <2>2, <2>3 DEF ClientSent, ClientRead, ServerFlow, Hashed, Log5, Log6, Log7
    <2>5. UNCHANGED <<random, certsOf, secret>> /\ clientCerts' = FALSE
      BY <1>8 DEF RecvServerHelloDoneNoRequest
    <2>6. Recv(Client, "recv_cert_request_or_done", "send_client_key_exchange")
      BY <1>8 DEF RecvServerHelloDoneNoRequest, AfterHelloDone
    <2>7. /\ pc'[Client] = "send_client_key_exchange" /\ config' = config
          /\ transcript'[Client] = Hashed(v, "send_client_key_exchange")
          /\ client_verify' = v /\ ServerScript' /\ FlightInv'
      BY <1>1, <2>4, <2>5, <2>6
    <2>8. ClientScript'
      BY <2>1, <2>3, <2>5, <2>7
      DEF ClientScript, Asking, Unverified, NoCert, Verifying, Keyed, Randoms
    <2> QED
      BY <2>7, <2>8
  <1>9. CASE RecvServerChangeCipherSpec
    <2>1. /\ pc[Client] = "recv_server_ccs" /\ pc'[Client] = "recv_server_finished"
          /\ pc'[Server] = pc[Server] /\ Incoming(Client) /\ Take(Client)
          /\ UNCHANGED <<config, transcript, random, certsOf, clientCerts, secret>>
      BY <1>9, TakeEffect DEF RecvServerChangeCipherSpec, At, keys
    <2>2. /\ ClientSent(v, "recv_server_finished") = ClientSent(v, "recv_server_ccs")
          /\ ClientRead(v, "recv_server_finished") = ClientRead(v, "recv_server_ccs") + 1
          /\ Hashed(v, "recv_server_finished") = Hashed(v, "recv_server_ccs")
      BY DEF ClientSent, ClientRead, Hashed
    <2>3. FlightInv'
      BY <1>0, <2>1, <2>2, ClientTakes
    <2>4. ServerScript'
      BY <2>1, ServerScriptSame
    <2>5. client_verify' = v
      BY <1>0, <2>1, VerifyType
    <2>6. ClientScript'
      BY <1>0, <2>1, <2>2, <2>5
      DEF ClientScript, Asking, Unverified, NoCert, Verifying, Keyed
    <2> QED
      BY <2>3, <2>4, <2>6
  <1>10. CASE RecvServerFinished
    <2>1. /\ pc[Client] = "recv_server_finished" /\ pc'[Client] = "established"
          /\ pc'[Server] = pc[Server] /\ Incoming(Client) /\ Take(Client)
          /\ UNCHANGED <<config, transcript, random, certsOf, clientCerts, secret>>
      BY <1>10, TakeEffect DEF RecvServerFinished, At, keys
    <2>2. /\ ClientSent(v, "established") = ClientSent(v, "recv_server_finished")
          /\ ClientRead(v, "established") = ClientRead(v, "recv_server_finished") + 1
          /\ Hashed(v, "established") = Hashed(v, "recv_server_finished")
      BY DEF ClientSent, ClientRead, Hashed
    <2>3. FlightInv'
      BY <1>0, <2>1, <2>2, ClientTakes
    <2>4. ServerScript'
      BY <2>1, ServerScriptSame
    <2>5. client_verify' = v
      BY <1>0, <2>1, VerifyType
    <2>6. ClientScript'
      BY <1>0, <2>1, <2>2, <2>5
      DEF ClientScript, Asking, Unverified, NoCert, Verifying, Keyed
    <2> QED
      BY <2>3, <2>4, <2>6
  <1> QED
    BY <1>3, <1>4, <1>5, <1>6, <1>7, <1>8, <1>9, <1>10 DEF ClientRecv

\* The server's part of the script where only a server that verifies goes.
LEMMA RequestTable == ASSUME NEW v, v
  PROVE  /\ Plain("certificate_request") = ServerFlow(v)[ServerSent(v, "send_cert_request") + 1]
         /\ ServerSent(v, "send_server_hello_done") = ServerSent(v, "send_cert_request") + 1
         /\ ServerRead(v, "send_server_hello_done") = ServerRead(v, "send_cert_request")
         /\ Hashed(v, "send_server_hello_done")
                = Append(Hashed(v, "send_cert_request"), Plain("certificate_request"))
  <1>1. Plain("certificate_request") = ServerFlow(v)[ServerSent(v, "send_cert_request") + 1]
    BY DEF ServerFlow, ServerSent
  <1>2. ServerSent(v, "send_server_hello_done") = ServerSent(v, "send_cert_request") + 1
    BY DEF ServerSent
  <1>3. ServerRead(v, "send_server_hello_done") = ServerRead(v, "send_cert_request")
    BY DEF ServerRead
  <1>4. Hashed(v, "send_server_hello_done")
            = Append(Hashed(v, "send_cert_request"), Plain("certificate_request"))
    BY DEF Hashed, Log5
  <1> QED
    BY <1>1, <1>2, <1>3, <1>4

LEMMA ClientCertTable == ASSUME NEW v, v
  PROVE  /\ ServerSent(v, "recv_client_key_exchange") = ServerSent(v, "recv_client_cert")
         /\ ServerRead(v, "recv_client_key_exchange") = ServerRead(v, "recv_client_cert") + 1
         /\ ClientFlow(v)[ServerRead(v, "recv_client_cert") + 1] = Plain("certificate")
         /\ Append(Hashed(v, "recv_client_cert"), Plain("certificate"))
                = Hashed(v, "recv_client_key_exchange")
  <1>1. ServerSent(v, "recv_client_key_exchange") = ServerSent(v, "recv_client_cert")
    BY DEF ServerSent
  <1>2. ServerRead(v, "recv_client_key_exchange") = ServerRead(v, "recv_client_cert") + 1
    BY DEF ServerRead
  <1>3. ClientFlow(v)[ServerRead(v, "recv_client_cert") + 1] = Plain("certificate")
    BY DEF ClientFlow, ServerRead
  <1>4. Append(Hashed(v, "recv_client_cert"), Plain("certificate"))
            = Hashed(v, "recv_client_key_exchange")
    BY DEF Hashed, Log7
  <1> QED
    BY <1>1, <1>2, <1>3, <1>4

LEMMA CertVerifyTable == ASSUME NEW v, v
  PROVE  /\ ServerSent(v, "recv_client_ccs") = ServerSent(v, "recv_cert_verify")
         /\ ServerRead(v, "recv_client_ccs") = ServerRead(v, "recv_cert_verify") + 1
         /\ ClientFlow(v)[ServerRead(v, "recv_cert_verify") + 1] = CertificateVerify(v)
         /\ Append(Hashed(v, "recv_cert_verify"), CertificateVerify(v))
                = Hashed(v, "recv_client_ccs")
  <1>1. ServerSent(v, "recv_client_ccs") = ServerSent(v, "recv_cert_verify")
    BY DEF ServerSent
  <1>2. ServerRead(v, "recv_client_ccs") = ServerRead(v, "recv_cert_verify") + 1
    BY DEF ServerRead
  <1>3. ClientFlow(v)[ServerRead(v, "recv_cert_verify") + 1] = CertificateVerify(v)
    <2>1. \A m : m = CertificateVerify(v) => ClientFlow(v)[4] = m
      BY DEF ClientFlow
    <2>2. ServerRead(v, "recv_cert_verify") + 1 = 4
      BY DEF ServerRead
    <2> QED
      BY <2>1, <2>2, Zenon
  <1>4. Append(Hashed(v, "recv_cert_verify"), CertificateVerify(v))
            = Hashed(v, "recv_client_ccs")
    BY DEF Hashed, Log9
  <1> QED
    BY <1>1, <1>2, <1>3, <1>4

LEMMA ServerSendScript ==
  ASSUME TypeOK, NumberInv, ClientScript, ServerScript, FlightInv, ServerSend
  PROVE  ClientScript' /\ ServerScript' /\ FlightInv'
  <1> USE PeerOf
  <1>0. PICK v \in BOOLEAN : v = client_verify
    BY VerifyType
  <1>1. ASSUME NEW step, NEW m, NEW next, Send(Server, step, m, next),
               random'[Client] = random[Client],
               UNCHANGED <<certsOf, clientCerts, secret>>,
               m = ServerFlow(v)[ServerSent(v, step) + 1],
               ServerSent(v, next) = ServerSent(v, step) + 1,
               ServerRead(v, next) = ServerRead(v, step),
               Hashed(v, next) = Append(Hashed(v, step), m)
        PROVE  /\ pc[Server] = step /\ pc'[Server] = next /\ config' = config
               /\ transcript'[Server] = Hashed(v, next)
               /\ client_verify' = v
               /\ ClientScript' /\ FlightInv'
    <2>1. /\ pc[Server] = step /\ pc'[Server] = next /\ pc'[Client] = pc[Client]
          /\ transcript'[Server] = Append(transcript[Server], m) /\ config' = config
          /\ transcript'[Client] = transcript[Client]
      BY <1>1, SendEffect
    <2>2. FlightInv'
      BY <1>0, <1>1, <2>1, ServerEmits DEF Send
    <2>3. ClientScript'
      BY <1>1, <2>1, ClientScriptSame
    <2> QED
      BY <1>0, <1>1, <2>1, <2>2, <2>3, VerifyType DEF ServerScript
  <1>2. CASE SendServerHello
    <2>1. /\ Plain("server_hello") = ServerFlow(v)[ServerSent(v, "send_server_hello") + 1]
          /\ ServerSent(v, "send_server_cert") = ServerSent(v, "send_server_hello") + 1
          /\ ServerRead(v, "send_server_cert") = ServerRead(v, "send_server_hello")
          /\ Hashed(v, "send_server_cert")
                = Append(Hashed(v, "send_server_hello"), Plain("server_hello"))
      BY DEF ServerFlow, ServerSent, ServerRead, Hashed, Log2
    <2>2. /\ random'[Client] = random[Client]
          /\ random'[Server] = <<random[Server][1], "sr">>
          /\ UNCHANGED <<certsOf, clientCerts, secret>>
      BY <1>2, SidesAssumption DEF SendServerHello, TypeOK
    <2>3. /\ pc[Server] = "send_server_hello" /\ pc'[Server] = "send_server_cert"
          /\ config' = config /\ transcript'[Server] = Hashed(v, "send_server_cert")
          /\ client_verify' = v /\ ClientScript' /\ FlightInv'
      BY <1>1, <1>2, <2>1, <2>2 DEF SendServerHello
    <2>4. random'[Server] = Randoms
      BY <2>2, <2>3 DEF ServerScript, Randoms
    <2>5. ServerScript'
      BY <2>3, <2>4 DEF ServerScript, Verifying, Keyed, Randoms
    <2> QED
      BY <2>3, <2>5
  <1>3. CASE SendServerCertificate
    <2>1. /\ Plain("certificate") = ServerFlow(v)[ServerSent(v, "send_server_cert") + 1]
          /\ ServerSent(v, "send_server_key_exchange") = ServerSent(v, "send_server_cert") + 1
          /\ ServerRead(v, "send_server_key_exchange") = ServerRead(v, "send_server_cert")
          /\ Hashed(v, "send_server_key_exchange")
                = Append(Hashed(v, "send_server_cert"), Plain("certificate"))
      BY DEF ServerFlow, ServerSent, ServerRead, Hashed, Log3
    <2>2. UNCHANGED <<random, certsOf, clientCerts, secret>>
      BY <1>3 DEF SendServerCertificate, keys
    <2>3. /\ pc[Server] = "send_server_cert" /\ pc'[Server] = "send_server_key_exchange"
          /\ config' = config /\ transcript'[Server] = Hashed(v, "send_server_key_exchange")
          /\ client_verify' = v /\ ClientScript' /\ FlightInv'
      BY <1>1, <1>3, <2>1, <2>2 DEF SendServerCertificate
    <2>4. ServerScript'
      BY <2>2, <2>3 DEF ServerScript, Greeting, Verifying, Keyed, Randoms
    <2> QED
      BY <2>3, <2>4
  <1>4. CASE SendServerKeyExchange
    <2>0. PICK next \in {"send_cert_request", "send_server_hello_done"} :
            next = IF v THEN "send_cert_request" ELSE "send_server_hello_done"
      OBVIOUS
    <2>1. /\ pc[Server] = "send_server_key_exchange" /\ random[Server] = Randoms
      BY <1>4 DEF SendServerKeyExchange, Send, At, ServerScript, Greeting
    <2>2. Send(Server, "send_server_key_exchange", ServerKeyExchange, next)
      BY <1>0, <1>4, <2>0, <2>1 DEF SendServerKeyExchange, ServerKeyExchange
    <2>3. /\ ServerKeyExchange
                = ServerFlow(v)[ServerSent(v, "send_server_key_exchange") + 1]
          /\ ServerSent(v, next) = ServerSent(v, "send_server_key_exchange") + 1
          /\ ServerRead(v, next) = ServerRead(v, "send_server_key_exchange")
          /\ Hashed(v, next) = Append(Hashed(v, "send_server_key_exchange"), ServerKeyExchange)
      BY <2>0 DEF ServerFlow, ServerSent, ServerRead, Hashed, Log4, Log5
    <2>4. UNCHANGED <<random, certsOf, clientCerts, secret>>
      BY <1>4 DEF SendServerKeyExchange, keys
    <2>5. /\ pc'[Server] = next
          /\ config' = config /\ transcript'[Server] = Hashed(v, next)
          /\ client_verify' = v /\ ClientScript' /\ FlightInv'
      BY <1>1, <2>2, <2>3, <2>4
    <2>6. ServerScript'
      BY <2>0, <2>1, <2>4, <2>5 DEF ServerScript, Greeting, Verifying, Keyed, Randoms
    <2> QED
      BY <2>5, <2>6
  <1>5. CASE SendCertificateRequest
    <2>1. v
      BY <1>0, <1>5 DEF SendCertificateRequest, Send, At, ServerScript, Verifying
    <2>2. UNCHANGED <<random, certsOf, clientCerts, secret>>
      BY <1>5 DEF SendCertificateRequest, keys
    <2>3. /\ pc[Server] = "send_cert_request" /\ pc'[Server] = "send_server_hello_done"
          /\ config' = config /\ transcript'[Server] = Hashed(v, "send_server_hello_done")
          /\ client_verify' = v /\ ClientScript' /\ FlightInv'
      BY <1>1, <1>5, <2>1, <2>2, RequestTable DEF SendCertificateRequest
    <2>4. ServerScript'
      BY <2>2, <2>3 DEF ServerScript, Greeting, Verifying, Keyed, Randoms
    <2> QED
      BY <2>3, <2>4
  <1>6. CASE SendServerHelloDone
    <2>0. PICK next \in {"recv_client_cert", "recv_client_key_exchange"} :
            next = IF v THEN "recv_client_cert" ELSE "recv_client_key_exchange"
      OBVIOUS
    <2>1. Send(Server, "send_server_hello_done", Plain("server_hello_done"), next)
      BY <1>0, <1>6, <2>0 DEF SendServerHelloDone
    <2>2. /\ Plain("server_hello_done")
                = ServerFlow(v)[ServerSent(v, "send_server_hello_done") + 1]
          /\ ServerSent(v, next) = ServerSent(v, "send_server_hello_done") + 1
          /\ ServerRead(v, next) = ServerRead(v, "send_server_hello_done")
          /\ Hashed(v, next)
                = Append(Hashed(v, "send_server_hello_done"), Plain("server_hello_done"))
      BY <2>0 DEF ServerFlow, ServerSent, ServerRead, Hashed, Log6, Log7
    <2>3. UNCHANGED <<random, certsOf, clientCerts, secret>>
      BY <1>6 DEF SendServerHelloDone, keys
    <2>4. /\ pc[Server] = "send_server_hello_done" /\ pc'[Server] = next
          /\ config' = config /\ transcript'[Server] = Hashed(v, next)
          /\ client_verify' = v /\ ClientScript' /\ FlightInv'
      BY <1>1, <2>1, <2>2, <2>3
    <2>5. ServerScript'
      BY <2>0, <2>3, <2>4 DEF ServerScript, Greeting, Verifying, Keyed, Randoms
    <2> QED
      BY <2>4, <2>5
  <1>7. CASE SendServerChangeCipherSpec
    <2>1. /\ pc[Server] = "send_server_ccs" /\ pc'[Server] = "send_server_finished"
          /\ pc'[Client] = pc[Client] /\ Emit(Server, Plain("change_cipher_spec"))
          /\ UNCHANGED <<config, transcript, random, certsOf, clientCerts, secret>>
      BY <1>7, EmitEffect DEF SendServerChangeCipherSpec, At, keys
    <2>2. /\ Plain("change_cipher_spec")
                = ServerFlow(v)[ServerSent(v, "send_server_ccs") + 1]
          /\ ServerSent(v, "send_server_finished") = ServerSent(v, "send_server_ccs") + 1
          /\ ServerRead(v, "send_server_finished") = ServerRead(v, "send_server_ccs")
          /\ Hashed(v, "send_server_finished") = Hashed(v, "send_server_ccs")
      BY DEF ServerFlow, ServerSent, ServerRead, Hashed
    <2>3. FlightInv'
      BY <1>0, <2>1, <2>2, ServerEmits
    <2>4. ClientScript'
      BY <2>1, ClientScriptSame
    <2>5. client_verify' = v
      BY <1>0, <2>1, VerifyType
    <2>6. ServerScript'
      BY <1>0, <2>1, <2>2, <2>5 DEF ServerScript, Greeting, Verifying, Keyed
    <2> QED
      BY <2>3, <2>4, <2>6
  <1>8. CASE SendServerFinished
    <2>0. PICK m : m = Finished(Server, "server_finished", serverSeq[Server])
      OBVIOUS
    <2>1. /\ pc[Server] = "send_server_finished" /\ pc'[Server] = "established"
          /\ pc'[Client] = pc[Client] /\ Emit(Server, m)
          /\ UNCHANGED <<config, transcript, random, certsOf, clientCerts, secret>>
      BY <1>8, <2>0, EmitEffect DEF SendServerFinished, At, keys
    <2>2. /\ transcript[Server] = Log10(v) /\ secret[Server] = Master
          /\ serverSeq[Server] = 0
      BY <1>0, <2>1 DEF ServerScript, NumberInv, Keyed, Hashed
    <2>3. m = ServerFinished(v)
      BY <2>0, <2>2 DEF Finished, ServerFinished
    <2>4. /\ m = ServerFlow(v)[ServerSent(v, "send_server_finished") + 1]
          /\ ServerSent(v, "established") = ServerSent(v, "send_server_finished") + 1
          /\ ServerRead(v, "established") = ServerRead(v, "send_server_finished")
          /\ Hashed(v, "established") = Hashed(v, "send_server_finished")
      BY <2>3 DEF ServerFlow, ServerSent, ServerRead, Hashed
    <2>5. FlightInv'
      BY <1>0, <2>1, <2>4, ServerEmits
    <2>6. ClientScript'
      BY <2>1, ClientScriptSame
    <2>7. client_verify' = v
      BY <1>0, <2>1, VerifyType
    <2>8. ServerScript'
      BY <1>0, <2>1, <2>4, <2>7 DEF ServerScript, Greeting, Verifying, Keyed
    <2> QED
      BY <2>5, <2>6, <2>8
  <1> QED
    BY <1>2, <1>3, <1>4, <1>5, <1>6, <1>7, <1>8 DEF ServerSend

LEMMA ServerRecvScript ==
  ASSUME TypeOK, ClientScript, ServerScript, FlightInv, ServerRecv
  PROVE  ClientScript' /\ ServerScript' /\ FlightInv'
  <1> USE PeerOf
  <1>0. PICK v \in BOOLEAN : v = client_verify
    BY VerifyType
  <1>1. ASSUME NEW step, NEW next, Recv(Server, step, next),
               random'[Client] = random[Client], certsOf'[Client] = certsOf[Client],
               clientCerts' = clientCerts, secret'[Client] = secret[Client],
               ServerSent(v, next) = ServerSent(v, step),
               ServerRead(v, next) = ServerRead(v, step) + 1
        PROVE  /\ pc[Server] = step /\ pc'[Server] = next /\ config' = config
               /\ transcript'[Server] = Append(Hashed(v, step), First(Server))
               /\ client_verify' = v
               /\ ClientScript' /\ FlightInv'
    <2>1. /\ pc[Server] = step /\ pc'[Server] = next /\ pc'[Client] = pc[Client]
          /\ transcript'[Server] = Append(transcript[Server], First(Server))
          /\ config' = config /\ transcript'[Client] = transcript[Client]
      BY <1>1, RecvEffect
    <2>2. FlightInv'
      BY <1>0, <1>1, <2>1, ServerTakes DEF Recv
    <2>3. ClientScript'
      BY <1>1, <2>1, ClientScriptSame
    <2> QED
      BY <1>0, <2>1, <2>2, <2>3, VerifyType DEF ServerScript
  <1>2. ASSUME NEW step, pc[Server] = step, Incoming(Server)
        PROVE  First(Server) = ClientFlow(v)[ServerRead(v, step) + 1]
    BY <1>0, <1>2, ServerFirst
  <1>3. CASE RecvClientHello
    <2>1. /\ ServerSent(v, "send_server_hello") = ServerSent(v, "recv_client_hello")
          /\ ServerRead(v, "send_server_hello") = ServerRead(v, "recv_client_hello") + 1
          /\ ClientFlow(v)[ServerRead(v, "recv_client_hello") + 1] = Plain("client_hello")
          /\ Append(Hashed(v, "recv_client_hello"), Plain("client_hello"))
                = Hashed(v, "send_server_hello")
      BY DEF ServerSent, ServerRead, ClientFlow, Hashed, Log1
    <2>2. First(Server) = Plain("client_hello") /\ pc[Server] = "recv_client_hello"
      BY <1>2, <1>3, <2>1 DEF RecvClientHello, Recv, At
    <2>3. First(Server).val = "sent"
      BY <2>2 DEF Plain, Message
    <2>4. /\ random'[Client] = random[Client] /\ UNCHANGED <<certsOf, clientCerts, secret>>
          /\ random'[Server][1] = "cr"
      BY <1>3, <2>2, <2>3, SidesAssumption DEF RecvClientHello, TypeOK, RandomOf
    <2>5. /\ pc'[Server] = "send_server_hello" /\ config' = config
          /\ transcript'[Server] = Hashed(v, "send_server_hello")
          /\ client_verify' = v /\ ClientScript' /\ FlightInv'
      BY <1>1, <1>3, <2>1, <2>2, <2>4 DEF RecvClientHello
    <2>6. ServerScript'
      BY <2>4, <2>5 DEF ServerScript, Greeting, Verifying, Keyed
    <2> QED
      BY <2>5, <2>6
  <1>4. CASE RecvClientCertificate
    <2>1. pc[Server] = "recv_client_cert" /\ Incoming(Server) /\ v
      BY <1>0, <1>4 DEF RecvClientCertificate, Recv, At, ServerScript, Verifying
    <2>2. First(Server) = Plain("certificate")
      BY <1>2, <2>1, ClientCertTable
    <2>3. /\ UNCHANGED <<random, clientCerts, secret>> /\ certsOf'[Client] = certsOf[Client]
      BY <1>4, SidesAssumption DEF RecvClientCertificate, TypeOK
    <2>4. /\ pc'[Server] = "recv_client_key_exchange" /\ config' = config
          /\ transcript'[Server] = Hashed(v, "recv_client_key_exchange")
          /\ client_verify' = v /\ ClientScript' /\ FlightInv'
      BY <1>1, <1>4, <2>1, <2>2, <2>3, ClientCertTable DEF RecvClientCertificate
    <2>5. ServerScript'
      BY <2>1, <2>3, <2>4 DEF ServerScript, Greeting, Verifying, Keyed, Randoms
    <2> QED
      BY <2>4, <2>5
  <1>5. CASE RecvClientKeyExchange
    <2>0. PICK next \in {"recv_cert_verify", "recv_client_ccs"} :
            next = IF v THEN "recv_cert_verify" ELSE "recv_client_ccs"
      OBVIOUS
    <2>1. /\ Recv(Server, "recv_client_key_exchange", next)
          /\ pc[Server] = "recv_client_key_exchange" /\ Incoming(Server)
      BY <1>0, <1>5, <2>0 DEF RecvClientKeyExchange, Recv, At
    <2>2. /\ ServerSent(v, next) = ServerSent(v, "recv_client_key_exchange")
          /\ ServerRead(v, next) = ServerRead(v, "recv_client_key_exchange") + 1
          /\ ClientFlow(v)[ServerRead(v, "recv_client_key_exchange") + 1]
                = Plain("client_key_exchange")
          /\ Append(Hashed(v, "recv_client_key_exchange"), Plain("client_key_exchange"))
                = Hashed(v, next)
      BY <2>0 DEF ServerSent, ServerRead, ClientFlow, Hashed, Log8, Log9
    <2>3. First(Server) = Plain("client_key_exchange") /\ random[Server] = Randoms
      BY <1>2, <2>1, <2>2 DEF ServerScript, Greeting
    <2>4. /\ UNCHANGED <<random, certsOf, clientCerts>> /\ secret'[Client] = secret[Client]
          /\ next = "recv_client_ccs" => secret'[Server] = MasterSecret(Server)
      BY <1>0, <1>5, <2>0, SidesAssumption DEF RecvClientKeyExchange, TypeOK
    <2>5. MasterSecret(Server) = Master
      BY <2>3 DEF MasterSecret, Master, Randoms
    <2>6. /\ pc'[Server] = next /\ config' = config
          /\ transcript'[Server] = Hashed(v, next)
          /\ client_verify' = v /\ ClientScript' /\ FlightInv'
      BY <1>1, <2>1, <2>2, <2>3, <2>4
    <2>7. ServerScript'
      BY <2>0, <2>3, <2>4, <2>5, <2>6
      DEF ServerScript, Greeting, Verifying, Keyed, Randoms
    <2> QED
      BY <2>6, <2>7
  <1>6. CASE RecvCertificateVerify
    <2>1. pc[Server] = "recv_cert_verify" /\ Incoming(Server) /\ v /\ random[Server] = Randoms
      BY <1>0, <1>6 DEF RecvCertificateVerify, Recv, At, ServerScript, Verifying, Greeting
    <2>2. First(Server) = CertificateVerify(v)
      BY <1>2, <2>1, CertVerifyTable
    <2>3. /\ UNCHANGED <<random, certsOf, clientCerts>> /\ secret'[Client] = secret[Client]
          /\ secret'[Server] = MasterSecret(Server)
      BY <1>6, SidesAssumption DEF RecvCertificateVerify, TypeOK
    <2>4. MasterSecret(Server) = Master
      BY <2>1 DEF MasterSecret, Master, Randoms
    <2>5. /\ pc'[Server] = "recv_client_ccs" /\ config' = config
          /\ transcript'[Server] = Hashed(v, "recv_client_ccs")
          /\ client_verify' = v /\ ClientScript' /\ FlightInv'
      BY <1>1, <1>6, <2>1, <2>2, <2>3, CertVerifyTable DEF RecvCertificateVerify
    <2>6. ServerScript'
      BY <2>1, <2>3, <2>4, <2>5 DEF ServerScript, Greeting, Verifying, Keyed, Randoms
    <2> QED
      BY <2>5, <2>6
  <1>7. CASE RecvClientChangeCipherSpec
    <2>1. /\ pc[Server] = "recv_client_ccs" /\ pc'[Server] = "recv_client_finished"
          /\ pc'[Client] = pc[Client] /\ Incoming(Server) /\ Take(Server)
          /\ UNCHANGED <<config, transcript, random, certsOf, clientCerts, secret>>
      BY <1>7, TakeEffect DEF RecvClientChangeCipherSpec, At, keys
    <2>2. /\ ServerSent(v, "recv_client_finished") = ServerSent(v, "recv_client_ccs")
          /\ ServerRead(v, "recv_client_finished") = ServerRead(v, "recv_client_ccs") + 1
          /\ Hashed(v, "recv_client_finished") = Hashed(v, "recv_client_ccs")
      BY DEF ServerSent, ServerRead, Hashed
    <2>3. FlightInv'
      BY <1>0, <2>1, <2>2, ServerTakes
    <2>4. ClientScript'
      BY <2>1, ClientScriptSame
    <2>5. client_verify' = v
      BY <1>0, <2>1, VerifyType
    <2>6. ServerScript'
      BY <1>0, <2>1, <2>2, <2>5 DEF ServerScript, Greeting, Verifying, Keyed
    <2> QED
      BY <2>3, <2>4, <2>6
  <1>8. CASE RecvClientFinished
    <2>1. /\ Recv(Server, "recv_client_finished", "send_server_ccs")
          /\ pc[Server] = "recv_client_finished" /\ Incoming(Server)
          /\ UNCHANGED <<random, certsOf, clientCerts, secret>>
      BY <1>8 DEF RecvClientFinished, Recv, At, keys
    <2>2. /\ ServerSent(v, "send_server_ccs") = ServerSent(v, "recv_client_finished")
          /\ ServerRead(v, "send_server_ccs") = ServerRead(v, "recv_client_finished") + 1
      BY DEF ServerSent, ServerRead
    <2>3. ClientFlow(v)[ServerRead(v, "recv_client_finished") + 1] = ClientFinished(v)
      BY DEF ServerRead, ClientFlow
    <2>4. Append(Hashed(v, "recv_client_finished"), ClientFinished(v))
                = Hashed(v, "send_server_ccs")
      BY DEF Hashed, Log10
    <2>5. First(Server) = ClientFinished(v)
      BY <1>2, <2>1, <2>3
    <2>6. /\ pc'[Server] = "send_server_ccs" /\ config' = config
          /\ transcript'[Server] = Hashed(v, "send_server_ccs")
          /\ client_verify' = v /\ ClientScript' /\ FlightInv'
      BY <1>1, <2>1, <2>2, <2>4, <2>5
    <2>7. ServerScript'
      BY <2>1, <2>6 DEF ServerScript, Greeting, Verifying, Keyed, Randoms
    <2> QED
      BY <2>6, <2>7
  <1> QED
    BY <1>3, <1>4, <1>5, <1>6, <1>7, <1>8 DEF ServerRecv

-----------------------------------------------------------------------------
(* The sequence numbers.                                                   *)

LEMMA ClientSendNumber == ASSUME TypeOK, NumberInv, ClientSend PROVE NumberInv'
  <1> USE PeerOf
  <1>1. ASSUME NEW step, NEW m, NEW next, Send(Client, step, m, next), UNCHANGED seqs,
               step \notin Sent, next \notin Sent
        PROVE  NumberInv'
    <2>1. pc[Client] = step /\ pc'[Client] = next /\ pc'[Server] = pc[Server]
      BY <1>1, SendEffect
    <2> QED
      BY <1>1, <2>1 DEF NumberInv, seqs, Sent
  <1>2. CASE SendClientHello
    BY <1>1, <1>2 DEF SendClientHello, Sent
  <1>3. CASE SendClientCertificate
    BY <1>1, <1>3 DEF SendClientCertificate, Sent
  <1>4. CASE SendClientKeyExchange
    BY <1>1, <1>4 DEF SendClientKeyExchange, Sent
  <1>5. CASE SendCertificateVerify
    BY <1>1, <1>5 DEF SendCertificateVerify, Sent
  <1>6. CASE SendClientChangeCipherSpec
    <2>1. /\ pc[Client] = "send_client_ccs" /\ pc'[Client] = "send_client_finished"
          /\ pc'[Server] = pc[Server] /\ UNCHANGED seqs
      BY <1>6, EmitEffect DEF SendClientChangeCipherSpec, At
    <2> QED
      BY <2>1 DEF NumberInv, seqs, Sent
  <1>7. CASE SendClientFinished
    <2>1. /\ pc[Client] = "send_client_finished" /\ pc'[Client] = "recv_server_ccs"
          /\ pc'[Server] = pc[Server]
      BY <1>7, SendEffect DEF SendClientFinished
    <2>2. /\ clientSeq'[Client] = clientSeq[Client] + 1
          /\ clientSeq'[Server] = clientSeq[Server] /\ serverSeq' = serverSeq
      BY <1>7, SidesAssumption DEF SendClientFinished, TypeOK
    <2> QED
      BY <2>1, <2>2 DEF NumberInv, Sent
  <1> QED
    BY <1>2, <1>3, <1>4, <1>5, <1>6, <1>7 DEF ClientSend

LEMMA ClientRecvNumber == ASSUME TypeOK, NumberInv, ClientRecv PROVE NumberInv'
  <1> USE PeerOf
  <1>1. ASSUME NEW step, NEW next, Recv(Client, step, next), UNCHANGED seqs,
               step \notin Sent, next \notin Sent
        PROVE  NumberInv'
    <2>1. pc[Client] = step /\ pc'[Client] = next /\ pc'[Server] = pc[Server]
      BY <1>1, RecvEffect
    <2> QED
      BY <1>1, <2>1 DEF NumberInv, seqs, Sent
  <1>2. CASE RecvServerHello
    BY <1>1, <1>2 DEF RecvServerHello, Sent
  <1>3. CASE RecvServerCertificate
    BY <1>1, <1>3 DEF RecvServerCertificate, Sent
  <1>4. CASE RecvServerKeyExchange
    BY <1>1, <1>4 DEF RecvServerKeyExchange, Sent
  <1>5. CASE RecvCertificateRequest
    BY <1>1, <1>5 DEF RecvCertificateRequest, Sent
  <1>6. CASE RecvServerHelloDone \/ RecvServerHelloDoneNoRequest
    BY <1>1, <1>6
    DEF RecvServerHelloDone, RecvServerHelloDoneNoRequest, AfterHelloDone, Sent
  <1>7. CASE RecvServerChangeCipherSpec
    <2>1. /\ pc[Client] = "recv_server_ccs" /\ pc'[Client] = "recv_server_finished"
          /\ pc'[Server] = pc[Server] /\ UNCHANGED seqs
      BY <1>7, TakeEffect DEF RecvServerChangeCipherSpec, At
    <2> QED
      BY <2>1 DEF NumberInv, seqs, Sent
  <1>8. CASE RecvServerFinished
    <2>1. /\ pc[Client] = "recv_server_finished" /\ pc'[Client] = "established"
          /\ pc'[Server] = pc[Server]
      BY <1>8, TakeEffect DEF RecvServerFinished, At
    <2>2. /\ serverSeq'[Client] = serverSeq[Client] + 1
          /\ serverSeq'[Server] = serverSeq[Server] /\ clientSeq' = clientSeq
      BY <1>8, SidesAssumption DEF RecvServerFinished, TypeOK
    <2> QED
      BY <2>1, <2>2 DEF NumberInv, Sent
  <1> QED
    BY <1>2, <1>3, <1>4, <1>5, <1>6, <1>7, <1>8 DEF ClientRecv

LEMMA ServerSendNumber == ASSUME TypeOK, NumberInv, ServerSend PROVE NumberInv'
  <1> USE PeerOf
  <1>1. ASSUME NEW step, NEW m, NEW next, Send(Server, step, m, next), UNCHANGED seqs,
               step \notin Committed \cup {"failed"}, next \notin Committed
        PROVE  NumberInv'
    <2>1. pc[Server] = step /\ pc'[Server] = next /\ pc'[Client] = pc[Client]
      BY <1>1, SendEffect
    <2> QED
      BY <1>1, <2>1 DEF NumberInv, seqs, Committed
  <1>2. CASE SendServerHello
    BY <1>1, <1>2 DEF SendServerHello, Committed
  <1>3. CASE SendServerCertificate
    BY <1>1, <1>3 DEF SendServerCertificate, Committed
  <1>4. CASE SendServerKeyExchange
    BY <1>1, <1>4 DEF SendServerKeyExchange, Committed
  <1>5. CASE SendCertificateRequest
    BY <1>1, <1>5 DEF SendCertificateRequest, Committed
  <1>6. CASE SendServerHelloDone
    BY <1>1, <1>6 DEF SendServerHelloDone, Committed
  <1>7. CASE SendServerChangeCipherSpec
    <2>1. /\ pc[Server] = "send_server_ccs" /\ pc'[Server] = "send_server_finished"
          /\ pc'[Client] = pc[Client] /\ UNCHANGED seqs
      BY <1>7, EmitEffect DEF SendServerChangeCipherSpec, At
    <2> QED
      BY <2>1 DEF NumberInv, seqs, Committed
  <1>8. CASE SendServerFinished
    <2>1. /\ pc[Server] = "send_server_finished" /\ pc'[Server] = "established"
          /\ pc'[Client] = pc[Client]
      BY <1>8, EmitEffect DEF SendServerFinished, At
    <2>2. /\ serverSeq'[Server] = serverSeq[Server] + 1
          /\ serverSeq'[Client] = serverSeq[Client] /\ clientSeq' = clientSeq
      BY <1>8, SidesAssumption DEF SendServerFinished, TypeOK
    <2> QED
      BY <2>1, <2>2 DEF NumberInv, Committed
  <1> QED
    BY <1>2, <1>3, <1>4, <1>5, <1>6, <1>7, <1>8 DEF ServerSend

LEMMA ServerRecvNumber == ASSUME TypeOK, NumberInv, ServerRecv PROVE NumberInv'
  <1> USE PeerOf
  <1>1. ASSUME NEW step, NEW next, Recv(Server, step, next), UNCHANGED seqs,
               step \notin Committed \cup {"failed"}, next \notin Committed
        PROVE  NumberInv'
    <2>1. pc[Server] = step /\ pc'[Server] = next /\ pc'[Client] = pc[Client]
      BY <1>1, RecvEffect
    <2> QED
      BY <1>1, <2>1 DEF NumberInv, seqs, Committed
  <1>2. CASE RecvClientHello
    BY <1>1, <1>2 DEF RecvClientHello, Committed
  <1>3. CASE RecvClientCertificate
    BY <1>1, <1>3 DEF RecvClientCertificate, Committed
  <1>4. CASE RecvClientKeyExchange
    BY <1>1, <1>4 DEF RecvClientKeyExchange, Committed
  <1>5. CASE RecvCertificateVerify
    BY <1>1, <1>5 DEF RecvCertificateVerify, Committed
  <1>6. CASE RecvClientChangeCipherSpec
    <2>1. /\ pc[Server] = "recv_client_ccs" /\ pc'[Server] = "recv_client_finished"
          /\ pc'[Client] = pc[Client] /\ UNCHANGED seqs
      BY <1>6, TakeEffect DEF RecvClientChangeCipherSpec, At
    <2> QED
      BY <2>1 DEF NumberInv, seqs, Committed
  <1>7. CASE RecvClientFinished
    <2>1. /\ pc[Server] = "recv_client_finished" /\ pc'[Server] = "send_server_ccs"
          /\ pc'[Client] = pc[Client]
      BY <1>7, RecvEffect DEF RecvClientFinished
    <2>2. /\ clientSeq'[Server] = clientSeq[Server] + 1
          /\ clientSeq'[Client] = clientSeq[Client] /\ serverSeq' = serverSeq
      BY <1>7, SidesAssumption DEF RecvClientFinished, TypeOK
    <2> QED
      BY <2>1, <2>2 DEF NumberInv, Committed
  <1> QED
    BY <1>2, <1>3, <1>4, <1>5, <1>6, <1>7 DEF ServerRecv

LEMMA QuietNumber == ASSUME TypeOK, NumberInv, Quiet PROVE NumberInv'
  <1>1. /\ pc'[Client] = pc[Client] \/ pc'[Client] = "failed"
        /\ pc'[Server] = pc[Server] \/ pc'[Server] = "failed"
        /\ UNCHANGED seqs
    BY QuietEffect, PeerOf
  <1> QED
    BY <1>1 DEF NumberInv, seqs

LEMMA InitScript == Init => NumberInv /\ ScriptInv
  <1> SUFFICES ASSUME Init PROVE NumberInv /\ ScriptInv
    OBVIOUS
  <1>1. /\ pc[Client] = "send_client_hello" /\ pc[Server] = "recv_client_hello"
        /\ transcript[Client] = <<>> /\ transcript[Server] = <<>>
        /\ wire[Client] = <<>> /\ wire[Server] = <<>>
        /\ clientSeq[Client] = 0 /\ clientSeq[Server] = 0
        /\ serverSeq[Client] = 0 /\ serverSeq[Server] = 0
        /\ clientCerts = (config.clientCert # "none")
    BY PeerOf, SidesAssumption DEF Init
  <1>2. NumberInv
    BY <1>1 DEF NumberInv, Sent, Committed
  <1>3. PICK v \in BOOLEAN : v = client_verify
    BY VerifyType
  <1>4. /\ Hashed(v, "send_client_hello") = <<>> /\ Hashed(v, "recv_client_hello") = <<>>
        /\ ClientSent(v, "send_client_hello") = 0 /\ ServerRead(v, "recv_client_hello") = 0
        /\ ServerSent(v, "recv_client_hello") = 0 /\ ClientRead(v, "send_client_hello") = 0
    BY DEF Hashed, ClientSent, ServerRead, ServerSent, ClientRead
  <1>5. ClientScript /\ ServerScript
    BY <1>1, <1>3, <1>4
    DEF ClientScript, ServerScript, Asking, Unverified, NoCert, Greeting, Verifying, Keyed
  <1>6. FlightInv
    BY <1>1, <1>3, <1>4 DEF FlightInv, InFlight
  <1> QED
    BY <1>2, <1>5, <1>6 DEF ScriptInv

\* What is no message of the handshake either ends the calm or leaves the
\* script where it is.
LEMMA QuietCalm ==
  ASSUME TypeOK, Quiet, Calm'
  PROVE  UNCHANGED <<pc, wire>> /\ Calm
  <1>1. CASE UNCHANGED vars
    BY <1>1 DEF vars, Calm
  <1>2. ASSUME NEW s \in Side, Reject(s) \/ RecvFails(s) \/ SendFails(s)
                                \/ (s = Server /\ ServerCannotGoOn)
        PROVE  FALSE
    <2>1. Goto(s, "failed")
      BY <1>2 DEF Reject, RecvFails, SendFails, ServerCannotGoOn, FailWithAlert, FailSilently
    <2>2. pc'[s] = "failed"
      BY <2>1 DEF Goto, TypeOK
    <2> QED
      BY <2>2 DEF Calm, Side
  <1>3. ASSUME NEW s \in Side, CloseFailed(s) \/ Crash(s) PROVE UNCHANGED <<pc, wire>> /\ Calm
    BY <1>3 DEF CloseFailed, Crash, CloseSocket, Calm
  <1>4. ASSUME NEW s \in Side, NetworkFault(s) PROVE FALSE
    <2>1. faults' = faults + 1 /\ faults \in Nat
      BY <1>4 DEF NetworkFault, TypeOK
    <2> QED
      BY <2>1 DEF Calm
  <1> QED
    BY <1>1, <1>2, <1>3, <1>4 DEF Quiet, Other

\* A message of the handshake is the step of one side that has not failed and
\* does not fail by it.
LEMMA MessageEffect ==
  ASSUME TypeOK, ClientSend \/ ClientRecv \/ ServerSend \/ ServerRecv
  PROVE  /\ UNCHANGED <<config, closed, faults>>
         /\ \E s \in Side : /\ pc[s] # "failed" /\ ~closed[s] /\ pc'[s] # "failed"
                            /\ pc'[Peer(s)] = pc[Peer(s)]
  <1>0. pc = [s \in Side |-> pc[s]]
    BY DEF TypeOK
  <1>1. CASE ClientSend \/ ClientRecv
    <2>1. /\ UNCHANGED <<config, closed, faults>>
          /\ pc[Client] # "failed" /\ ~closed[Client] /\ pc'[Client] # "failed"
          /\ pc'[Server] = pc[Server]
      BY <1>0, <1>1, PeerOf, SidesAssumption
      DEF ClientSend, ClientRecv, Send, Recv, At, Goto, SendClientHello, SendClientCertificate,
       SendClientKeyExchange, SendCertificateVerify, SendClientChangeCipherSpec,
       SendClientFinished, RecvServerHello, RecvServerCertificate, RecvServerKeyExchange,
       RecvCertificateRequest, AfterHelloDone, RecvServerHelloDone, RecvServerHelloDoneNoRequest,
       RecvServerChangeCipherSpec, RecvServerFinished
    <2> QED
      BY <2>1, PeerOf
  <1>2. CASE ServerSend \/ ServerRecv
    <2>1. /\ UNCHANGED <<config, closed, faults>>
          /\ pc[Server] # "failed" /\ ~closed[Server] /\ pc'[Server] # "failed"
          /\ pc'[Client] = pc[Client]
      BY <1>0, <1>2, PeerOf, SidesAssumption
      DEF ServerSend, ServerRecv, Send, Recv, At, Goto, SendServerHello, SendServerCertificate,
       SendServerKeyExchange, SendCertificateRequest, SendServerHelloDone,
       SendServerChangeCipherSpec, SendServerFinished, RecvClientHello,
       RecvClientCertificate, RecvClientKeyExchange, RecvCertificateVerify,
       RecvClientChangeCipherSpec, RecvClientFinished
    <2> QED
      BY <2>1, PeerOf
  <1> QED
    BY <1>1, <1>2

LEMMA ScriptStep ==
  ASSUME TypeOK, NumberInv, ScriptInv, [Next]_vars
  PROVE  ScriptInv'
  <1> SUFFICES ASSUME Calm' PROVE ClientScript' /\ ServerScript' /\ FlightInv'
    BY DEF ScriptInv
  <1>1. CASE Quiet
    <2>1. UNCHANGED <<pc, wire>> /\ Calm
      BY <1>1, QuietCalm
    <2>2. UNCHANGED <<config, transcript, random, certsOf, clientCerts, secret>>
      BY <1>1, QuietEffect
    <2>3. ClientScript' /\ ServerScript'
      BY <2>1, <2>2, ClientScriptSame, ServerScriptSame DEF ScriptInv
    <2>4. FlightInv'
      BY <2>1, <2>2, VerifyType DEF ScriptInv, FlightInv
    <2> QED
      BY <2>3, <2>4
  <1>2. ASSUME ClientSend \/ ClientRecv \/ ServerSend \/ ServerRecv PROVE Calm
    BY <1>2, MessageEffect, PeerOf DEF Calm, Side
  <1> QED
    BY <1>1, <1>2, NextCases, ClientSendScript, ClientRecvScript, ServerSendScript,
       ServerRecvScript DEF ScriptInv

LEMMA ScriptCorrect == Spec => [](NumberInv /\ ScriptInv)
  <1>1. TypeOK /\ NumberInv /\ ScriptInv /\ [Next]_vars => NumberInv' /\ ScriptInv'
    BY NextCases, ClientSendNumber, ClientRecvNumber, ServerSendNumber, ServerRecvNumber,
       QuietNumber, ScriptStep
  <1> QED
    BY <1>1, InitScript, TypeCorrect, PTL DEF Spec

\* Two TLCP peers that have both completed agree on the number of the next
\* record in each direction, and unless the network disturbed a record nothing
\* of the handshake is left unread for the first tls_recv.
THEOREM ReadyCorrect == Spec => []ReadyForData
  <1>1. TypeOK /\ NumberInv /\ ScriptInv => ReadyForData
    <2> SUFFICES ASSUME TypeOK, NumberInv, ScriptInv, Established(Client), Established(Server)
                 PROVE  /\ clientSeq = [s \in Side |-> 1] /\ serverSeq = [s \in Side |-> 1]
                        /\ faults = 0 => wire = [s \in Side |-> <<>>]
      BY DEF ReadyForData
    <2>1. pc[Client] = "established" /\ pc[Server] = "established"
      BY DEF Established
    <2>2. /\ clientSeq[Client] = 1 /\ clientSeq[Server] = 1
          /\ serverSeq[Client] = 1 /\ serverSeq[Server] = 1
      BY <2>1 DEF NumberInv, Sent, Committed
    <2>3. clientSeq = [s \in Side |-> 1] /\ serverSeq = [s \in Side |-> 1]
      BY <2>2 DEF TypeOK, Side
    <2>4. ASSUME faults = 0 PROVE wire = [s \in Side |-> <<>>]
      <3>1. PICK v \in BOOLEAN : v = client_verify
        BY VerifyType
      <3>2. /\ ServerRead(v, "established") = ClientSent(v, "established")
            /\ ClientRead(v, "established") = ServerSent(v, "established")
            /\ ClientSent(v, "established") \in Nat /\ ServerSent(v, "established") \in Nat
        BY DEF ServerRead, ClientSent, ClientRead, ServerSent
      <3>3. /\ Len(wire[Client]) + ServerRead(v, "established") = ClientSent(v, "established")
            /\ Len(wire[Server]) + ClientRead(v, "established") = ServerSent(v, "established")
        BY <2>1, <2>4, <3>1 DEF ScriptInv, Calm, FlightInv, InFlight
      <3>4. /\ wire[Client] \in Seq(Elems(wire[Client]))
            /\ wire[Server] \in Seq(Elems(wire[Server]))
            /\ wire = [s \in Side |-> wire[s]]
        BY PeerOf DEF TypeOK, RecordSeqs
      <3>5. Len(wire[Client]) \in Nat /\ Len(wire[Server]) \in Nat
        BY <3>4
      <3>6. Len(wire[Client]) = 0 /\ Len(wire[Server]) = 0
        BY <3>2, <3>3, <3>5
      <3>7. wire[Client] = <<>> /\ wire[Server] = <<>>
        BY <3>4, <3>6
      <3> QED
        BY <3>4, <3>7 DEF Side
    <2> QED
      BY <2>3, <2>4
  <1> QED
    BY <1>1, TypeCorrect, ScriptCorrect, PTL

-----------------------------------------------------------------------------
(* A failed handshake.                                                     *)

\* Each side is at a step of its own part of the handshake.
ClientWaits == {"recv_server_hello", "recv_server_cert", "recv_server_key_exchange",
                "recv_cert_request_or_done", "recv_server_hello_done", "recv_server_ccs",
                "recv_server_finished"}
ServerWaits == {"recv_client_hello", "recv_client_cert", "recv_client_key_exchange",
                "recv_cert_verify", "recv_client_ccs", "recv_client_finished"}
RoleInv == pc[Client] \notin ServerWaits /\ pc[Server] \notin ClientWaits

LEMMA RoleCorrect == Spec => []RoleInv
  <1>1. Init => RoleInv
    <2> SUFFICES ASSUME Init PROVE RoleInv
      OBVIOUS
    <2>1. pc[Client] = "send_client_hello" /\ pc[Server] = "recv_client_hello"
      BY PeerOf, SidesAssumption DEF Init
    <2> QED
      BY <2>1 DEF RoleInv, ClientWaits, ServerWaits
  <1>2. ASSUME TypeOK, RoleInv, [Next]_vars PROVE RoleInv'
    <2>0. pc = [s \in Side |-> pc[s]]
      BY <1>2 DEF TypeOK
    <2>1. CASE ClientSend \/ ClientRecv
      <3>1. pc'[Client] \notin ServerWaits /\ pc'[Server] = pc[Server]
        BY <2>0, <2>1, PeerOf, SidesAssumption
        DEF ServerWaits, ClientSend, ClientRecv, Send, Recv, Goto, SendClientHello, SendClientCertificate,
       SendClientKeyExchange, SendCertificateVerify, SendClientChangeCipherSpec,
       SendClientFinished, RecvServerHello, RecvServerCertificate, RecvServerKeyExchange,
       RecvCertificateRequest, AfterHelloDone, RecvServerHelloDone,
       RecvServerHelloDoneNoRequest, RecvServerChangeCipherSpec, RecvServerFinished
      <3> QED
        BY <1>2, <3>1 DEF RoleInv
    <2>2. CASE ServerSend \/ ServerRecv
      <3>1. pc'[Server] \notin ClientWaits /\ pc'[Client] = pc[Client]
        BY <2>0, <2>2, PeerOf, SidesAssumption
        DEF ClientWaits, ServerSend, ServerRecv, Send, Recv, Goto, SendServerHello, SendServerCertificate,
       SendServerKeyExchange, SendCertificateRequest, SendServerHelloDone,
       SendServerChangeCipherSpec, SendServerFinished, RecvClientHello,
       RecvClientCertificate, RecvClientKeyExchange, RecvCertificateVerify,
       RecvClientChangeCipherSpec, RecvClientFinished
      <3> QED
        BY <1>2, <3>1 DEF RoleInv
    <2>3. CASE Quiet
      <3>1. /\ pc'[Client] = pc[Client] \/ pc'[Client] = "failed"
            /\ pc'[Server] = pc[Server] \/ pc'[Server] = "failed"
        BY <1>2, <2>3, QuietEffect, PeerOf
      <3> QED
        BY <1>2, <3>1 DEF RoleInv, ClientWaits, ServerWaits
    <2> QED
      BY <1>2, <2>1, <2>2, <2>3, NextCases
  <1> QED
    BY <1>1, <1>2, TypeCorrect, PTL DEF Spec

\* What an undisturbed peer sends is accepted: the client's checks,
LEMMA ClientAccepts ==
  ASSUME TypeOK, RoleInv, NumberInv, ScriptInv, Calm, Compatible, Waiting(Client),
         Incoming(Client)
  PROVE  Acceptable(Client)
  <1>1. PICK v \in BOOLEAN : v = client_verify
    BY VerifyType
  <1>2. ClientScript /\ FlightInv
    BY DEF ScriptInv
  <1>3. \A step : pc[Client] = step =>
            First(Client) = ServerFlow(v)[ClientRead(v, step) + 1]
    BY <1>1, <1>2, ClientFirst
  <1>4. CASE pc[Client] = "recv_server_hello"
    <2>1. First(Client) = Plain("server_hello")
      BY <1>3, <1>4 DEF ServerFlow, ClientRead
    <2> QED
      BY <1>4, <2>1 DEF Acceptable, ServerHelloOK, Parses, Plain, Message
  <1>5. CASE pc[Client] = "recv_server_cert"
    <2>1. First(Client) = Plain("certificate")
      BY <1>3, <1>5 DEF ServerFlow, ClientRead
    <2>2. First(Client).type = "certificate" /\ First(Client).val = "sent"
      BY <2>1 DEF Plain, Message
    <2> QED
      BY <1>5, <2>2 DEF Acceptable, ServerCertOK, Parses, Compatible
  <1>6. CASE pc[Client] = "recv_server_key_exchange"
    <2>1. First(Client) = ServerKeyExchange
      BY <1>3, <1>6 DEF ServerFlow, ClientRead
    <2>2. /\ First(Client).type = "server_key_exchange" /\ First(Client).val = "sent"
          /\ First(Client).rnd = Randoms
      BY <2>1 DEF ServerKeyExchange, Message
    <2>3. certsOf[Client] = "sent" /\ random[Client] = Randoms
      BY <1>2, <1>6 DEF ClientScript, NoCert
    <2> QED
      BY <1>6, <2>2, <2>3 DEF Acceptable, ServerKeyExchangeOK, Intact
  <1>7. CASE pc[Client] = "recv_cert_request_or_done"
    <2>1. CASE v
      <3>1. First(Client) = Plain("certificate_request")
        BY <1>3, <1>7, <2>1 DEF ServerFlow, ClientRead
      <3>2. First(Client).type = "certificate_request" /\ First(Client).val = "sent"
        BY <3>1 DEF Plain, Message
      <3>3. config.clientCert = "good"
        BY <1>1, <2>1 DEF Compatible
      <3>4. clientCerts
        BY <1>2, <1>7, <3>3 DEF ClientScript, Asking
      <3>5. CertRequestOK
        BY <3>2, <3>3, <3>4 DEF CertRequestOK, Parses
      <3> QED
        BY <1>7, <3>5 DEF Acceptable
    <2>2. CASE ~v
      <3>1. First(Client) = Plain("server_hello_done")
        BY <1>3, <1>7, <2>2 DEF ServerFlow, ClientRead
      <3>2. ServerHelloDoneOK
        BY <3>1 DEF ServerHelloDoneOK, Intact, Plain, Message
      <3> QED
        BY <1>7, <3>2 DEF Acceptable
    <2> QED
      BY <2>1, <2>2
  <1>8. CASE pc[Client] = "recv_server_hello_done"
    <2>1. v
      BY <1>1, <1>2, <1>8 DEF ClientScript, Verifying
    <2>2. First(Client) = Plain("server_hello_done")
      BY <1>3, <1>8, <2>1, HelloDoneTable
    <2>3. ServerHelloDoneOK
      BY <2>2 DEF ServerHelloDoneOK, Intact, Plain, Message
    <2> QED
      BY <1>8, <2>3 DEF Acceptable
  <1>9. CASE pc[Client] = "recv_server_ccs"
    <2>1. First(Client) = Plain("change_cipher_spec")
      BY <1>3, <1>9 DEF ServerFlow, ClientRead
    <2>2. ChangeCipherSpecOK(Client)
      BY <2>1 DEF ChangeCipherSpecOK, Intact, Plain, Message
    <2> QED
      BY <1>9, <2>2 DEF Acceptable
  <1>10. CASE pc[Client] = "recv_server_finished"
    <2>1. First(Client) = ServerFinished(v)
      BY <1>3, <1>10 DEF ServerFlow, ClientRead
    <2>2. /\ First(Client).type = "server_finished" /\ First(Client).val = "sent"
          /\ First(Client).key = Master /\ First(Client).seq = 0
          /\ First(Client).over = Log10(v)
      BY <2>1 DEF ServerFinished, Message
    <2>3. /\ secret[Client] = Master /\ serverSeq[Client] = 0
          /\ transcript[Client] = Log10(v)
      BY <1>1, <1>2, <1>10 DEF ClientScript, Keyed, Hashed, NumberInv
    <2>4. FinishedOK(Client, "server_finished", serverSeq[Client])
      BY <2>2, <2>3 DEF FinishedOK, Intact
    <2> QED
      BY <1>10, <2>4 DEF Acceptable
  <1>11. pc[Client] \in ClientWaits
    BY DEF Waiting, RecvSteps, RoleInv, ClientWaits, ServerWaits
  <1> QED
    BY <1>4, <1>5, <1>6, <1>7, <1>8, <1>9, <1>10, <1>11 DEF ClientWaits

\* and the server's.
LEMMA ServerAccepts ==
  ASSUME TypeOK, RoleInv, NumberInv, ScriptInv, Calm, Compatible, Waiting(Server),
         Incoming(Server)
  PROVE  Acceptable(Server)
  <1>1. PICK v \in BOOLEAN : v = client_verify
    BY VerifyType
  <1>2. ServerScript /\ FlightInv
    BY DEF ScriptInv
  <1>3. \A step : pc[Server] = step =>
            First(Server) = ClientFlow(v)[ServerRead(v, step) + 1]
    BY <1>1, <1>2, ServerFirst
  <1>4. CASE pc[Server] = "recv_client_hello"
    <2>1. First(Server) = Plain("client_hello")
      BY <1>3, <1>4 DEF ClientFlow, ServerRead
    <2> QED
      BY <1>4, <2>1 DEF Acceptable, ClientHelloOK, Parses, Plain, Message
  <1>5. CASE pc[Server] = "recv_client_cert"
    <2>1. v
      BY <1>1, <1>2, <1>5 DEF ServerScript, Verifying
    <2>2. First(Server) = Plain("certificate")
      BY <1>3, <1>5, <2>1, ClientCertTable
    <2>3. First(Server).type = "certificate" /\ First(Server).val = "sent"
      BY <2>2 DEF Plain, Message
    <2>4. config.clientCert = "good"
      BY <1>1, <2>1 DEF Compatible
    <2> QED
      BY <1>5, <2>3, <2>4 DEF Acceptable, ClientCertOK, Intact
  <1>6. CASE pc[Server] = "recv_client_key_exchange"
    <2>1. First(Server) = Plain("client_key_exchange")
      BY <1>3, <1>6 DEF ClientFlow, ServerRead
    <2>2. ClientKeyExchangeOK
      BY <2>1 DEF ClientKeyExchangeOK, Intact, Plain, Message
    <2> QED
      BY <1>6, <2>2 DEF Acceptable
  <1>7. CASE pc[Server] = "recv_cert_verify"
    <2>1. v /\ transcript[Server] = Log8(v)
      BY <1>1, <1>2, <1>7 DEF ServerScript, Verifying, Hashed
    <2>2. First(Server) = CertificateVerify(v)
      BY <1>3, <1>7, <2>1, CertVerifyTable
    <2>3. /\ First(Server).type = "certificate_verify" /\ First(Server).val = "sent"
          /\ First(Server).over = Log8(v)
      BY <2>2 DEF CertificateVerify, Message
    <2>4. CertVerifyOK
      BY <2>1, <2>3 DEF CertVerifyOK, Intact
    <2> QED
      BY <1>7, <2>4 DEF Acceptable
  <1>8. CASE pc[Server] = "recv_client_ccs"
    <2>1. First(Server) = Plain("change_cipher_spec")
      BY <1>3, <1>8 DEF ClientFlow, ServerRead
    <2>2. ChangeCipherSpecOK(Server)
      BY <2>1 DEF ChangeCipherSpecOK, Intact, Plain, Message
    <2> QED
      BY <1>8, <2>2 DEF Acceptable
  <1>9. CASE pc[Server] = "recv_client_finished"
    <2>1. First(Server) = ClientFinished(v)
      BY <1>3, <1>9 DEF ClientFlow, ServerRead
    <2>2. /\ First(Server).type = "client_finished" /\ First(Server).val = "sent"
          /\ First(Server).key = Master /\ First(Server).seq = 0
          /\ First(Server).over = Log9(v)
      BY <2>1 DEF ClientFinished, Message
    <2>3. /\ secret[Server] = Master /\ clientSeq[Server] = 0
          /\ transcript[Server] = Log9(v)
      BY <1>1, <1>2, <1>9 DEF ServerScript, Keyed, Hashed, NumberInv, Committed
    <2>4. FinishedOK(Server, "client_finished", clientSeq[Server])
      BY <2>2, <2>3 DEF FinishedOK, Intact
    <2> QED
      BY <1>9, <2>4 DEF Acceptable
  <1>10. pc[Server] \in ServerWaits
    BY DEF Waiting, RecvSteps, RoleInv, ClientWaits, ServerWaits
  <1> QED
    BY <1>4, <1>5, <1>6, <1>7, <1>8, <1>9, <1>10 DEF ServerWaits

\* What FailsForAReason counts as a reason.
Excused == \/ faults > 0 \/ Timeouts \/ ~Compatible
           \/ \E t \in Side : closed[t] /\ pc[t] # "failed"

\* A reason stays one.
LEMMA ExcuseStays ==
  ASSUME TypeOK, Excused, [Next]_vars
  PROVE  Excused'
  <1>0. pc = [s \in Side |-> pc[s]] /\ closed = [s \in Side |-> closed[s]]
    BY DEF TypeOK
  <1>1. config' = config /\ (faults > 0 => faults' > 0)
    <2>1. CASE Quiet
      <3>1. config' = config
        BY <2>1, QuietEffect
      <3>2. faults' = faults \/ faults' = faults + 1
        BY <2>1
        DEF Quiet, vars, Other, Reject, RecvFails, SendFails, ServerCannotGoOn,
            FailWithAlert, FailSilently, CloseFailed, Crash, CloseSocket, NetworkFault
      <3> QED
        BY <3>1, <3>2 DEF TypeOK
    <2>2. CASE ClientSend \/ ClientRecv \/ ServerSend \/ ServerRecv
      BY <2>2, MessageEffect
    <2> QED
      BY <2>1, <2>2, NextCases
  <1>2. Compatible' = Compatible
    BY <1>1, VerifyType DEF Compatible
  <1>3. ASSUME NEW t \in Side, closed[t], pc[t] # "failed"
        PROVE  closed'[t] /\ pc'[t] # "failed"
    <2>1. CASE ClientSend \/ ClientRecv \/ ServerSend \/ ServerRecv
      <3>1. PICK s \in Side : /\ pc[s] # "failed" /\ ~closed[s] /\ pc'[s] # "failed"
                              /\ pc'[Peer(s)] = pc[Peer(s)]
        BY <2>1, MessageEffect
      <3>2. t = Peer(s)
        BY <1>3, <3>1 DEF Side, Peer
      <3> QED
        BY <1>3, <2>1, <3>1, <3>2, MessageEffect
    <2>2. CASE UNCHANGED vars
      BY <1>3, <2>2 DEF vars
    <2>3. ASSUME NEW s \in Side, Reject(s) \/ RecvFails(s) \/ SendFails(s)
                                  \/ (s = Server /\ ServerCannotGoOn)
          PROVE  closed'[t] /\ pc'[t] # "failed"
      <3>1. ~closed[s] /\ closed' = closed /\ pc' = [pc EXCEPT ![s] = "failed"]
        BY <2>3 DEF Reject, RecvFails, SendFails, ServerCannotGoOn, FailWithAlert,
           FailSilently, Waiting, At, Goto
      <3> QED
        BY <1>0, <1>3, <3>1
    <2>4. ASSUME NEW s \in Side, CloseFailed(s) \/ Crash(s)
          PROVE  closed'[t] /\ pc'[t] # "failed"
      BY <1>0, <1>3, <2>4 DEF CloseFailed, Crash, CloseSocket
    <2>5. ASSUME NEW s \in Side, NetworkFault(s) PROVE closed'[t] /\ pc'[t] # "failed"
      BY <1>3, <2>5 DEF NetworkFault
    <2> QED
      BY <2>1, <2>2, <2>3, <2>4, <2>5, NextCases DEF Quiet, Other
  <1> QED
    BY <1>1, <1>2, <1>3 DEF Excused

\* The first failure has one.
LEMMA FirstFailure ==
  ASSUME TypeOK, RoleInv, NumberInv, ScriptInv, [Next]_vars,
         pc[Client] # "failed", pc[Server] # "failed",
         NEW s \in Side, pc'[s] = "failed"
  PROVE  Excused'
  <1> SUFFICES ASSUME ~Excused PROVE Excused'
    BY ExcuseStays
  <1>0. pc = [x \in Side |-> pc[x]]
    BY DEF TypeOK
  <1>1. Calm /\ Compatible /\ ~Timeouts /\ ~closed[Client] /\ ~closed[Server]
    BY PeerOf DEF Excused, Calm, TypeOK
  <1>2. Quiet
    <2> SUFFICES ASSUME ClientSend \/ ClientRecv \/ ServerSend \/ ServerRecv PROVE FALSE
      BY NextCases
    <2>1. PICK t \in Side : pc'[t] # "failed" /\ pc'[Peer(t)] = pc[Peer(t)]
      BY MessageEffect
    <2>2. s = t \/ s = Peer(t)
      BY DEF Side, Peer
    <2>3. pc[s] # "failed"
      BY DEF Side
    <2> QED
      BY <2>1, <2>2, <2>3
  <1>3. ~UNCHANGED vars
    BY DEF vars, Side
  <1>4. ASSUME NEW t \in Side, CloseFailed(t) \/ Crash(t) \/ NetworkFault(t) PROVE FALSE
    BY <1>4 DEF CloseFailed, Crash, CloseSocket, NetworkFault, Side
  <1>5. ASSUME NEW t \in Side, RecvFails(t) PROVE FALSE
    BY <1>1, <1>5, PeerOf DEF RecvFails, Side
  <1>6. ASSUME NEW t \in Side, SendFails(t) PROVE FALSE
    BY <1>1, <1>6, PeerOf DEF SendFails, Side
  <1>7. ~ServerCannotGoOn
    BY <1>1 DEF ServerCannotGoOn, Compatible, client_verify
  <1>8. ASSUME NEW t \in Side, Reject(t) PROVE FALSE
    <2>1. Waiting(t) /\ Incoming(t) /\ ~Acceptable(t)
      BY <1>8 DEF Reject
    <2> QED
      BY <1>1, <2>1, ClientAccepts, ServerAccepts DEF Side
  <1> QED
    BY <1>2, <1>3, <1>4, <1>5, <1>6, <1>7, <1>8 DEF Quiet, Other

\* The TLCP handshake of two compatible peers fails only because of the
\* network, a receive timeout or the end of a process: what one undisturbed
\* peer sends, each check of the other accepts.
THEOREM FailsCorrect == Spec => []FailsForAReason
  <1>1. Init => FailsForAReason
    <2> SUFFICES ASSUME Init PROVE FailsForAReason
      OBVIOUS
    <2>1. pc[Client] = "send_client_hello" /\ pc[Server] = "recv_client_hello"
      BY PeerOf, SidesAssumption DEF Init
    <2> QED
      BY <2>1 DEF FailsForAReason, Side
  <1>2. ASSUME TypeOK, RoleInv, NumberInv, ScriptInv, FailsForAReason, [Next]_vars
        PROVE  FailsForAReason'
    <2>1. ASSUME NEW s \in Side, pc'[s] = "failed" PROVE Excused'
      <3>1. CASE pc[Client] # "failed" /\ pc[Server] # "failed"
        BY <1>2, <2>1, <3>1, FirstFailure
      <3>2. CASE \E t \in Side : pc[t] = "failed"
        BY <1>2, <3>2, ExcuseStays DEF FailsForAReason, Excused
      <3> QED
        BY <3>1, <3>2, PeerOf
    <2> QED
      BY <2>1 DEF FailsForAReason, Excused
  <1> QED
    BY <1>1, <1>2, TypeCorrect, RoleCorrect, ScriptCorrect, PTL DEF Spec
=============================================================================
