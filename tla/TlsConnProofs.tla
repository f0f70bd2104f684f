--------------------------- MODULE TlsConnProofs ---------------------------
(***************************************************************************)
(* Proofs about TlsConn, for every value of its constants.                 *)
(***************************************************************************)
EXTENDS TlsConn, SequenceTheorems, TLAPS

\* The sequence number tls_seq_num_incr returns is again below SeqMod.
LEMMA IncrType == \A n \in 0 .. SeqMod - 1 : tls_seq_num_incr(n) \in 0 .. SeqMod - 1
  BY BoundsAssumption DEF tls_seq_num_incr

\* The peer of a side is the other side.
LEMMA PeerType == \A s \in Side : Peer(s) \in Side /\ Peer(s) # s /\ Peer(Peer(s)) = s
  BY SidesAssumption DEF Side, Peer

\* What a decrypted record carries is a sequence of bytes.
LEMMA DataType == \A r \in Records : DataOf(r) \in Seq(Bytes)
  <1> SUFFICES ASSUME NEW r \in Records PROVE DataOf(r) \in Seq(Bytes)
    OBVIOUS
  <1>1. r.len \in Nat /\ r.from \in Nat
    BY DEF Records
  <1>2. CASE r.type = "app"
    <2>1. [i \in 1 .. r.len |-> r.from + i] \in Seq(Nat)
      BY <1>1
    <2> QED
      BY <1>2, <2>1 DEF DataOf, Bytes
  <1>3. CASE r.type # "app"
    BY <1>3 DEF DataOf, AlertBytes, Junk, Bytes
  <1> QED
    BY <1>2, <1>3

\* A network fault turns a sequence of records into a sequence of records.
LEMMA FaultType ==
  ASSUME NEW q \in Seq(Records), NEW k \in 1 .. Len(q)
  PROVE  /\ Altered(q, k) \in Seq(Records)
         /\ Without(q, k) \in Seq(Records)
         /\ Twice(q, k) \in Seq(Records)
         /\ k < Len(q) => Swapped(q, k) \in Seq(Records)
  <1>0. Len(q) \in Nat /\ DOMAIN q = 1 .. Len(q)
    OBVIOUS
  <1>1. Altered(q, k) \in Seq(Records)
    <2>1. q[k] \in Records
      OBVIOUS
    <2>2. [q[k] EXCEPT !.ok = FALSE] \in Records
      BY <2>1 DEF Records
    <2> QED
      BY <2>2 DEF Altered
  <1>2. Without(q, k) \in Seq(Records)
    <2>1. Len(q) - 1 \in Nat
      BY <1>0
    <2>2. \A i \in 1 .. Len(q) - 1 : (IF i < k THEN q[i] ELSE q[i + 1]) \in Records
      BY <1>0
    <2> QED
      BY <2>1, <2>2 DEF Without
  <1>3. Twice(q, k) \in Seq(Records)
    <2>1. \A i \in 1 .. Len(q) + 1 : (IF i <= k THEN q[i] ELSE q[i - 1]) \in Records
      BY <1>0
    <2> QED
      BY <1>0, <2>1 DEF Twice
  <1>4. k < Len(q) => Swapped(q, k) \in Seq(Records)
    BY <1>0 DEF Swapped
  <1> QED
    BY <1>1, <1>2, <1>3, <1>4


-----------------------------------------------------------------------------
(* Type correctness.                                                       *)

\* The record tls_encrypt_send builds is a record.
LEMMA ProtectedType ==
  ASSUME TypeOK, NEW s \in Side, NEW n \in Nat,
         NEW type \in {"app", "close_notify"}
  PROVE  Protected(s, type, n) \in Records
  BY DEF TypeOK, Protected, Records

\* tls_encrypt_send keeps the types of what it changes.
LEMMA EncryptSendType ==
  ASSUME TypeOK, NEW s \in Side, NEW n \in Nat, NEW type \in {"app", "close_notify"},
         \/ tls_encrypt_send(s, type, n)
         \/ EncryptSendFails(s, type, n)
  PROVE  /\ log' \in [Side -> Seq(Records)]
         /\ total' \in [Side -> Nat]
         /\ wire' \in [Side -> Seq(Records)]
         /\ seqW' \in [Side -> 0 .. SeqMod - 1]
  <1>1. Protected(s, type, n) \in Records
    BY ProtectedType
  <1>2. tls_seq_num_incr(seqW[s]) \in 0 .. SeqMod - 1
    BY IncrType DEF TypeOK
  <1>3. Protect(s, type, n)
    BY DEF tls_encrypt_send, EncryptSendFails
  <1>4. /\ log' \in [Side -> Seq(Records)]
        /\ total' \in [Side -> Nat]
        /\ seqW' \in [Side -> 0 .. SeqMod - 1]
    BY <1>1, <1>2, <1>3 DEF TypeOK, Protect
  <1>5. wire' \in [Side -> Seq(Records)]
    <2>1. CASE tls_encrypt_send(s, type, n)
      BY <1>1, <2>1 DEF TypeOK, tls_encrypt_send
    <2>2. CASE EncryptSendFails(s, type, n)
      BY <2>2 DEF TypeOK, EncryptSendFails
    <2> QED
      BY <2>1, <2>2
  <1> QED
    BY <1>4, <1>5

\* Handing out part of a buffer leaves two sequences of bytes.
LEMMA HandOutType ==
  ASSUME TypeOK, NEW s \in Side, NEW data \in Seq(Bytes), NEW n \in Nat,
         HandOut(s, data, n)
  PROVE  got' \in [Side -> Seq(Bytes)] /\ pending' \in [Side -> Seq(Bytes)]
  <1> DEFINE k == Least(n, Len(data))
  <1>1. k \in 0 .. Len(data)
    BY DEF Least
  <1>2. SubSeq(data, 1, k) \in Seq(Bytes) /\ SubSeq(data, k + 1, Len(data)) \in Seq(Bytes)
    BY <1>1
  <1>3. got[s] \o SubSeq(data, 1, k) \in Seq(Bytes)
    BY <1>2 DEF TypeOK
  <1> QED
    BY <1>2, <1>3 DEF TypeOK, HandOut

\* Accepting or rejecting a record keeps the types of what it changes.
LEMMA TakeType ==
  ASSUME TypeOK, NEW s \in Side, wire[Peer(s)] # <<>>, TakeRecord(s)
  PROVE  /\ wire' \in [Side -> Seq(Records)]
         /\ Head(wire[Peer(s)]) \in Records
  <1>1. Peer(s) \in Side
    BY PeerType
  <1>2. wire[Peer(s)] \in Seq(Records)
    BY <1>1 DEF TypeOK
  <1>3. Tail(wire[Peer(s)]) \in Seq(Records) /\ Head(wire[Peer(s)]) \in Records
    BY <1>2
  <1> QED
    BY <1>1, <1>3 DEF TypeOK, TakeRecord

LEMMA AcceptType ==
  ASSUME TypeOK, NEW s \in Side, AcceptRecord(s)
  PROVE  /\ wire' \in [Side -> Seq(Records)]
         /\ seqR' \in [Side -> 0 .. SeqMod - 1]
         /\ acc' \in [Side -> Nat]
         /\ DataOf(Head(wire[Peer(s)])) \in Seq(Bytes)
  <1>1. wire' \in [Side -> Seq(Records)] /\ Head(wire[Peer(s)]) \in Records
    BY TakeType DEF AcceptRecord
  <1>2. tls_seq_num_incr(seqR[s]) \in 0 .. SeqMod - 1
    BY IncrType DEF TypeOK
  <1>3. seqR' \in [Side -> 0 .. SeqMod - 1]
    BY <1>2 DEF TypeOK, AcceptRecord
  <1>4. acc' \in [Side -> Nat]
    <2>1. acc[s] + 1 \in Nat
      BY DEF TypeOK
    <2> QED
      BY <2>1 DEF TypeOK, AcceptRecord
  <1> QED
    BY <1>1, <1>3, <1>4, DataType

LEMMA RejectType ==
  ASSUME TypeOK, NEW s \in Side, RejectRecord(s)
  PROVE  /\ wire' \in [Side -> Seq(Records)]
         /\ pending' \in [Side -> Seq(Bytes)]
         /\ st' \in [Side -> {"open", "closing", "done", "failed"}]
  <1>1. wire' \in [Side -> Seq(Records)] /\ Head(wire[Peer(s)]) \in Records
    BY TakeType DEF RejectRecord
  <1>2. LeftLen(Head(wire[Peer(s)])) \subseteq Nat
    <2>1. Len(DataOf(Head(wire[Peer(s)]))) \in Nat
      BY <1>1, DataType
    <2> QED
      BY <2>1, SizesAssumption DEF LeftLen
  <1>3. PICK n \in LeftLen(Head(wire[Peer(s)])) :
          pending' = [pending EXCEPT ![s] = [i \in 1 .. n |-> Junk]]
    BY DEF RejectRecord
  <1>4. n \in Nat
    BY <1>2, <1>3
  <1>5. [i \in 1 .. n |-> Junk] \in Seq(Bytes)
    BY <1>4 DEF Junk, Bytes
  <1> QED
    BY <1>1, <1>3, <1>5 DEF TypeOK, RejectRecord

\* Every step of the connection keeps the type invariant.
LEMMA TypeStep == TypeOK /\ [Next]_vars => TypeOK'
  <1> SUFFICES ASSUME TypeOK, [Next]_vars PROVE TypeOK'
    OBVIOUS
  <1>1. ASSUME NEW s \in Side, NEW n \in SendSizes, tls_send(s, n) PROVE TypeOK'
    <2>1. Least(n, MaxPlaintext) \in Nat
      BY SizesAssumption DEF Least
    <2>2. /\ log' \in [Side -> Seq(Records)]
          /\ total' \in [Side -> Nat]
          /\ wire' \in [Side -> Seq(Records)]
          /\ seqW' \in [Side -> 0 .. SeqMod - 1]
      BY <1>1, <2>1, EncryptSendType DEF tls_send
    <2>3. st' \in [Side -> {"open", "closing", "done", "failed"}]
      BY <1>1 DEF TypeOK, tls_send, EncryptSendFails
    <2> QED
      BY <1>1, <2>2, <2>3 DEF TypeOK, tls_send
  <1>2. ASSUME NEW s \in Side, NEW n \in RecvSizes, tls_recv(s, n) PROVE TypeOK'
    <2>0. n \in Nat
      BY SizesAssumption
    <2>1. CASE RecvBuffered(s, n)
      <3>1. pending[s] \in Seq(Bytes)
        BY DEF TypeOK
      <3> QED
        BY <2>0, <2>1, <3>1, HandOutType DEF TypeOK, RecvBuffered
    <2>2. CASE RecvData(s, n)
      BY <2>0, <2>2, AcceptType, HandOutType DEF TypeOK, RecvData
    <2>3. CASE RecvCloseNotify(s)
      <3>1. AlertBytes \in Seq(Bytes)
        BY DEF AlertBytes, Junk, Bytes
      <3> QED
        BY <2>3, <3>1, AcceptType DEF TypeOK, RecvCloseNotify
    <2>4. CASE RecvReject(s)
      <3>1. UNCHANGED <<seqR, acc>>
        BY <2>4 DEF RecvReject, RejectRecord
      <3> QED
        BY <2>4, <3>1, RejectType DEF TypeOK, RecvReject
    <2>5. CASE RecvEof(s)
      BY <2>5 DEF TypeOK, RecvEof
    <2>6. CASE RecvError(s)
      BY <2>6 DEF TypeOK, RecvError
    <2> QED
      BY <1>2, <2>1, <2>2, <2>3, <2>4, <2>5, <2>6 DEF tls_recv
  <1>3. ASSUME NEW s \in Side, ShutdownSend(s) PROVE TypeOK'
    <2>1. /\ log' \in [Side -> Seq(Records)]
          /\ total' \in [Side -> Nat]
          /\ wire' \in [Side -> Seq(Records)]
          /\ seqW' \in [Side -> 0 .. SeqMod - 1]
      BY <1>3, EncryptSendType DEF ShutdownSend
    <2>2. st' \in [Side -> {"open", "closing", "done", "failed"}]
      BY <1>3 DEF TypeOK, ShutdownSend, EncryptSendFails
    <2> QED
      BY <1>3, <2>1, <2>2 DEF TypeOK, ShutdownSend
  <1>4. ASSUME NEW s \in Side, EncryptSendRefused(s) PROVE TypeOK'
    BY <1>4 DEF TypeOK, EncryptSendRefused
  <1>5. ASSUME NEW s \in Side, ShutdownRecv(s) PROVE TypeOK'
    <2>1. CASE ShutdownAccept(s)
      BY <2>1, AcceptType DEF TypeOK, ShutdownAccept
    <2>2. CASE ShutdownReject(s)
      <3>1. UNCHANGED <<seqR, acc>>
        BY <2>2 DEF ShutdownReject, RejectRecord
      <3> QED
        BY <2>2, <3>1, RejectType DEF TypeOK, ShutdownReject
    <2>3. CASE ShutdownFail(s)
      BY <2>3 DEF TypeOK, ShutdownFail
    <2> QED
      BY <1>5, <2>1, <2>2, <2>3 DEF ShutdownRecv
  <1>6. ASSUME NEW s \in Side, Close(s) PROVE TypeOK'
    BY <1>6 DEF TypeOK, Close
  <1>7. ASSUME NEW s \in Side, NetworkFault(s) PROVE TypeOK'
    <2>1. PICK k \in 1 .. Len(wire[s]) :
            \/ wire' = [wire EXCEPT ![s] = Altered(@, k)]
            \/ wire' = [wire EXCEPT ![s] = Without(@, k)]
            \/ wire' = [wire EXCEPT ![s] = Twice(@, k)]
            \/ k < Len(wire[s]) /\ wire' = [wire EXCEPT ![s] = Swapped(@, k)]
      BY <1>7 DEF NetworkFault
    <2>2. wire[s] \in Seq(Records)
      BY DEF TypeOK
    <2>3. wire' \in [Side -> Seq(Records)]
      <3>1. /\ Altered(wire[s], k) \in Seq(Records)
            /\ Without(wire[s], k) \in Seq(Records)
            /\ Twice(wire[s], k) \in Seq(Records)
            /\ k < Len(wire[s]) => Swapped(wire[s], k) \in Seq(Records)
        BY <2>2, FaultType
      <3> QED
        BY <2>1, <3>1 DEF TypeOK
    <2> QED
      BY <1>7, <2>3 DEF TypeOK, NetworkFault
  <1>8. CASE UNCHANGED vars
    BY <1>8 DEF TypeOK, vars
  <1> QED
    BY <1>1, <1>2, <1>3, <1>4, <1>5, <1>6, <1>7, <1>8 DEF Next, Step

\* The variables of the connection keep their types whatever the peers, the
\* network and the sizes of the calls do.
THEOREM TypeCorrect == Spec => []TypeOK
  <1>1. Init => TypeOK
    BY BoundsAssumption DEF Init, TypeOK
  <1> QED
    BY <1>1, TypeStep, PTL DEF Spec


-----------------------------------------------------------------------------
(* Records are accepted in their turn.                                     *)

\* Below the modulus, a sequence number is the number of records before it.
LEMMA ModSmall == \A m \in Nat \ {0} : \A a \in 0 .. m - 1 : a % m = a
  OBVIOUS

LEMMA IncrSmall == NoWrap => \A n \in 0 .. MaxRecords : tls_seq_num_incr(n % SeqMod) = (n + 1) % SeqMod
  <1> SUFFICES ASSUME NoWrap, NEW n \in 0 .. MaxRecords
               PROVE  tls_seq_num_incr(n % SeqMod) = (n + 1) % SeqMod
    OBVIOUS
  <1>1. n % SeqMod = n
    BY BoundsAssumption, ModSmall DEF NoWrap
  <1> QED
    BY <1>1 DEF tls_seq_num_incr

\* Protecting a record extends the log of its side and changes nothing else.
LEMMA ProtectLog ==
  ASSUME TypeOK, LogInv, NoWrap, NEW s \in Side, NEW n \in Nat,
         NEW type \in {"app", "close_notify"}, Protect(s, type, n)
  PROVE  LogInv'
  <1>0. PICK L \in Nat : L = Len(log[s])
    BY DEF TypeOK
  <1> DEFINE r == Protected(s, type, n)
  <1>1. /\ L \in Nat /\ L < MaxRecords
        /\ log[s] \in Seq(Records) /\ r \in Records /\ total[s] \in Nat
    <2>1. r \in Records
      BY ProtectedType
    <2>2. log[s] \in Seq(Records) /\ total[s] \in Nat
      BY DEF TypeOK
    <2>3. L < MaxRecords
      BY <1>0 DEF Protect
    <2> QED
      BY <2>1, <2>2, <2>3
  <1>2. log'[s] = Append(log[s], r) /\ total'[s] = total[s] + n
    BY DEF TypeOK, Protect
  <1>3. /\ Len(log'[s]) = L + 1
        /\ \A i \in 1 .. L : log'[s][i] = log[s][i]
        /\ log'[s][L + 1] = r
    BY <1>0, <1>1, <1>2
  <1>4. r.ok /\ r.seq = (L + 1) % SeqMod /\ r.from = total[s] /\ r.len = n
    BY <1>0 DEF Protected, LogInv
  <1> HIDE DEF r
  <1>5. \A i \in 0 .. L : Upto(s, i)' = Upto(s, i)
    <2> SUFFICES ASSUME NEW i \in 0 .. L PROVE Upto(s, i)' = Upto(s, i)
      OBVIOUS
    <2>1. CASE i < L
      <3>1. i + 1 \in 1 .. L /\ i < L + 1
        BY <1>1, <2>1
      <3>2. Upto(s, i)' = log'[s][i + 1].from
        BY <1>3, <3>1 DEF Upto
      <3> QED
        BY <1>0, <1>3, <2>1, <3>1, <3>2 DEF Upto
    <2>2. CASE i = L
      BY <1>0, <1>1, <1>3, <1>4, <2>2 DEF Upto
    <2> QED
      BY <1>1, <2>1, <2>2
  <1>6. Upto(s, L + 1)' = total[s] + n
    BY <1>1, <1>2, <1>3 DEF Upto
  <1>7. seqW'[s] = (L + 1 + 1) % SeqMod
    <2>1. seqW'[s] = tls_seq_num_incr((L + 1) % SeqMod)
      BY <1>0 DEF TypeOK, LogInv, Protect
    <2>2. L + 1 \in 0 .. MaxRecords
      BY <1>1, BoundsAssumption
    <2> QED
      BY <2>1, <2>2, IncrSmall
  <1>8. ASSUME NEW i \in 1 .. L + 1
        PROVE  /\ log'[s][i].ok
               /\ log'[s][i].seq = i % SeqMod
               /\ log'[s][i].from + log'[s][i].len = Upto(s, i)'
               /\ Upto(s, i)' <= total'[s]
    <2>1. CASE i \in 1 .. L
      <3>1. /\ log[s][i].ok
            /\ log[s][i].seq = i % SeqMod
            /\ log[s][i].from + log[s][i].len = Upto(s, i)
            /\ Upto(s, i) <= total[s]
        BY <1>0, <2>1 DEF LogInv
      <3>2. log[s][i] \in Records
        BY <1>0, <1>1, <2>1
      <3>3. Upto(s, i) \in Nat
        BY <3>1, <3>2 DEF Records
      <3> QED
        BY <1>1, <1>2, <1>3, <1>5, <2>1, <3>1, <3>3
    <2>2. CASE i = L + 1
      BY <1>1, <1>2, <1>3, <1>4, <1>6, <2>2
    <2> QED
      BY <1>1, <2>1, <2>2
  <1>9. ASSUME NEW t \in Side, t # s
        PROVE  /\ log'[t] = log[t] /\ total'[t] = total[t] /\ seqW'[t] = seqW[t]
               /\ \A i : Upto(t, i)' = Upto(t, i)
    <2>1. log'[t] = log[t] /\ total'[t] = total[t] /\ seqW'[t] = seqW[t]
      BY <1>9 DEF TypeOK, Protect
    <2> QED
      BY <2>1 DEF Upto
  <1>10. Upto(s, 0)' = 0
    BY <1>1, <1>5 DEF LogInv
  <1> QED
    <2> SUFFICES ASSUME NEW t \in Side
                 PROVE  /\ Len(log'[t]) <= MaxRecords
                        /\ seqW'[t] = (Len(log'[t]) + 1) % SeqMod
                        /\ Upto(t, 0)' = 0
                        /\ \A i \in 1 .. Len(log'[t]) :
                            /\ log'[t][i].ok
                            /\ log'[t][i].seq = i % SeqMod
                            /\ log'[t][i].from + log'[t][i].len = Upto(t, i)'
                            /\ Upto(t, i)' <= total'[t]
      BY DEF LogInv
    <2>1. CASE t = s
      <3>1. L + 1 <= MaxRecords
        BY <1>1, BoundsAssumption
      <3> QED
        BY <1>3, <1>7, <1>8, <1>10, <2>1, <3>1
    <2>2. CASE t # s
      BY <1>9, <2>2 DEF LogInv
    <2> QED
      BY <2>1, <2>2


\* A record that is put on the wire is the last of the log.
LEMMA ProtectWire ==
  ASSUME TypeOK, WireInv, NEW s \in Side, NEW n \in Nat,
         NEW type \in {"app", "close_notify"}, Protect(s, type, n),
         \/ wire' = [wire EXCEPT ![s] = Append(@, Protected(s, type, n))]
         \/ wire' = wire
  PROVE  WireInv'
  <1> DEFINE r == Protected(s, type, n)
  <1>1. log[s] \in Seq(Records) /\ wire[s] \in Seq(Records) /\ r \in Records
    BY ProtectedType DEF TypeOK
  <1>2. log'[s] = Append(log[s], r)
    BY DEF TypeOK, Protect
  <1> HIDE DEF r
  <1>3. /\ Len(log'[s]) = Len(log[s]) + 1
        /\ \A i \in 1 .. Len(log[s]) : log'[s][i] = log[s][i]
        /\ log'[s][Len(log[s]) + 1] = r
    BY <1>1, <1>2
  <1>4. ASSUME NEW k \in 1 .. Len(wire'[s]), wire'[s][k].ok
        PROVE  \E i \in 1 .. Len(log'[s]) : wire'[s][k] = log'[s][i]
    <2>1. ASSUME NEW j \in 1 .. Len(wire[s]), wire'[s][k] = wire[s][j]
          PROVE  \E i \in 1 .. Len(log'[s]) : wire'[s][k] = log'[s][i]
      <3>1. PICK i \in 1 .. Len(log[s]) : wire[s][j] = log[s][i]
        BY <1>4, <2>1 DEF WireInv
      <3>2. i \in 1 .. Len(log'[s]) /\ log'[s][i] = log[s][i]
        BY <1>1, <1>3, <3>1
      <3> QED
        BY <2>1, <3>1, <3>2
    <2>2. CASE wire' = wire
      BY <2>1, <2>2
    <2>3. CASE wire' = [wire EXCEPT ![s] = Append(@, Protected(s, type, n))]
      <3>1. wire'[s] = Append(wire[s], r)
        BY <2>3 DEF TypeOK, r
      <3>2. CASE k \in 1 .. Len(wire[s])
        <4>1. wire'[s][k] = wire[s][k]
          BY <1>1, <3>1, <3>2
        <4> QED
          BY <2>1, <3>2, <4>1
      <3>3. CASE k = Len(wire[s]) + 1
        <4>1. wire'[s][k] = r
          BY <1>1, <3>1, <3>3
        <4>2. Len(log[s]) + 1 \in 1 .. Len(log'[s])
          BY <1>1, <1>3
        <4> QED
          BY <1>3, <4>1, <4>2
      <3>4. Len(wire'[s]) = Len(wire[s]) + 1
        BY <1>1, <3>1
      <3> QED
        BY <1>1, <3>2, <3>3, <3>4
    <2> QED
      BY <2>2, <2>3
  <1>5. ASSUME NEW t \in Side, t # s
        PROVE  log'[t] = log[t] /\ wire'[t] = wire[t]
    BY <1>5 DEF TypeOK, Protect
  <1> QED
    <2> SUFFICES ASSUME NEW t \in Side, NEW k \in 1 .. Len(wire'[t]), wire'[t][k].ok
                 PROVE  \E i \in 1 .. Len(log'[t]) : wire'[t][k] = log'[t][i]
      BY DEF WireInv
    <2>1. CASE t = s
      BY <1>4, <2>1
    <2>2. CASE t # s
      BY <1>5, <2>2 DEF WireInv
    <2> QED
      BY <2>1, <2>2

\* A step that only removes, repeats, moves or spoils records in flight.
LEMMA SubsetWire ==
  ASSUME WireInv, log' = log,
         \A t \in Side : \A k \in 1 .. Len(wire'[t]) :
            wire'[t][k].ok => \E j \in 1 .. Len(wire[t]) : wire'[t][k] = wire[t][j]
  PROVE  WireInv'
  <1> SUFFICES ASSUME NEW t \in Side, NEW k \in 1 .. Len(wire'[t]), wire'[t][k].ok
               PROVE  \E i \in 1 .. Len(log'[t]) : wire'[t][k] = log'[t][i]
    BY DEF WireInv
  <1>1. PICK j \in 1 .. Len(wire[t]) : wire'[t][k] = wire[t][j]
    OBVIOUS
  <1>2. PICK i \in 1 .. Len(log[t]) : wire[t][j] = log[t][i]
    BY <1>1 DEF WireInv
  <1> QED
    BY <1>1, <1>2

\* Reading a record from the socket.
LEMMA TakeWire ==
  ASSUME TypeOK, WireInv, NEW s \in Side, wire[Peer(s)] # <<>>, TakeRecord(s), log' = log
  PROVE  WireInv'
  <1>0. PICK p \in Side : p = Peer(s)
    BY PeerType
  <1>1. wire[p] \in Seq(Records) /\ wire[p] # <<>> /\ wire'[p] = Tail(wire[p])
    BY <1>0 DEF TypeOK, TakeRecord
  <1>2. ASSUME NEW k \in 1 .. Len(wire'[p])
        PROVE  k + 1 \in 1 .. Len(wire[p]) /\ wire'[p][k] = wire[p][k + 1]
    BY <1>1
  <1>3. ASSUME NEW t \in Side, t # p PROVE wire'[t] = wire[t]
    BY <1>0, <1>3 DEF TypeOK, TakeRecord
  <1>4. ASSUME NEW t \in Side, NEW k \in 1 .. Len(wire'[t])
        PROVE  \E j \in 1 .. Len(wire[t]) : wire'[t][k] = wire[t][j]
    <2>1. CASE t = p
      BY <1>2, <2>1
    <2>2. CASE t # p
      BY <1>3, <2>2
    <2> QED
      BY <2>1, <2>2
  <1> QED
    BY <1>4, SubsetWire

\* A network fault.
LEMMA FaultWire ==
  ASSUME TypeOK, WireInv, NEW s \in Side, NetworkFault(s)
  PROVE  WireInv'
  <1>1. PICK k \in 1 .. Len(wire[s]) :
          \/ wire' = [wire EXCEPT ![s] = Altered(@, k)]
          \/ wire' = [wire EXCEPT ![s] = Without(@, k)]
          \/ wire' = [wire EXCEPT ![s] = Twice(@, k)]
          \/ k < Len(wire[s]) /\ wire' = [wire EXCEPT ![s] = Swapped(@, k)]
    BY DEF NetworkFault
  <1>2. log' = log
    BY DEF NetworkFault
  <1>3. wire[s] \in Seq(Records) /\ Len(wire[s]) \in Nat
    BY DEF TypeOK
  <1>4. ASSUME NEW t \in Side, t # s PROVE wire'[t] = wire[t]
    BY <1>1, <1>4 DEF TypeOK
  <1>5. ASSUME NEW j \in 1 .. Len(wire'[s]), wire'[s][j].ok
        PROVE  \E i \in 1 .. Len(wire[s]) : wire'[s][j] = wire[s][i]
    <2>1. CASE wire' = [wire EXCEPT ![s] = Altered(@, k)]
      <3>1. wire'[s] = Altered(wire[s], k)
        BY <2>1 DEF TypeOK
      <3>2. Len(wire'[s]) = Len(wire[s])
        BY <1>3, <3>1 DEF Altered
      <3>3. j \in 1 .. Len(wire[s])
        BY <3>2
      <3>4. CASE j = k
        <4>1. wire'[s][k] = [wire[s][k] EXCEPT !.ok = FALSE]
          BY <1>3, <3>1 DEF Altered
        <4>2. wire[s][k] \in Records
          BY <1>3
        <4>3. ~wire'[s][k].ok
          BY <4>1, <4>2 DEF Records
        <4> QED
          BY <1>5, <3>4, <4>3
      <3>5. CASE j # k
        BY <1>3, <3>1, <3>3, <3>5 DEF Altered
      <3> QED
        BY <3>4, <3>5
    <2>2. CASE wire' = [wire EXCEPT ![s] = Without(@, k)]
      <3>1. wire'[s] = Without(wire[s], k)
        BY <2>2 DEF TypeOK
      <3>2. Len(wire'[s]) = Len(wire[s]) - 1
        BY <1>3, <3>1 DEF Without
      <3> QED
        BY <1>3, <3>1, <3>2 DEF Without
    <2>3. CASE wire' = [wire EXCEPT ![s] = Twice(@, k)]
      <3>1. wire'[s] = Twice(wire[s], k)
        BY <2>3 DEF TypeOK
      <3>2. Len(wire'[s]) = Len(wire[s]) + 1
        BY <1>3, <3>1 DEF Twice
      <3> QED
        BY <1>3, <3>1, <3>2 DEF Twice
    <2>4. CASE k < Len(wire[s]) /\ wire' = [wire EXCEPT ![s] = Swapped(@, k)]
      <3>1. wire'[s] = Swapped(wire[s], k)
        BY <2>4 DEF TypeOK
      <3>2. Len(wire'[s]) = Len(wire[s])
        BY <1>3, <2>4, <3>1 DEF Swapped
      <3> QED
        BY <1>3, <2>4, <3>1, <3>2 DEF Swapped
    <2> QED
      BY <1>1, <2>1, <2>2, <2>3, <2>4
  <1>6. ASSUME NEW t \in Side, NEW j \in 1 .. Len(wire'[t]), wire'[t][j].ok
        PROVE  \E i \in 1 .. Len(wire[t]) : wire'[t][j] = wire[t][i]
    <2>1. CASE t = s
      BY <1>5, <1>6, <2>1
    <2>2. CASE t # s
      BY <1>4, <2>2
    <2> QED
      BY <2>1, <2>2
  <1> QED
    BY <1>2, <1>6, SubsetWire


\* The record tls_decrypt_recv accepts is the next one of the peer's log: its
\* MAC covers a sequence number that no other record of the log carries.
LEMMA AcceptNext ==
  ASSUME TypeOK, SafeInv, NoWrap, NEW s \in Side, AcceptRecord(s)
  PROVE  /\ acc[s] + 1 \in 1 .. Len(log[Peer(s)])
         /\ Head(wire[Peer(s)]) = log[Peer(s)][acc[s] + 1]
  <1>0. PICK p \in Side : p = Peer(s)
    BY PeerType
  <1>1. /\ wire[p] \in Seq(Records) /\ wire[p] # <<>> /\ log[p] \in Seq(Records)
        /\ acc[s] \in Nat /\ Len(log[p]) \in Nat
    BY <1>0 DEF TypeOK, AcceptRecord
  <1>2. wire[p][1] = Head(wire[p]) /\ 1 \in 1 .. Len(wire[p])
    BY <1>1
  <1>3. wire[p][1].ok /\ wire[p][1].seq = seqR[s]
    BY <1>0, <1>2 DEF AcceptRecord, Authentic
  <1>4. PICK i \in 1 .. Len(log[p]) : wire[p][1] = log[p][i]
    BY <1>2, <1>3 DEF SafeInv, WireInv
  <1>5. /\ Len(log[p]) <= MaxRecords
        /\ log[p][i].seq = i % SeqMod
        /\ acc[s] <= Len(log[p])
        /\ seqR[s] = (acc[s] + 1) % SeqMod
    BY <1>0 DEF SafeInv, LogInv, RecvInv
  <1>6. i \in 0 .. SeqMod - 1 /\ acc[s] + 1 \in 0 .. SeqMod - 1
    BY <1>1, <1>5, BoundsAssumption DEF NoWrap
  <1>7. i % SeqMod = i /\ (acc[s] + 1) % SeqMod = acc[s] + 1
    BY <1>6, ModSmall, BoundsAssumption
  <1>8. i = acc[s] + 1
    BY <1>1, <1>3, <1>4, <1>5, <1>7
  <1> QED
    BY <1>0, <1>2, <1>4, <1>8

\* Accepting a record keeps the receiver's count and number in step.
LEMMA AcceptSafe ==
  ASSUME TypeOK, SafeInv, NoWrap, NEW s \in Side, AcceptRecord(s),
         UNCHANGED <<log, total, seqW>>
  PROVE  SafeInv'
  <1>1. LogInv'
    BY DEF SafeInv, LogInv, Upto
  <1>2. WireInv'
    BY TakeWire DEF SafeInv, AcceptRecord
  <1>3. RecvInv'
    <2>1. acc[s] + 1 \in 1 .. Len(log[Peer(s)]) /\ Len(log[Peer(s)]) <= MaxRecords
      BY AcceptNext, PeerType DEF SafeInv, LogInv
    <2>2. acc[s] + 1 \in 0 .. MaxRecords
      <3>1. acc[s] \in Nat /\ Len(log[Peer(s)]) \in Nat
        BY PeerType DEF TypeOK
      <3> QED
        BY <2>1, <3>1, BoundsAssumption
    <2>3. seqR'[s] = tls_seq_num_incr((acc[s] + 1) % SeqMod) /\ acc'[s] = acc[s] + 1
      BY DEF TypeOK, AcceptRecord, SafeInv, RecvInv
    <2>4. seqR'[s] = (acc'[s] + 1) % SeqMod
      BY <2>2, <2>3, IncrSmall
    <2>5. ASSUME NEW t \in Side, t # s PROVE seqR'[t] = seqR[t] /\ acc'[t] = acc[t]
      BY <2>5 DEF TypeOK, AcceptRecord
    <2>6. acc'[s] <= Len(log'[Peer(s)])
      BY <2>1, <2>3
    <2>7. ASSUME NEW t \in Side
          PROVE  acc'[t] <= Len(log'[Peer(t)]) /\ seqR'[t] = (acc'[t] + 1) % SeqMod
      <3>1. CASE t = s
        BY <2>4, <2>6, <3>1
      <3>2. CASE t # s
        BY <2>5, <3>2 DEF SafeInv, RecvInv
      <3> QED
        BY <3>1, <3>2
    <2> QED
      BY <2>7 DEF RecvInv
  <1> QED
    BY <1>1, <1>2, <1>3 DEF SafeInv

LEMMA RejectSafe ==
  ASSUME TypeOK, SafeInv, NEW s \in Side, RejectRecord(s),
         UNCHANGED <<log, total, seqW>>
  PROVE  SafeInv'
  <1>1. LogInv'
    BY DEF SafeInv, LogInv, Upto
  <1>2. WireInv'
    BY TakeWire DEF SafeInv, RejectRecord
  <1>3. RecvInv'
    BY DEF SafeInv, RecvInv, RejectRecord
  <1> QED
    BY <1>1, <1>2, <1>3 DEF SafeInv

LEMMA ProtectSafe ==
  ASSUME TypeOK, SafeInv, NoWrap, NEW s \in Side, NEW n \in Nat,
         NEW type \in {"app", "close_notify"},
         tls_encrypt_send(s, type, n) \/ EncryptSendFails(s, type, n),
         UNCHANGED <<seqR, acc>>
  PROVE  SafeInv'
  <1>1. Protect(s, type, n)
    BY DEF tls_encrypt_send, EncryptSendFails
  <1>2. LogInv'
    BY <1>1, ProtectLog DEF SafeInv
  <1>3. \/ wire' = [wire EXCEPT ![s] = Append(@, Protected(s, type, n))]
        \/ wire' = wire
    BY DEF tls_encrypt_send, EncryptSendFails
  <1>4. WireInv'
    BY <1>1, <1>3, ProtectWire DEF SafeInv
  <1>5. RecvInv'
    <2>1. ASSUME NEW t \in Side PROVE Len(log[t]) <= Len(log'[t])
      <3>1. CASE t = s
        <4>1. log[s] \in Seq(Records) /\ Protected(s, type, n) \in Records
          BY ProtectedType DEF TypeOK
        <4>2. log'[s] = Append(log[s], Protected(s, type, n))
          BY <1>1 DEF TypeOK, Protect
        <4> QED
          BY <3>1, <4>1, <4>2
      <3>2. CASE t # s
        <4>1. log'[t] = log[t] /\ Len(log[t]) \in Nat
          BY <1>1, <3>2 DEF TypeOK, Protect
        <4> QED
          BY <4>1
      <3> QED
        BY <3>1, <3>2
    <2>2. ASSUME NEW t \in Side
          PROVE  acc'[t] <= Len(log'[Peer(t)]) /\ seqR'[t] = (acc'[t] + 1) % SeqMod
      <3>1. acc[t] <= Len(log[Peer(t)]) /\ seqR[t] = (acc[t] + 1) % SeqMod
        BY DEF SafeInv, RecvInv
      <3>2. Len(log[Peer(t)]) <= Len(log'[Peer(t)])
        BY <2>1, PeerType
      <3>3. acc[t] \in Nat /\ Len(log[Peer(t)]) \in Nat /\ Len(log'[Peer(t)]) \in Nat
        <4>1. log' \in [Side -> Seq(Records)]
          BY EncryptSendType
        <4> QED
          <5>1. Peer(t) \in Side
            BY PeerType
          <5>2. log[Peer(t)] \in Seq(Records) /\ log'[Peer(t)] \in Seq(Records)
            BY <4>1, <5>1 DEF TypeOK
          <5>3. Len(log[Peer(t)]) \in Nat /\ Len(log'[Peer(t)]) \in Nat
            BY <5>2
          <5>4. acc[t] \in Nat
            BY DEF TypeOK
          <5> QED
            BY <5>3, <5>4
      <3> QED
        BY <3>1, <3>2, <3>3
    <2> QED
      BY <2>2 DEF RecvInv
  <1> QED
    BY <1>2, <1>4, <1>5 DEF SafeInv

\* A step that touches neither the records nor the numbers.
LEMMA IdleSafe ==
  ASSUME SafeInv, UNCHANGED <<log, total, wire, seqW, seqR, acc>>
  PROVE  SafeInv'
  BY DEF SafeInv, LogInv, WireInv, RecvInv, Upto

LEMMA SafeStep == TypeOK /\ SafeInv /\ NoWrap /\ [Next]_vars => SafeInv'
  <1> SUFFICES ASSUME TypeOK, SafeInv, NoWrap, [Next]_vars PROVE SafeInv'
    OBVIOUS
  <1>1. ASSUME NEW s \in Side, NEW n \in SendSizes, tls_send(s, n) PROVE SafeInv'
    <2>1. Least(n, MaxPlaintext) \in Nat
      BY SizesAssumption DEF Least
    <2> QED
      BY <1>1, <2>1, ProtectSafe DEF tls_send
  <1>2. ASSUME NEW s \in Side, NEW n \in RecvSizes, tls_recv(s, n) PROVE SafeInv'
    <2>1. CASE RecvBuffered(s, n)
      BY <2>1, IdleSafe DEF RecvBuffered
    <2>2. CASE RecvData(s, n)
      BY <2>2, AcceptSafe DEF RecvData
    <2>3. CASE RecvCloseNotify(s)
      BY <2>3, AcceptSafe DEF RecvCloseNotify
    <2>4. CASE RecvReject(s)
      BY <2>4, RejectSafe DEF RecvReject
    <2>5. CASE RecvEof(s)
      BY <2>5, IdleSafe DEF RecvEof
    <2>6. CASE RecvError(s)
      BY <2>6, IdleSafe DEF RecvError
    <2> QED
      BY <1>2, <2>1, <2>2, <2>3, <2>4, <2>5, <2>6 DEF tls_recv
  <1>3. ASSUME NEW s \in Side, ShutdownSend(s) PROVE SafeInv'
    BY <1>3, ProtectSafe DEF ShutdownSend
  <1>4. ASSUME NEW s \in Side, EncryptSendRefused(s) PROVE SafeInv'
    BY <1>4, IdleSafe DEF EncryptSendRefused
  <1>5. ASSUME NEW s \in Side, ShutdownRecv(s) PROVE SafeInv'
    <2>1. CASE ShutdownAccept(s)
      BY <2>1, AcceptSafe DEF ShutdownAccept
    <2>2. CASE ShutdownReject(s)
      BY <2>2, RejectSafe DEF ShutdownReject
    <2>3. CASE ShutdownFail(s)
      BY <2>3, IdleSafe DEF ShutdownFail
    <2> QED
      BY <1>5, <2>1, <2>2, <2>3 DEF ShutdownRecv
  <1>6. ASSUME NEW s \in Side, Close(s) PROVE SafeInv'
    BY <1>6, IdleSafe DEF Close
  <1>7. ASSUME NEW s \in Side, NetworkFault(s) PROVE SafeInv'
    <2>1. WireInv'
      BY <1>7, FaultWire DEF SafeInv
    <2>2. LogInv' /\ RecvInv'
      BY <1>7 DEF SafeInv, LogInv, RecvInv, Upto, NetworkFault
    <2> QED
      BY <2>1, <2>2 DEF SafeInv
  <1>8. CASE UNCHANGED vars
    BY <1>8, IdleSafe DEF vars
  <1> QED
    BY <1>1, <1>2, <1>3, <1>4, <1>5, <1>6, <1>7, <1>8 DEF Next, Step

LEMMA SafeInit == Init => SafeInv
  <1> SUFFICES ASSUME Init PROVE SafeInv
    OBVIOUS
  <1>1. \A s \in Side : /\ log[s] = <<>> /\ wire[s] = <<>> /\ total[s] = 0
                        /\ seqW[s] = 1 % SeqMod /\ seqR[s] = 1 % SeqMod /\ acc[s] = 0
    BY DEF Init
  <1>2. 0 + 1 = 1
    OBVIOUS
  <1>3. LogInv
    <2>1. \A s \in Side : Len(log[s]) = 0 /\ Upto(s, 0) = 0
      BY <1>1 DEF Upto
    <2> QED
      <3>1. ASSUME NEW s \in Side
            PROVE  Len(log[s]) <= MaxRecords /\ seqW[s] = (Len(log[s]) + 1) % SeqMod
        <4>1. Len(log[s]) = 0 /\ seqW[s] = 1 % SeqMod
          BY <1>1, <2>1
        <4>2. (Len(log[s]) + 1) % SeqMod = 1 % SeqMod
          BY <1>2, <4>1
        <4> QED
          BY <4>1, <4>2, BoundsAssumption
      <3>2. \A s \in Side : 1 .. Len(log[s]) = {}
        BY <2>1
      <3> QED
        BY <2>1, <3>1, <3>2 DEF LogInv
  <1>4. WireInv
    BY <1>1 DEF WireInv
  <1>5. RecvInv
    <2>1. \A s \in Side : Len(log[Peer(s)]) = 0
      BY <1>1, PeerType
    <2> QED
      BY <1>1, <1>2, <2>1 DEF RecvInv
  <1> QED
    BY <1>3, <1>4, <1>5 DEF SafeInv

\* The invariant behind the record layer: the log is numbered and gapless, what
\* is intact on the wire was sent, and the receiver counts what it accepted.
THEOREM SafeCorrect ==
  ASSUME NoWrap
  PROVE  Spec => []SafeInv
  <1>1. TypeOK /\ SafeInv /\ [Next]_vars => SafeInv'
    BY SafeStep
  <1> QED
    BY <1>1, SafeInit, TypeCorrect, PTL DEF Spec


\* Only accepting a record changes the count of accepted records.
LEMMA AcceptOrNot ==
  ASSUME TypeOK, [Next]_vars
  PROVE  acc' = acc \/ \E s \in Side : AcceptRecord(s)
  BY DEF Next, Step, tls_send, tls_recv, RecvBuffered, RecvData, RecvCloseNotify,
         RecvReject, RecvEof, RecvError, RejectRecord, ShutdownSend, EncryptSendRefused,
         ShutdownRecv, ShutdownAccept, ShutdownReject, ShutdownFail, Close,
         NetworkFault, vars

\* Whatever the network does and whatever the applications call, a record is
\* accepted only in its turn, as long as sequence numbers do not wrap.
THEOREM InOrderCorrect ==
  ASSUME NoWrap
  PROVE  Spec => AcceptInOrder
  <1> DEFINE A == \A s \in Side : acc'[s] # acc[s] =>
                    /\ acc'[s] = acc[s] + 1
                    /\ acc'[s] <= Len(log[Peer(s)])
                    /\ Head(wire[Peer(s)]) = log[Peer(s)][acc'[s]]
  <1>1. TypeOK /\ SafeInv /\ [Next]_vars => [A]_vars
    <2> SUFFICES ASSUME TypeOK, SafeInv, [Next]_vars, NEW s \in Side, acc'[s] # acc[s]
                 PROVE  /\ acc'[s] = acc[s] + 1
                        /\ acc'[s] <= Len(log[Peer(s)])
                        /\ Head(wire[Peer(s)]) = log[Peer(s)][acc'[s]]
      OBVIOUS
    <2>1. PICK t \in Side : AcceptRecord(t)
      BY AcceptOrNot
    <2>2. t = s /\ acc'[s] = acc[s] + 1
      BY <2>1 DEF AcceptRecord, TypeOK
    <2>3. acc[s] + 1 \in 1 .. Len(log[Peer(s)]) /\ Head(wire[Peer(s)]) = log[Peer(s)][acc[s] + 1]
      BY <2>1, <2>2, AcceptNext
    <2> QED
      BY <2>2, <2>3
  <1> QED
    BY <1>1, SafeCorrect, TypeCorrect, PTL DEF Spec, AcceptInOrder


-----------------------------------------------------------------------------
(* The byte stream.                                                        *)

\* Protecting a record does not move the bytes of the records before it.
LEMMA ProtectUpto ==
  ASSUME TypeOK, NEW s \in Side, NEW n \in Nat, NEW type \in {"app", "close_notify"},
         Protect(s, type, n), NEW t \in Side, NEW k \in 0 .. Len(log[t])
  PROVE  (IF k < Len(log'[t]) THEN log'[t][k + 1].from ELSE total'[t]) = Upto(t, k)
  <1>1. CASE t # s
    BY <1>1 DEF TypeOK, Protect, Upto
  <1>2. CASE t = s
    <2>1. PICK r \in Records : r = Protected(s, type, n)
      BY ProtectedType
    <2>2. log[s] \in Seq(Records) /\ log'[s] = Append(log[s], r)
      BY <2>1 DEF TypeOK, Protect
    <2>3. r.from = total[s]
      BY <2>1 DEF Protected
    <2>4. CASE k < Len(log[s])
      BY <1>2, <2>2, <2>4 DEF Upto
    <2>5. CASE k = Len(log[s])
      BY <1>2, <2>2, <2>3, <2>5 DEF Upto
    <2>6. Len(log[s]) \in Nat
      BY <2>2
    <2> QED
      BY <1>2, <2>4, <2>5, <2>6
  <1> QED
    BY <1>1, <1>2

\* What HandOut returns continues the stream, and so does what it keeps.
LEMMA HandOutStream ==
  ASSUME TypeOK, NEW s \in Side, NEW data \in Seq(Bytes), NEW n \in Nat, HandOut(s, data, n),
         \A i \in 1 .. Len(got[s]) : got[s][i] = i,
         \A i \in 1 .. Len(data) : data[i] = Len(got[s]) + i
  PROVE  /\ \A i \in 1 .. Len(got'[s]) : got'[s][i] = i
         /\ Len(got'[s]) + Len(pending'[s]) = Len(got[s]) + Len(data)
         /\ Len(got'[s]) <= Len(got[s]) + Len(data)
         /\ \A i \in 1 .. Len(pending'[s]) : pending'[s][i] = Len(got'[s]) + i
         /\ \A t \in Side \ {s} : got'[t] = got[t] /\ pending'[t] = pending[t]
  <1>0. PICK k \in 0 .. Len(data) : k = Least(n, Len(data))
    BY DEF Least
  <1>1. PICK g \in Seq(Bytes) : g = got[s]
    BY DEF TypeOK
  <1>2. Len(g) \in Nat /\ Len(data) \in Nat /\ k \in Nat /\ k <= Len(data)
    OBVIOUS
  <1>3. \A i \in 1 .. Len(data) : data[i] \in Bytes
    OBVIOUS
  <1>4. PICK a \in Seq(Bytes) : /\ a = SubSeq(data, 1, k) /\ Len(a) = k
                                /\ \A i \in 1 .. k : a[i] = data[i]
    <2> DEFINE c == SubSeq(data, 1, k)
    <2>1. \A i \in 1 .. k : data[i] \in Bytes
      BY <1>2, <1>3
    <2>2. /\ c \in Seq(Bytes)
          /\ Len(c) = IF 1 <= k THEN k - 1 + 1 ELSE 0
          /\ \A i \in 1 .. k - 1 + 1 : c[i] = data[1 + i - 1]
      BY <1>2, <2>1, SubSeqProperties
    <2>3. c = SubSeq(data, 1, k)
      OBVIOUS
    <2> HIDE DEF c
    <2>4. Len(c) = k /\ \A i \in 1 .. k : c[i] = data[i]
      BY <1>2, <2>2
    <2> QED
      BY <2>2, <2>3, <2>4, Zenon
  <1>5. PICK b \in Seq(Bytes) : /\ b = SubSeq(data, k + 1, Len(data)) /\ Len(b) = Len(data) - k
                                /\ \A i \in 1 .. Len(data) - k : b[i] = data[k + i]
    <2> DEFINE c == SubSeq(data, k + 1, Len(data))
    <2>1. \A i \in k + 1 .. Len(data) : data[i] \in Bytes
      BY <1>2, <1>3
    <2>2. /\ c \in Seq(Bytes)
          /\ Len(c) = IF k + 1 <= Len(data) THEN Len(data) - (k + 1) + 1 ELSE 0
          /\ \A i \in 1 .. Len(data) - (k + 1) + 1 : c[i] = data[k + 1 + i - 1]
      BY <1>2, <2>1, SubSeqProperties
    <2>3. c = SubSeq(data, k + 1, Len(data))
      OBVIOUS
    <2> HIDE DEF c
    <2>4. Len(c) = Len(data) - k /\ \A i \in 1 .. Len(data) - k : c[i] = data[k + i]
      BY <1>2, <2>2
    <2> QED
      BY <2>2, <2>3, <2>4, Zenon
  <1>6. /\ Len(got[s]) = Len(g)
        /\ \A i \in 1 .. Len(g) : g[i] = i
        /\ \A i \in 1 .. Len(data) : data[i] = Len(g) + i
    BY <1>1, Zenon
  <1>7. got'[s] = g \o a
    BY <1>0, <1>1, <1>4 DEF TypeOK, HandOut
  <1>8. pending'[s] = b
    BY <1>0, <1>5 DEF TypeOK, HandOut
  <1>9. PICK h : /\ h = got'[s]
                 /\ Len(h) = Len(g) + k
                 /\ \A i \in 1 .. Len(g) + k : h[i] = IF i <= Len(g) THEN g[i] ELSE a[i - Len(g)]
    <2>1. Len(a) = k
      BY <1>4, Zenon
    <2>2. /\ Len(g \o a) = Len(g) + Len(a)
          /\ \A i \in 1 .. Len(g) + Len(a) :
                (g \o a)[i] = IF i <= Len(g) THEN g[i] ELSE a[i - Len(g)]
      BY ConcatProperties
    <2> QED
      BY <1>7, <2>1, <2>2, Zenon
  <1>10. ASSUME NEW i \in 1 .. Len(g) + k PROVE h[i] = i
    <2>1. CASE i <= Len(g)
      <3>1. i \in 1 .. Len(g)
        BY <1>2, <2>1
      <3>2. h[i] = g[i]
        BY <1>9, <2>1, Zenon
      <3> QED
        BY <1>6, <3>1, <3>2, Zenon
    <2>2. CASE ~(i <= Len(g))
      <3>1. i - Len(g) \in 1 .. k /\ i - Len(g) \in 1 .. Len(data)
        BY <1>2, <2>2
      <3>2. h[i] = data[i - Len(g)]
        BY <1>4, <1>9, <2>2, <3>1
      <3> QED
        BY <1>2, <1>6, <3>1, <3>2
    <2> QED
      BY <2>1, <2>2
  <1>11. ASSUME NEW i \in 1 .. Len(b) PROVE b[i] = Len(h) + i
    <2>1. i \in 1 .. Len(data) - k /\ k + i \in 1 .. Len(data)
      BY <1>2, <1>5
    <2>2. b[i] = data[k + i]
      BY <1>5, <2>1
    <2> QED
      BY <1>2, <1>6, <1>9, <2>1, <2>2
  <1>12. \A t \in Side \ {s} : got'[t] = got[t] /\ pending'[t] = pending[t]
    BY DEF TypeOK, HandOut
  <1>13. Len(h) + Len(b) = Len(g) + Len(data) /\ Len(h) <= Len(g) + Len(data)
    <2>1. Len(b) = Len(data) - k
      BY <1>5, Zenon
    <2>2. Len(h) = Len(g) + k
      BY <1>9, Zenon
    <2> QED
      BY <1>2, <2>1, <2>2
  <1>14. \A i \in 1 .. Len(h) : h[i] = i
    BY <1>9, <1>10
  <1> QED
    BY <1>6, <1>8, <1>9, <1>11, <1>12, <1>13, <1>14, Zenon

\* No step brings a connection back to "open", and a step that ends or leaves
\* the receiving of a side leaves what it has received.
LEMMA QuietDelivery ==
  ASSUME DeliveryInv, UNCHANGED <<log, total, got>>,
         \A t \in Side : st'[t] = "open" /\ ended'[t] = "no" =>
            /\ st[t] = "open" /\ ended[t] = "no"
            /\ pending'[t] = pending[t] /\ acc'[t] = acc[t],
         \A t \in Side : st'[t] = "open" => st[t] = "open",
         \A t \in Side : ended'[t] = "notify" => ended[t] = "notify"
  PROVE  DeliveryInv'
  <1> SUFFICES ASSUME NEW t \in Side
               PROVE  /\ \A i \in 1 .. Len(got'[t]) : got'[t][i] = i
                      /\ Len(got'[t]) <= total'[Peer(t)]
                      /\ st'[t] = "open" /\ ended'[t] = "no" =>
                          /\ Len(got'[t]) + Len(pending'[t]) = Upto(Peer(t), acc[t])'
                          /\ \A i \in 1 .. Len(pending'[t]) : pending'[t][i] = Len(got'[t]) + i
                      /\ ended'[t] = "notify" => /\ Len(got'[t]) = total'[Peer(t)]
                                                 /\ st'[Peer(t)] # "open"
    BY DEF DeliveryInv, Peer
  <1>1. /\ \A i \in 1 .. Len(got'[t]) : got'[t][i] = i
        /\ Len(got'[t]) <= total'[Peer(t)]
    BY DEF DeliveryInv
  <1>2. ASSUME st'[t] = "open", ended'[t] = "no"
        PROVE  /\ Len(got'[t]) + Len(pending'[t]) = Upto(Peer(t), acc[t])'
               /\ \A i \in 1 .. Len(pending'[t]) : pending'[t][i] = Len(got'[t]) + i
    BY <1>2 DEF DeliveryInv, Upto, Peer
  <1>3. ASSUME ended'[t] = "notify"
        PROVE  Len(got'[t]) = total'[Peer(t)] /\ st'[Peer(t)] # "open"
    BY <1>3, PeerType DEF DeliveryInv
  <1> QED
    BY <1>1, <1>2, <1>3


\* Sending by one side does not disturb what either side has received.
LEMMA ProtectDelivery ==
  ASSUME TypeOK, SafeInv, DeliveryInv, NEW s \in Side, NEW n \in Nat,
         NEW type \in {"app", "close_notify"}, Protect(s, type, n), st[s] = "open",
         \A t \in Side : st'[t] = "open" => st[t] = "open",
         UNCHANGED <<acc, got, pending, ended>>
  PROVE  DeliveryInv'
  <1>1. ASSUME NEW t \in Side
        PROVE  /\ Len(got'[t]) <= total'[Peer(t)]
               /\ Upto(Peer(t), acc[t])' = Upto(Peer(t), acc[t])
               /\ ended[t] = "notify" => total'[Peer(t)] = total[Peer(t)] /\ Peer(t) # s
    <2>0. PICK p \in Side : p = Peer(t)
      BY PeerType
    <2>1. /\ Len(got[t]) \in Nat /\ total[p] \in Nat /\ Len(log[p]) \in Nat
          /\ acc[t] \in 0 .. Len(log[p])
      <3>1. got[t] \in Seq(Bytes) /\ log[p] \in Seq(Records) /\ total[p] \in Nat /\ acc[t] \in Nat
        BY DEF TypeOK
      <3>2. acc[t] <= Len(log[p])
        BY <2>0 DEF SafeInv, RecvInv
      <3> QED
        BY <3>1, <3>2
    <2>2. total'[p] = IF p = s THEN total[p] + n ELSE total[p]
      BY DEF TypeOK, Protect
    <2>3. Len(got[t]) <= total'[p]
      <3>1. Len(got[t]) <= total[p]
        BY <2>0 DEF DeliveryInv
      <3> QED
        BY <2>1, <2>2, <3>1
    <2>4. (IF acc[t] < Len(log'[p]) THEN log'[p][acc[t] + 1].from ELSE total'[p]) = Upto(p, acc[t])
      BY <2>1, ProtectUpto
    <2>5. Upto(Peer(t), acc[t])' = Upto(Peer(t), acc[t])
      BY <2>0, <2>4 DEF Upto, Peer
    <2>6. ended[t] = "notify" => p # s
      BY <2>0 DEF DeliveryInv
    <2> QED
      BY <2>0, <2>2, <2>3, <2>5, <2>6
  <1>2. ASSUME NEW t \in Side
        PROVE  /\ \A i \in 1 .. Len(got'[t]) : got'[t][i] = i
               /\ Len(got'[t]) <= total'[Peer(t)]
               /\ st'[t] = "open" /\ ended'[t] = "no" =>
                   /\ Len(got'[t]) + Len(pending'[t]) = Upto(Peer(t), acc[t])'
                   /\ \A i \in 1 .. Len(pending'[t]) : pending'[t][i] = Len(got'[t]) + i
               /\ ended'[t] = "notify" => /\ Len(got'[t]) = total'[Peer(t)]
                                          /\ st'[Peer(t)] # "open"
    <2>1. /\ \A i \in 1 .. Len(got'[t]) : got'[t][i] = i
          /\ Len(got'[t]) <= total'[Peer(t)]
      BY <1>1 DEF DeliveryInv
    <2>2. ASSUME st'[t] = "open", ended'[t] = "no"
          PROVE  /\ Len(got'[t]) + Len(pending'[t]) = Upto(Peer(t), acc[t])'
                 /\ \A i \in 1 .. Len(pending'[t]) : pending'[t][i] = Len(got'[t]) + i
      <3>1. /\ Len(got[t]) + Len(pending[t]) = Upto(Peer(t), acc[t])
            /\ \A i \in 1 .. Len(pending[t]) : pending[t][i] = Len(got[t]) + i
        BY <2>2 DEF DeliveryInv
      <3>2. Upto(Peer(t), acc[t])' = Upto(Peer(t), acc[t])
        BY <1>1
      <3> QED
        BY <3>1, <3>2
    <2>3. ASSUME ended'[t] = "notify"
          PROVE  Len(got'[t]) = total'[Peer(t)] /\ st'[Peer(t)] # "open"
      BY <1>1, <2>3, PeerType DEF DeliveryInv
    <2> QED
      BY <2>1, <2>2, <2>3
  <1> QED
    BY <1>2 DEF DeliveryInv, Peer

\* tls_recv that returns bytes continues the stream where it stopped.
LEMMA HandOutDelivery ==
  ASSUME TypeOK, DeliveryInv, NEW s \in Side, NEW data \in Seq(Bytes), NEW n \in Nat,
         HandOut(s, data, n), UNCHANGED <<log, total, st, ended>>,
         ended[s] = "no",
         \A i \in 1 .. Len(data) : data[i] = Len(got[s]) + i,
         Len(got[s]) + Len(data) = Upto(Peer(s), acc'[s]),
         Len(got[s]) + Len(data) <= total[Peer(s)],
         \A t \in Side \ {s} : acc'[t] = acc[t]
  PROVE  DeliveryInv'
  <1>0. \A i \in 1 .. Len(got[s]) : got[s][i] = i
    BY DEF DeliveryInv
  <1>1. /\ \A i \in 1 .. Len(got'[s]) : got'[s][i] = i
        /\ Len(got'[s]) + Len(pending'[s]) = Len(got[s]) + Len(data)
        /\ Len(got'[s]) <= Len(got[s]) + Len(data)
        /\ \A i \in 1 .. Len(pending'[s]) : pending'[s][i] = Len(got'[s]) + i
        /\ \A t \in Side \ {s} : got'[t] = got[t] /\ pending'[t] = pending[t]
    BY <1>0, HandOutStream
  <1>2. Len(got'[s]) <= total'[Peer(s)]
    <2>1. Len(got'[s]) \in Nat /\ Len(got[s]) + Len(data) \in Nat /\ total[Peer(s)] \in Nat
      <3>1. got' \in [Side -> Seq(Bytes)]
        BY HandOutType
      <3>2. got'[s] \in Seq(Bytes) /\ got[s] \in Seq(Bytes)
        BY <3>1 DEF TypeOK
      <3>3. total[Peer(s)] \in Nat
        BY PeerType DEF TypeOK
      <3> QED
        BY <3>2, <3>3
    <2> QED
      BY <1>1, <2>1
  <1>3. Len(got'[s]) + Len(pending'[s]) = Upto(Peer(s), acc[s])'
    BY <1>1 DEF Upto, Peer
  <1>4. ASSUME NEW t \in Side
        PROVE  /\ \A i \in 1 .. Len(got'[t]) : got'[t][i] = i
               /\ Len(got'[t]) <= total'[Peer(t)]
               /\ st'[t] = "open" /\ ended'[t] = "no" =>
                   /\ Len(got'[t]) + Len(pending'[t]) = Upto(Peer(t), acc[t])'
                   /\ \A i \in 1 .. Len(pending'[t]) : pending'[t][i] = Len(got'[t]) + i
               /\ ended'[t] = "notify" => /\ Len(got'[t]) = total'[Peer(t)]
                                          /\ st'[Peer(t)] # "open"
    <2>1. CASE t = s
      BY <1>1, <1>2, <1>3, <2>1
    <2>2. CASE t # s
      <3>1. got'[t] = got[t] /\ pending'[t] = pending[t] /\ acc'[t] = acc[t]
        BY <1>1, <2>2
      <3>2. Upto(Peer(t), acc[t])' = Upto(Peer(t), acc[t])
        BY <3>1 DEF Upto, Peer
      <3> QED
        BY <3>1, <3>2 DEF DeliveryInv
    <2> QED
      BY <2>1, <2>2
  <1> QED
    BY <1>4 DEF DeliveryInv, Peer


\* A side that may still send has sent no close_notify; tls_shutdown sends it
\* and is the last call that sends.
LEMMA ProtectClose ==
  ASSUME TypeOK, CloseInv, NEW s \in Side, NEW n \in Nat,
         NEW type \in {"app", "close_notify"}, Protect(s, type, n), st[s] = "open",
         \A t \in Side : st'[t] = "open" => st[t] = "open",
         type = "close_notify" => n = 0 /\ st'[s] # "open"
  PROVE  CloseInv'
  <1>1. PICK r \in Records : r = Protected(s, type, n)
    BY ProtectedType
  <1>2. log[s] \in Seq(Records) /\ log'[s] = Append(log[s], r)
    BY <1>1 DEF TypeOK, Protect
  <1>3. r.type = type /\ r.len = n
    BY <1>1 DEF Protected
  <1>4. /\ Len(log'[s]) = Len(log[s]) + 1 /\ Len(log[s]) \in Nat
        /\ \A i \in 1 .. Len(log[s]) : log'[s][i] = log[s][i]
        /\ log'[s][Len(log[s]) + 1] = r
    BY <1>2
  <1>5. ASSUME NEW t \in Side, NEW i \in 1 .. Len(log'[t]), log'[t][i].type = "close_notify"
        PROVE  i = Len(log'[t]) /\ log'[t][i].len = 0 /\ st'[t] # "open"
    <2>1. CASE t # s
      <3>1. log'[t] = log[t]
        BY <2>1 DEF TypeOK, Protect
      <3> QED
        BY <1>5, <3>1 DEF CloseInv
    <2>2. CASE t = s /\ i \in 1 .. Len(log[s])
      BY <1>4, <1>5, <2>2 DEF CloseInv
    <2>3. CASE t = s /\ i = Len(log[s]) + 1
      BY <1>3, <1>4, <1>5, <2>3
    <2> QED
      BY <1>4, <1>5, <2>1, <2>2, <2>3
  <1> QED
    BY <1>5 DEF CloseInv

\* A step that sends nothing.
LEMMA QuietClose ==
  ASSUME CloseInv, UNCHANGED log, \A t \in Side : st'[t] = "open" => st[t] = "open"
  PROVE  CloseInv'
  BY DEF CloseInv

\* The records a side has accepted carry no more than the peer has sent.
LEMMA UptoTotal ==
  ASSUME TypeOK, SafeInv, NEW s \in Side
  PROVE  Upto(Peer(s), acc[s]) <= total[Peer(s)]
  <1>0. PICK p \in Side : p = Peer(s)
    BY PeerType
  <1>1. acc[s] \in Nat /\ total[p] \in Nat /\ log[p] \in Seq(Records) /\ Len(log[p]) \in Nat
    BY DEF TypeOK
  <1>2. acc[s] <= Len(log[p])
    BY <1>0 DEF SafeInv, RecvInv
  <1>3. CASE acc[s] = 0
    BY <1>0, <1>1, <1>3 DEF SafeInv, LogInv
  <1>4. CASE acc[s] # 0
    <2>1. acc[s] \in 1 .. Len(log[p])
      BY <1>1, <1>2, <1>4
    <2> QED
      BY <1>0, <2>1 DEF SafeInv, LogInv
  <1> QED
    BY <1>3, <1>4

\* While a side receives, the data of the next record continues what it has.
LEMMA NextData ==
  ASSUME NoWrap, TypeOK, SafeInv, DeliveryInv, NEW s \in Side, AcceptRecord(s),
         st[s] = "open", ended[s] = "no", pending[s] = <<>>,
         Head(wire[Peer(s)]).type = "app"
  PROVE  \E data \in Seq(Bytes) :
            /\ data = DataOf(Head(wire[Peer(s)]))
            /\ \A i \in 1 .. Len(data) : data[i] = Len(got[s]) + i
            /\ Len(got[s]) + Len(data) = Upto(Peer(s), acc[s] + 1)
            /\ Len(got[s]) + Len(data) <= total[Peer(s)]
  <1>0. PICK p \in Side : p = Peer(s)
    BY PeerType
  <1>1. PICK r \in Records : r = Head(wire[p])
    BY <1>0, TakeType DEF AcceptRecord
  <1>2. acc[s] + 1 \in 1 .. Len(log[p]) /\ r = log[p][acc[s] + 1]
    BY <1>0, <1>1, AcceptNext
  <1>3. r.from \in Nat /\ r.len \in Nat /\ acc[s] \in Nat /\ Len(log[p]) \in Nat
    <2>1. r.from \in Nat /\ r.len \in Nat
      BY <1>1 DEF Records
    <2>2. acc[s] \in Nat /\ Len(log[p]) \in Nat
      BY DEF TypeOK
    <2> QED
      BY <2>1, <2>2
  <1>4. Len(got[s]) = r.from
    <2>1. Len(got[s]) + Len(pending[s]) = Upto(p, acc[s])
      BY <1>0 DEF DeliveryInv
    <2>2. Upto(p, acc[s]) = r.from
      BY <1>2, <1>3 DEF Upto
    <2>3. Len(pending[s]) = 0 /\ Len(got[s]) \in Nat
      BY DEF TypeOK
    <2> QED
      BY <2>1, <2>2, <2>3
  <1>5. PICK data \in Seq(Bytes) : data = DataOf(r)
    BY <1>1, DataType
  <1>6. Len(data) = r.len /\ \A i \in 1 .. Len(data) : data[i] = r.from + i
    BY <1>0, <1>1, <1>3, <1>5 DEF DataOf
  <1>7. r.from + r.len = Upto(p, acc[s] + 1) /\ r.from + r.len <= total[p]
    BY <1>2 DEF SafeInv, LogInv
  <1>8. /\ \A i \in 1 .. Len(data) : data[i] = Len(got[s]) + i
        /\ Len(got[s]) + Len(data) = Upto(p, acc[s] + 1)
        /\ Len(got[s]) + Len(data) <= total[p]
    BY <1>4, <1>6, <1>7
  <1> QED
    BY <1>0, <1>1, <1>5, <1>8, Zenon

\* The stream invariant is kept by every step of an application that stops at
\* the first call that fails.
LEMMA StreamStep ==
  ASSUME NoWrap, ~Persistent, TypeOK, SafeInv, CloseInv, DeliveryInv, [Next]_vars
  PROVE  CloseInv' /\ DeliveryInv'
  <1>1. ASSUME NEW s \in Side, NEW n \in SendSizes, tls_send(s, n)
        PROVE  CloseInv' /\ DeliveryInv'
    <2>1. PICK m \in Nat : m = Least(n, MaxPlaintext)
      BY SizesAssumption DEF Least
    <2>2. Protect(s, "app", m)
      BY <1>1, <2>1 DEF tls_send, tls_encrypt_send, EncryptSendFails
    <2>3. st[s] = "open" /\ UNCHANGED <<acc, got, pending, ended>>
      BY <1>1 DEF tls_send, MayTransfer, MayCall
    <2>4. \A t \in Side : st'[t] = "open" => st[t] = "open"
      BY <1>1 DEF TypeOK, tls_send, EncryptSendFails
    <2> QED
      BY <2>2, <2>3, <2>4, ProtectClose, ProtectDelivery
  <1>2. ASSUME NEW s \in Side, NEW n \in RecvSizes, RecvBuffered(s, n)
        PROVE  CloseInv' /\ DeliveryInv'
    <2>1. n \in Nat /\ pending[s] \in Seq(Bytes)
      BY SizesAssumption DEF TypeOK
    <2>2. st[s] = "open" /\ ended[s] = "no" /\ HandOut(s, pending[s], n)
      BY <1>2 DEF RecvBuffered, MayTransfer, MayCall
    <2>3. UNCHANGED <<log, total, st, ended, acc>>
      BY <1>2 DEF RecvBuffered
    <2>4. /\ Len(got[s]) + Len(pending[s]) = Upto(Peer(s), acc[s])
          /\ \A i \in 1 .. Len(pending[s]) : pending[s][i] = Len(got[s]) + i
      BY <2>2 DEF DeliveryInv
    <2>5. Upto(Peer(s), acc[s]) <= total[Peer(s)]
      BY UptoTotal
    <2>6. \A t \in Side \ {s} : acc'[t] = acc[t]
      BY <2>3
    <2>7. acc'[s] = acc[s]
      BY <2>3
    <2>8. DeliveryInv'
      BY <2>1, <2>2, <2>3, <2>4, <2>5, <2>6, <2>7, HandOutDelivery
    <2>9. CloseInv'
      BY <2>3, QuietClose
    <2> QED
      BY <2>8, <2>9
  <1>3. ASSUME NEW s \in Side, NEW n \in RecvSizes, RecvData(s, n)
        PROVE  CloseInv' /\ DeliveryInv'
    <2>1. AcceptRecord(s) /\ n \in Nat
      BY <1>3, SizesAssumption DEF RecvData
    <2>2. st[s] = "open" /\ ended[s] = "no" /\ pending[s] = <<>>
      BY <1>3 DEF RecvData, MayTransfer, MayCall
    <2>3. PICK data \in Seq(Bytes) :
            /\ data = DataOf(Head(wire[Peer(s)]))
            /\ \A i \in 1 .. Len(data) : data[i] = Len(got[s]) + i
            /\ Len(got[s]) + Len(data) = Upto(Peer(s), acc[s] + 1)
            /\ Len(got[s]) + Len(data) <= total[Peer(s)]
      BY <1>3, <2>1, <2>2, NextData DEF RecvData
    <2>4. UNCHANGED <<log, total, st, ended>> /\ HandOut(s, data, n)
      BY <1>3, <2>3 DEF RecvData
    <2>5. acc'[s] = acc[s] + 1 /\ \A t \in Side \ {s} : acc'[t] = acc[t]
      BY <2>1 DEF AcceptRecord, TypeOK
    <2>6. DeliveryInv'
      <3>1. Len(got[s]) + Len(data) = Upto(Peer(s), acc'[s])
        BY <2>3, <2>5
      <3> QED
        BY <2>1, <2>2, <2>3, <2>4, <2>5, <3>1, HandOutDelivery
    <2>7. CloseInv'
      BY <2>4, QuietClose
    <2> QED
      BY <2>6, <2>7
  <1>4. ASSUME NEW s \in Side, RecvCloseNotify(s)
        PROVE  CloseInv' /\ DeliveryInv'
    <2>0. PICK p \in Side : p = Peer(s)
      BY PeerType
    <2>1. AcceptRecord(s)
      BY <1>4 DEF RecvCloseNotify
    <2>2. st[s] = "open" /\ ended[s] = "no" /\ pending[s] = <<>>
      BY <1>4 DEF RecvCloseNotify, MayTransfer, MayCall
    <2>3. acc[s] + 1 \in 1 .. Len(log[p]) /\ Head(wire[p]) = log[p][acc[s] + 1]
      BY <2>0, <2>1, AcceptNext
    <2>4. log[p][acc[s] + 1].type = "close_notify"
      BY <1>4, <2>0, <2>3 DEF RecvCloseNotify
    <2>5. /\ acc[s] + 1 = Len(log[p]) /\ log[p][acc[s] + 1].len = 0 /\ st[p] # "open"
      BY <2>3, <2>4 DEF CloseInv
    <2>6. acc[s] \in Nat /\ Len(log[p]) \in Nat /\ log[p][acc[s] + 1] \in Records /\ total[p] \in Nat
      BY <2>3 DEF TypeOK
    <2>7. log[p][acc[s] + 1].from \in Nat
      BY <2>6 DEF Records
    <2>8. log[p][acc[s] + 1].from + log[p][acc[s] + 1].len = Upto(p, acc[s] + 1)
      BY <2>3 DEF SafeInv, LogInv
    <2>9. Upto(p, acc[s] + 1) = total[p]
      BY <2>5, <2>6 DEF Upto
    <2>10. Upto(p, acc[s]) = total[p]
      <3>1. Upto(p, acc[s]) = log[p][acc[s] + 1].from
        BY <2>5, <2>6 DEF Upto
      <3> QED
        BY <2>5, <2>7, <2>8, <2>9, <3>1
    <2>11. Len(got[s]) = total[p]
      <3>1. Len(got[s]) + Len(pending[s]) = Upto(p, acc[s])
        BY <2>0, <2>2 DEF DeliveryInv
      <3>2. Len(pending[s]) = 0 /\ Len(got[s]) \in Nat
        BY <2>2 DEF TypeOK
      <3> QED
        BY <2>10, <3>1, <3>2
    <2>12. /\ UNCHANGED <<log, total, got, st>>
           /\ ended'[s] = "notify"
           /\ \A t \in Side \ {s} : /\ ended'[t] = ended[t]
                                    /\ pending'[t] = pending[t] /\ acc'[t] = acc[t]
      BY <1>4 DEF RecvCloseNotify, AcceptRecord, TypeOK
    <2>13. ASSUME NEW t \in Side
           PROVE  /\ \A i \in 1 .. Len(got'[t]) : got'[t][i] = i
                  /\ Len(got'[t]) <= total'[Peer(t)]
                  /\ st'[t] = "open" /\ ended'[t] = "no" =>
                      /\ Len(got'[t]) + Len(pending'[t]) = Upto(Peer(t), acc[t])'
                      /\ \A i \in 1 .. Len(pending'[t]) : pending'[t][i] = Len(got'[t]) + i
                  /\ ended'[t] = "notify" => /\ Len(got'[t]) = total'[Peer(t)]
                                             /\ st'[Peer(t)] # "open"
      <3>1. /\ \A i \in 1 .. Len(got'[t]) : got'[t][i] = i
            /\ Len(got'[t]) <= total'[Peer(t)]
        BY <2>12 DEF DeliveryInv
      <3>2. CASE t = s
        BY <2>0, <2>5, <2>11, <2>12, <3>1, <3>2
      <3>3. CASE t # s
        <4>1. Upto(Peer(t), acc[t])' = Upto(Peer(t), acc[t])
          BY <2>12, <3>3 DEF Upto, Peer
        <4> QED
          BY <2>12, <3>1, <3>3, <4>1 DEF DeliveryInv
      <3> QED
        BY <3>2, <3>3
    <2>14. DeliveryInv'
      BY <2>13 DEF DeliveryInv, Peer
    <2>15. CloseInv'
      BY <2>12, QuietClose
    <2> QED
      BY <2>14, <2>15
  <1>5. ASSUME NEW s \in Side, RecvReject(s) \/ ShutdownReject(s)
        PROVE  CloseInv' /\ DeliveryInv'
    <2>1. /\ UNCHANGED <<log, total, got, ended, acc>>
          /\ st'[s] = "failed"
          /\ \A t \in Side \ {s} : st'[t] = st[t] /\ pending'[t] = pending[t]
      BY <1>5 DEF RecvReject, ShutdownReject, RejectRecord, TypeOK
    <2> QED
      BY <2>1, QuietClose, QuietDelivery
  <1>6. ASSUME NEW s \in Side, RecvEof(s)
        PROVE  CloseInv' /\ DeliveryInv'
    <2>1. /\ UNCHANGED <<log, total, got, acc, pending, st>>
          /\ ended'[s] = "eof"
          /\ \A t \in Side \ {s} : ended'[t] = ended[t]
      BY <1>6 DEF RecvEof, MayTransfer, TypeOK
    <2> QED
      BY <2>1, QuietClose, QuietDelivery
  <1>7. ASSUME NEW s \in Side, RecvError(s) \/ EncryptSendRefused(s) \/ ShutdownFail(s)
        PROVE  CloseInv' /\ DeliveryInv'
    <2>1. /\ UNCHANGED <<log, total, got, acc, pending, ended>>
          /\ st'[s] = "failed"
          /\ \A t \in Side \ {s} : st'[t] = st[t]
      BY <1>7 DEF RecvError, EncryptSendRefused, ShutdownFail, TypeOK
    <2> QED
      BY <2>1, QuietClose, QuietDelivery
  <1>8. ASSUME NEW s \in Side, ShutdownSend(s)
        PROVE  CloseInv' /\ DeliveryInv'
    <2>1. Protect(s, "close_notify", 0)
      BY <1>8 DEF ShutdownSend, tls_encrypt_send, EncryptSendFails
    <2>2. st[s] = "open" /\ UNCHANGED <<acc, got, pending, ended>>
      BY <1>8 DEF ShutdownSend, MayCall
    <2>3. st'[s] # "open" /\ \A t \in Side : st'[t] = "open" => st[t] = "open"
      BY <1>8 DEF TypeOK, ShutdownSend, EncryptSendFails
    <2> QED
      BY <2>1, <2>2, <2>3, ProtectClose, ProtectDelivery
  <1>9. ASSUME NEW s \in Side, ShutdownAccept(s)
        PROVE  CloseInv' /\ DeliveryInv'
    <2>1. /\ UNCHANGED <<log, total, got, ended>>
          /\ st'[s] = "done"
          /\ \A t \in Side \ {s} : /\ st'[t] = st[t]
                                   /\ pending'[t] = pending[t] /\ acc'[t] = acc[t]
      BY <1>9 DEF ShutdownAccept, AcceptRecord, TypeOK
    <2> QED
      BY <2>1, QuietClose, QuietDelivery
  <1>10. ASSUME NEW s \in Side, Close(s) \/ NetworkFault(s)
         PROVE  CloseInv' /\ DeliveryInv'
    <2>1. UNCHANGED <<log, total, got, acc, pending, ended, st>>
      BY <1>10 DEF Close, NetworkFault
    <2> QED
      BY <2>1, QuietClose, QuietDelivery
  <1>11. CASE UNCHANGED vars
    BY <1>11, QuietClose, QuietDelivery DEF vars
  <1> QED
    BY <1>1, <1>2, <1>3, <1>4, <1>5, <1>6, <1>7, <1>8, <1>9, <1>10, <1>11
       DEF Next, Step, tls_recv, ShutdownRecv

LEMMA StreamInit == Init => CloseInv /\ DeliveryInv
  <1> SUFFICES ASSUME Init PROVE CloseInv /\ DeliveryInv
    OBVIOUS
  <1>1. \A s \in Side : /\ log[s] = <<>> /\ total[s] = 0 /\ got[s] = <<>>
                        /\ pending[s] = <<>> /\ ended[s] = "no" /\ acc[s] = 0
    BY DEF Init
  <1>2. CloseInv
    BY <1>1 DEF CloseInv
  <1>3. \A s \in Side : /\ Upto(Peer(s), acc[s]) = 0 /\ total[Peer(s)] = 0
                        /\ Len(got[s]) = 0 /\ Len(pending[s]) = 0
    BY <1>1, PeerType DEF Upto
  <1>4. DeliveryInv
    <2>1. \A s \in Side : 1 .. Len(got[s]) = {} /\ 1 .. Len(pending[s]) = {}
      BY <1>3
    <2>2. \A s \in Side : /\ Len(got[s]) <= total[Peer(s)]
                          /\ Len(got[s]) + Len(pending[s]) = Upto(Peer(s), acc[s])
                          /\ ended[s] # "notify"
      <3> SUFFICES ASSUME NEW s \in Side
                   PROVE  /\ Len(got[s]) <= total[Peer(s)]
                          /\ Len(got[s]) + Len(pending[s]) = Upto(Peer(s), acc[s])
                          /\ ended[s] # "notify"
        OBVIOUS
      <3>1. 0 <= 0 /\ 0 + 0 = 0
        OBVIOUS
      <3> QED
        BY <1>1, <1>3, <3>1, Zenon
    <2> QED
      BY <2>1, <2>2 DEF DeliveryInv
  <1> QED
    BY <1>2, <1>4

LEMMA StreamInvCorrect ==
  ASSUME NoWrap, ~Persistent
  PROVE  Spec => [](CloseInv /\ DeliveryInv)
  <1>1. TypeOK /\ SafeInv /\ (CloseInv /\ DeliveryInv) /\ [Next]_vars => (CloseInv /\ DeliveryInv)'
    BY StreamStep
  <1> QED
    BY <1>1, StreamInit, TypeCorrect, SafeCorrect, PTL DEF Spec

\* For applications that stop at the first call that fails, and as long as
\* sequence numbers do not wrap: what tls_recv returned is a prefix of what
\* the peer sent, whatever the network does to the records.
THEOREM StreamCorrect ==
  ASSUME NoWrap, ~Persistent
  PROVE  Spec => []PrefixDelivered
  <1>1. DeliveryInv => PrefixDelivered
    BY DEF DeliveryInv, PrefixDelivered
  <1> QED
    BY <1>1, StreamInvCorrect, PTL

\* For the same applications: when tls_recv returned 0 because of the peer's
\* close_notify, the application has every byte the peer sent before it.
THEOREM CompleteCorrect ==
  ASSUME NoWrap, ~Persistent
  PROVE  Spec => []CompleteAtNotify
  <1>1. DeliveryInv => CompleteAtNotify
    BY DEF DeliveryInv, CompleteAtNotify
  <1> QED
    BY <1>1, StreamInvCorrect, PTL

-----------------------------------------------------------------------------
(* The refinement of SecureStream.                                         *)

\* The close_notify of s is in its log.
Notified(s) == \E i \in 1 .. Len(log[s]) : log[s][i].type = "close_notify"

StreamSame == UNCHANGED Stream!vars
StreamMove == Stream!Next \/ StreamSame

LEMMA StreamVars ==
  /\ Stream!Side = Side
  /\ \A s \in Side : Stream!Other(s) = Peer(s)
  BY DEF Stream!Side, Side, Stream!Other, Peer

LEMMA StutterMove ==
  ASSUME UNCHANGED <<log, total, got>>,
         \A t \in Side : (ended'[t] = "notify") <=> (ended[t] = "notify")
  PROVE  StreamMove
  <1>1. [s \in Side |-> ended[s] = "notify"]' = [s \in Side |-> ended[s] = "notify"]
    OBVIOUS
  <1> QED
    BY <1>1 DEF StreamMove, StreamSame, Stream!vars

\* A side that is open has not sent its close_notify; one that protects a
\* record has sent it exactly if this is the one.
LEMMA ProtectNotified ==
  ASSUME TypeOK, CloseInv, NEW s \in Side, NEW n \in Nat, st[s] = "open",
         NEW type \in {"app", "close_notify"}, Protect(s, type, n)
  PROVE  /\ ~Notified(s) /\ (Notified(s)' <=> type = "close_notify")
         /\ \A t \in Side \ {s} : Notified(t)' <=> Notified(t)
  <1>1. PICK r \in Records : r = Protected(s, type, n)
    BY ProtectedType
  <1>2. log[s] \in Seq(Records) /\ log'[s] = Append(log[s], r)
    BY <1>1 DEF TypeOK, Protect
  <1>3. r.type = type
    BY <1>1 DEF Protected
  <1>4. /\ Len(log'[s]) = Len(log[s]) + 1 /\ Len(log[s]) \in Nat
        /\ \A i \in 1 .. Len(log[s]) : log'[s][i] = log[s][i]
        /\ log'[s][Len(log[s]) + 1] = r
    BY <1>2
  <1>5. ~Notified(s)
    BY DEF Notified, CloseInv
  <1>6. Notified(s)' <=> type = "close_notify"
    <2>1. ASSUME NEW i \in 1 .. Len(log'[s]), log'[s][i].type = "close_notify"
          PROVE  type = "close_notify"
      <3>1. CASE i \in 1 .. Len(log[s])
        BY <1>4, <1>5, <2>1, <3>1 DEF Notified
      <3>2. CASE i = Len(log[s]) + 1
        BY <1>3, <1>4, <2>1, <3>2
      <3> QED
        BY <1>4, <2>1, <3>1, <3>2
    <2>2. ASSUME type = "close_notify" PROVE Notified(s)'
      <3>1. Len(log[s]) + 1 \in 1 .. Len(log'[s]) /\ log'[s][Len(log[s]) + 1].type = "close_notify"
        BY <1>3, <1>4, <2>2
      <3> QED
        BY <3>1 DEF Notified
    <2> QED
      BY <2>1, <2>2 DEF Notified
  <1>7. \A t \in Side \ {s} : log'[t] = log[t]
    BY DEF TypeOK, Protect
  <1> QED
    BY <1>5, <1>6, <1>7 DEF Notified

\* tls_send appends to the stream, tls_shutdown ends it.
LEMMA SendMove ==
  ASSUME TypeOK, CloseInv, NEW s \in Side, NEW n \in 1 .. MaxPlaintext, st[s] = "open",
         Protect(s, "app", n), UNCHANGED <<got, ended>>
  PROVE  StreamMove
  <1>1. n \in Nat
    BY SizesAssumption
  <1>2. ~Notified(s) /\ \A t \in Side : Notified(t)' <=> Notified(t)
    BY <1>1, ProtectNotified
  <1>3. [t \in Side |-> Notified(t)]' = [t \in Side |-> Notified(t)]
    BY <1>2 DEF Notified
  <1>4. total' = [total EXCEPT ![s] = @ + n]
    BY DEF Protect
  <1>5. Stream!Write(s)
    BY <1>2, <1>3, <1>4 DEF Stream!Write, Notified
  <1> QED
    BY <1>5, StreamVars DEF StreamMove, Stream!Next

LEMMA FinishMove ==
  ASSUME TypeOK, CloseInv, NEW s \in Side, st[s] = "open",
         Protect(s, "close_notify", 0), UNCHANGED <<got, ended>>
  PROVE  StreamMove
  <1>1. /\ ~Notified(s) /\ Notified(s)'
        /\ \A t \in Side \ {s} : Notified(t)' <=> Notified(t)
    BY ProtectNotified
  <1>2. [t \in Side |-> Notified(t)]' = [[t \in Side |-> Notified(t)] EXCEPT ![s] = TRUE]
    BY <1>1 DEF Notified
  <1>3. total' = total
    BY DEF Protect, TypeOK
  <1>4. Stream!Finish(s)
    BY <1>1, <1>2, <1>3 DEF Stream!Finish, Notified
  <1> QED
    BY <1>4, StreamVars DEF StreamMove, Stream!Next

\* tls_recv hands out the next bytes of the stream, possibly none.
LEMMA DeliverMove ==
  ASSUME TypeOK, NEW s \in Side, NEW data \in Seq(Bytes), NEW n \in Nat,
         HandOut(s, data, n), ended[s] = "no", UNCHANGED <<log, total, ended>>,
         \A i \in 1 .. Len(data) : data[i] = Len(got[s]) + i,
         Len(got[s]) + Len(data) <= total[Peer(s)]
  PROVE  StreamMove
  <1>0. PICK k \in 0 .. Len(data) : k = Least(n, Len(data))
    BY DEF Least
  <1>1. PICK a : a = SubSeq(data, 1, k)
    OBVIOUS
  <1>2. a = [i \in 1 .. k |-> data[i]]
    BY <1>1
  <1>3. a = [i \in 1 .. k |-> Len(got[s]) + i]
    BY <1>2
  <1>4. got' = [got EXCEPT ![s] = @ \o a]
    BY <1>0, <1>1 DEF HandOut
  <1>5. Len(got[s]) \in Nat /\ Len(data) \in Nat /\ total[Peer(s)] \in Nat /\ got[s] \in Seq(Bytes)
    <2>1. got[s] \in Seq(Bytes)
      BY DEF TypeOK
    <2>2. total[Peer(s)] \in Nat
      BY PeerType DEF TypeOK
    <2> QED
      BY <2>1, <2>2
  <1>6. CASE k = 0
    <2>1. a = <<>>
      BY <1>3, <1>6
    <2>2. got' = got
      BY <1>4, <1>5, <2>1 DEF TypeOK
    <2> QED
      BY <2>2, StutterMove
  <1>7. CASE k # 0
    <2>1. k \in 1 .. total[Peer(s)] - Len(got[s])
      BY <1>0, <1>5, <1>7
    <2>2. Stream!Deliver(s)
      BY <1>3, <1>4, <2>1, StreamVars DEF Stream!Deliver
    <2> QED
      BY <2>2, StreamVars DEF StreamMove, Stream!Next
  <1> QED
    BY <1>6, <1>7

\* tls_recv returns 0 for close_notify.
LEMMA CompleteMove ==
  ASSUME TypeOK, NEW s \in Side, ended[s] = "no", UNCHANGED <<log, total, got>>,
         ended' = [ended EXCEPT ![s] = "notify"], Notified(Peer(s)),
         Len(got[s]) = total[Peer(s)]
  PROVE  StreamMove
  <1>1. [t \in Side |-> ended[t] = "notify"]'
            = [[t \in Side |-> ended[t] = "notify"] EXCEPT ![s] = TRUE]
    BY DEF TypeOK
  <1>2. Peer(s) \in Side
    BY PeerType
  <1>3. Stream!Complete(s)
    BY <1>1, <1>2, StreamVars DEF Stream!Complete, Notified
  <1> QED
    BY <1>3, StreamVars DEF StreamMove, Stream!Next

\* Every step of the connection is a step of the abstract stream or none.
LEMMA MoveStep ==
  ASSUME NoWrap, ~Persistent, TypeOK, SafeInv, CloseInv, DeliveryInv, [Next]_vars
  PROVE  StreamMove
  <1>1. ASSUME NEW s \in Side, NEW n \in SendSizes, tls_send(s, n) PROVE StreamMove
    <2>1. PICK m \in 1 .. MaxPlaintext : m = Least(n, MaxPlaintext)
      BY SizesAssumption DEF Least
    <2>2. Protect(s, "app", m)
      BY <1>1, <2>1 DEF tls_send, tls_encrypt_send, EncryptSendFails
    <2>3. st[s] = "open" /\ UNCHANGED <<got, ended>>
      BY <1>1 DEF tls_send, MayTransfer, MayCall
    <2> QED
      BY <2>2, <2>3, SendMove
  <1>2. ASSUME NEW s \in Side, NEW n \in RecvSizes, RecvBuffered(s, n) PROVE StreamMove
    <2>1. n \in Nat /\ pending[s] \in Seq(Bytes)
      BY SizesAssumption DEF TypeOK
    <2>2. /\ st[s] = "open" /\ ended[s] = "no" /\ HandOut(s, pending[s], n)
          /\ UNCHANGED <<log, total, ended>>
      BY <1>2 DEF RecvBuffered, MayTransfer, MayCall
    <2>3. /\ Len(got[s]) + Len(pending[s]) = Upto(Peer(s), acc[s])
          /\ \A i \in 1 .. Len(pending[s]) : pending[s][i] = Len(got[s]) + i
      BY <2>2 DEF DeliveryInv
    <2>4. Len(got[s]) + Len(pending[s]) <= total[Peer(s)]
      BY <2>3, UptoTotal
    <2> QED
      BY <2>1, <2>2, <2>3, <2>4, DeliverMove
  <1>3. ASSUME NEW s \in Side, NEW n \in RecvSizes, RecvData(s, n) PROVE StreamMove
    <2>1. AcceptRecord(s) /\ n \in Nat
      BY <1>3, SizesAssumption DEF RecvData
    <2>2. st[s] = "open" /\ ended[s] = "no" /\ pending[s] = <<>>
      BY <1>3 DEF RecvData, MayTransfer, MayCall
    <2>3. PICK data \in Seq(Bytes) :
            /\ data = DataOf(Head(wire[Peer(s)]))
            /\ \A i \in 1 .. Len(data) : data[i] = Len(got[s]) + i
            /\ Len(got[s]) + Len(data) <= total[Peer(s)]
      BY <1>3, <2>1, <2>2, NextData DEF RecvData
    <2>4. UNCHANGED <<log, total, ended>> /\ HandOut(s, data, n)
      BY <1>3, <2>3 DEF RecvData
    <2> QED
      BY <2>1, <2>2, <2>3, <2>4, DeliverMove
  <1>4. ASSUME NEW s \in Side, RecvCloseNotify(s) PROVE StreamMove
    <2>1. /\ AcceptRecord(s) /\ ended[s] = "no" /\ UNCHANGED <<log, total, got>>
          /\ ended' = [ended EXCEPT ![s] = "notify"]
      BY <1>4 DEF RecvCloseNotify, MayTransfer
    <2>2. PICK p \in Side : p = Peer(s)
      BY PeerType
    <2>3. acc[s] + 1 \in 1 .. Len(log[p]) /\ log[p][acc[s] + 1].type = "close_notify"
      BY <1>4, <2>1, <2>2, AcceptNext DEF RecvCloseNotify
    <2>4. Notified(Peer(s))
      BY <2>2, <2>3 DEF Notified
    <2>5. Len(got[s]) = total[Peer(s)]
      <3>1. DeliveryInv' /\ ended'[s] = "notify"
        BY <2>1, StreamStep DEF TypeOK
      <3>2. Len(got'[s]) = total'[Peer(s)]
        BY <3>1 DEF DeliveryInv, Peer
      <3> QED
        BY <2>1, <3>2
    <2> QED
      BY <2>1, <2>4, <2>5, CompleteMove
  <1>5. ASSUME NEW s \in Side, ShutdownSend(s) PROVE StreamMove
    <2>1. Protect(s, "close_notify", 0)
      BY <1>5 DEF ShutdownSend, tls_encrypt_send, EncryptSendFails
    <2>2. st[s] = "open" /\ UNCHANGED <<got, ended>>
      BY <1>5 DEF ShutdownSend, MayCall
    <2> QED
      BY <2>1, <2>2, FinishMove
  <1>6. ASSUME NEW s \in Side, RecvEof(s) PROVE StreamMove
    <2>1. /\ UNCHANGED <<log, total, got>> /\ ended[s] = "no"
          /\ ended' = [ended EXCEPT ![s] = "eof"]
      BY <1>6 DEF RecvEof, MayTransfer
    <2>2. \A t \in Side : (ended'[t] = "notify") <=> (ended[t] = "notify")
      BY <2>1 DEF TypeOK
    <2> QED
      BY <2>1, <2>2, StutterMove
  <1>7. ASSUME NEW s \in Side,
               \/ RecvReject(s) \/ RecvError(s) \/ EncryptSendRefused(s) \/ ShutdownRecv(s)
               \/ Close(s) \/ NetworkFault(s)
        PROVE  StreamMove
    <2>1. UNCHANGED <<log, total, got, ended>>
      BY <1>7 DEF RecvReject, RecvError, EncryptSendRefused, ShutdownRecv, ShutdownAccept,
         ShutdownReject, ShutdownFail, Close, NetworkFault
    <2> QED
      BY <2>1, StutterMove
  <1>8. CASE UNCHANGED vars
    BY <1>8, StutterMove DEF vars
  <1> QED
    BY <1>1, <1>2, <1>3, <1>4, <1>5, <1>6, <1>7, <1>8 DEF Next, Step, tls_recv

\* tls_send, tls_recv and tls_shutdown implement SecureStream: to applications
\* that stop at the first call that fails, and as long as sequence numbers do
\* not wrap, the record layer is a stream that may stop but never errs.
THEOREM RefinesStream ==
  ASSUME NoWrap, ~Persistent
  PROVE  Spec => ImplementsStream
  <1>1. Init => Stream!Init
    <2> SUFFICES ASSUME Init PROVE Stream!Init
      OBVIOUS
    <2>1. [s \in Side |-> Notified(s)] = [s \in Side |-> FALSE]
      BY DEF Init, Notified
    <2>2. [s \in Side |-> ended[s] = "notify"] = [s \in Side |-> FALSE]
      BY DEF Init
    <2> QED
      BY <2>1, <2>2, StreamVars DEF Init, Stream!Init, Notified
  <1>2. TypeOK /\ SafeInv /\ (CloseInv /\ DeliveryInv) /\ [Next]_vars
            => [Stream!Next]_(Stream!vars)
    BY MoveStep DEF StreamMove, StreamSame
  <1> QED
    BY <1>1, <1>2, StreamInvCorrect, TypeCorrect, SafeCorrect, PTL
    DEF Spec, ImplementsStream, Stream!Spec
=============================================================================
