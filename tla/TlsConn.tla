------------------------------ MODULE TlsConn ------------------------------
(***************************************************************************)
(* The application-data phase of a TLCP / TLS 1.2 connection (src/src/     *)
(* tls.c): tls_send, tls_recv and tls_shutdown of two peers that share the *)
(* keys a handshake gave them and exchange encrypted records over a TCP    *)
(* stream each way.  TLCP and TLS 1.2 use the same functions.              *)
(*                                                                         *)
(* Data.  The application bytes a side sends are numbered 1, 2, 3, ... in  *)
(* the order it sends them; Junk stands for any byte that is not           *)
(* application data the record layer has authenticated.  A record is what  *)
(* its receiver can tell: its type, the sequence number under its MAC, the *)
(* bytes it carries and whether its ciphertext still is what was sent.     *)
(***************************************************************************)
EXTENDS Integers, Sequences

CONSTANTS
    Client, Server,   \* the two peers
    MaxPlaintext,     \* TLS_MAX_PLAINTEXT_SIZE, scaled down
    SendSizes,        \* the inlen values the application passes to tls_send
    RecvSizes,        \* the outlen values it passes to tls_recv
    SeqMod,           \* sequence numbers wrap here (2^56 in tls_seq_num_incr)
    MaxRecords,       \* bound: records protected by one side
    MaxFaults,        \* bound: records the network disturbs
    Timeouts,         \* the sides whose socket has a receive timeout (SO_RCVTIMEO)
    Readers,          \* the sides whose application receives in a loop
    Persistent        \* the applications go on calling after a call failed

ASSUME SidesAssumption == Client # Server
ASSUME SizesAssumption ==
    /\ MaxPlaintext \in Nat \ {0}
    /\ SendSizes \subseteq Nat \ {0}
    /\ RecvSizes \subseteq Nat \ {0}
ASSUME BoundsAssumption ==
    /\ SeqMod \in Nat \ {0}
    /\ MaxRecords \in Nat
    /\ MaxFaults \in Nat
    /\ Timeouts \subseteq {Client, Server}
    /\ Readers \subseteq {Client, Server}
    /\ Persistent \in BOOLEAN

VARIABLES
    log,      \* log[s]: every record s has protected, in order (history)
    total,    \* total[s]: application bytes s has put into records (history)
    wire,     \* wire[s]: records of s the peer has not read from its socket
    seqW,     \* the sequence number of the next record s protects
    seqR,     \* the sequence number s expects of the peer's next record
    pending,  \* conn->data[0 .. conn->datalen - 1]
    acc,      \* acc[s]: records of the peer that s has accepted (history)
    got,      \* got[s]: bytes tls_recv has returned to the application of s
    ended,    \* why tls_recv returned 0 at s: "no", "notify" or "eof"
    st,       \* "open", "closing" (in tls_shutdown), "done" or "failed"
    closed,   \* closed[s]: the socket of s is closed
    faults    \* records disturbed so far

vars == <<log, total, wire, seqW, seqR, pending, acc, got, ended, st, closed,
          faults>>

Side == {Client, Server}
Peer(s) == IF s = Client THEN Server ELSE Client

Junk == 0
Bytes == Nat

\* The two bytes of an alert message: level and description.
AlertBytes == <<Junk, Junk>>

Records == [type : {"app", "close_notify"}, seq : 0 .. SeqMod - 1,
            from : Nat, len : Nat, ok : BOOLEAN]

\* tls_record_data of a decrypted record.
DataOf(r) == IF r.type = "app" THEN [i \in 1 .. r.len |-> r.from + i]
                               ELSE AlertBytes

Least(m, n) == IF m <= n THEN m ELSE n

\* After the handshake; the Finished records have taken number 0.
Init ==
    /\ log = [s \in Side |-> <<>>]
    /\ total = [s \in Side |-> 0]
    /\ wire = [s \in Side |-> <<>>]
    /\ seqW = [s \in Side |-> 1 % SeqMod]
    /\ seqR = [s \in Side |-> 1 % SeqMod]
    /\ pending = [s \in Side |-> <<>>]
    /\ acc = [s \in Side |-> 0]
    /\ got = [s \in Side |-> <<>>]
    /\ ended = [s \in Side |-> "no"]
    /\ st = [s \in Side |-> "open"]
    /\ closed = [s \in Side |-> FALSE]
    /\ faults = 0

-----------------------------------------------------------------------------
(* Sending.                                                                *)

\* tls_seq_num_incr: the most significant byte is never incremented.
tls_seq_num_incr(n) == (n + 1) % SeqMod

\* The record tls_encrypt_send protects with the current sequence number.
Protected(s, type, n) ==
    [type |-> type, seq |-> seqW[s], from |-> total[s], len |-> n, ok |-> TRUE]

\* tls_encrypt_send up to the encrypted record: it refuses to run while
\* received data is buffered, and consumes the sequence number.
Protect(s, type, n) ==
    /\ pending[s] = <<>>
    /\ Len(log[s]) < MaxRecords
    /\ log' = [log EXCEPT ![s] = Append(@, Protected(s, type, n))]
    /\ total' = [total EXCEPT ![s] = @ + n]
    /\ seqW' = [seqW EXCEPT ![s] = tls_seq_num_incr(@)]

\* tls_encrypt_send that writes its record.
tls_encrypt_send(s, type, n) ==
    /\ Protect(s, type, n)
    /\ wire' = [wire EXCEPT ![s] = Append(@, Protected(s, type, n))]

\* tls_encrypt_send whose tls_record_send fails, as it may on a connection
\* the peer has closed.
EncryptSendFails(s, type, n) ==
    /\ Protect(s, type, n)
    /\ closed[Peer(s)]
    /\ st' = [st EXCEPT ![s] = "failed"]
    /\ UNCHANGED wire

\* When the application may call: not while tls_shutdown blocks, not on a
\* closed socket and, unless it is Persistent, not after a call failed.
MayCall(s) == /\ ~closed[s]
              /\ st[s] # "closing"
              /\ Persistent \/ st[s] = "open"

MayTransfer(s) == MayCall(s) /\ (Persistent \/ ended[s] = "no")

\* tls_send with a buffer of n bytes, of which one record's worth is taken.
\* (While received data is buffered it is refused: EncryptSendRefused.)
tls_send(s, n) ==
    /\ MayTransfer(s)
    /\ \/ tls_encrypt_send(s, "app", Least(n, MaxPlaintext)) /\ UNCHANGED st
       \/ EncryptSendFails(s, "app", Least(n, MaxPlaintext))
    /\ UNCHANGED <<seqR, pending, acc, got, ended, closed, faults>>

-----------------------------------------------------------------------------
(* Receiving.                                                              *)

\* Mutant: the MAC does not cover the sequence number.
AuthenticAnySeq(s, r) == r.ok

\* The MAC check of tls_cbc_decrypt: the record is the one the peer protected
\* and carries the sequence number this side expects.
Authentic(s, r) == r.ok /\ r.seq = seqR[s]

\* What a failed tls_cbc_decrypt leaves in conn->datalen: *outlen is set after
\* the padding check and before the MAC check.  A disturbed record may fail
\* either check; an intact one out of its turn fails the MAC check.
LeftLen(r) == IF r.ok THEN {Len(DataOf(r))} ELSE 0 .. MaxPlaintext

\* tls_decrypt_recv when a record is there.
TakeRecord(s) == wire' = [wire EXCEPT ![Peer(s)] = Tail(@)]

AcceptRecord(s) ==
    /\ wire[Peer(s)] # <<>>
    /\ Authentic(s, Head(wire[Peer(s)]))
    /\ TakeRecord(s)
    /\ seqR' = [seqR EXCEPT ![s] = tls_seq_num_incr(@)]
    /\ acc' = [acc EXCEPT ![s] = @ + 1]

RejectRecord(s) ==
    /\ wire[Peer(s)] # <<>>
    /\ ~Authentic(s, Head(wire[Peer(s)]))
    /\ TakeRecord(s)
    /\ \E n \in LeftLen(Head(wire[Peer(s)])) :
        pending' = [pending EXCEPT ![s] = [i \in 1 .. n |-> Junk]]
    /\ st' = [st EXCEPT ![s] = "failed"]
    /\ UNCHANGED <<seqR, acc>>

\* The end of the peer's stream: recv() returns 0.
AtEof(s) == wire[Peer(s)] = <<>> /\ closed[Peer(s)]

\* Mutant: the data pointer is not advanced.
HandOutAgain(s, data, n) ==
    LET k == Least(n, Len(data)) IN
    /\ got' = [got EXCEPT ![s] = @ \o SubSeq(data, 1, k)]
    /\ pending' = [pending EXCEPT ![s] = SubSeq(data, 1, Len(data) - k)]

\* The last lines of tls_recv: hand out as much of data as fits in n bytes
\* and keep the rest in conn->data.
HandOut(s, data, n) ==
    LET k == Least(n, Len(data)) IN
    /\ got' = [got EXCEPT ![s] = @ \o SubSeq(data, 1, k)]
    /\ pending' = [pending EXCEPT ![s] = SubSeq(data, k + 1, Len(data))]

\* Mutant: buffered data is handed out only when it is more than was asked for.
RecvBufferedMore(s, n) ==
    /\ MayTransfer(s)
    /\ Len(pending[s]) > n
    /\ HandOut(s, pending[s], n)
    /\ UNCHANGED <<log, total, wire, seqW, seqR, acc, ended, st, closed, faults>>

\* tls_recv with bytes left over from the previous record.
RecvBuffered(s, n) ==
    /\ MayTransfer(s)
    /\ pending[s] # <<>>
    /\ HandOut(s, pending[s], n)
    /\ UNCHANGED <<log, total, wire, seqW, seqR, acc, ended, st, closed, faults>>

\* tls_recv that reads a record of application data.
RecvData(s, n) ==
    /\ MayTransfer(s)
    /\ pending[s] = <<>>
    /\ AcceptRecord(s)
    /\ Head(wire[Peer(s)]).type = "app"
    /\ HandOut(s, DataOf(Head(wire[Peer(s)])), n)
    /\ UNCHANGED <<log, total, seqW, ended, st, closed, faults>>

\* Mutant: the next record is read although data is still buffered.
RecvCloseNotifyEarly(s) ==
    /\ MayTransfer(s)
    /\ AcceptRecord(s)
    /\ Head(wire[Peer(s)]).type = "close_notify"
    /\ pending' = [pending EXCEPT ![s] = AlertBytes]
    /\ ended' = [ended EXCEPT ![s] = "notify"]
    /\ UNCHANGED <<log, total, seqW, got, st, closed, faults>>

\* tls_recv that reads close_notify returns 0 and leaves the two alert bytes
\* in conn->data, conn->datalen.
RecvCloseNotify(s) ==
    /\ MayTransfer(s)
    /\ pending[s] = <<>>
    /\ AcceptRecord(s)
    /\ Head(wire[Peer(s)]).type = "close_notify"
    /\ pending' = [pending EXCEPT ![s] = AlertBytes]
    /\ ended' = [ended EXCEPT ![s] = "notify"]
    /\ UNCHANGED <<log, total, seqW, got, st, closed, faults>>

\* tls_recv that reads a record which does not decrypt returns -1.
RecvReject(s) ==
    /\ MayTransfer(s)
    /\ pending[s] = <<>>
    /\ RejectRecord(s)
    /\ UNCHANGED <<log, total, seqW, got, ended, closed, faults>>

\* tls_recv at the end of the TCP stream returns 0.
RecvEof(s) ==
    /\ MayTransfer(s)
    /\ pending[s] = <<>>
    /\ AtEof(s)
    /\ ended' = [ended EXCEPT ![s] = IF @ = "no" THEN "eof" ELSE @]
    /\ UNCHANGED <<log, total, wire, seqW, seqR, pending, acc, got, st, closed,
                   faults>>

\* recv() fails (the peer reset the connection): tls_recv returns -1.
RecvError(s) ==
    /\ MayTransfer(s)
    /\ pending[s] = <<>>
    /\ closed[Peer(s)]
    /\ st' = [st EXCEPT ![s] = "failed"]
    /\ UNCHANGED <<log, total, wire, seqW, seqR, pending, acc, got, ended,
                   closed, faults>>

tls_recv(s, n) == \/ RecvBuffered(s, n)
                  \/ RecvData(s, n)
                  \/ RecvCloseNotify(s)
                  \/ RecvReject(s)
                  \/ RecvEof(s)
                  \/ RecvError(s)

-----------------------------------------------------------------------------
(* Closing.                                                                *)

\* tls_shutdown up to its close_notify, after which it waits for a record.
ShutdownSend(s) ==
    /\ MayCall(s)
    /\ \/ /\ tls_encrypt_send(s, "close_notify", 0)
          /\ st' = [st EXCEPT ![s] = "closing"]
       \/ EncryptSendFails(s, "close_notify", 0)
    /\ UNCHANGED <<seqR, pending, acc, got, ended, closed, faults>>

\* tls_send and tls_shutdown while conn->datalen is not 0: tls_encrypt_send refuses
\* with -1.  A server that echoes a record longer than its buffer ends like this.
EncryptSendRefused(s) ==
    /\ MayCall(s)
    /\ pending[s] # <<>>
    /\ st' = [st EXCEPT ![s] = "failed"]
    /\ UNCHANGED <<log, total, wire, seqW, seqR, pending, acc, got, ended,
                   closed, faults>>

\* Mutant: tls_shutdown takes a record out of its turn.
ShutdownAcceptAny(s) ==
    /\ st[s] = "closing" /\ ~closed[s]
    /\ wire[Peer(s)] # <<>> /\ Head(wire[Peer(s)]).ok
    /\ TakeRecord(s)
    /\ seqR' = [seqR EXCEPT ![s] = tls_seq_num_incr(@)]
    /\ acc' = [acc EXCEPT ![s] = @ + 1]
    /\ pending' = [pending EXCEPT ![s] = DataOf(Head(wire[Peer(s)]))]
    /\ st' = [st EXCEPT ![s] = "done"]
    /\ UNCHANGED <<log, total, seqW, got, ended, closed, faults>>

\* tls_shutdown takes the next record that decrypts, whatever its type, for
\* the peer's close_notify and returns 1.
ShutdownAccept(s) ==
    /\ st[s] = "closing" /\ ~closed[s]
    /\ AcceptRecord(s)
    /\ pending' = [pending EXCEPT ![s] = DataOf(Head(wire[Peer(s)]))]
    /\ st' = [st EXCEPT ![s] = "done"]
    /\ UNCHANGED <<log, total, seqW, got, ended, closed, faults>>

ShutdownReject(s) ==
    /\ st[s] = "closing" /\ ~closed[s]
    /\ RejectRecord(s)
    /\ UNCHANGED <<log, total, seqW, got, ended, closed, faults>>

\* Mutant: tls_shutdown does not notice the end of the stream.
ShutdownFailNoEof(s) ==
    /\ st[s] = "closing" /\ ~closed[s]
    /\ s \in Timeouts /\ wire[Peer(s)] = <<>>
    /\ st' = [st EXCEPT ![s] = "failed"]
    /\ UNCHANGED <<log, total, wire, seqW, seqR, pending, acc, got, ended,
                   closed, faults>>

\* tls_shutdown fails at the end of the stream, on a socket error and on a
\* receive timeout.
ShutdownFail(s) ==
    /\ st[s] = "closing" /\ ~closed[s]
    /\ closed[Peer(s)] \/ (s \in Timeouts /\ wire[Peer(s)] = <<>>)
    /\ st' = [st EXCEPT ![s] = "failed"]
    /\ UNCHANGED <<log, total, wire, seqW, seqR, pending, acc, got, ended,
                   closed, faults>>

\* The rest of tls_shutdown.
ShutdownRecv(s) == ShutdownAccept(s) \/ ShutdownReject(s) \/ ShutdownFail(s)

\* The application closes its socket, or its process ends, at any point.
Close(s) ==
    /\ ~closed[s]
    /\ closed' = [closed EXCEPT ![s] = TRUE]
    /\ UNCHANGED <<log, total, wire, seqW, seqR, pending, acc, got, ended, st,
                   faults>>

-----------------------------------------------------------------------------
(* The network: a record of s in flight is altered, lost, repeated or      *)
(* overtaken by the one behind it.                                         *)

Altered(q, k) == [q EXCEPT ![k] = [q[k] EXCEPT !.ok = FALSE]]
Without(q, k) == [i \in 1 .. Len(q) - 1 |-> IF i < k THEN q[i] ELSE q[i + 1]]
Twice(q, k)   == [i \in 1 .. Len(q) + 1 |-> IF i <= k THEN q[i] ELSE q[i - 1]]
Swapped(q, k) == [q EXCEPT ![k] = q[k + 1], ![k + 1] = q[k]]

NetworkFault(s) ==
    /\ faults < MaxFaults
    /\ faults' = faults + 1
    /\ \E k \in 1 .. Len(wire[s]) :
        \/ wire' = [wire EXCEPT ![s] = Altered(@, k)]
        \/ wire' = [wire EXCEPT ![s] = Without(@, k)]
        \/ wire' = [wire EXCEPT ![s] = Twice(@, k)]
        \/ k < Len(wire[s]) /\ wire' = [wire EXCEPT ![s] = Swapped(@, k)]
    /\ UNCHANGED <<log, total, seqW, seqR, pending, acc, got, ended, st, closed>>

-----------------------------------------------------------------------------
Step(s) == \/ \E n \in SendSizes : tls_send(s, n)
           \/ \E n \in RecvSizes : tls_recv(s, n)
           \/ ShutdownSend(s)
           \/ EncryptSendRefused(s)
           \/ ShutdownRecv(s)
           \/ Close(s)

Next == \E s \in Side : Step(s) \/ NetworkFault(s)

Spec == Init /\ [][Next]_vars

\* What certainly goes on: the receive loop of a server (and of tlcp_client -get),
\* which calls tls_recv until it does not return 1 or a tls_send in between fails,
\* and a call that is inside tls_shutdown.  Nothing is assumed of an application
\* that waits in fgets or select for its user, and nobody is assumed to close: the
\* servers keep the socket of a connection that has ended.
Fairness ==
    /\ \A s \in Readers : WF_vars(\E n \in RecvSizes : tls_recv(s, n))
    /\ \A s \in Side : WF_vars(ShutdownRecv(s))

FairSpec == Spec /\ Fairness

-----------------------------------------------------------------------------
(* Properties.                                                             *)

TypeOK ==
    /\ log \in [Side -> Seq(Records)]
    /\ total \in [Side -> Nat]
    /\ wire \in [Side -> Seq(Records)]
    /\ seqW \in [Side -> 0 .. SeqMod - 1]
    /\ seqR \in [Side -> 0 .. SeqMod - 1]
    /\ pending \in [Side -> Seq(Bytes)]
    /\ acc \in [Side -> Nat]
    /\ got \in [Side -> Seq(Bytes)]
    /\ ended \in [Side -> {"no", "notify", "eof"}]
    /\ st \in [Side -> {"open", "closing", "done", "failed"}]
    /\ closed \in [Side -> BOOLEAN]
    /\ faults \in Nat

\* What the application of s has received is a prefix of the bytes the
\* application of the peer has sent: nothing is lost, repeated, reordered or
\* made up by tls_recv, however the network disturbs the records, partial
\* reads and the interleaving with tls_send and tls_shutdown included.
PrefixDelivered ==
    \A s \in Side : /\ Len(got[s]) <= total[Peer(s)]
                    /\ \A i \in 1 .. Len(got[s]) : got[s][i] = i

\* When tls_recv returned 0 because of the peer's close_notify, the
\* application has every byte the peer had sent before it.
CompleteAtNotify ==
    \A s \in Side : ended[s] = "notify" => Len(got[s]) = total[Peer(s)]

\* A record is accepted only in its turn: what tls_decrypt_recv takes as the
\* peer's next record is the next record the peer protected, even for
\* applications that go on after a failed call.
AcceptInOrder ==
    [][\A s \in Side : acc'[s] # acc[s] =>
        /\ acc'[s] = acc[s] + 1
        /\ acc'[s] <= Len(log[Peer(s)])
        /\ Head(wire[Peer(s)]) = log[Peer(s)][acc'[s]]]_vars

\* The connection implements the abstract stream: a side is finished once its
\* close_notify is protected, and complete once tls_recv returned 0 for it.
Stream == INSTANCE SecureStream WITH
    MaxWrite <- MaxPlaintext,
    written <- total,
    finished <- [s \in Side |-> \E i \in 1 .. Len(log[s]) : log[s][i].type = "close_notify"],
    delivered <- got,
    complete <- [s \in Side |-> ended[s] = "notify"]

\* Every behaviour of the two peers is one of SecureStream: the applications
\* cannot tell the record layer from a stream that may stop but never errs.
ImplementsStream == Stream!Spec

\* Every byte handed to tls_send reaches an application that receives in a loop,
\* unless that side has closed or a call of it has failed, or a record was
\* disturbed: what did not fit into one call comes with the next ones, and the
\* sequence numbers of the two sides wrap alike.
EventuallyDelivered ==
    \A s \in Side : Peer(s) \in Readers =>
        \A n \in 1 .. MaxRecords * MaxPlaintext :
            total[s] >= n ~> \/ Len(got[Peer(s)]) >= n
                             \/ closed[Peer(s)] \/ closed[s]
                             \/ st[Peer(s)] # "open"
                             \/ faults > 0

\* A call of tls_shutdown does not block for ever on a socket with a receive timeout
\* or with a peer that is gone, and two peers that are both in it do not wait for
\* each other, unless a record was disturbed.
ShutdownReturns ==
    \A s \in Side :
        /\ st[s] = "closing" /\ (s \in Timeouts \/ closed[Peer(s)])
               ~> st[s] # "closing" \/ closed[s]
        /\ st[s] = "closing" /\ st[Peer(s)] = "closing"
               ~> st[s] # "closing" \/ closed[s] \/ faults > 0

\* The same without a timeout, whatever the peer does.  (Not so: a peer that has
\* received the close_notify and neither answers nor closes, as the servers, is
\* waited for.)
ShutdownAlwaysReturns ==
    \A s \in Side :
        st[s] = "closing" ~> st[s] # "closing" \/ closed[s] \/ faults > 0

\* tls_shutdown returns 1 only when what it read was the close_notify its
\* trace line announces.  (Not so: it does not look at the type of the record.)
ShutdownSawNotify ==
    \A s \in Side : st[s] = "done" =>
        acc[s] > 0 /\ log[Peer(s)][acc[s]].type = "close_notify"

\* tls_shutdown is not refused, for want of receiving buffered data, to a side
\* that has received everything up to the peer's close_notify.  (Not so: the
\* two bytes of the alert count as buffered.)
NotifiedCanAnswer ==
    \A s \in Side : ended[s] = "notify" => st[s] # "failed"

-----------------------------------------------------------------------------
(* The inductive invariant behind the safety properties.                   *)

\* The application bytes in the first k records of s.
Upto(s, k) == IF k < Len(log[s]) THEN log[s][k + 1].from ELSE total[s]

\* The records of s number 1, 2, 3, ... and carry its stream without gaps.
LogInv == \A s \in Side :
    /\ Len(log[s]) <= MaxRecords
    /\ seqW[s] = (Len(log[s]) + 1) % SeqMod
    /\ Upto(s, 0) = 0
    /\ \A i \in 1 .. Len(log[s]) :
        /\ log[s][i].ok
        /\ log[s][i].seq = i % SeqMod
        /\ log[s][i].from + log[s][i].len = Upto(s, i)
        /\ Upto(s, i) <= total[s]

\* A record in flight whose ciphertext is intact is one that was sent.
WireInv == \A s \in Side : \A k \in 1 .. Len(wire[s]) :
    wire[s][k].ok => \E i \in 1 .. Len(log[s]) : wire[s][k] = log[s][i]

\* The receiver counts the records of the peer it has accepted.
RecvInv == \A s \in Side :
    /\ acc[s] <= Len(log[Peer(s)])
    /\ seqR[s] = (acc[s] + 1) % SeqMod

\* close_notify is the last record of a side.
CloseInv == \A s \in Side : \A i \in 1 .. Len(log[s]) :
    log[s][i].type = "close_notify" =>
        i = Len(log[s]) /\ log[s][i].len = 0 /\ st[s] # "open"

\* While a side receives, what it has returned and what it has buffered are
\* the bytes of the records it has accepted.
DeliveryInv == \A s \in Side :
    /\ \A i \in 1 .. Len(got[s]) : got[s][i] = i
    /\ Len(got[s]) <= total[Peer(s)]
    /\ st[s] = "open" /\ ended[s] = "no" =>
        /\ Len(got[s]) + Len(pending[s]) = Upto(Peer(s), acc[s])
        /\ \A i \in 1 .. Len(pending[s]) : pending[s][i] = Len(got[s]) + i
    /\ ended[s] = "notify" => /\ Len(got[s]) = total[Peer(s)]
                              /\ st[Peer(s)] # "open"

\* No connection lives long enough for its sequence numbers to wrap.
NoWrap == MaxRecords + 1 < SeqMod

SafeInv == LogInv /\ WireInv /\ RecvInv
StreamInv == ~Persistent => CloseInv /\ DeliveryInv

=============================================================================
