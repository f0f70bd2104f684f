------------------------- MODULE TlsHandshakeProofs -------------------------
(***************************************************************************)
(* TLAPS proofs about TlsHandshake, for any number of network faults and   *)
(* signatures that fail: its type invariant, the order of the data, who    *)
(* was authenticated, and the agreement of TLS 1.2 and of TLS 1.3.         *)
(***************************************************************************)
EXTENDS TlsHandshake, TLAPS

-----------------------------------------------------------------------------
(* The types of the state.                                                 *)

\* A queue or a transcript is a sequence of records over its own elements.
Elems(q) == {q[i] : i \in DOMAIN q}
RecordOK(m) ==
    /\ m = [type |-> m.type, random |-> m.random, share |-> m.share,
            exts |-> m.exts, over |-> m.over, val |-> m.val, key |-> m.key,
            seq |-> m.seq]
    /\ m.seq \in Nat
    /\ m.type = "application_data" => m.over \in Nat
IsRecordSeq(q) == q \in Seq(Elems(q)) /\ \A m \in Elems(q) : RecordOK(m)
RecordSeqs(q) ==
    /\ q = [s \in Side |-> q[s]]
    /\ \A s \in Side : /\ q[s] \in Seq(Elems(q[s]))
                       /\ \A m \in Elems(q[s]) : RecordOK(m)

Steps == SendSteps12 \cup RecvSteps12 \cup SendSteps13 \cup RecvSteps13
         \cup {"established", "disconnected", "failed"}

KeysOK == /\ share = [s \in Side |-> share[s]]
          /\ secret = [s \in Side |-> secret[s]]
          /\ random = [s \in Side |-> random[s]]
          /\ appSecret = [s \in Side |-> appSecret[s]]
          /\ clientCerts \in BOOLEAN
SeqsOK == sendSeq \in [Side -> Nat] /\ recvSeq \in [Side -> Nat]
DataOK == sent \in [Side -> Nat] /\ got \in [Side -> Seq(Nat)]
OtherOK == config \in Configs /\ closed \in [Side -> BOOLEAN] /\ faults \in Nat

TypeOK == /\ pc \in [Side -> Steps]
          /\ RecordSeqs(wire) /\ RecordSeqs(transcript)
          /\ KeysOK /\ SeqsOK /\ DataOK /\ OtherOK

-----------------------------------------------------------------------------
(* Sequences of records.  What the model does to one adds or keeps         *)
(* elements.                                                               *)

\* A sequence over any set is a sequence over its own elements.
LEMMA OwnElems ==
  ASSUME NEW S, NEW q \in Seq(S)
  PROVE  q \in Seq(Elems(q)) /\ Elems(q) \subseteq S
  <1>1. Len(q) \in Nat /\ DOMAIN q = 1 .. Len(q) /\ q = [i \in 1 .. Len(q) |-> q[i]]
    OBVIOUS
  <1>2. \A i \in 1 .. Len(q) : q[i] \in Elems(q) /\ q[i] \in S
    BY <1>1 DEF Elems
  <1>3. q \in [1 .. Len(q) -> Elems(q)]
    BY <1>1, <1>2
  <1>4. q \in Seq(Elems(q))
    BY <1>1, <1>3
  <1>5. Elems(q) \subseteq S
    BY <1>1, <1>2 DEF Elems
  <1> QED
    BY <1>4, <1>5

LEMMA EmptySeq == IsRecordSeq(<<>>) /\ Elems(<<>>) = {}
  BY DEF IsRecordSeq, Elems

LEMMA AppendSeq ==
  ASSUME NEW q, q \in Seq(Elems(q)), NEW m
  PROVE  /\ Append(q, m) \in Seq(Elems(Append(q, m)))
         /\ Elems(Append(q, m)) = Elems(q) \cup {m}
         /\ Append(q, m) # <<>>
         /\ Append(q, m)[Len(Append(q, m))] = m
  <1> DEFINE r == Append(q, m)
  <1>1. r \in Seq(Elems(q) \cup {m})
    OBVIOUS
  <1>2. /\ Len(q) \in Nat /\ Len(r) = Len(q) + 1 /\ DOMAIN q = 1 .. Len(q)
        /\ DOMAIN r = 1 .. Len(q) + 1
        /\ \A i \in 1 .. Len(q) : r[i] = q[i]
        /\ r[Len(q) + 1] = m
    OBVIOUS
  <1>3. Elems(r) = Elems(q) \cup {m}
    <2>1. Elems(r) \subseteq Elems(q) \cup {m}
      BY <1>1, OwnElems
    <2>2. Elems(q) \subseteq Elems(r)
      <3>1. \A i \in 1 .. Len(q) : q[i] \in Elems(r)
        BY <1>2 DEF Elems
      <3> QED
        BY <1>2, <3>1 DEF Elems
    <2>3. m \in Elems(r)
      BY <1>2 DEF Elems
    <2> QED
      BY <2>1, <2>2, <2>3
  <1>4. r \in Seq(Elems(r))
    BY <1>1, <1>3
  <1>5. r # <<>>
    BY <1>2
  <1> QED
    BY <1>2, <1>3, <1>4, <1>5

LEMMA TailSeq ==
  ASSUME NEW q, q \in Seq(Elems(q)), q # <<>>
  PROVE  /\ Head(q) \in Elems(q)
         /\ Tail(q) \in Seq(Elems(Tail(q)))
         /\ Elems(Tail(q)) \subseteq Elems(q)
  <1>1. Tail(q) \in Seq(Elems(q)) /\ Head(q) \in Elems(q)
    OBVIOUS
  <1> QED
    BY <1>1, OwnElems

LEMMA FunSeq == ASSUME NEW S, NEW n \in Nat, NEW f \in [1 .. n -> S] PROVE f \in Seq(S)
  OBVIOUS

\* What the network does to a queue, apart from altering a record, leaves it
\* with records it had.
LEMMA FaultSeq ==
  ASSUME NEW q, q \in Seq(Elems(q)), NEW k \in 1 .. Len(q)
  PROVE  /\ Without(q, k) \in Seq(Elems(q))
         /\ Twice(q, k) \in Seq(Elems(q))
         /\ k < Len(q) => Swapped(q, k) \in Seq(Elems(q))
         /\ q[k] \in Elems(q)
  <1>1. /\ Len(q) \in Nat /\ q \in [1 .. Len(q) -> Elems(q)]
        /\ Len(q) - 1 \in Nat /\ Len(q) + 1 \in Nat
    OBVIOUS
  <1>2. Without(q, k) \in [1 .. Len(q) - 1 -> Elems(q)]
    <2>1. ASSUME NEW i \in 1 .. Len(q) - 1
          PROVE  (IF i < k THEN q[i] ELSE q[i + 1]) \in Elems(q)
      BY <1>1
    <2> QED
      BY <2>1 DEF Without
  <1>3. Twice(q, k) \in [1 .. Len(q) + 1 -> Elems(q)]
    <2>1. ASSUME NEW i \in 1 .. Len(q) + 1
          PROVE  (IF i <= k THEN q[i] ELSE q[i - 1]) \in Elems(q)
      BY <1>1
    <2> QED
      BY <2>1 DEF Twice
  <1>4. k < Len(q) => Swapped(q, k) \in [1 .. Len(q) -> Elems(q)]
    BY <1>1 DEF Swapped
  <1>5. Without(q, k) \in Seq(Elems(q))
    BY <1>1, <1>2, FunSeq
  <1>6. Twice(q, k) \in Seq(Elems(q))
    BY <1>1, <1>3, FunSeq
  <1>7. k < Len(q) => Swapped(q, k) \in Seq(Elems(q))
    BY <1>1, <1>4, FunSeq
  <1>8. q[k] \in Elems(q)
    BY <1>1
  <1> QED
    BY <1>5, <1>6, <1>7, <1>8

LEMMA PeerType == \A s \in Side : /\ Peer(s) \in Side /\ Peer(s) # s
                                 /\ Peer(Peer(s)) = s
  BY SidesAssumption DEF Side, Peer

LEMMA PeerOf == /\ Peer(Client) = Server /\ Peer(Server) = Client
                /\ Client \in Side /\ Server \in Side
  BY SidesAssumption DEF Side, Peer

LEMMA SeqsOf ==
  ASSUME NEW q, RecordSeqs(q), NEW s \in Side
  PROVE  q[s] \in Seq(Elems(q[s])) /\ \A m \in Elems(q[s]) : RecordOK(m)
  BY DEF RecordSeqs

\* Replacing one side's sequence by a sequence of records.
LEMMA SetSeq ==
  ASSUME NEW q, RecordSeqs(q), NEW s \in Side, NEW r, IsRecordSeq(r)
  PROVE  RecordSeqs([q EXCEPT ![s] = r])
  <1> DEFINE e == [q EXCEPT ![s] = r]
  <1>1. e = [t \in Side |-> e[t]] /\ e[s] = r /\ \A t \in Side : t # s => e[t] = q[t]
    BY DEF RecordSeqs
  <1>2. ASSUME NEW t \in Side
        PROVE  e[t] \in Seq(Elems(e[t])) /\ \A m \in Elems(e[t]) : RecordOK(m)
    <2>1. CASE t = s
      BY <1>1, <2>1 DEF IsRecordSeq
    <2>2. CASE t # s
      BY <1>1, <2>2 DEF RecordSeqs
    <2> QED
      BY <2>1, <2>2
  <1> HIDE DEF e
  <1>3. RecordSeqs(e)
    BY <1>1, <1>2 DEF RecordSeqs
  <1> QED
    BY <1>3 DEF e

LEMMA AppendTo ==
  ASSUME NEW q, RecordSeqs(q), NEW s \in Side, NEW m, RecordOK(m)
  PROVE  RecordSeqs([q EXCEPT ![s] = Append(@, m)])
  <1>1. IsRecordSeq(Append(q[s], m))
    BY AppendSeq, SeqsOf DEF IsRecordSeq
  <1> QED
    BY <1>1, SetSeq

LEMMA TailOf ==
  ASSUME NEW q, RecordSeqs(q), NEW s \in Side, q[s] # <<>>
  PROVE  RecordSeqs([q EXCEPT ![s] = Tail(@)]) /\ RecordOK(Head(q[s]))
  <1>1. IsRecordSeq(Tail(q[s])) /\ RecordOK(Head(q[s]))
    BY TailSeq, SeqsOf DEF IsRecordSeq
  <1> QED
    BY <1>1, SetSeq

-----------------------------------------------------------------------------
(* Records.                                                                *)

\* Changing the parts of a record that the model changes.
LEMMA MsgOK ==
  ASSUME NEW t
  PROVE  /\ Msg(t).type = t /\ Msg(t).val = "sent" /\ Msg(t).over = None
         /\ Msg(t).key = None /\ Msg(t).seq = 0
         /\ t # "application_data" => RecordOK(Msg(t))
  BY DEF Msg, RecordOK

LEMMA FieldOK ==
  ASSUME NEW m, RecordOK(m), NEW x
  PROVE  /\ RecordOK([m EXCEPT !.val = x]) /\ RecordOK([m EXCEPT !.random = x])
         /\ RecordOK([m EXCEPT !.share = x]) /\ RecordOK([m EXCEPT !.exts = x])
         /\ [m EXCEPT !.val = x].val = x
         /\ [m EXCEPT !.val = x].type = m.type /\ [m EXCEPT !.random = x].type = m.type
         /\ [m EXCEPT !.share = x].type = m.type /\ [m EXCEPT !.exts = x].type = m.type
  BY DEF RecordOK

LEMMA OverOK ==
  ASSUME NEW m, RecordOK(m), NEW x, m.type = "application_data" => x \in Nat
  PROVE  LET r == [m EXCEPT !.over = x]
         IN  /\ RecordOK(r) /\ r.val = m.val /\ r.type = m.type /\ r.over = x
             /\ r.key = m.key /\ r.seq = m.seq
  BY DEF RecordOK

\* Protecting a record, or leaving its protection out.
LEMMA ProtectionOK ==
  ASSUME NEW m, RecordOK(m), NEW k, NEW n
  PROVE  [m EXCEPT !.key = k, !.seq = n] =
            [type |-> m.type, random |-> m.random, share |-> m.share,
             exts |-> m.exts, over |-> m.over, val |-> m.val, key |-> k, seq |-> n]
  <1>1. PICK x : x = [m EXCEPT !.key = k]
    OBVIOUS
  <1>2. x = [type |-> m.type, random |-> m.random, share |-> m.share, exts |-> m.exts,
             over |-> m.over, val |-> m.val, key |-> k, seq |-> m.seq]
    BY <1>1 DEF RecordOK
  <1>3. [x EXCEPT !.seq = n] =
            [type |-> m.type, random |-> m.random, share |-> m.share,
             exts |-> m.exts, over |-> m.over, val |-> m.val, key |-> k, seq |-> n]
    BY <1>2
  <1>4. [m EXCEPT !.key = k, !.seq = n] = [[m EXCEPT !.key = k] EXCEPT !.seq = n]
    OBVIOUS
  <1> QED
    BY <1>1, <1>3, <1>4

LEMMA ContentOK ==
  ASSUME NEW m, RecordOK(m)
  PROVE  /\ RecordOK(Content(m))
         /\ Content(m).type = m.type /\ Content(m).val = m.val
         /\ Content(m).over = m.over /\ Content(m).exts = m.exts
         /\ m.key = None /\ m.seq = 0 => Content(m) = m
  <1>1. Content(m) = [type |-> m.type, random |-> m.random, share |-> m.share,
                      exts |-> m.exts, over |-> m.over, val |-> m.val,
                      key |-> None, seq |-> 0]
    BY ProtectionOK DEF Content
  <1> QED
    BY <1>1 DEF RecordOK

LEMMA ProtectedOK ==
  ASSUME NEW m, RecordOK(m), NEW s \in Side, SeqsOK
  PROVE  /\ RecordOK(Protected(s, m))
         /\ Protected(s, m).type = m.type /\ Protected(s, m).val = m.val
         /\ Protected(s, m).over = m.over
         /\ Protected(s, m).key = secret[s] /\ Protected(s, m).seq = sendSeq[s]
         /\ Content(Protected(s, m)) = Content(m)
  <1>1. sendSeq[s] \in Nat
    BY DEF SeqsOK
  <1>2. PICK r : r = Protected(s, m)
    OBVIOUS
  <1>3. r = [type |-> m.type, random |-> m.random, share |-> m.share,
             exts |-> m.exts, over |-> m.over, val |-> m.val,
             key |-> secret[s], seq |-> sendSeq[s]]
    BY <1>2, ProtectionOK DEF Protected
  <1>4. RecordOK(r)
    BY <1>1, <1>3 DEF RecordOK
  <1>5. Content(m) = [type |-> m.type, random |-> m.random, share |-> m.share,
                      exts |-> m.exts, over |-> m.over, val |-> m.val,
                      key |-> None, seq |-> 0]
    BY ProtectionOK DEF Content
  <1>6. Content(r) = [type |-> r.type, random |-> r.random, share |-> r.share,
                      exts |-> r.exts, over |-> r.over, val |-> r.val,
                      key |-> None, seq |-> 0]
    BY <1>4, ProtectionOK DEF Content
  <1>7. Content(r) = Content(m)
    BY <1>3, <1>5, <1>6
  <1> QED
    BY <1>2, <1>3, <1>4, <1>7

\* The records whose contents decide something later.  All others are, or may
\* become, anything on their way; these are refused when they are disturbed.
WeightyTypes == {"certificate_verify", "server_key_exchange", "client_finished",
                 "server_finished", "application_data"}
Weighty(m) == m.type \in WeightyTypes /\ m.val # "bad"

LEMMA AlteredOK ==
  ASSUME NEW m, RecordOK(m), NEW a \in Altered(m)
  PROVE  RecordOK(a) /\ a.type = m.type /\ ~Weighty(a)
  <1>1. \/ \E x : a = [m EXCEPT !.val = x]
        \/ \E x : a = [m EXCEPT !.random = x]
        \/ \E x : a = [m EXCEPT !.share = x]
        \/ \E x : a = [m EXCEPT !.exts = x]
    BY DEF Altered
  <1>2. RecordOK(a) /\ a.type = m.type
    <2>1. ASSUME NEW x, a = [m EXCEPT !.val = x] PROVE RecordOK(a) /\ a.type = m.type
      BY <2>1, FieldOK
    <2>2. ASSUME NEW x, a = [m EXCEPT !.random = x] PROVE RecordOK(a) /\ a.type = m.type
      BY <2>2, FieldOK
    <2>3. ASSUME NEW x, a = [m EXCEPT !.share = x] PROVE RecordOK(a) /\ a.type = m.type
      BY <2>3, FieldOK
    <2>4. ASSUME NEW x, a = [m EXCEPT !.exts = x] PROVE RecordOK(a) /\ a.type = m.type
      BY <2>4, FieldOK
    <2> QED
      BY <1>1, <2>1, <2>2, <2>3, <2>4
  <1>3. \/ a = [m EXCEPT !.val = "bad"]
        \/ m.type \in {"client_hello", "server_hello", "certificate",
                       "certificate_request", "client_key_exchange"}
    BY DEF Altered
  <1>4. a = [m EXCEPT !.val = "bad"] => a.val = "bad"
    BY FieldOK
  <1> QED
    BY <1>2, <1>3, <1>4 DEF Weighty, WeightyTypes

-----------------------------------------------------------------------------
(* What sending, receiving and failing do to the state.                    *)

LEMMA EmitElems ==
  ASSUME TypeOK, NEW s \in Side, NEW m, Emit(s, m)
  PROVE  Elems(wire'[s]) = Elems(wire[s]) \cup {m} /\ wire'[Peer(s)] = wire[Peer(s)]
  <1>1. wire'[s] = Append(wire[s], m) /\ wire'[Peer(s)] = wire[Peer(s)]
    BY PeerType DEF TypeOK, RecordSeqs, Emit
  <1>2. wire[s] \in Seq(Elems(wire[s]))
    BY DEF TypeOK, RecordSeqs
  <1> QED
    BY <1>1, <1>2, AppendSeq

LEMMA TakeElems ==
  ASSUME TypeOK, NEW s \in Side, Incoming(s), Take(s)
  PROVE  /\ Elems(wire'[Peer(s)]) \subseteq Elems(wire[Peer(s)]) /\ wire'[s] = wire[s]
         /\ First(s) \in Elems(wire[Peer(s)]) /\ RecordOK(First(s))
  <1>1. wire'[Peer(s)] = Tail(wire[Peer(s)]) /\ wire'[s] = wire[s]
    BY PeerType DEF TypeOK, RecordSeqs, Take
  <1>2. wire[Peer(s)] \in Seq(Elems(wire[Peer(s)])) /\ wire[Peer(s)] # <<>>
    BY PeerType DEF TypeOK, RecordSeqs, Incoming
  <1>3. First(s) \in Elems(wire[Peer(s)])
    BY <1>2, TailSeq DEF First
  <1>4. RecordOK(First(s))
    BY <1>3, PeerType DEF TypeOK, RecordSeqs
  <1> QED
    BY <1>1, <1>2, <1>3, <1>4, TailSeq

LEMMA GotoPc ==
  ASSUME TypeOK, NEW s \in Side, NEW next, Goto(s, next)
  PROVE  pc'[s] = next /\ pc'[Peer(s)] = pc[Peer(s)]
  BY PeerType DEF TypeOK, Goto

LEMMA HashEffect ==
  ASSUME TypeOK, NEW s \in Side, NEW m, Hash(s, m)
  PROVE  /\ transcript'[s] = Append(transcript[s], Content(m))
         /\ transcript'[Peer(s)] = transcript[Peer(s)]
  BY PeerType DEF TypeOK, RecordSeqs, Hash

LEMMA AlertEffect ==
  ASSUME TypeOK, NEW s \in Side, NEW rest, FailWithAlert(s, rest), IsRecordSeq(rest),
         Elems(rest) \subseteq Elems(wire[Peer(s)])
  PROVE  /\ RecordSeqs(wire')
         /\ pc'[s] = "failed" /\ pc'[Peer(s)] = pc[Peer(s)]
         /\ \A t \in Side : \A m \in Elems(wire'[t]) : Weighty(m) => m \in Elems(wire[t])
  <1>0. RecordOK(Msg("alert")) /\ ~Weighty(Msg("alert"))
    BY MsgOK DEF Weighty, WeightyTypes
  <1>1. wire'[s] = Append(wire[s], Msg("alert")) /\ wire'[Peer(s)] = rest
    BY PeerType DEF TypeOK, RecordSeqs, FailWithAlert
  <1>2. Elems(wire'[s]) = Elems(wire[s]) \cup {Msg("alert")}
    <2>1. wire[s] \in Seq(Elems(wire[s]))
      BY DEF TypeOK, RecordSeqs
    <2> QED
      BY <1>1, <2>1, AppendSeq
  <1>3. \A t \in Side : t = s \/ t = Peer(s)
    BY DEF Side, Peer
  <1>4. pc'[s] = "failed" /\ pc'[Peer(s)] = pc[Peer(s)]
    BY GotoPc DEF FailWithAlert
  <1>5. RecordSeqs(wire')
    <2>1. PICK w : w = [wire EXCEPT ![s] = Append(@, Msg("alert"))]
      OBVIOUS
    <2>2. RecordSeqs(w)
      BY <1>0, <2>1, AppendTo DEF TypeOK
    <2>3. RecordSeqs([w EXCEPT ![Peer(s)] = rest])
      BY <2>2, SetSeq, PeerType
    <2> QED
      BY <2>1, <2>3 DEF FailWithAlert
  <1> QED
    BY <1>0, <1>1, <1>2, <1>3, <1>4, <1>5

\* What is left after taking a record, or the whole queue.
LEMMA RestOK ==
  ASSUME TypeOK, NEW s \in Side
  PROVE  /\ IsRecordSeq(wire[s])
         /\ wire[s] # <<>> => /\ IsRecordSeq(Tail(wire[s]))
                              /\ Elems(Tail(wire[s])) \subseteq Elems(wire[s])
  BY TailSeq, SeqsOf DEF TypeOK, IsRecordSeq

\* What the network makes of a queue: a queue of records in which no record
\* that counts is new.
LEMMA FaultEffect ==
  ASSUME TypeOK, NEW s \in Side, NetworkFault(s)
  PROVE  \E r : /\ wire' = [wire EXCEPT ![s] = r]
               /\ IsRecordSeq(r)
               /\ \A m \in Elems(r) : Weighty(m) => m \in Elems(wire[s])
  <1>0. PICK q : q = wire[s]
    OBVIOUS
  <1>1. IsRecordSeq(q) /\ q \in Seq(Elems(q)) /\ \A m \in Elems(q) : RecordOK(m)
    BY <1>0, RestOK DEF IsRecordSeq
  <1>2. PICK k \in 1 .. Len(q) :
          \/ \E a \in Altered(q[k]) : wire' = [wire EXCEPT ![s] = [q EXCEPT ![k] = a]]
          \/ wire' = [wire EXCEPT ![s] = Without(q, k)]
          \/ wire' = [wire EXCEPT ![s] = Twice(q, k)]
          \/ k < Len(q) /\ wire' = [wire EXCEPT ![s] = Swapped(q, k)]
    BY <1>0 DEF NetworkFault
  <1>3. ASSUME NEW r, r \in Seq(Elems(q)) PROVE IsRecordSeq(r) /\ Elems(r) \subseteq Elems(q)
    BY <1>1, <1>3, OwnElems DEF IsRecordSeq
  <1>4. ASSUME NEW a \in Altered(q[k]), wire' = [wire EXCEPT ![s] = [q EXCEPT ![k] = a]]
        PROVE  \E r : /\ wire' = [wire EXCEPT ![s] = r]
                     /\ IsRecordSeq(r)
                     /\ \A m \in Elems(r) : Weighty(m) => m \in Elems(wire[s])
    <2>1. q[k] \in Elems(q)
      BY <1>1, FaultSeq
    <2>2. RecordOK(a) /\ ~Weighty(a)
      BY <1>1, <2>1, AlteredOK
    <2>3. PICK r : r = [q EXCEPT ![k] = a]
      OBVIOUS
    <2>4. r \in Seq(Elems(q) \cup {a})
      <3>1. q \in [1 .. Len(q) -> Elems(q)] /\ Len(q) \in Nat
        BY <1>1
      <3>2. r \in [1 .. Len(q) -> Elems(q) \cup {a}]
        BY <2>3, <3>1
      <3> QED
        BY <3>1, <3>2
    <2>5. r \in Seq(Elems(r)) /\ Elems(r) \subseteq Elems(q) \cup {a}
      BY <2>4, OwnElems
    <2>6. IsRecordSeq(r) /\ \A m \in Elems(r) : Weighty(m) => m \in Elems(q)
      BY <1>1, <2>2, <2>5 DEF IsRecordSeq
    <2> QED
      BY <1>0, <1>4, <2>3, <2>6
  <1>5. CASE wire' = [wire EXCEPT ![s] = Without(q, k)]
    <2>1. Without(q, k) \in Seq(Elems(q))
      BY <1>1, FaultSeq
    <2> QED
      BY <1>0, <1>3, <1>5, <2>1
  <1>6. CASE wire' = [wire EXCEPT ![s] = Twice(q, k)]
    <2>1. Twice(q, k) \in Seq(Elems(q))
      BY <1>1, FaultSeq
    <2> QED
      BY <1>0, <1>3, <1>6, <2>1
  <1>7. CASE k < Len(q) /\ wire' = [wire EXCEPT ![s] = Swapped(q, k)]
    <2>1. Swapped(q, k) \in Seq(Elems(q))
      BY <1>1, <1>7, FaultSeq
    <2> QED
      BY <1>0, <1>3, <1>7, <2>1
  <1> QED
    BY <1>2, <1>4, <1>5, <1>6, <1>7

\* The steps that are no message: a side fails, a socket is closed, the
\* network disturbs a record, nothing happens.
Refuses(s) ==
    \/ /\ config.protocol = "tls12" /\ UNCHANGED local13
       /\ Reject12(s) \/ IOFails12(s) \/ (s = Server /\ ServerCannotGoOn12)
    \/ /\ config.protocol = "tls13" /\ UNCHANGED local12
       /\ Reject13(s) \/ IOFails13(s)

Quiet == UNCHANGED vars \/ \E s \in Side : Refuses(s) \/ Environment(s)

\* The messages of each side in each protocol, and the data.
Connect12 == config.protocol = "tls12" /\ Client12 /\ UNCHANGED local13
Accept12 == config.protocol = "tls12" /\ Server12 /\ ~ServerCannotGoOn12 /\ UNCHANGED local13
Connect13 == config.protocol = "tls13" /\ Client13 /\ UNCHANGED local12
Accept13 == config.protocol = "tls13" /\ Server13 /\ UNCHANGED local12
Data13(s) == /\ config.protocol = "tls13" /\ UNCHANGED local12
             /\ tls13_send(s) \/ tls13_recv(s) \/ tls13_recv_fails(s)

LEMMA NextCases ==
  ASSUME [Next]_vars
  PROVE  Connect12 \/ Accept12 \/ Connect13 \/ Accept13 \/ Quiet
         \/ \E s \in Side : Data13(s)
  BY DEF Next, tls_do_handshake, Talk, Next12, Next13, Quiet, Refuses, Connect12,
         Accept12, Connect13, Accept13, Data13, Side

\* The steps at which a call of the handshake has returned.
Ended == {"established", "disconnected", "failed"}

\* What s fails with leaves alone.
Fails(s) ==
    /\ pc[s] \notin Ended /\ pc'[s] = "failed" /\ pc'[Peer(s)] = pc[Peer(s)]
    /\ pc' = [pc EXCEPT ![s] = "failed"]
    /\ UNCHANGED <<config, transcript, share, secret, sendSeq, recvSeq, clientCerts,
                   closed, faults, random, appSecret, sent, got>>
    /\ RecordSeqs(wire')
    /\ \A t \in Side : \A m \in Elems(wire'[t]) : Weighty(m) => m \in Elems(wire[t])

LEMMA AlertFails ==
  ASSUME TypeOK, NEW s \in Side, NEW rest, FailWithAlert(s, rest), IsRecordSeq(rest),
         Elems(rest) \subseteq Elems(wire[Peer(s)]), pc[s] \notin Ended,
         UNCHANGED <<random, appSecret, sent, got>>
  PROVE  Fails(s)
  <1>1. /\ pc' = [pc EXCEPT ![s] = "failed"]
        /\ UNCHANGED <<config, transcript, share, secret, sendSeq, recvSeq,
                       clientCerts, closed, faults>>
    BY DEF FailWithAlert, Goto
  <1> QED
    BY <1>1, AlertEffect DEF Fails

LEMMA SilentFails ==
  ASSUME TypeOK, NEW s \in Side, FailSilently(s), pc[s] \notin Ended,
         UNCHANGED <<random, appSecret, sent, got>>
  PROVE  Fails(s)
  <1>1. /\ pc' = [pc EXCEPT ![s] = "failed"] /\ wire' = wire
        /\ UNCHANGED <<config, transcript, share, secret, sendSeq, recvSeq,
                       clientCerts, closed, faults>>
    BY DEF FailSilently, Goto
  <1>2. pc'[s] = "failed" /\ pc'[Peer(s)] = pc[Peer(s)]
    BY GotoPc DEF FailSilently
  <1> QED
    BY <1>1, <1>2 DEF Fails, TypeOK

LEMMA StepsRun ==
  (SendSteps12 \cup RecvSteps12 \cup SendSteps13 \cup RecvSteps13) \cap Ended = {}
  BY DEF SendSteps12, RecvSteps12, SendSteps13, RecvSteps13, Ended

LEMMA IOFails ==
  ASSUME TypeOK, NEW s \in Side, NEW waiting, NEW sending,
         RecvFails(s, waiting) \/ SendFails(s, sending),
         waiting \cap Ended = {}, sending \cap Ended = {},
         UNCHANGED <<random, appSecret, sent, got>>
  PROVE  Fails(s)
  <1>1. CASE RecvFails(s, waiting)
    BY <1>1, AlertFails, RestOK, PeerType DEF RecvFails
  <1>2. CASE SendFails(s, sending)
    BY <1>2, SilentFails DEF SendFails
  <1> QED
    BY <1>1, <1>2

LEMMA RefusesFails == ASSUME TypeOK, NEW s \in Side, Refuses(s) PROVE Fails(s)
  <1>1. /\ RecvSteps12 \cap Ended = {} /\ SendSteps12 \cap Ended = {}
        /\ RecvSteps13 \cap Ended = {} /\ SendSteps13 \cap Ended = {}
    BY StepsRun
  <1>2. Incoming(s) => /\ IsRecordSeq(Tail(wire[Peer(s)]))
                       /\ Elems(Tail(wire[Peer(s)])) \subseteq Elems(wire[Peer(s)])
    BY RestOK, PeerType DEF Incoming
  <1>3. CASE Reject12(s) /\ UNCHANGED local13
    <2>1. /\ pc[s] \notin Ended /\ Incoming(s) /\ FailWithAlert(s, Tail(wire[Peer(s)]))
          /\ UNCHANGED <<random, appSecret, sent, got>>
      BY <1>1, <1>3 DEF Reject12, local13
    <2> QED
      BY <1>2, <2>1, AlertFails
  <1>4. CASE IOFails12(s) /\ UNCHANGED local13
    BY <1>1, <1>4, IOFails DEF IOFails12, local13
  <1>5. CASE s = Server /\ ServerCannotGoOn12 /\ UNCHANGED local13
    <2>1. pc[s] \notin Ended
      BY <1>5 DEF ServerCannotGoOn12, At, Ended
    <2> QED
      BY <1>5, <2>1, SilentFails DEF ServerCannotGoOn12, local13
  <1>6. CASE Reject13(s) /\ UNCHANGED local12
    <2>1. /\ pc[s] \notin Ended /\ Incoming(s)
          /\ FailSilently(s) \/ FailWithAlert(s, Tail(wire[Peer(s)]))
          /\ UNCHANGED <<random, appSecret, sent, got>>
      BY <1>1, <1>6 DEF Reject13, local12, data13
    <2> QED
      BY <1>2, <2>1, AlertFails, SilentFails
  <1>7. CASE IOFails13(s) /\ UNCHANGED local12
    BY <1>1, <1>7, IOFails DEF IOFails13, local12, data13
  <1> QED
    BY <1>3, <1>4, <1>5, <1>6, <1>7 DEF Refuses

\* What the quiet steps leave alone.
LEMMA QuietEffect ==
  ASSUME TypeOK, Quiet
  PROVE  /\ UNCHANGED <<config, transcript, share, secret, sendSeq, recvSeq,
                        clientCerts, random, appSecret, sent, got>>
         /\ pc' = pc \/ \E s \in Side : Fails(s)
         /\ closed' \in [Side -> BOOLEAN] /\ faults' \in Nat /\ RecordSeqs(wire')
         /\ \A t \in Side : \A m \in Elems(wire'[t]) : Weighty(m) => m \in Elems(wire[t])
  <1>1. CASE UNCHANGED vars
    BY <1>1 DEF vars, TypeOK, OtherOK
  <1>2. ASSUME NEW s \in Side, Refuses(s)
        PROVE  /\ Fails(s) /\ closed' \in [Side -> BOOLEAN] /\ faults' \in Nat
    <2>1. Fails(s)
      BY <1>2, RefusesFails
    <2> QED
      BY <2>1 DEF Fails, TypeOK, OtherOK
  <1>3. ASSUME NEW s \in Side, CloseFailed(s), UNCHANGED <<local12, local13>>
        PROVE  /\ UNCHANGED <<config, transcript, share, secret, sendSeq, recvSeq,
                              clientCerts, random, appSecret, sent, got>>
               /\ pc' = pc /\ closed' \in [Side -> BOOLEAN] /\ faults' \in Nat
               /\ wire' = wire
    BY <1>3 DEF CloseFailed, local12, local13, TypeOK, OtherOK
  <1>4. ASSUME NEW s \in Side, NetworkFault(s), UNCHANGED <<local12, local13>>
        PROVE  /\ UNCHANGED <<config, transcript, share, secret, sendSeq, recvSeq,
                              clientCerts, random, appSecret, sent, got>>
               /\ pc' = pc /\ closed' \in [Side -> BOOLEAN] /\ faults' \in Nat
               /\ RecordSeqs(wire')
               /\ \A t \in Side : \A m \in Elems(wire'[t]) :
                      Weighty(m) => m \in Elems(wire[t])
    <2>1. PICK r : /\ wire' = [wire EXCEPT ![s] = r]
                   /\ IsRecordSeq(r)
                   /\ \A m \in Elems(r) : Weighty(m) => m \in Elems(wire[s])
      BY <1>4, FaultEffect
    <2>2. wire'[s] = r /\ \A t \in Side : t # s => wire'[t] = wire[t]
      BY <2>1 DEF TypeOK, RecordSeqs
    <2>3. RecordSeqs(wire')
      BY <2>1, SetSeq DEF TypeOK
    <2>4. \A t \in Side : \A m \in Elems(wire'[t]) : Weighty(m) => m \in Elems(wire[t])
      BY <2>1, <2>2
    <2>5. /\ UNCHANGED <<config, transcript, share, secret, sendSeq, recvSeq,
                         clientCerts, random, appSecret, sent, got>>
          /\ pc' = pc /\ closed' \in [Side -> BOOLEAN] /\ faults' \in Nat
      BY <1>4 DEF NetworkFault, local12, local13, TypeOK, OtherOK
    <2> QED
      BY <2>3, <2>4, <2>5
  <1> QED
    BY <1>1, <1>2, <1>3, <1>4 DEF Quiet, Environment, Fails, TypeOK

-----------------------------------------------------------------------------
(* The messages, one by one: what a step of each side sends or takes, where *)
(* it goes on, and what it does to the keys and the numbers.               *)

\* s sends m, or takes m from its peer, and hashes it.
Sends(s, step, next, m) ==
    /\ pc[s] = step /\ pc' = [pc EXCEPT ![s] = next]
    /\ pc'[s] = next /\ pc'[Peer(s)] = pc[Peer(s)]
    /\ RecordOK(m) /\ wire'[Peer(s)] = wire[Peer(s)]
    /\ Elems(wire'[s]) = Elems(wire[s]) \cup {m}
    /\ transcript'[s] = Append(transcript[s], Content(m))
    /\ transcript'[Peer(s)] = transcript[Peer(s)]
    /\ RecordSeqs(wire') /\ RecordSeqs(transcript') /\ UNCHANGED <<config, closed>>
Takes(s, step, next, m) ==
    /\ pc[s] = step /\ pc' = [pc EXCEPT ![s] = next]
    /\ pc'[s] = next /\ pc'[Peer(s)] = pc[Peer(s)]
    /\ RecordOK(m) /\ m \in Elems(wire[Peer(s)]) /\ m = First(s)
    /\ Elems(wire'[Peer(s)]) \subseteq Elems(wire[Peer(s)]) /\ wire'[s] = wire[s]
    /\ transcript'[s] = Append(transcript[s], Content(m))
    /\ transcript'[Peer(s)] = transcript[Peer(s)]
    /\ RecordSeqs(wire') /\ RecordSeqs(transcript')
    /\ UNCHANGED <<config, closed, faults>>
\* The same for a record that is not hashed.
Shows(s, step, next, m) ==
    /\ pc[s] = step /\ pc' = [pc EXCEPT ![s] = next]
    /\ pc'[s] = next /\ pc'[Peer(s)] = pc[Peer(s)]
    /\ RecordOK(m) /\ wire'[Peer(s)] = wire[Peer(s)]
    /\ Elems(wire'[s]) = Elems(wire[s]) \cup {m}
    /\ RecordSeqs(wire') /\ UNCHANGED <<config, closed, faults, transcript>>
Skims(s, step, next, m) ==
    /\ pc[s] = step /\ pc' = [pc EXCEPT ![s] = next]
    /\ pc'[s] = next /\ pc'[Peer(s)] = pc[Peer(s)]
    /\ RecordOK(m) /\ m \in Elems(wire[Peer(s)]) /\ m = First(s)
    /\ Elems(wire'[Peer(s)]) \subseteq Elems(wire[Peer(s)]) /\ wire'[s] = wire[s]
    /\ RecordSeqs(wire') /\ UNCHANGED <<config, closed, faults, transcript>>

LEMMA SpeakSends ==
  ASSUME TypeOK, NEW s \in Side, NEW step, NEW m, NEW next, RecordOK(m), pc[s] = step,
         Emit(s, m), Hash(s, m), Goto(s, next), UNCHANGED <<config, closed>>
  PROVE  Sends(s, step, next, m)
  <1>1. RecordSeqs(wire') /\ RecordSeqs(transcript')
    BY AppendTo, ContentOK DEF TypeOK, Emit, Hash
  <1> QED
    BY <1>1, EmitElems, GotoPc, HashEffect DEF Sends, Goto

LEMMA SendSends ==
  ASSUME TypeOK, NEW s \in Side, NEW step, NEW m, NEW next, RecordOK(m),
         Send(s, step, m, next)
  PROVE  Sends(s, step, next, m) /\ faults' = faults
  BY SpeakSends DEF Send, At

LEMMA RecvTakes ==
  ASSUME TypeOK, NEW s \in Side, NEW step, NEW next, Recv(s, step, next)
  PROVE  Takes(s, step, next, First(s))
  <1>0. PICK m : m = First(s)
    OBVIOUS
  <1>1. /\ Elems(wire'[Peer(s)]) \subseteq Elems(wire[Peer(s)]) /\ wire'[s] = wire[s]
        /\ m \in Elems(wire[Peer(s)]) /\ RecordOK(m)
    BY <1>0, TakeElems DEF Recv
  <1>2. pc'[s] = next /\ pc'[Peer(s)] = pc[Peer(s)]
    BY GotoPc DEF Recv
  <1>3. /\ transcript'[s] = Append(transcript[s], Content(m))
        /\ transcript'[Peer(s)] = transcript[Peer(s)]
    BY <1>0, HashEffect DEF Recv
  <1>4. RecordSeqs(wire')
    BY TailOf, PeerType DEF TypeOK, Recv, Take, Incoming
  <1>5. RecordSeqs(transcript')
    BY <1>0, <1>1, AppendTo, ContentOK DEF TypeOK, Recv, Hash
  <1> QED
    BY <1>0, <1>1, <1>2, <1>3, <1>4, <1>5 DEF Recv, At, Takes, Goto

LEMMA UnhashedShows ==
  ASSUME TypeOK, NEW s \in Side, NEW step, NEW m, NEW next, RecordOK(m),
         Unhashed(s, step, next), Emit(s, m)
  PROVE  Shows(s, step, next, m)
  <1>1. RecordSeqs(wire')
    BY AppendTo DEF TypeOK, Emit
  <1> QED
    BY <1>1, EmitElems, GotoPc DEF Unhashed, At, Shows, Goto

LEMMA UnhashedSkims ==
  ASSUME TypeOK, NEW s \in Side, NEW step, NEW next, Unhashed(s, step, next),
         Incoming(s), Take(s)
  PROVE  Skims(s, step, next, First(s))
  <1>1. RecordSeqs(wire')
    BY TailOf, PeerType DEF TypeOK, Take, Incoming
  <1> QED
    BY <1>1, TakeElems, GotoPc DEF Unhashed, At, Skims, Goto

\* A message with one part of its own, or more.
LEMMA MsgFieldOK ==
  ASSUME NEW t, t # "application_data", NEW x
  PROVE  /\ RecordOK([Msg(t) EXCEPT !.random = x]) /\ [Msg(t) EXCEPT !.random = x].type = t
         /\ RecordOK([Msg(t) EXCEPT !.share = x]) /\ [Msg(t) EXCEPT !.share = x].type = t
         /\ RecordOK([Msg(t) EXCEPT !.val = x]) /\ [Msg(t) EXCEPT !.val = x].type = t
         /\ [Msg(t) EXCEPT !.val = x].val = x
  <1>1. PICK m : m = Msg(t)
    OBVIOUS
  <1>2. /\ RecordOK(m) /\ m.type = t /\ m.val = "sent" /\ m.key = None /\ m.seq = 0
        /\ m.type # "application_data"
    BY <1>1, MsgOK
  <1>3. /\ RecordOK([m EXCEPT !.random = x]) /\ [m EXCEPT !.random = x].type = t
        /\ RecordOK([m EXCEPT !.share = x]) /\ [m EXCEPT !.share = x].type = t
        /\ RecordOK([m EXCEPT !.val = x]) /\ [m EXCEPT !.val = x].type = t
        /\ [m EXCEPT !.val = x].val = x
    BY <1>2, FieldOK
  <1> QED
    BY <1>1, <1>3

LEMMA HelloOK ==
  ASSUME NEW t, t # "application_data", NEW r, NEW e
  PROVE  LET m == [Msg(t) EXCEPT !.random = r, !.exts = e]
         IN  RecordOK(m) /\ m.type = t
  <1>1. PICK a : a = [Msg(t) EXCEPT !.random = r]
    OBVIOUS
  <1>2. RecordOK(a) /\ a.type = t
    BY <1>1, MsgFieldOK
  <1>3. RecordOK([a EXCEPT !.exts = e]) /\ [a EXCEPT !.exts = e].type = t
    BY <1>2, FieldOK
  <1>4. [Msg(t) EXCEPT !.random = r, !.exts = e] = [a EXCEPT !.exts = e]
    BY <1>1
  <1> QED
    BY <1>3, <1>4

LEMMA SharedHelloOK ==
  ASSUME NEW t, t # "application_data", NEW r, NEW e, NEW k
  PROVE  LET m == [Msg(t) EXCEPT !.random = r, !.share = k, !.exts = e]
         IN  RecordOK(m) /\ m.type = t
  <1>1. PICK a : a = [Msg(t) EXCEPT !.random = r]
    OBVIOUS
  <1>2. RecordOK(a) /\ a.type = t
    BY <1>1, MsgFieldOK
  <1>3. PICK b : b = [a EXCEPT !.share = k]
    OBVIOUS
  <1>4. RecordOK(b) /\ b.type = t
    BY <1>2, <1>3, FieldOK
  <1>5. RecordOK([b EXCEPT !.exts = e]) /\ [b EXCEPT !.exts = e].type = t
    BY <1>4, FieldOK
  <1>6. [Msg(t) EXCEPT !.random = r, !.share = k, !.exts = e] = [b EXCEPT !.exts = e]
    BY <1>1, <1>3
  <1> QED
    BY <1>5, <1>6

\* A signature or a Finished covers its sender's transcript.
LEMMA SealedOK ==
  ASSUME TypeOK, NEW s \in Side, NEW t, t # "application_data"
  PROVE  /\ Finished12(s, t) = Signed(s, t)
         /\ Content(Signed(s, t)) = Signed(s, t)
         /\ RecordOK(Signed(s, t)) /\ Signed(s, t).type = t
         /\ Signed(s, t).over = transcript[s] /\ Signed(s, t).val = "sent"
         /\ RecordOK(Protected(s, Signed(s, t)))
         /\ Protected(s, Signed(s, t)).type = t
         /\ Protected(s, Signed(s, t)).over = transcript[s]
         /\ Protected(s, Signed(s, t)).val = "sent"
         /\ Protected(s, Signed(s, t)).key = secret[s]
         /\ Protected(s, Signed(s, t)).seq = sendSeq[s]
         /\ Content(Protected(s, Signed(s, t))) = Signed(s, t)
  <1>1. PICK m : m = Signed(s, t)
    OBVIOUS
  <1>2. Finished12(s, t) = m
    BY <1>1 DEF Signed, Finished12
  <1>3. /\ RecordOK(m) /\ m.type = t /\ m.over = transcript[s] /\ m.val = "sent"
        /\ Content(m) = m
    <2>1. PICK h : h = Msg(t)
      OBVIOUS
    <2>2. /\ RecordOK(h) /\ h.type = t /\ h.val = "sent" /\ h.key = None /\ h.seq = 0
          /\ h.type # "application_data"
      BY <2>1, MsgOK
    <2>3. m = [h EXCEPT !.over = transcript[s]]
      BY <1>1, <2>1 DEF Signed
    <2>4. /\ RecordOK(m) /\ m.type = t /\ m.over = transcript[s] /\ m.val = "sent"
          /\ m.key = None /\ m.seq = 0
      BY <2>2, <2>3, OverOK
    <2> QED
      BY <2>4, ContentOK
  <1>4. SeqsOK
    BY DEF TypeOK
  <1>5. /\ RecordOK(Protected(s, m)) /\ Protected(s, m).type = t
        /\ Protected(s, m).over = transcript[s] /\ Protected(s, m).val = "sent"
        /\ Protected(s, m).key = secret[s] /\ Protected(s, m).seq = sendSeq[s]
        /\ Content(Protected(s, m)) = m
    BY <1>3, <1>4, ProtectedOK
  <1> QED
    BY <1>1, <1>2, <1>3, <1>5

LEMMA LightOK ==
  ASSUME TypeOK, NEW s \in Side, NEW t, t # "application_data"
  PROVE  RecordOK(Protected(s, Msg(t))) /\ Protected(s, Msg(t)).type = t
  <1>1. RecordOK(Msg(t)) /\ Msg(t).type = t
    BY MsgOK
  <1>2. SeqsOK
    BY DEF TypeOK
  <1> QED
    BY <1>1, <1>2, ProtectedOK

\* The parts a step adds to the next state's types.
LEMMA TypeNext ==
  ASSUME TypeOK, NEW s \in Side, NEW step, NEW next \in Steps, NEW m,
         \/ Sends(s, step, next, m) \/ Takes(s, step, next, m)
         \/ Shows(s, step, next, m) \/ Skims(s, step, next, m),
         KeysOK', SeqsOK', DataOK', faults' \in Nat
  PROVE  TypeOK'
  <1>1. pc' \in [Side -> Steps] /\ RecordSeqs(wire') /\ UNCHANGED <<config, closed>>
    BY DEF TypeOK, Sends, Takes, Shows, Skims
  <1>2. RecordSeqs(transcript')
    BY DEF TypeOK, Sends, Takes, Shows, Skims
  <1> QED
    BY <1>1, <1>2 DEF TypeOK, OtherOK

\* The keys and the sequence numbers of the peer stay as they are.
OwnSeqs(s) == sendSeq'[Peer(s)] = sendSeq[Peer(s)] /\ recvSeq'[Peer(s)] = recvSeq[Peer(s)]

-----------------------------------------------------------------------------
(* The messages of TLS 1.2.                                                *)

LEMMA SendClientHello12Is ==
  ASSUME TypeOK, UNCHANGED local13, SendClientHello12
  PROVE  /\ TypeOK' /\ UNCHANGED <<sent, got, faults>>
         /\ \E m : /\ Sends(Client, "send_client_hello", "recv_server_hello", m)
                   /\ m.type = "client_hello"
  <1>1. "recv_server_hello" \in Steps
    BY DEF Steps, SendSteps12, RecvSteps12
  <1>2. /\ KeysOK' /\ SeqsOK' /\ DataOK' /\ faults' \in Nat /\ UNCHANGED <<sent, got, faults>>
    BY PeerOf, SidesAssumption
       DEF SendClientHello12, SendPlain, Send, TypeOK, KeysOK, SeqsOK, DataOK,
           OtherOK, OwnSeqs, state12, local13
  <1>3. PICK m : m = [Msg("client_hello") EXCEPT !.random = "cr", !.exts = Exts12]
    OBVIOUS
  <1>4. /\ RecordOK(m)
        /\ m.type = "client_hello"
    BY <1>3, HelloOK
  <1>5. Sends(Client, "send_client_hello", "recv_server_hello", m)
    BY <1>3, <1>4, SendSends, PeerOf DEF SendClientHello12, SendPlain
  <1>6. TypeOK'
    BY <1>1, <1>2, <1>5, TypeNext, PeerOf
  <1> QED
    BY <1>2, <1>4, <1>5, <1>6

LEMMA RecvServerHello12Is ==
  ASSUME TypeOK, UNCHANGED local13, RecvServerHello12
  PROVE  /\ TypeOK' /\ UNCHANGED <<sent, got, faults>>
         /\ \E m : /\ Takes(Client, "recv_server_hello", "recv_server_cert", m)
                   /\ m.type = "server_hello"
  <1>1. "recv_server_cert" \in Steps
    BY DEF Steps, SendSteps12, RecvSteps12
  <1>2. /\ KeysOK' /\ SeqsOK' /\ DataOK' /\ faults' \in Nat /\ UNCHANGED <<sent, got, faults>>
    BY PeerOf, SidesAssumption
       DEF RecvServerHello12, RecvPlain, Recv, TypeOK, KeysOK, SeqsOK, DataOK,
           OtherOK, OwnSeqs, state12, local13
  <1>3. PICK m : m = First(Client)
    OBVIOUS
  <1>4. m.type = "server_hello"
    BY <1>3 DEF RecvServerHello12, ServerHelloOK12, Parses
  <1>5. Takes(Client, "recv_server_hello", "recv_server_cert", m)
    BY <1>3, RecvTakes, PeerOf DEF RecvServerHello12, RecvPlain
  <1>6. TypeOK'
    BY <1>1, <1>2, <1>5, TypeNext, PeerOf
  <1> QED
    BY <1>2, <1>4, <1>5, <1>6

LEMMA RecvServerCertificate12Is ==
  ASSUME TypeOK, UNCHANGED local13, RecvServerCertificate12
  PROVE  /\ TypeOK' /\ UNCHANGED <<sent, got, faults>>
         /\ \E m : /\ Takes(Client, "recv_server_cert", "recv_server_key_exchange", m)
                   /\ m.type = "certificate"
                   /\ config.serverCerts = "good"
  <1>1. "recv_server_key_exchange" \in Steps
    BY DEF Steps, SendSteps12, RecvSteps12
  <1>2. /\ KeysOK' /\ SeqsOK' /\ DataOK' /\ faults' \in Nat /\ UNCHANGED <<sent, got, faults>>
    BY PeerOf, SidesAssumption
       DEF RecvServerCertificate12, RecvPlain, Recv, TypeOK, KeysOK, SeqsOK, DataOK,
           OtherOK, OwnSeqs, state12, local13
  <1>3. PICK m : m = First(Client)
    OBVIOUS
  <1>4. m.type = "certificate" /\ config.serverCerts = "good"
    BY <1>3 DEF RecvServerCertificate12, ServerCertOK12, Intact
  <1>5. Takes(Client, "recv_server_cert", "recv_server_key_exchange", m)
    BY <1>3, RecvTakes, PeerOf DEF RecvServerCertificate12, RecvPlain
  <1>6. TypeOK'
    BY <1>1, <1>2, <1>5, TypeNext, PeerOf
  <1> QED
    BY <1>2, <1>4, <1>5, <1>6

LEMMA RecvServerKeyExchange12Is ==
  ASSUME TypeOK, UNCHANGED local13, RecvServerKeyExchange12
  PROVE  /\ TypeOK' /\ UNCHANGED <<sent, got, faults>>
         /\ \E m : /\ Takes(Client, "recv_server_key_exchange", "recv_cert_request_or_done", m)
                   /\ m.type = "server_key_exchange"
                   /\ m.val = "sent"
  <1>1. "recv_cert_request_or_done" \in Steps
    BY DEF Steps, SendSteps12, RecvSteps12
  <1>2. /\ KeysOK' /\ SeqsOK' /\ DataOK' /\ faults' \in Nat /\ UNCHANGED <<sent, got, faults>>
    BY PeerOf, SidesAssumption
       DEF RecvServerKeyExchange12, RecvPlain, Recv, TypeOK, KeysOK, SeqsOK, DataOK,
           OtherOK, OwnSeqs, state12, local13
  <1>3. PICK m : m = First(Client)
    OBVIOUS
  <1>4. m.type = "server_key_exchange" /\ m.val = "sent"
    BY <1>3 DEF RecvServerKeyExchange12, ServerKeyExchangeOK12, Intact
  <1>5. Takes(Client, "recv_server_key_exchange", "recv_cert_request_or_done", m)
    BY <1>3, RecvTakes, PeerOf DEF RecvServerKeyExchange12, RecvPlain
  <1>6. TypeOK'
    BY <1>1, <1>2, <1>5, TypeNext, PeerOf
  <1> QED
    BY <1>2, <1>4, <1>5, <1>6

LEMMA RecvCertificateRequest12Is ==
  ASSUME TypeOK, UNCHANGED local13, RecvCertificateRequest12
  PROVE  /\ TypeOK' /\ UNCHANGED <<sent, got, faults>>
         /\ \E m : /\ Takes(Client, "recv_cert_request_or_done", "recv_server_hello_done", m)
                   /\ m.type = "certificate_request"
  <1>1. "recv_server_hello_done" \in Steps
    BY DEF Steps, SendSteps12, RecvSteps12
  <1>2. /\ KeysOK' /\ SeqsOK' /\ DataOK' /\ faults' \in Nat /\ UNCHANGED <<sent, got, faults>>
    BY PeerOf, SidesAssumption
       DEF RecvCertificateRequest12, RecvPlain, Recv, TypeOK, KeysOK, SeqsOK,
           DataOK, OtherOK, OwnSeqs, state12, local13
  <1>3. PICK m : m = First(Client)
    OBVIOUS
  <1>4. m.type = "certificate_request"
    BY <1>3 DEF RecvCertificateRequest12, CertRequestOK12, Parses
  <1>5. Takes(Client, "recv_cert_request_or_done", "recv_server_hello_done", m)
    BY <1>3, RecvTakes, PeerOf DEF RecvCertificateRequest12, RecvPlain
  <1>6. TypeOK'
    BY <1>1, <1>2, <1>5, TypeNext, PeerOf
  <1> QED
    BY <1>2, <1>4, <1>5, <1>6

LEMMA RecvServerHelloDone12Is ==
  ASSUME TypeOK, UNCHANGED local13, RecvServerHelloDone12
  PROVE  /\ TypeOK' /\ UNCHANGED <<sent, got, faults>>
         /\ \E m : \E step \in {"recv_cert_request_or_done", "recv_server_hello_done"} :
            \E next \in {"send_client_cert", "send_client_key_exchange"} :
                Takes(Client, step, next, m) /\ m.type = "server_hello_done"
  <1>1. PICK step \in {"recv_cert_request_or_done", "recv_server_hello_done"} :
            /\ RecvPlain(Client, step, IF step = "recv_server_hello_done"
                                       THEN "send_client_cert"
                                       ELSE "send_client_key_exchange")
            /\ clientCerts' = (step = "recv_server_hello_done")
    BY DEF RecvServerHelloDone12
  <1>2. PICK next \in {"send_client_cert", "send_client_key_exchange"} :
            RecvPlain(Client, step, next)
    BY <1>1
  <1>3. next \in Steps
    BY DEF Steps, SendSteps12
  <1>4. /\ KeysOK' /\ SeqsOK' /\ DataOK' /\ faults' \in Nat
        /\ UNCHANGED <<sent, got, faults>>
    BY <1>1, <1>2 DEF RecvServerHelloDone12, RecvPlain, Recv, TypeOK, KeysOK, SeqsOK,
                      DataOK, OtherOK, local13
  <1>5. PICK m : m = First(Client)
    OBVIOUS
  <1>6. m.type = "server_hello_done"
    BY <1>5 DEF RecvServerHelloDone12, ServerHelloDoneOK12, Intact
  <1>7. Takes(Client, step, next, m)
    BY <1>2, <1>5, RecvTakes, PeerOf DEF RecvPlain
  <1>8. TypeOK'
    BY <1>3, <1>4, <1>7, TypeNext, PeerOf
  <1> QED
    BY <1>4, <1>6, <1>7, <1>8

LEMMA SendClientCertificate12Is ==
  ASSUME TypeOK, UNCHANGED local13, SendClientCertificate12
  PROVE  /\ TypeOK' /\ UNCHANGED <<sent, got, faults>>
         /\ \E m : /\ Sends(Client, "send_client_cert", "send_client_key_exchange", m)
                   /\ m.type = "certificate"
  <1>1. "send_client_key_exchange" \in Steps
    BY DEF Steps, SendSteps12, RecvSteps12
  <1>2. /\ KeysOK' /\ SeqsOK' /\ DataOK' /\ faults' \in Nat /\ UNCHANGED <<sent, got, faults>>
    BY PeerOf, SidesAssumption
       DEF SendClientCertificate12, SendPlain, Send, TypeOK, KeysOK, SeqsOK, DataOK,
           OtherOK, OwnSeqs, state12, local13
  <1>3. PICK m : m = Msg("certificate")
    OBVIOUS
  <1>4. /\ RecordOK(m)
        /\ m.type = "certificate"
    BY <1>3, MsgOK
  <1>5. Sends(Client, "send_client_cert", "send_client_key_exchange", m)
    BY <1>3, <1>4, SendSends, PeerOf DEF SendClientCertificate12, SendPlain
  <1>6. TypeOK'
    BY <1>1, <1>2, <1>5, TypeNext, PeerOf
  <1> QED
    BY <1>2, <1>4, <1>5, <1>6

LEMMA SendClientKeyExchange12Is ==
  ASSUME TypeOK, UNCHANGED local13, SendClientKeyExchange12
  PROVE  /\ TypeOK' /\ UNCHANGED <<sent, got, faults>>
         /\ \E m : /\ Sends(Client, "send_client_key_exchange",
                         IF clientCerts THEN "send_cert_verify" ELSE "send_client_ccs", m)
                   /\ m.type = "client_key_exchange"
  <1>1. (IF clientCerts THEN "send_cert_verify" ELSE "send_client_ccs") \in Steps
    BY DEF Steps, SendSteps12, RecvSteps12
  <1>2. /\ KeysOK' /\ SeqsOK' /\ DataOK' /\ faults' \in Nat /\ UNCHANGED <<sent, got, faults>>
    BY PeerOf, SidesAssumption
       DEF SendClientKeyExchange12, SendPlain, Send, TypeOK, KeysOK, SeqsOK, DataOK,
           OtherOK, OwnSeqs, state12, local13
  <1>3. PICK m : m = [Msg("client_key_exchange") EXCEPT !.share = "c"]
    OBVIOUS
  <1>4. /\ RecordOK(m)
        /\ m.type = "client_key_exchange"
    BY <1>3, MsgFieldOK
  <1>5. Sends(Client, "send_client_key_exchange",
              IF clientCerts THEN "send_cert_verify" ELSE "send_client_ccs", m)
    BY <1>3, <1>4, SendSends, PeerOf DEF SendClientKeyExchange12, SendPlain
  <1>6. TypeOK'
    BY <1>1, <1>2, <1>5, TypeNext, PeerOf
  <1> QED
    BY <1>2, <1>4, <1>5, <1>6

LEMMA SendCertificateVerify12Is ==
  ASSUME TypeOK, UNCHANGED local13, SendCertificateVerify12
  PROVE  /\ TypeOK' /\ UNCHANGED <<sent, got, faults>>
         /\ secret' = secret
         /\ \E m : /\ Sends(Client, "send_cert_verify", "send_client_ccs", m)
                   /\ m.type = "certificate_verify"
                   /\ m.over = transcript[Client]
  <1>1. "send_client_ccs" \in Steps
    BY DEF Steps, SendSteps12, RecvSteps12
  <1>2. /\ KeysOK' /\ SeqsOK' /\ DataOK' /\ faults' \in Nat /\ UNCHANGED <<sent, got, faults>>
        /\ secret' = secret
    BY PeerOf, SidesAssumption
       DEF SendCertificateVerify12, SendPlain, Send, TypeOK, KeysOK, SeqsOK, DataOK,
           OtherOK, OwnSeqs, state12, local13
  <1>3. PICK m : m = Signed(Client, "certificate_verify")
    OBVIOUS
  <1>4. /\ RecordOK(m)
        /\ m.type = "certificate_verify"
        /\ m.over = transcript[Client]
    BY <1>3, SealedOK, PeerOf
  <1>5. Sends(Client, "send_cert_verify", "send_client_ccs", m)
    BY <1>3, <1>4, SendSends, PeerOf DEF SendCertificateVerify12, SendPlain, Signed
  <1>6. TypeOK'
    BY <1>1, <1>2, <1>5, TypeNext, PeerOf
  <1> QED
    BY <1>2, <1>4, <1>5, <1>6

LEMMA SendClientChangeCipherSpec12Is ==
  ASSUME TypeOK, UNCHANGED local13, SendClientChangeCipherSpec12
  PROVE  /\ TypeOK' /\ UNCHANGED <<sent, got, faults>>
         /\ secret' = secret
         /\ \E m : /\ Shows(Client, "send_client_ccs", "send_client_finished", m)
                   /\ m.type = "change_cipher_spec"
  <1>1. "send_client_finished" \in Steps
    BY DEF Steps, SendSteps12, RecvSteps12
  <1>2. /\ KeysOK' /\ SeqsOK' /\ DataOK' /\ faults' \in Nat /\ UNCHANGED <<sent, got, faults>>
        /\ secret' = secret
    BY PeerOf, SidesAssumption
       DEF SendClientChangeCipherSpec12, Unhashed, TypeOK, KeysOK, SeqsOK, DataOK,
           OtherOK, OwnSeqs, state12, local13
  <1>3. PICK m : m = Msg("change_cipher_spec")
    OBVIOUS
  <1>4. /\ RecordOK(m)
        /\ m.type = "change_cipher_spec"
    BY <1>3, MsgOK
  <1>5. Shows(Client, "send_client_ccs", "send_client_finished", m)
    BY <1>3, <1>4, UnhashedShows, PeerOf DEF SendClientChangeCipherSpec12
  <1>6. TypeOK'
    BY <1>1, <1>2, <1>5, TypeNext, PeerOf
  <1> QED
    BY <1>2, <1>4, <1>5, <1>6

LEMMA SendClientFinished12Is ==
  ASSUME TypeOK, UNCHANGED local13, SendClientFinished12
  PROVE  /\ TypeOK' /\ UNCHANGED <<sent, got, faults>>
         /\ secret' = secret
         /\ \E m : /\ Sends(Client, "send_client_finished", "recv_server_ccs", m)
                   /\ m.type = "client_finished"
                   /\ m.over = transcript[Client] /\ m.key = secret[Client]
  <1>1. "recv_server_ccs" \in Steps
    BY DEF Steps, SendSteps12, RecvSteps12
  <1>2. /\ KeysOK' /\ SeqsOK' /\ DataOK' /\ faults' \in Nat /\ UNCHANGED <<sent, got, faults>>
        /\ secret' = secret
    BY PeerOf, SidesAssumption
       DEF SendClientFinished12, SendProtected, Send, TypeOK, KeysOK, SeqsOK,
           DataOK, OtherOK, OwnSeqs, state12, local13
  <1>3. PICK m : m = Protected(Client, Finished12(Client, "client_finished"))
    OBVIOUS
  <1>4. /\ RecordOK(m)
        /\ m.type = "client_finished"
        /\ m.over = transcript[Client] /\ m.key = secret[Client]
    BY <1>3, SealedOK, PeerOf
  <1>5. Sends(Client, "send_client_finished", "recv_server_ccs", m)
    BY <1>3, <1>4, SendSends, PeerOf DEF SendClientFinished12, SendProtected
  <1>6. TypeOK'
    BY <1>1, <1>2, <1>5, TypeNext, PeerOf
  <1> QED
    BY <1>2, <1>4, <1>5, <1>6

LEMMA RecvServerChangeCipherSpec12Is ==
  ASSUME TypeOK, UNCHANGED local13, RecvServerChangeCipherSpec12
  PROVE  /\ TypeOK' /\ UNCHANGED <<sent, got, faults>>
         /\ secret' = secret
         /\ \E m : /\ Skims(Client, "recv_server_ccs", "recv_server_finished", m)
  <1>1. "recv_server_finished" \in Steps
    BY DEF Steps, SendSteps12, RecvSteps12
  <1>2. /\ KeysOK' /\ SeqsOK' /\ DataOK' /\ faults' \in Nat /\ UNCHANGED <<sent, got, faults>>
        /\ secret' = secret
    BY PeerOf, SidesAssumption
       DEF RecvServerChangeCipherSpec12, Unhashed, TypeOK, KeysOK, SeqsOK, DataOK,
           OtherOK, OwnSeqs, state12, local13
  <1>3. PICK m : m = First(Client)
    OBVIOUS
  <1>5. Skims(Client, "recv_server_ccs", "recv_server_finished", m)
    BY <1>3, UnhashedSkims, PeerOf DEF RecvServerChangeCipherSpec12
  <1>6. TypeOK'
    BY <1>1, <1>2, <1>5, TypeNext, PeerOf
  <1> QED
    BY <1>2, <1>5, <1>6

LEMMA RecvServerFinished12Is ==
  ASSUME TypeOK, UNCHANGED local13, RecvServerFinished12
  PROVE  /\ TypeOK' /\ UNCHANGED <<sent, got, faults>>
         /\ secret' = secret
         /\ \E m : /\ Skims(Client, "recv_server_finished", "established", m)
                   /\ m.type = "server_finished"
                   /\ m.val = "sent"
  <1>1. "established" \in Steps
    BY DEF Steps, SendSteps12, RecvSteps12
  <1>2. /\ KeysOK' /\ SeqsOK' /\ DataOK' /\ faults' \in Nat /\ UNCHANGED <<sent, got, faults>>
        /\ secret' = secret
    BY PeerOf, SidesAssumption
       DEF RecvServerFinished12, Unhashed, TypeOK, KeysOK, SeqsOK, DataOK, OtherOK,
           OwnSeqs, state12, local13
  <1>3. PICK m : m = First(Client)
    OBVIOUS
  <1>4. m.type = "server_finished" /\ m.val = "sent"
    BY <1>3 DEF RecvServerFinished12, FinishedOK12, Intact
  <1>5. Skims(Client, "recv_server_finished", "established", m)
    BY <1>3, UnhashedSkims, PeerOf DEF RecvServerFinished12
  <1>6. TypeOK'
    BY <1>1, <1>2, <1>5, TypeNext, PeerOf
  <1> QED
    BY <1>2, <1>4, <1>5, <1>6

LEMMA RecvClientHello12Is ==
  ASSUME TypeOK, UNCHANGED local13, RecvClientHello12
  PROVE  /\ TypeOK' /\ UNCHANGED <<sent, got, faults>>
         /\ secret'[Client] = secret[Client]
         /\ \E m : /\ Takes(Server, "recv_client_hello", "send_server_hello", m)
                   /\ m.type = "client_hello"
  <1>1. "send_server_hello" \in Steps
    BY DEF Steps, SendSteps12, RecvSteps12
  <1>2. /\ KeysOK' /\ SeqsOK' /\ DataOK' /\ faults' \in Nat /\ UNCHANGED <<sent, got, faults>>
        /\ secret'[Client] = secret[Client]
    BY PeerOf, SidesAssumption
       DEF RecvClientHello12, RecvPlain, Recv, TypeOK, KeysOK, SeqsOK, DataOK,
           OtherOK, OwnSeqs, state12, local13
  <1>3. PICK m : m = First(Server)
    OBVIOUS
  <1>4. m.type = "client_hello"
    BY <1>3 DEF RecvClientHello12, ClientHelloOK12, Parses
  <1>5. Takes(Server, "recv_client_hello", "send_server_hello", m)
    BY <1>3, RecvTakes, PeerOf DEF RecvClientHello12, RecvPlain
  <1>6. TypeOK'
    BY <1>1, <1>2, <1>5, TypeNext, PeerOf
  <1> QED
    BY <1>2, <1>4, <1>5, <1>6

LEMMA SendServerHello12Is ==
  ASSUME TypeOK, UNCHANGED local13, SendServerHello12
  PROVE  /\ TypeOK' /\ UNCHANGED <<sent, got, faults>>
         /\ secret'[Client] = secret[Client]
         /\ \E m : /\ Sends(Server, "send_server_hello", "send_server_cert", m)
                   /\ m.type = "server_hello"
  <1>1. "send_server_cert" \in Steps
    BY DEF Steps, SendSteps12
  <1>2. PICK m \in ServerHellos12 :
            SendPlain(Server, "send_server_hello", m, "send_server_cert")
    BY DEF SendServerHello12
  <1>3. /\ KeysOK' /\ SeqsOK' /\ DataOK' /\ faults' \in Nat
        /\ UNCHANGED <<sent, got, faults>> /\ secret'[Client] = secret[Client]
    BY <1>2 DEF SendServerHello12, SendPlain, Send, TypeOK, KeysOK, SeqsOK, DataOK,
                OtherOK, local13
  <1>4. RecordOK(m) /\ m.type = "server_hello"
    <2>1. PICK h : h = [Msg("server_hello") EXCEPT !.random = "sr"]
      OBVIOUS
    <2>2. RecordOK(h) /\ h.type = "server_hello"
      BY <2>1, MsgFieldOK
    <2>3. \/ m = h \/ m = [h EXCEPT !.val = "bad"]
          \/ \E e : m = [h EXCEPT !.exts = e]
      BY <2>1 DEF ServerHellos12
    <2>4. RecordOK([h EXCEPT !.val = "bad"]) /\ [h EXCEPT !.val = "bad"].type = "server_hello"
      BY <2>2, FieldOK
    <2>5. \A e : /\ RecordOK([h EXCEPT !.exts = e])
                  /\ [h EXCEPT !.exts = e].type = "server_hello"
      BY <2>2, FieldOK
    <2> QED
      BY <2>2, <2>3, <2>4, <2>5
  <1>5. Sends(Server, "send_server_hello", "send_server_cert", m)
    BY <1>2, <1>4, SendSends, PeerOf DEF SendPlain
  <1>6. TypeOK'
    BY <1>1, <1>3, <1>5, TypeNext, PeerOf
  <1> QED
    BY <1>3, <1>4, <1>5, <1>6

LEMMA SendServerCertificate12Is ==
  ASSUME TypeOK, UNCHANGED local13, SendServerCertificate12
  PROVE  /\ TypeOK' /\ UNCHANGED <<sent, got, faults>>
         /\ secret'[Client] = secret[Client]
         /\ \E m : /\ Sends(Server, "send_server_cert", "send_server_key_exchange", m)
                   /\ m.type = "certificate"
  <1>1. "send_server_key_exchange" \in Steps
    BY DEF Steps, SendSteps12, RecvSteps12
  <1>2. /\ KeysOK' /\ SeqsOK' /\ DataOK' /\ faults' \in Nat /\ UNCHANGED <<sent, got, faults>>
        /\ secret'[Client] = secret[Client]
    BY PeerOf, SidesAssumption
       DEF SendServerCertificate12, SendPlain, Send, TypeOK, KeysOK, SeqsOK, DataOK,
           OtherOK, OwnSeqs, state12, local13
  <1>3. PICK m : m = Msg("certificate")
    OBVIOUS
  <1>4. /\ RecordOK(m)
        /\ m.type = "certificate"
    BY <1>3, MsgOK
  <1>5. Sends(Server, "send_server_cert", "send_server_key_exchange", m)
    BY <1>3, <1>4, SendSends, PeerOf DEF SendServerCertificate12, SendPlain
  <1>6. TypeOK'
    BY <1>1, <1>2, <1>5, TypeNext, PeerOf
  <1> QED
    BY <1>2, <1>4, <1>5, <1>6

LEMMA SendServerKeyExchange12Is ==
  ASSUME TypeOK, UNCHANGED local13, SendServerKeyExchange12
  PROVE  /\ TypeOK' /\ UNCHANGED <<sent, got, secret>>
         /\ faults' = faults \/ faults' = faults + 1
         /\ \E m : /\ Sends(Server, "send_server_key_exchange",
                             IF client_verify THEN "send_cert_request"
                                              ELSE "send_server_hello_done", m)
                   /\ m.type = "server_key_exchange"
  <1>1. PICK next : next = IF client_verify THEN "send_cert_request"
                                            ELSE "send_server_hello_done"
    OBVIOUS
  <1>2. next \in Steps
    BY <1>1 DEF Steps, SendSteps12
  <1>3. PICK x : x = [Msg("server_key_exchange") EXCEPT !.share = "s",
                                                        !.over = random[Server]]
    OBVIOUS
  <1>4. RecordOK(x) /\ x.type = "server_key_exchange"
    <2>1. PICK h : h = [Msg("server_key_exchange") EXCEPT !.share = "s"]
      OBVIOUS
    <2>2. RecordOK(h) /\ h.type = "server_key_exchange"
      BY <2>1, MsgFieldOK
    <2>3. x = [h EXCEPT !.over = random[Server]]
      BY <1>3, <2>1
    <2> QED
      BY <2>2, <2>3, OverOK
  <1>5. \/ SendPlain(Server, "send_server_key_exchange", x, next)
        \/ /\ pc[Server] = "send_server_key_exchange"
           /\ Emit(Server, [x EXCEPT !.val = "bad"])
           /\ Hash(Server, [x EXCEPT !.val = "bad"])
           /\ Goto(Server, next)
           /\ faults' = faults + 1
           /\ UNCHANGED <<config, closed, sendSeq, recvSeq>>
    BY <1>1, <1>3 DEF SendServerKeyExchange12, At, SignatureFails
  <1>6. PICK m : /\ Sends(Server, "send_server_key_exchange", next, m)
                 /\ m.type = "server_key_exchange"
    <2>1. RecordOK([x EXCEPT !.val = "bad"])
          /\ [x EXCEPT !.val = "bad"].type = "server_key_exchange"
      BY <1>4, FieldOK
    <2> QED
      BY <1>4, <1>5, <2>1, SendSends, SpeakSends, PeerOf DEF SendPlain
  <1>7. KeysOK' /\ DataOK' /\ UNCHANGED <<sent, got, secret>>
    BY DEF SendServerKeyExchange12, state12, local13, TypeOK, KeysOK, DataOK
  <1>8. SeqsOK' /\ (faults' = faults \/ faults' = faults + 1) /\ faults' \in Nat
    BY <1>5 DEF SendPlain, Send, TypeOK, SeqsOK, OtherOK
  <1>9. TypeOK'
    BY <1>2, <1>6, <1>7, <1>8, TypeNext, PeerOf
  <1> QED
    BY <1>1, <1>6, <1>7, <1>8, <1>9

LEMMA SendCertificateRequest12Is ==
  ASSUME TypeOK, UNCHANGED local13, SendCertificateRequest12
  PROVE  /\ TypeOK' /\ UNCHANGED <<sent, got, faults>>
         /\ secret'[Client] = secret[Client]
         /\ \E m : /\ Sends(Server, "send_cert_request", "send_server_hello_done", m)
                   /\ m.type = "certificate_request"
  <1>1. "send_server_hello_done" \in Steps
    BY DEF Steps, SendSteps12, RecvSteps12
  <1>2. /\ KeysOK' /\ SeqsOK' /\ DataOK' /\ faults' \in Nat /\ UNCHANGED <<sent, got, faults>>
        /\ secret'[Client] = secret[Client]
    BY PeerOf, SidesAssumption
       DEF SendCertificateRequest12, SendPlain, Send, TypeOK, KeysOK, SeqsOK,
           DataOK, OtherOK, OwnSeqs, state12, local13
  <1>3. PICK m : m = Msg("certificate_request")
    OBVIOUS
  <1>4. /\ RecordOK(m)
        /\ m.type = "certificate_request"
    BY <1>3, MsgOK
  <1>5. Sends(Server, "send_cert_request", "send_server_hello_done", m)
    BY <1>3, <1>4, SendSends, PeerOf DEF SendCertificateRequest12, SendPlain
  <1>6. TypeOK'
    BY <1>1, <1>2, <1>5, TypeNext, PeerOf
  <1> QED
    BY <1>2, <1>4, <1>5, <1>6

LEMMA SendServerHelloDone12Is ==
  ASSUME TypeOK, UNCHANGED local13, SendServerHelloDone12
  PROVE  /\ TypeOK' /\ UNCHANGED <<sent, got, faults>>
         /\ secret'[Client] = secret[Client]
         /\ \E m : /\ Sends(Server, "send_server_hello_done",
                         IF client_verify THEN "recv_client_cert" ELSE "recv_client_key_exchange", m)
                   /\ m.type = "server_hello_done"
  <1>1. (IF client_verify THEN "recv_client_cert" ELSE "recv_client_key_exchange") \in Steps
    BY DEF Steps, SendSteps12, RecvSteps12
  <1>2. /\ KeysOK' /\ SeqsOK' /\ DataOK' /\ faults' \in Nat /\ UNCHANGED <<sent, got, faults>>
        /\ secret'[Client] = secret[Client]
    BY PeerOf, SidesAssumption
       DEF SendServerHelloDone12, SendPlain, Send, TypeOK, KeysOK, SeqsOK, DataOK,
           OtherOK, OwnSeqs, state12, local13
  <1>3. PICK m : m = Msg("server_hello_done")
    OBVIOUS
  <1>4. /\ RecordOK(m)
        /\ m.type = "server_hello_done"
    BY <1>3, MsgOK
  <1>5. Sends(Server, "send_server_hello_done",
              IF client_verify THEN "recv_client_cert" ELSE "recv_client_key_exchange", m)
    BY <1>3, <1>4, SendSends, PeerOf DEF SendServerHelloDone12, SendPlain
  <1>6. TypeOK'
    BY <1>1, <1>2, <1>5, TypeNext, PeerOf
  <1> QED
    BY <1>2, <1>4, <1>5, <1>6

LEMMA RecvClientCertificate12Is ==
  ASSUME TypeOK, UNCHANGED local13, RecvClientCertificate12
  PROVE  /\ TypeOK' /\ UNCHANGED <<sent, got, faults>>
         /\ secret'[Client] = secret[Client]
         /\ \E m : /\ Takes(Server, "recv_client_cert", "recv_client_key_exchange", m)
                   /\ config.clientCert = "good"
  <1>1. "recv_client_key_exchange" \in Steps
    BY DEF Steps, SendSteps12, RecvSteps12
  <1>2. /\ KeysOK' /\ SeqsOK' /\ DataOK' /\ faults' \in Nat /\ UNCHANGED <<sent, got, faults>>
        /\ secret'[Client] = secret[Client]
    BY PeerOf, SidesAssumption
       DEF RecvClientCertificate12, RecvPlain, Recv, TypeOK, KeysOK, SeqsOK, DataOK,
           OtherOK, OwnSeqs, state12, local13
  <1>3. PICK m : m = First(Server)
    OBVIOUS
  <1>4. config.clientCert = "good"
    BY <1>3 DEF RecvClientCertificate12, ClientCertOK12, Intact
  <1>5. Takes(Server, "recv_client_cert", "recv_client_key_exchange", m)
    BY <1>3, RecvTakes, PeerOf DEF RecvClientCertificate12, RecvPlain
  <1>6. TypeOK'
    BY <1>1, <1>2, <1>5, TypeNext, PeerOf
  <1> QED
    BY <1>2, <1>4, <1>5, <1>6

LEMMA RecvClientKeyExchange12Is ==
  ASSUME TypeOK, UNCHANGED local13, RecvClientKeyExchange12
  PROVE  /\ TypeOK' /\ UNCHANGED <<sent, got, faults>>
         /\ secret'[Client] = secret[Client]
         /\ \E m : /\ Takes(Server, "recv_client_key_exchange",
                         IF client_verify THEN "recv_cert_verify" ELSE "recv_client_ccs", m)
                   /\ m.type = "client_key_exchange"
  <1>1. (IF client_verify THEN "recv_cert_verify" ELSE "recv_client_ccs") \in Steps
    BY DEF Steps, SendSteps12, RecvSteps12
  <1>2. /\ KeysOK' /\ SeqsOK' /\ DataOK' /\ faults' \in Nat /\ UNCHANGED <<sent, got, faults>>
        /\ secret'[Client] = secret[Client]
    BY PeerOf, SidesAssumption
       DEF RecvClientKeyExchange12, RecvPlain, Recv, TypeOK, KeysOK, SeqsOK, DataOK,
           OtherOK, OwnSeqs, state12, local13
  <1>3. PICK m : m = First(Server)
    OBVIOUS
  <1>4. m.type = "client_key_exchange"
    BY <1>3 DEF RecvClientKeyExchange12, ClientKeyExchangeOK12, Parses
  <1>5. Takes(Server, "recv_client_key_exchange",
              IF client_verify THEN "recv_cert_verify" ELSE "recv_client_ccs", m)
    BY <1>3, RecvTakes, PeerOf DEF RecvClientKeyExchange12, RecvPlain
  <1>6. TypeOK'
    BY <1>1, <1>2, <1>5, TypeNext, PeerOf
  <1> QED
    BY <1>2, <1>4, <1>5, <1>6

LEMMA RecvCertificateVerify12Is ==
  ASSUME TypeOK, UNCHANGED local13, RecvCertificateVerify12
  PROVE  /\ TypeOK' /\ UNCHANGED <<sent, got, faults>>
         /\ secret'[Client] = secret[Client]
         /\ \E m : /\ Takes(Server, "recv_cert_verify", "recv_client_ccs", m)
                   /\ m.type = "certificate_verify"
                   /\ m.val = "sent"
                   /\ m.over = transcript[Server]
  <1>1. "recv_client_ccs" \in Steps
    BY DEF Steps, SendSteps12, RecvSteps12
  <1>2. /\ KeysOK' /\ SeqsOK' /\ DataOK' /\ faults' \in Nat /\ UNCHANGED <<sent, got, faults>>
        /\ secret'[Client] = secret[Client]
    BY PeerOf, SidesAssumption
       DEF RecvCertificateVerify12, RecvPlain, Recv, TypeOK, KeysOK, SeqsOK, DataOK,
           OtherOK, OwnSeqs, state12, local13
  <1>3. PICK m : m = First(Server)
    OBVIOUS
  <1>4. /\ m.type = "certificate_verify"
        /\ m.val = "sent"
        /\ m.over = transcript[Server]
    BY <1>3 DEF RecvCertificateVerify12, CertVerifyOK12, Intact
  <1>5. Takes(Server, "recv_cert_verify", "recv_client_ccs", m)
    BY <1>3, RecvTakes, PeerOf DEF RecvCertificateVerify12, RecvPlain
  <1>6. TypeOK'
    BY <1>1, <1>2, <1>5, TypeNext, PeerOf
  <1> QED
    BY <1>2, <1>4, <1>5, <1>6

LEMMA RecvClientChangeCipherSpec12Is ==
  ASSUME TypeOK, UNCHANGED local13, RecvClientChangeCipherSpec12
  PROVE  /\ TypeOK' /\ UNCHANGED <<sent, got, faults>>
         /\ secret' = secret
         /\ \E m : /\ Skims(Server, "recv_client_ccs", "recv_client_finished", m)
  <1>1. "recv_client_finished" \in Steps
    BY DEF Steps, SendSteps12, RecvSteps12
  <1>2. /\ KeysOK' /\ SeqsOK' /\ DataOK' /\ faults' \in Nat /\ UNCHANGED <<sent, got, faults>>
        /\ secret' = secret
    BY PeerOf, SidesAssumption
       DEF RecvClientChangeCipherSpec12, Unhashed, TypeOK, KeysOK, SeqsOK, DataOK,
           OtherOK, OwnSeqs, state12, local13
  <1>3. PICK m : m = First(Server)
    OBVIOUS
  <1>5. Skims(Server, "recv_client_ccs", "recv_client_finished", m)
    BY <1>3, UnhashedSkims, PeerOf DEF RecvClientChangeCipherSpec12
  <1>6. TypeOK'
    BY <1>1, <1>2, <1>5, TypeNext, PeerOf
  <1> QED
    BY <1>2, <1>5, <1>6

LEMMA RecvClientFinished12Is ==
  ASSUME TypeOK, UNCHANGED local13, RecvClientFinished12
  PROVE  /\ TypeOK' /\ UNCHANGED <<sent, got, faults>>
         /\ secret' = secret
         /\ \E m : /\ Takes(Server, "recv_client_finished", "send_server_ccs", m)
                   /\ m.type = "client_finished"
                   /\ m.val = "sent"
                   /\ m.key = secret[Server]
                   /\ m.over = transcript[Server]
  <1>1. "send_server_ccs" \in Steps
    BY DEF Steps, SendSteps12, RecvSteps12
  <1>2. /\ KeysOK' /\ SeqsOK' /\ DataOK' /\ faults' \in Nat /\ UNCHANGED <<sent, got, faults>>
        /\ secret' = secret
    BY PeerOf, SidesAssumption
       DEF RecvClientFinished12, RecvProtected, Recv, TypeOK, KeysOK, SeqsOK,
           DataOK, OtherOK, OwnSeqs, state12, local13
  <1>3. PICK m : m = First(Server)
    OBVIOUS
  <1>4. /\ m.type = "client_finished"
        /\ m.val = "sent"
        /\ m.key = secret[Server]
        /\ m.over = transcript[Server]
    BY <1>3 DEF RecvClientFinished12, FinishedOK12, Intact, Decrypts
  <1>5. Takes(Server, "recv_client_finished", "send_server_ccs", m)
    BY <1>3, RecvTakes, PeerOf DEF RecvClientFinished12, RecvProtected
  <1>6. TypeOK'
    BY <1>1, <1>2, <1>5, TypeNext, PeerOf
  <1> QED
    BY <1>2, <1>4, <1>5, <1>6

LEMMA SendServerChangeCipherSpec12Is ==
  ASSUME TypeOK, UNCHANGED local13, SendServerChangeCipherSpec12
  PROVE  /\ TypeOK' /\ UNCHANGED <<sent, got, faults>>
         /\ secret' = secret
         /\ \E m : /\ Shows(Server, "send_server_ccs", "send_server_finished", m)
                   /\ m.type = "change_cipher_spec"
  <1>1. "send_server_finished" \in Steps
    BY DEF Steps, SendSteps12, RecvSteps12
  <1>2. /\ KeysOK' /\ SeqsOK' /\ DataOK' /\ faults' \in Nat /\ UNCHANGED <<sent, got, faults>>
        /\ secret' = secret
    BY PeerOf, SidesAssumption
       DEF SendServerChangeCipherSpec12, Unhashed, TypeOK, KeysOK, SeqsOK, DataOK,
           OtherOK, OwnSeqs, state12, local13
  <1>3. PICK m : m = Msg("change_cipher_spec")
    OBVIOUS
  <1>4. /\ RecordOK(m)
        /\ m.type = "change_cipher_spec"
    BY <1>3, MsgOK
  <1>5. Shows(Server, "send_server_ccs", "send_server_finished", m)
    BY <1>3, <1>4, UnhashedShows, PeerOf DEF SendServerChangeCipherSpec12
  <1>6. TypeOK'
    BY <1>1, <1>2, <1>5, TypeNext, PeerOf
  <1> QED
    BY <1>2, <1>4, <1>5, <1>6

LEMMA SendServerFinished12Is ==
  ASSUME TypeOK, UNCHANGED local13, SendServerFinished12
  PROVE  /\ TypeOK' /\ UNCHANGED <<sent, got, faults>>
         /\ secret' = secret
         /\ \E m : /\ Shows(Server, "send_server_finished", "established", m)
                   /\ m.type = "server_finished"
  <1>1. "established" \in Steps
    BY DEF Steps, SendSteps12, RecvSteps12
  <1>2. /\ KeysOK' /\ SeqsOK' /\ DataOK' /\ faults' \in Nat /\ UNCHANGED <<sent, got, faults>>
        /\ secret' = secret
    BY PeerOf, SidesAssumption
       DEF SendServerFinished12, Unhashed, TypeOK, KeysOK, SeqsOK, DataOK, OtherOK,
           OwnSeqs, state12, local13
  <1>3. PICK m : m = Protected(Server, Finished12(Server, "server_finished"))
    OBVIOUS
  <1>4. /\ RecordOK(m)
        /\ m.type = "server_finished"
    BY <1>3, SealedOK, PeerOf
  <1>5. Shows(Server, "send_server_finished", "established", m)
    BY <1>3, <1>4, UnhashedShows, PeerOf DEF SendServerFinished12
  <1>6. TypeOK'
    BY <1>1, <1>2, <1>5, TypeNext, PeerOf
  <1> QED
    BY <1>2, <1>4, <1>5, <1>6

-----------------------------------------------------------------------------
(* The messages of TLS 1.3, and its data.                                  *)

LEMMA SendClientHello13Is ==
  ASSUME TypeOK, UNCHANGED local12, SendClientHello13
  PROVE  /\ TypeOK' /\ UNCHANGED <<sent, got, faults>>
         /\ UNCHANGED <<share, secret, appSecret>> /\ OwnSeqs(Client)
         /\ \E m : /\ Sends(Client, "send_client_hello", "recv_server_hello", m)
                   /\ m.type = "client_hello"
  <1>1. "recv_server_hello" \in Steps
    BY DEF Steps, SendSteps13, RecvSteps13
  <1>2. /\ KeysOK' /\ SeqsOK' /\ DataOK' /\ faults' \in Nat /\ UNCHANGED <<sent, got, faults>>
        /\ UNCHANGED <<share, secret, appSecret>> /\ OwnSeqs(Client)
    BY PeerOf, SidesAssumption
       DEF SendClientHello13, SendPlain, Send, TypeOK, KeysOK, SeqsOK, DataOK,
           OtherOK, OwnSeqs, keys13, data13, local12
  <1>3. PICK m : m = [Msg("client_hello") EXCEPT !.random = "cr", !.share = "c", !.exts = Exts13]
    OBVIOUS
  <1>4. /\ RecordOK(m)
        /\ m.type = "client_hello"
    BY <1>3, SharedHelloOK
  <1>5. Sends(Client, "send_client_hello", "recv_server_hello", m)
    BY <1>3, <1>4, SendSends, PeerOf DEF SendClientHello13, SendPlain
  <1>6. TypeOK'
    BY <1>1, <1>2, <1>5, TypeNext, PeerOf
  <1> QED
    BY <1>2, <1>4, <1>5, <1>6

LEMMA RecvServerHello13Is ==
  ASSUME TypeOK, UNCHANGED local12, RecvServerHello13
  PROVE  /\ TypeOK' /\ UNCHANGED <<sent, got, faults>>
         /\ appSecret' = appSecret /\ OwnSeqs(Client)
         /\ secret'[Client][2] = <<"c", share'[Client]>>
         /\ share'[Server] = share[Server] /\ secret'[Server] = secret[Server]
         /\ \E m : /\ Takes(Client, "recv_server_hello", "recv_encrypted_exts", m)
                   /\ m.type = "server_hello"
  <1>1. "recv_encrypted_exts" \in Steps
    BY DEF Steps, SendSteps13, RecvSteps13
  <1>2. /\ KeysOK' /\ SeqsOK' /\ DataOK' /\ faults' \in Nat /\ UNCHANGED <<sent, got, faults>>
        /\ appSecret' = appSecret /\ OwnSeqs(Client)
        /\ secret'[Client][2] = <<"c", share'[Client]>>
        /\ share'[Server] = share[Server] /\ secret'[Server] = secret[Server]
    BY PeerOf, SidesAssumption
       DEF RecvServerHello13, Recv, TypeOK, KeysOK, SeqsOK, DataOK, OtherOK,
           OwnSeqs, keys13, data13, local12,
       HandshakeSecret, Restart
  <1>3. PICK m : m = First(Client)
    OBVIOUS
  <1>4. m.type = "server_hello"
    BY <1>3 DEF RecvServerHello13, ServerHelloOK13, Parses
  <1>5. Takes(Client, "recv_server_hello", "recv_encrypted_exts", m)
    BY <1>3, RecvTakes, PeerOf DEF RecvServerHello13
  <1>6. TypeOK'
    BY <1>1, <1>2, <1>5, TypeNext, PeerOf
  <1> QED
    BY <1>2, <1>4, <1>5, <1>6

LEMMA RecvEncryptedExtensions13Is ==
  ASSUME TypeOK, UNCHANGED local12, RecvEncryptedExtensions13
  PROVE  /\ TypeOK' /\ UNCHANGED <<sent, got, faults>>
         /\ UNCHANGED <<share, secret, appSecret>> /\ OwnSeqs(Client)
         /\ \E m : /\ Takes(Client, "recv_encrypted_exts", "recv_cert_request_or_cert", m)
  <1>1. "recv_cert_request_or_cert" \in Steps
    BY DEF Steps, SendSteps13, RecvSteps13
  <1>2. /\ KeysOK' /\ SeqsOK' /\ DataOK' /\ faults' \in Nat /\ UNCHANGED <<sent, got, faults>>
        /\ UNCHANGED <<share, secret, appSecret>> /\ OwnSeqs(Client)
    BY PeerOf, SidesAssumption
       DEF RecvEncryptedExtensions13, RecvProtected, Recv, TypeOK, KeysOK, SeqsOK,
           DataOK, OtherOK, OwnSeqs, keys13, data13, local12
  <1>3. PICK m : m = First(Client)
    OBVIOUS
  <1>5. Takes(Client, "recv_encrypted_exts", "recv_cert_request_or_cert", m)
    BY <1>3, RecvTakes, PeerOf DEF RecvEncryptedExtensions13, RecvProtected
  <1>6. TypeOK'
    BY <1>1, <1>2, <1>5, TypeNext, PeerOf
  <1> QED
    BY <1>2, <1>5, <1>6

LEMMA RecvCertificateRequest13Is ==
  ASSUME TypeOK, UNCHANGED local12, RecvCertificateRequest13
  PROVE  /\ TypeOK' /\ UNCHANGED <<sent, got, faults>>
         /\ UNCHANGED <<share, secret, appSecret>> /\ OwnSeqs(Client)
         /\ \E m : /\ Takes(Client, "recv_cert_request_or_cert", "recv_server_cert", m)
                   /\ m.type = "certificate_request"
  <1>1. "recv_server_cert" \in Steps
    BY DEF Steps, SendSteps13, RecvSteps13
  <1>2. /\ KeysOK' /\ SeqsOK' /\ DataOK' /\ faults' \in Nat /\ UNCHANGED <<sent, got, faults>>
        /\ UNCHANGED <<share, secret, appSecret>> /\ OwnSeqs(Client)
    BY PeerOf, SidesAssumption
       DEF RecvCertificateRequest13, RecvProtected, Recv, TypeOK, KeysOK, SeqsOK,
           DataOK, OtherOK, OwnSeqs, keys13, data13, local12
  <1>3. PICK m : m = First(Client)
    OBVIOUS
  <1>4. m.type = "certificate_request"
    BY <1>3 DEF RecvCertificateRequest13, IsHandshake
  <1>5. Takes(Client, "recv_cert_request_or_cert", "recv_server_cert", m)
    BY <1>3, RecvTakes, PeerOf DEF RecvCertificateRequest13, RecvProtected
  <1>6. TypeOK'
    BY <1>1, <1>2, <1>5, TypeNext, PeerOf
  <1> QED
    BY <1>2, <1>4, <1>5, <1>6

LEMMA RecvServerCertificate13Is ==
  ASSUME TypeOK, UNCHANGED local12, RecvServerCertificate13
  PROVE  /\ TypeOK' /\ UNCHANGED <<sent, got, faults>>
         /\ UNCHANGED <<share, secret, appSecret>> /\ OwnSeqs(Client)
         /\ config.serverCerts = "good"
         /\ \E m : \E step \in {"recv_cert_request_or_cert", "recv_server_cert"} :
                Takes(Client, step, "recv_server_cert_verify", m)
  <1>1. "recv_server_cert_verify" \in Steps
    BY DEF Steps, RecvSteps13
  <1>2. PICK step \in {"recv_cert_request_or_cert", "recv_server_cert"} :
            /\ RecvProtected(Client, step, "recv_server_cert_verify")
            /\ clientCerts' = (clientCerts /\ step = "recv_server_cert")
    BY DEF RecvServerCertificate13
  <1>3. /\ KeysOK' /\ SeqsOK' /\ DataOK' /\ faults' \in Nat
        /\ UNCHANGED <<sent, got, faults>>
        /\ UNCHANGED <<share, secret, appSecret>> /\ OwnSeqs(Client)
    BY <1>2, PeerOf, SidesAssumption
    DEF RecvServerCertificate13, RecvProtected, Recv, TypeOK, KeysOK, SeqsOK, DataOK,
        OtherOK, OwnSeqs, data13, local12
  <1>4. PICK m : m = First(Client)
    OBVIOUS
  <1>5. Takes(Client, step, "recv_server_cert_verify", m)
    BY <1>2, <1>4, RecvTakes, PeerOf DEF RecvProtected
  <1>6. TypeOK'
    BY <1>1, <1>3, <1>5, TypeNext, PeerOf
  <1>7. config.serverCerts = "good"
    BY DEF RecvServerCertificate13, ServerCertOK13
  <1> QED
    BY <1>3, <1>5, <1>6, <1>7

LEMMA RecvServerCertificateVerify13Is ==
  ASSUME TypeOK, UNCHANGED local12, RecvServerCertificateVerify13
  PROVE  /\ TypeOK' /\ UNCHANGED <<sent, got, faults>>
         /\ UNCHANGED <<share, secret, appSecret>> /\ OwnSeqs(Client)
         /\ \E m : /\ Takes(Client, "recv_server_cert_verify", "recv_server_finished", m)
                   /\ m.type = "certificate_verify"
                   /\ m.val = "sent"
  <1>1. "recv_server_finished" \in Steps
    BY DEF Steps, SendSteps13, RecvSteps13
  <1>2. /\ KeysOK' /\ SeqsOK' /\ DataOK' /\ faults' \in Nat /\ UNCHANGED <<sent, got, faults>>
        /\ UNCHANGED <<share, secret, appSecret>> /\ OwnSeqs(Client)
    BY PeerOf, SidesAssumption
       DEF RecvServerCertificateVerify13, RecvProtected, Recv, TypeOK, KeysOK,
           SeqsOK, DataOK, OtherOK, OwnSeqs, keys13, data13, local12
  <1>3. PICK m : m = First(Client)
    OBVIOUS
  <1>4. m.type = "certificate_verify" /\ m.val = "sent"
    BY <1>3 DEF RecvServerCertificateVerify13, SignatureOK, IsHandshake
  <1>5. Takes(Client, "recv_server_cert_verify", "recv_server_finished", m)
    BY <1>3, RecvTakes, PeerOf DEF RecvServerCertificateVerify13, RecvProtected
  <1>6. TypeOK'
    BY <1>1, <1>2, <1>5, TypeNext, PeerOf
  <1> QED
    BY <1>2, <1>4, <1>5, <1>6

LEMMA RecvServerFinished13Is ==
  ASSUME TypeOK, UNCHANGED local12, RecvServerFinished13
  PROVE  /\ TypeOK' /\ UNCHANGED <<sent, got, faults>>
         /\ UNCHANGED <<share, secret>> /\ OwnSeqs(Client)
         /\ appSecret'[Server] = appSecret[Server]
         /\ \E m : /\ Takes(Client, "recv_server_finished",
                             IF clientCerts THEN "send_client_cert"
                                            ELSE "send_client_finished", m)
                   /\ m.type = "server_finished" /\ m.val # "bad"
                   /\ m.key = secret[Client] /\ m.over = transcript[Client]
                   /\ appSecret'[Client] =
                        AppSecret(Client, Append(transcript[Client], Content(m)))
  <1>1. (IF clientCerts THEN "send_client_cert" ELSE "send_client_finished") \in Steps
    BY DEF Steps, SendSteps13
  <1>2. PICK m : m = First(Client)
    OBVIOUS
  <1>3. PICK a : a = AppSecret(Client, Append(transcript[Client], Content(m)))
    OBVIOUS
  <1>4. /\ appSecret' = [appSecret EXCEPT ![Client] = a]
        /\ UNCHANGED <<share, secret, clientCerts, sent, got, random>>
        /\ RecvProtected(Client, "recv_server_finished",
                         IF clientCerts THEN "send_client_cert"
                                        ELSE "send_client_finished")
    BY <1>2, <1>3 DEF RecvServerFinished13, data13, local12
  <1>5. /\ KeysOK' /\ SeqsOK' /\ DataOK' /\ faults' \in Nat
        /\ faults' = faults /\ OwnSeqs(Client)
        /\ appSecret'[Server] = appSecret[Server] /\ appSecret'[Client] = a
    <2>1. KeysOK /\ SeqsOK /\ DataOK /\ OtherOK
      BY DEF TypeOK
    <2>2. /\ KeysOK' /\ DataOK'
          /\ appSecret'[Server] = appSecret[Server] /\ appSecret'[Client] = a
      BY <1>4, <2>1, PeerOf, SidesAssumption DEF KeysOK, DataOK
    <2>3. faults' = faults /\ recvSeq' = [recvSeq EXCEPT ![Client] = @ + 1]
          /\ sendSeq' = sendSeq
      BY <1>4 DEF RecvProtected, Recv
    <2>4. SeqsOK' /\ OwnSeqs(Client)
      BY <2>1, <2>3, PeerOf, SidesAssumption DEF SeqsOK, OwnSeqs
    <2> QED
      BY <2>1, <2>2, <2>3, <2>4 DEF OtherOK
  <1>6. /\ m.type = "server_finished" /\ m.val # "bad"
        /\ m.key = secret[Client] /\ m.over = transcript[Client]
    BY <1>2 DEF RecvServerFinished13, FinishedOK13, IsHandshake, Decrypts
  <1>7. Takes(Client, "recv_server_finished",
              IF clientCerts THEN "send_client_cert" ELSE "send_client_finished", m)
    BY <1>2, <1>4, RecvTakes, PeerOf DEF RecvProtected
  <1>8. TypeOK'
    BY <1>1, <1>5, <1>7, TypeNext, PeerOf
  <1> QED
    BY <1>3, <1>4, <1>5, <1>6, <1>7, <1>8

LEMMA SendClientCertificate13Is ==
  ASSUME TypeOK, UNCHANGED local12, SendClientCertificate13
  PROVE  /\ TypeOK' /\ UNCHANGED <<sent, got, faults>>
         /\ UNCHANGED <<share, secret, appSecret>> /\ OwnSeqs(Client)
         /\ \E m : /\ Sends(Client, "send_client_cert", "send_cert_verify", m)
                   /\ m.type = "certificate"
  <1>1. "send_cert_verify" \in Steps
    BY DEF Steps, SendSteps13, RecvSteps13
  <1>2. /\ KeysOK' /\ SeqsOK' /\ DataOK' /\ faults' \in Nat /\ UNCHANGED <<sent, got, faults>>
        /\ UNCHANGED <<share, secret, appSecret>> /\ OwnSeqs(Client)
    BY PeerOf, SidesAssumption
       DEF SendClientCertificate13, SendProtected, Send, TypeOK, KeysOK, SeqsOK,
           DataOK, OtherOK, OwnSeqs, keys13, data13, local12
  <1>3. PICK m : m = Protected(Client, Msg("certificate"))
    OBVIOUS
  <1>4. /\ RecordOK(m)
        /\ m.type = "certificate"
    BY <1>3, LightOK, PeerOf
  <1>5. Sends(Client, "send_client_cert", "send_cert_verify", m)
    BY <1>3, <1>4, SendSends, PeerOf DEF SendClientCertificate13, SendProtected
  <1>6. TypeOK'
    BY <1>1, <1>2, <1>5, TypeNext, PeerOf
  <1> QED
    BY <1>2, <1>4, <1>5, <1>6

LEMMA SendSignatureIs ==
  ASSUME TypeOK, UNCHANGED local12, NEW s \in Side, NEW step, NEW next \in Steps,
         SendSignature(s, step, next)
  PROVE  /\ TypeOK' /\ UNCHANGED <<sent, got>>
         /\ UNCHANGED <<share, secret, appSecret>> /\ OwnSeqs(s)
         /\ faults' = faults \/ faults' = faults + 1
         /\ \E m : /\ Sends(s, step, next, m)
                   /\ m.type = "certificate_verify"
                   /\ m.val = "sent" => m.over = transcript[s]
  <1>1. PICK x : x = [Msg("certificate_verify") EXCEPT !.val = "core"]
    OBVIOUS
  <1>2. RecordOK(x) /\ x.type = "certificate_verify" /\ x.val = "core"
    BY <1>1, MsgFieldOK
  <1>3. SeqsOK
    BY DEF TypeOK
  <1>4. /\ RecordOK(Protected(s, x)) /\ Protected(s, x).type = "certificate_verify"
        /\ Protected(s, x).val = "core"
    BY <1>2, <1>3, ProtectedOK
  <1>5. \/ SendProtected(s, step, Signed(s, "certificate_verify"), next)
        \/ /\ pc[s] = step
           /\ Emit(s, Protected(s, x)) /\ Hash(s, Protected(s, x)) /\ Goto(s, next)
           /\ faults' = faults + 1
           /\ sendSeq' = [sendSeq EXCEPT ![s] = @ + 1]
           /\ UNCHANGED <<config, closed, recvSeq>>
    BY <1>1 DEF SendSignature, At, SignatureFails
  <1>6. PICK y : y = Protected(s, Signed(s, "certificate_verify"))
    OBVIOUS
  <1>7. RecordOK(y) /\ y.type = "certificate_verify" /\ y.over = transcript[s]
    BY <1>6, SealedOK
  <1>8. PICK m : /\ Sends(s, step, next, m)
                 /\ m.type = "certificate_verify"
                 /\ m.val = "sent" => m.over = transcript[s]
    <2>1. CASE SendProtected(s, step, Signed(s, "certificate_verify"), next)
      BY <1>6, <1>7, <2>1, SendSends DEF SendProtected
    <2>2. CASE /\ pc[s] = step
               /\ Emit(s, Protected(s, x)) /\ Hash(s, Protected(s, x)) /\ Goto(s, next)
               /\ UNCHANGED <<config, closed>>
      <3>1. Sends(s, step, next, Protected(s, x))
        BY <1>4, <2>2, SpeakSends
      <3> QED
        BY <1>4, <3>1
    <2> QED
      BY <1>5, <2>1, <2>2
  <1>9. KeysOK' /\ DataOK' /\ UNCHANGED <<sent, got, share, secret, appSecret>>
    BY DEF SendSignature, keys13, data13, local12, TypeOK, KeysOK, DataOK
  <1>10. /\ SeqsOK' /\ OwnSeqs(s)
         /\ (faults' = faults \/ faults' = faults + 1) /\ faults' \in Nat
    BY <1>5, PeerType DEF SendProtected, Send, TypeOK, SeqsOK, OtherOK, OwnSeqs
  <1>11. TypeOK'
    BY <1>8, <1>9, <1>10, TypeNext
  <1> QED
    BY <1>8, <1>9, <1>10, <1>11

LEMMA SendClientFinished13Is ==
  ASSUME TypeOK, UNCHANGED local12, SendClientFinished13
  PROVE  /\ TypeOK' /\ UNCHANGED <<sent, got, faults>>
         /\ UNCHANGED <<share, appSecret>> /\ OwnSeqs(Client)
         /\ secret'[Client] = appSecret[Client] /\ secret'[Server] = secret[Server]
         /\ sendSeq'[Client] = 0 /\ recvSeq'[Client] = 0
         /\ \E m : /\ Sends(Client, "send_client_finished", "established", m)
                   /\ m.type = "client_finished"
  <1>1. "established" \in Steps
    BY DEF Steps, SendSteps13, RecvSteps13
  <1>2. /\ KeysOK' /\ SeqsOK' /\ DataOK' /\ faults' \in Nat /\ UNCHANGED <<sent, got, faults>>
        /\ UNCHANGED <<share, appSecret>> /\ OwnSeqs(Client)
        /\ secret'[Client] = appSecret[Client] /\ secret'[Server] = secret[Server]
        /\ sendSeq'[Client] = 0 /\ recvSeq'[Client] = 0
    BY PeerOf, SidesAssumption
       DEF SendClientFinished13, Send, TypeOK, KeysOK, SeqsOK, DataOK, OtherOK,
           OwnSeqs, keys13, data13, local12, Restart
  <1>3. PICK m : m = Protected(Client, Signed(Client, "client_finished"))
    OBVIOUS
  <1>4. /\ RecordOK(m)
        /\ m.type = "client_finished"
    BY <1>3, SealedOK, PeerOf
  <1>5. Sends(Client, "send_client_finished", "established", m)
    BY <1>3, <1>4, SendSends, PeerOf DEF SendClientFinished13
  <1>6. TypeOK'
    BY <1>1, <1>2, <1>5, TypeNext, PeerOf
  <1> QED
    BY <1>2, <1>4, <1>5, <1>6

LEMMA RecvClientHello13Is ==
  ASSUME TypeOK, UNCHANGED local12, RecvClientHello13
  PROVE  /\ TypeOK' /\ UNCHANGED <<sent, got, faults>>
         /\ UNCHANGED <<secret, appSecret>> /\ OwnSeqs(Server)
         /\ share'[Client] = share[Client]
         /\ \E m : /\ Takes(Server, "recv_client_hello", "send_server_hello", m)
                   /\ m.type = "client_hello"
  <1>1. "send_server_hello" \in Steps
    BY DEF Steps, SendSteps13, RecvSteps13
  <1>2. /\ KeysOK' /\ SeqsOK' /\ DataOK' /\ faults' \in Nat /\ UNCHANGED <<sent, got, faults>>
        /\ UNCHANGED <<secret, appSecret>> /\ OwnSeqs(Server)
        /\ share'[Client] = share[Client]
    BY PeerOf, SidesAssumption
       DEF RecvClientHello13, RecvPlain, Recv, TypeOK, KeysOK, SeqsOK, DataOK,
           OtherOK, OwnSeqs, keys13, data13, local12
  <1>3. PICK m : m = First(Server)
    OBVIOUS
  <1>4. m.type = "client_hello"
    BY <1>3 DEF RecvClientHello13, ClientHelloOK13, Parses
  <1>5. Takes(Server, "recv_client_hello", "send_server_hello", m)
    BY <1>3, RecvTakes, PeerOf DEF RecvClientHello13, RecvPlain
  <1>6. TypeOK'
    BY <1>1, <1>2, <1>5, TypeNext, PeerOf
  <1> QED
    BY <1>2, <1>4, <1>5, <1>6

LEMMA SendServerHello13Is ==
  ASSUME TypeOK, UNCHANGED local12, SendServerHello13
  PROVE  /\ TypeOK' /\ UNCHANGED <<sent, got, faults>>
         /\ UNCHANGED <<share, appSecret>> /\ OwnSeqs(Server)
         /\ secret'[Server][2] = Ecdh(Server) /\ secret'[Client] = secret[Client]
         /\ \E m : /\ Sends(Server, "send_server_hello", "send_encrypted_exts", m)
                   /\ m.type = "server_hello"
  <1>1. "send_encrypted_exts" \in Steps
    BY DEF Steps, SendSteps13, RecvSteps13
  <1>2. /\ KeysOK' /\ SeqsOK' /\ DataOK' /\ faults' \in Nat /\ UNCHANGED <<sent, got, faults>>
        /\ UNCHANGED <<share, appSecret>> /\ OwnSeqs(Server)
        /\ secret'[Server][2] = Ecdh(Server) /\ secret'[Client] = secret[Client]
    BY PeerOf, SidesAssumption
       DEF SendServerHello13, Send, TypeOK, KeysOK, SeqsOK, DataOK, OtherOK,
           OwnSeqs, keys13, data13, local12,
       HandshakeSecret, Restart
  <1>3. PICK m : m = ServerHello13
    OBVIOUS
  <1>4. /\ RecordOK(m)
        /\ m.type = "server_hello"
    <2>1. PICK e : e = transcript[Server][1].exts \cap AnsweredExts13
      OBVIOUS
    <2>2. m = [Msg("server_hello") EXCEPT !.random = "sr", !.share = "s", !.exts = e]
      BY <1>3, <2>1 DEF ServerHello13
    <2> QED
      BY <2>2, SharedHelloOK
  <1>5. Sends(Server, "send_server_hello", "send_encrypted_exts", m)
    BY <1>3, <1>4, SendSends, PeerOf DEF SendServerHello13
  <1>6. TypeOK'
    BY <1>1, <1>2, <1>5, TypeNext, PeerOf
  <1> QED
    BY <1>2, <1>4, <1>5, <1>6

LEMMA SendEncryptedExtensions13Is ==
  ASSUME TypeOK, UNCHANGED local12, SendEncryptedExtensions13
  PROVE  /\ TypeOK' /\ UNCHANGED <<sent, got, faults>>
         /\ UNCHANGED <<share, secret, appSecret>> /\ OwnSeqs(Server)
         /\ \E m : /\ Sends(Server, "send_encrypted_exts",
                         IF client_verify THEN "send_cert_request" ELSE "send_server_cert", m)
                   /\ m.type = "encrypted_extensions"
  <1>1. (IF client_verify THEN "send_cert_request" ELSE "send_server_cert") \in Steps
    BY DEF Steps, SendSteps13, RecvSteps13
  <1>2. /\ KeysOK' /\ SeqsOK' /\ DataOK' /\ faults' \in Nat /\ UNCHANGED <<sent, got, faults>>
        /\ UNCHANGED <<share, secret, appSecret>> /\ OwnSeqs(Server)
    BY PeerOf, SidesAssumption
       DEF SendEncryptedExtensions13, SendProtected, Send, TypeOK, KeysOK, SeqsOK,
           DataOK, OtherOK, OwnSeqs, keys13, data13, local12
  <1>3. PICK m : m = Protected(Server, Msg("encrypted_extensions"))
    OBVIOUS
  <1>4. /\ RecordOK(m)
        /\ m.type = "encrypted_extensions"
    BY <1>3, LightOK, PeerOf
  <1>5. Sends(Server, "send_encrypted_exts",
              IF client_verify THEN "send_cert_request" ELSE "send_server_cert", m)
    BY <1>3, <1>4, SendSends, PeerOf DEF SendEncryptedExtensions13, SendProtected
  <1>6. TypeOK'
    BY <1>1, <1>2, <1>5, TypeNext, PeerOf
  <1> QED
    BY <1>2, <1>4, <1>5, <1>6

LEMMA SendCertificateRequest13Is ==
  ASSUME TypeOK, UNCHANGED local12, SendCertificateRequest13
  PROVE  /\ TypeOK' /\ UNCHANGED <<sent, got, faults>>
         /\ UNCHANGED <<share, secret, appSecret>> /\ OwnSeqs(Server)
         /\ \E m : /\ Sends(Server, "send_cert_request", "send_server_cert", m)
                   /\ m.type = "certificate_request"
  <1>1. "send_server_cert" \in Steps
    BY DEF Steps, SendSteps13, RecvSteps13
  <1>2. /\ KeysOK' /\ SeqsOK' /\ DataOK' /\ faults' \in Nat /\ UNCHANGED <<sent, got, faults>>
        /\ UNCHANGED <<share, secret, appSecret>> /\ OwnSeqs(Server)
    BY PeerOf, SidesAssumption
       DEF SendCertificateRequest13, SendProtected, Send, TypeOK, KeysOK, SeqsOK,
           DataOK, OtherOK, OwnSeqs, keys13, data13, local12
  <1>3. PICK m : m = Protected(Server, Msg("certificate_request"))
    OBVIOUS
  <1>4. /\ RecordOK(m)
        /\ m.type = "certificate_request"
    BY <1>3, LightOK, PeerOf
  <1>5. Sends(Server, "send_cert_request", "send_server_cert", m)
    BY <1>3, <1>4, SendSends, PeerOf DEF SendCertificateRequest13, SendProtected
  <1>6. TypeOK'
    BY <1>1, <1>2, <1>5, TypeNext, PeerOf
  <1> QED
    BY <1>2, <1>4, <1>5, <1>6

LEMMA SendServerCertificate13Is ==
  ASSUME TypeOK, UNCHANGED local12, SendServerCertificate13
  PROVE  /\ TypeOK' /\ UNCHANGED <<sent, got, faults>>
         /\ UNCHANGED <<share, secret, appSecret>> /\ OwnSeqs(Server)
         /\ \E m : /\ Sends(Server, "send_server_cert", "send_server_cert_verify", m)
                   /\ m.type = "certificate"
  <1>1. "send_server_cert_verify" \in Steps
    BY DEF Steps, SendSteps13, RecvSteps13
  <1>2. /\ KeysOK' /\ SeqsOK' /\ DataOK' /\ faults' \in Nat /\ UNCHANGED <<sent, got, faults>>
        /\ UNCHANGED <<share, secret, appSecret>> /\ OwnSeqs(Server)
    BY PeerOf, SidesAssumption
       DEF SendServerCertificate13, SendProtected, Send, TypeOK, KeysOK, SeqsOK,
           DataOK, OtherOK, OwnSeqs, keys13, data13, local12
  <1>3. PICK m : m = Protected(Server, Msg("certificate"))
    OBVIOUS
  <1>4. /\ RecordOK(m)
        /\ m.type = "certificate"
    BY <1>3, LightOK, PeerOf
  <1>5. Sends(Server, "send_server_cert", "send_server_cert_verify", m)
    BY <1>3, <1>4, SendSends, PeerOf DEF SendServerCertificate13, SendProtected
  <1>6. TypeOK'
    BY <1>1, <1>2, <1>5, TypeNext, PeerOf
  <1> QED
    BY <1>2, <1>4, <1>5, <1>6

LEMMA SendServerFinished13Is ==
  ASSUME TypeOK, UNCHANGED local12, SendServerFinished13
  PROVE  /\ TypeOK' /\ UNCHANGED <<sent, got, faults>>
         /\ UNCHANGED <<share, secret>> /\ OwnSeqs(Server)
         /\ appSecret'[Client] = appSecret[Client]
         /\ \E m : /\ Sends(Server, "send_server_finished",
                             IF client_verify THEN "recv_client_cert"
                                              ELSE "recv_client_finished", m)
                   /\ m.type = "server_finished" /\ m.key = secret[Server]
                   /\ appSecret'[Server] =
                        AppSecret(Server, Append(m.over, Content(m)))
  <1>1. (IF client_verify THEN "recv_client_cert" ELSE "recv_client_finished") \in Steps
    BY DEF Steps, RecvSteps13
  <1>2. PICK m : m = Protected(Server, Signed(Server, "server_finished"))
    OBVIOUS
  <1>3. /\ RecordOK(m) /\ m.type = "server_finished" /\ m.key = secret[Server]
        /\ m.over = transcript[Server] /\ Content(m) = Signed(Server, "server_finished")
    BY <1>2, SealedOK, PeerOf
  <1>4. PICK a : a = AppSecret(Server, Append(m.over, Content(m)))
    OBVIOUS
  <1>5. /\ appSecret' = [appSecret EXCEPT ![Server] = a]
        /\ UNCHANGED <<share, secret, clientCerts, sent, got, random>>
        /\ SendProtected(Server, "send_server_finished", Signed(Server, "server_finished"),
                         IF client_verify THEN "recv_client_cert"
                                          ELSE "recv_client_finished")
    BY <1>3, <1>4 DEF SendServerFinished13, data13, local12
  <1>6. /\ KeysOK' /\ SeqsOK' /\ DataOK' /\ faults' \in Nat
        /\ faults' = faults /\ OwnSeqs(Server)
        /\ appSecret'[Client] = appSecret[Client] /\ appSecret'[Server] = a
    <2>1. KeysOK /\ SeqsOK /\ DataOK /\ OtherOK
      BY DEF TypeOK
    <2>2. /\ KeysOK' /\ DataOK'
          /\ appSecret'[Client] = appSecret[Client] /\ appSecret'[Server] = a
      BY <1>5, <2>1, PeerOf, SidesAssumption DEF KeysOK, DataOK
    <2>3. faults' = faults /\ sendSeq' = [sendSeq EXCEPT ![Server] = @ + 1]
          /\ recvSeq' = recvSeq
      BY <1>5 DEF SendProtected, Send
    <2>4. SeqsOK' /\ OwnSeqs(Server)
      BY <2>1, <2>3, PeerOf, SidesAssumption DEF SeqsOK, OwnSeqs
    <2> QED
      BY <2>1, <2>2, <2>3, <2>4 DEF OtherOK
  <1>7. Sends(Server, "send_server_finished",
              IF client_verify THEN "recv_client_cert" ELSE "recv_client_finished", m)
    BY <1>2, <1>3, <1>5, SendSends, PeerOf DEF SendProtected
  <1>8. TypeOK'
    BY <1>1, <1>6, <1>7, TypeNext, PeerOf
  <1> QED
    BY <1>3, <1>4, <1>5, <1>6, <1>7, <1>8

LEMMA RecvClientCertificate13Is ==
  ASSUME TypeOK, UNCHANGED local12, RecvClientCertificate13
  PROVE  /\ TypeOK' /\ UNCHANGED <<sent, got, faults>>
         /\ UNCHANGED <<share, secret, appSecret>> /\ OwnSeqs(Server)
         /\ \E m : /\ Takes(Server, "recv_client_cert", "recv_cert_verify", m)
                   /\ config.clientCert = "good"
  <1>1. "recv_cert_verify" \in Steps
    BY DEF Steps, SendSteps13, RecvSteps13
  <1>2. /\ KeysOK' /\ SeqsOK' /\ DataOK' /\ faults' \in Nat /\ UNCHANGED <<sent, got, faults>>
        /\ UNCHANGED <<share, secret, appSecret>> /\ OwnSeqs(Server)
    BY PeerOf, SidesAssumption
       DEF RecvClientCertificate13, RecvProtected, Recv, TypeOK, KeysOK, SeqsOK,
           DataOK, OtherOK, OwnSeqs, keys13, data13, local12
  <1>3. PICK m : m = First(Server)
    OBVIOUS
  <1>4. config.clientCert = "good"
    BY <1>3 DEF RecvClientCertificate13, ClientCertOK13
  <1>5. Takes(Server, "recv_client_cert", "recv_cert_verify", m)
    BY <1>3, RecvTakes, PeerOf DEF RecvClientCertificate13, RecvProtected
  <1>6. TypeOK'
    BY <1>1, <1>2, <1>5, TypeNext, PeerOf
  <1> QED
    BY <1>2, <1>4, <1>5, <1>6

LEMMA RecvCertificateVerify13Is ==
  ASSUME TypeOK, UNCHANGED local12, RecvCertificateVerify13
  PROVE  /\ TypeOK' /\ UNCHANGED <<sent, got, faults>>
         /\ UNCHANGED <<share, secret, appSecret>> /\ OwnSeqs(Server)
         /\ \E m : /\ Takes(Server, "recv_cert_verify", "recv_client_finished", m)
                   /\ m.type = "certificate_verify"
                   /\ m.val = "sent"
                   /\ m.over = transcript[Server]
  <1>1. "recv_client_finished" \in Steps
    BY DEF Steps, SendSteps13, RecvSteps13
  <1>2. /\ KeysOK' /\ SeqsOK' /\ DataOK' /\ faults' \in Nat /\ UNCHANGED <<sent, got, faults>>
        /\ UNCHANGED <<share, secret, appSecret>> /\ OwnSeqs(Server)
    BY PeerOf, SidesAssumption
       DEF RecvCertificateVerify13, RecvProtected, Recv, TypeOK, KeysOK, SeqsOK,
           DataOK, OtherOK, OwnSeqs, keys13, data13, local12
  <1>3. PICK m : m = First(Server)
    OBVIOUS
  <1>4. /\ m.type = "certificate_verify"
        /\ m.val = "sent"
        /\ m.over = transcript[Server]
    BY <1>3 DEF RecvCertificateVerify13, SignatureOK, IsHandshake
  <1>5. Takes(Server, "recv_cert_verify", "recv_client_finished", m)
    BY <1>3, RecvTakes, PeerOf DEF RecvCertificateVerify13, RecvProtected
  <1>6. TypeOK'
    BY <1>1, <1>2, <1>5, TypeNext, PeerOf
  <1> QED
    BY <1>2, <1>4, <1>5, <1>6

LEMMA RecvClientFinished13Is ==
  ASSUME TypeOK, UNCHANGED local12, RecvClientFinished13
  PROVE  /\ TypeOK' /\ UNCHANGED <<sent, got, faults>>
         /\ UNCHANGED <<share, appSecret>> /\ OwnSeqs(Server)
         /\ secret'[Server] = appSecret[Server] /\ secret'[Client] = secret[Client]
         /\ sendSeq'[Server] = 0 /\ recvSeq'[Server] = 0
         /\ \E m : /\ Takes(Server, "recv_client_finished", "established", m)
                   /\ m.type = "client_finished"
                   /\ m.val # "bad"
  <1>1. "established" \in Steps
    BY DEF Steps, SendSteps13, RecvSteps13
  <1>2. /\ KeysOK' /\ SeqsOK' /\ DataOK' /\ faults' \in Nat /\ UNCHANGED <<sent, got, faults>>
        /\ UNCHANGED <<share, appSecret>> /\ OwnSeqs(Server)
        /\ secret'[Server] = appSecret[Server] /\ secret'[Client] = secret[Client]
        /\ sendSeq'[Server] = 0 /\ recvSeq'[Server] = 0
    BY PeerOf, SidesAssumption
       DEF RecvClientFinished13, Recv, TypeOK, KeysOK, SeqsOK, DataOK, OtherOK,
           OwnSeqs, keys13, data13, local12, Restart
  <1>3. PICK m : m = First(Server)
    OBVIOUS
  <1>4. m.type = "client_finished" /\ m.val # "bad"
    BY <1>3 DEF RecvClientFinished13, FinishedOK13, IsHandshake, Decrypts
  <1>5. Takes(Server, "recv_client_finished", "established", m)
    BY <1>3, RecvTakes, PeerOf DEF RecvClientFinished13
  <1>6. TypeOK'
    BY <1>1, <1>2, <1>5, TypeNext, PeerOf
  <1> QED
    BY <1>2, <1>4, <1>5, <1>6

\* tls13_send, tls13_recv, and its end.
LEMMA SendDataIs ==
  ASSUME TypeOK, UNCHANGED local12, NEW s \in Side, tls13_send(s)
  PROVE  /\ TypeOK' /\ UNCHANGED <<config, pc, transcript, share, secret, appSecret>>
         /\ UNCHANGED <<recvSeq, faults, got>>
         /\ pc[s] = "established" /\ wire'[Peer(s)] = wire[Peer(s)]
         /\ sendSeq' = [sendSeq EXCEPT ![s] = @ + 1]
         /\ sent' = [sent EXCEPT ![s] = @ + 1]
         /\ \E m : /\ m.type = "application_data" /\ m.over = sent[s] + 1
                   /\ m.seq = sendSeq[s]
                   /\ Elems(wire'[s]) \subseteq Elems(wire[s]) \cup {m}
  <1>1. /\ KeysOK /\ SeqsOK /\ DataOK /\ OtherOK
        /\ pc \in [Side -> Steps] /\ RecordSeqs(wire) /\ RecordSeqs(transcript)
    BY DEF TypeOK
  <1>2. /\ UNCHANGED <<config, pc, transcript, share, secret, appSecret, clientCerts>>
        /\ UNCHANGED <<recvSeq, faults, got, closed, random>>
        /\ pc[s] = "established"
        /\ sendSeq' = [sendSeq EXCEPT ![s] = @ + 1]
        /\ sent' = [sent EXCEPT ![s] = @ + 1]
        /\ Emit(s, DataRecord(s)) \/ UNCHANGED wire
    BY DEF tls13_send, At, keys13, local12
  <1>3. PICK x : x = [Msg("application_data") EXCEPT !.over = sent[s] + 1]
    OBVIOUS
  <1>4. sent[s] + 1 \in Nat /\ sendSeq[s] \in Nat
    BY <1>1 DEF DataOK, SeqsOK
  <1>5. RecordOK(x) /\ x.type = "application_data" /\ x.over = sent[s] + 1
    BY <1>3, <1>4 DEF Msg, RecordOK
  <1>6. PICK m : m = DataRecord(s)
    OBVIOUS
  <1>7. /\ RecordOK(m) /\ m.type = "application_data" /\ m.over = sent[s] + 1
        /\ m.seq = sendSeq[s]
    BY <1>1, <1>3, <1>5, <1>6, ProtectedOK DEF DataRecord
  <1>8. /\ RecordSeqs(wire') /\ wire'[Peer(s)] = wire[Peer(s)]
        /\ Elems(wire'[s]) \subseteq Elems(wire[s]) \cup {m}
    <2>1. CASE Emit(s, m)
      <3>1. RecordSeqs(wire')
        BY <1>1, <1>7, <2>1, AppendTo DEF Emit
      <3> QED
        BY <2>1, <3>1, EmitElems
    <2>2. CASE UNCHANGED wire
      BY <1>1, <2>2
    <2> QED
      BY <1>2, <1>6, <2>1, <2>2
  <1>9. KeysOK' /\ OtherOK' /\ pc' \in [Side -> Steps] /\ RecordSeqs(transcript')
    BY <1>1, <1>2 DEF KeysOK, OtherOK
  <1>10. SeqsOK' /\ DataOK'
    BY <1>1, <1>2, <1>4 DEF SeqsOK, DataOK
  <1>11. TypeOK'
    BY <1>8, <1>9, <1>10 DEF TypeOK
  <1> QED
    BY <1>2, <1>7, <1>8, <1>11

LEMMA RecvDataIs ==
  ASSUME TypeOK, UNCHANGED local12, NEW s \in Side, tls13_recv(s)
  PROVE  /\ TypeOK' /\ UNCHANGED <<config, pc, transcript, share, secret, appSecret>>
         /\ UNCHANGED <<sendSeq, faults, sent>>
         /\ pc[s] = "established" /\ wire'[s] = wire[s]
         /\ Elems(wire'[Peer(s)]) \subseteq Elems(wire[Peer(s)])
         /\ recvSeq' = [recvSeq EXCEPT ![s] = @ + 1]
         /\ \E m \in Elems(wire[Peer(s)]) :
                /\ m.type = "application_data" /\ m.val # "bad" /\ m.over \in Nat
                /\ m.seq = recvSeq[s]
                /\ got' = [got EXCEPT ![s] = Append(@, m.over)]
  <1>1. /\ KeysOK /\ SeqsOK /\ DataOK /\ OtherOK
        /\ pc \in [Side -> Steps] /\ RecordSeqs(wire) /\ RecordSeqs(transcript)
    BY DEF TypeOK
  <1>2. PICK m : m = First(s)
    OBVIOUS
  <1>3. /\ UNCHANGED <<config, pc, transcript, share, secret, appSecret, clientCerts>>
        /\ UNCHANGED <<sendSeq, faults, sent, closed, random>>
        /\ pc[s] = "established"
        /\ recvSeq' = [recvSeq EXCEPT ![s] = @ + 1]
        /\ got' = [got EXCEPT ![s] = Append(@, m.over)]
        /\ Incoming(s) /\ Take(s)
    BY <1>2 DEF tls13_recv, At, keys13, local12
  <1>4. m.type = "application_data" /\ m.val # "bad" /\ m.seq = recvSeq[s]
    BY <1>2 DEF tls13_recv, DataOK13, IsHandshake, Decrypts
  <1>5. /\ Elems(wire'[Peer(s)]) \subseteq Elems(wire[Peer(s)]) /\ wire'[s] = wire[s]
        /\ m \in Elems(wire[Peer(s)]) /\ RecordOK(m)
    BY <1>2, <1>3, TakeElems
  <1>6. RecordSeqs(wire')
    BY <1>1, <1>3, TailOf, PeerType DEF Take, Incoming
  <1>7. m.over \in Nat
    BY <1>4, <1>5 DEF RecordOK
  <1>8. KeysOK' /\ OtherOK' /\ pc' \in [Side -> Steps] /\ RecordSeqs(transcript')
    BY <1>1, <1>3 DEF KeysOK, OtherOK
  <1>9. SeqsOK' /\ DataOK'
    BY <1>1, <1>3, <1>7 DEF SeqsOK, DataOK
  <1>10. TypeOK'
    BY <1>6, <1>8, <1>9 DEF TypeOK
  <1> QED
    BY <1>3, <1>4, <1>5, <1>7, <1>10

LEMMA RecvDataFailsIs ==
  ASSUME TypeOK, UNCHANGED local12, NEW s \in Side, tls13_recv_fails(s)
  PROVE  /\ TypeOK' /\ UNCHANGED <<config, transcript, share, secret, appSecret>>
         /\ UNCHANGED <<sendSeq, recvSeq, faults, sent, got>>
         /\ pc[s] = "established" /\ pc'[s] = "disconnected"
         /\ pc'[Peer(s)] = pc[Peer(s)] /\ wire'[s] = wire[s]
         /\ Elems(wire'[Peer(s)]) \subseteq Elems(wire[Peer(s)])
  <1>1. /\ KeysOK /\ SeqsOK /\ DataOK /\ OtherOK
        /\ pc \in [Side -> Steps] /\ RecordSeqs(wire) /\ RecordSeqs(transcript)
    BY DEF TypeOK
  <1>2. /\ UNCHANGED <<config, transcript, share, secret, appSecret, clientCerts>>
        /\ UNCHANGED <<sendSeq, recvSeq, faults, sent, got, closed, random>>
        /\ pc[s] = "established" /\ Goto(s, "disconnected")
        /\ (Incoming(s) /\ Take(s)) \/ UNCHANGED wire
    BY DEF tls13_recv_fails, At, keys13, data13, local12
  <1>3. pc'[s] = "disconnected" /\ pc'[Peer(s)] = pc[Peer(s)]
    BY <1>2, GotoPc
  <1>4. pc' \in [Side -> Steps]
    <2>1. "disconnected" \in Steps
      BY DEF Steps
    <2> QED
      BY <1>1, <1>2, <2>1 DEF Goto
  <1>5. /\ Elems(wire'[Peer(s)]) \subseteq Elems(wire[Peer(s)]) /\ wire'[s] = wire[s]
        /\ RecordSeqs(wire')
    <2>1. CASE Incoming(s) /\ Take(s)
      <3>1. RecordSeqs(wire')
        BY <1>1, <2>1, TailOf, PeerType DEF Take, Incoming
      <3> QED
        BY <2>1, <3>1, TakeElems
    <2>2. CASE UNCHANGED wire
      BY <1>1, <2>2
    <2> QED
      BY <1>2, <2>1, <2>2
  <1>6. KeysOK' /\ SeqsOK' /\ DataOK' /\ OtherOK' /\ RecordSeqs(transcript')
    BY <1>1, <1>2 DEF KeysOK, SeqsOK, DataOK, OtherOK
  <1>7. TypeOK'
    BY <1>4, <1>5, <1>6 DEF TypeOK
  <1> QED
    BY <1>2, <1>3, <1>5, <1>7

LEMMA QuietTypes == ASSUME TypeOK, Quiet PROVE TypeOK'
  <1>1. /\ KeysOK /\ SeqsOK /\ DataOK /\ OtherOK
        /\ pc \in [Side -> Steps] /\ RecordSeqs(wire) /\ RecordSeqs(transcript)
    BY DEF TypeOK
  <1>2. /\ UNCHANGED <<config, transcript, share, secret, sendSeq, recvSeq,
                       clientCerts, random, appSecret, sent, got>>
        /\ pc' = pc \/ \E s \in Side : Fails(s)
        /\ closed' \in [Side -> BOOLEAN] /\ faults' \in Nat /\ RecordSeqs(wire')
    BY QuietEffect
  <1>3. pc' \in [Side -> Steps]
    <2>1. "failed" \in Steps
      BY DEF Steps
    <2> QED
      BY <1>1, <1>2, <2>1 DEF Fails
  <1>4. KeysOK' /\ SeqsOK' /\ DataOK' /\ OtherOK' /\ RecordSeqs(transcript')
    BY <1>1, <1>2 DEF KeysOK, SeqsOK, DataOK, OtherOK
  <1> QED
    BY <1>2, <1>3, <1>4 DEF TypeOK

-----------------------------------------------------------------------------
(* The type invariant, and the order of the data.                          *)

\* What a message of the handshake leaves alone, and how TLS 1.3 completes.
Moves(s) ==
    /\ TypeOK' /\ UNCHANGED <<config, sent, got>>
    /\ pc[s] \notin Ended /\ pc'[s] # "disconnected" /\ pc'[Peer(s)] = pc[Peer(s)]
    /\ \A t \in Side : \A m \in Elems(wire'[t]) :
            m.type = "application_data" => m \in Elems(wire[t])
    /\ Tls13 => /\ OwnSeqs(s)
                /\ pc'[s] = "established" => sendSeq'[s] = 0 /\ recvSeq'[s] = 0

LEMMA Connect12Moves == ASSUME TypeOK, Connect12 PROVE Moves(Client)
  <1>0. UNCHANGED local13 /\ config.protocol = "tls12" /\ Client \in Side /\ Server \in Side
    BY PeerOf DEF Connect12
  <1>1. CASE SendClientHello12
    BY <1>0, <1>1, SendClientHello12Is
       DEF Moves, Sends, Takes, Shows, Skims, Ended, Tls13, Side, Peer
  <1>2. CASE RecvServerHello12
    BY <1>0, <1>2, RecvServerHello12Is
       DEF Moves, Sends, Takes, Shows, Skims, Ended, Tls13, Side, Peer
  <1>3. CASE RecvServerCertificate12
    BY <1>0, <1>3, RecvServerCertificate12Is
       DEF Moves, Sends, Takes, Shows, Skims, Ended, Tls13, Side, Peer
  <1>4. CASE RecvServerKeyExchange12
    BY <1>0, <1>4, RecvServerKeyExchange12Is
       DEF Moves, Sends, Takes, Shows, Skims, Ended, Tls13, Side, Peer
  <1>5. CASE RecvCertificateRequest12
    BY <1>0, <1>5, RecvCertificateRequest12Is
       DEF Moves, Sends, Takes, Shows, Skims, Ended, Tls13, Side, Peer
  <1>6. CASE RecvServerHelloDone12
    BY <1>0, <1>6, RecvServerHelloDone12Is
       DEF Moves, Sends, Takes, Shows, Skims, Ended, Tls13, Side, Peer
  <1>7. CASE SendClientCertificate12
    BY <1>0, <1>7, SendClientCertificate12Is
       DEF Moves, Sends, Takes, Shows, Skims, Ended, Tls13, Side, Peer
  <1>8. CASE SendClientKeyExchange12
    BY <1>0, <1>8, SendClientKeyExchange12Is
       DEF Moves, Sends, Takes, Shows, Skims, Ended, Tls13, Side, Peer
  <1>9. CASE SendCertificateVerify12
    BY <1>0, <1>9, SendCertificateVerify12Is
       DEF Moves, Sends, Takes, Shows, Skims, Ended, Tls13, Side, Peer
  <1>10. CASE SendClientChangeCipherSpec12
    BY <1>0, <1>10, SendClientChangeCipherSpec12Is
       DEF Moves, Sends, Takes, Shows, Skims, Ended, Tls13, Side, Peer
  <1>11. CASE SendClientFinished12
    BY <1>0, <1>11, SendClientFinished12Is
       DEF Moves, Sends, Takes, Shows, Skims, Ended, Tls13, Side, Peer
  <1>12. CASE RecvServerChangeCipherSpec12
    BY <1>0, <1>12, RecvServerChangeCipherSpec12Is
       DEF Moves, Sends, Takes, Shows, Skims, Ended, Tls13, Side, Peer
  <1>13. CASE RecvServerFinished12
    BY <1>0, <1>13, RecvServerFinished12Is
       DEF Moves, Sends, Takes, Shows, Skims, Ended, Tls13, Side, Peer
  <1> QED
    BY <1>1, <1>2, <1>3, <1>4, <1>5, <1>6, <1>7, <1>8, <1>9, <1>10, <1>11, <1>12,
       <1>13
       DEF Connect12, Client12

LEMMA Accept12Moves == ASSUME TypeOK, Accept12 PROVE Moves(Server)
  <1>0. UNCHANGED local13 /\ config.protocol = "tls12" /\ Client \in Side /\ Server \in Side
    BY PeerOf DEF Accept12
  <1>1. CASE RecvClientHello12
    BY <1>0, <1>1, RecvClientHello12Is
       DEF Moves, Sends, Takes, Shows, Skims, Ended, Tls13, Side, Peer
  <1>2. CASE SendServerHello12
    BY <1>0, <1>2, SendServerHello12Is
       DEF Moves, Sends, Takes, Shows, Skims, Ended, Tls13, Side, Peer
  <1>3. CASE SendServerCertificate12
    BY <1>0, <1>3, SendServerCertificate12Is
       DEF Moves, Sends, Takes, Shows, Skims, Ended, Tls13, Side, Peer
  <1>4. CASE SendServerKeyExchange12
    BY <1>0, <1>4, SendServerKeyExchange12Is
       DEF Moves, Sends, Takes, Shows, Skims, Ended, Tls13, Side, Peer
  <1>5. CASE SendCertificateRequest12
    BY <1>0, <1>5, SendCertificateRequest12Is
       DEF Moves, Sends, Takes, Shows, Skims, Ended, Tls13, Side, Peer
  <1>6. CASE SendServerHelloDone12
    BY <1>0, <1>6, SendServerHelloDone12Is
       DEF Moves, Sends, Takes, Shows, Skims, Ended, Tls13, Side, Peer
  <1>7. CASE RecvClientCertificate12
    BY <1>0, <1>7, RecvClientCertificate12Is
       DEF Moves, Sends, Takes, Shows, Skims, Ended, Tls13, Side, Peer
  <1>8. CASE RecvClientKeyExchange12
    BY <1>0, <1>8, RecvClientKeyExchange12Is
       DEF Moves, Sends, Takes, Shows, Skims, Ended, Tls13, Side, Peer
  <1>9. CASE RecvCertificateVerify12
    BY <1>0, <1>9, RecvCertificateVerify12Is
       DEF Moves, Sends, Takes, Shows, Skims, Ended, Tls13, Side, Peer
  <1>10. CASE RecvClientChangeCipherSpec12
    BY <1>0, <1>10, RecvClientChangeCipherSpec12Is
       DEF Moves, Sends, Takes, Shows, Skims, Ended, Tls13, Side, Peer
  <1>11. CASE RecvClientFinished12
    BY <1>0, <1>11, RecvClientFinished12Is
       DEF Moves, Sends, Takes, Shows, Skims, Ended, Tls13, Side, Peer
  <1>12. CASE SendServerChangeCipherSpec12
    BY <1>0, <1>12, SendServerChangeCipherSpec12Is
       DEF Moves, Sends, Takes, Shows, Skims, Ended, Tls13, Side, Peer
  <1>13. CASE SendServerFinished12
    BY <1>0, <1>13, SendServerFinished12Is
       DEF Moves, Sends, Takes, Shows, Skims, Ended, Tls13, Side, Peer
  <1> QED
    BY <1>1, <1>2, <1>3, <1>4, <1>5, <1>6, <1>7, <1>8, <1>9, <1>10, <1>11, <1>12,
       <1>13
       DEF Accept12, Server12

LEMMA Connect13Moves == ASSUME TypeOK, Connect13 PROVE Moves(Client)
  <1>0. UNCHANGED local12 /\ config.protocol = "tls13" /\ Client \in Side /\ Server \in Side
    BY PeerOf DEF Connect13
  <1>1. CASE SendClientHello13
    BY <1>0, <1>1, SendClientHello13Is
       DEF Moves, Sends, Takes, Shows, Skims, Ended, Tls13, Side, Peer
  <1>2. CASE RecvServerHello13
    BY <1>0, <1>2, RecvServerHello13Is
       DEF Moves, Sends, Takes, Shows, Skims, Ended, Tls13, Side, Peer
  <1>3. CASE RecvEncryptedExtensions13
    BY <1>0, <1>3, RecvEncryptedExtensions13Is
       DEF Moves, Sends, Takes, Shows, Skims, Ended, Tls13, Side, Peer
  <1>4. CASE RecvCertificateRequest13
    BY <1>0, <1>4, RecvCertificateRequest13Is
       DEF Moves, Sends, Takes, Shows, Skims, Ended, Tls13, Side, Peer
  <1>5. CASE RecvServerCertificate13
    BY <1>0, <1>5, RecvServerCertificate13Is
       DEF Moves, Sends, Takes, Shows, Skims, Ended, Tls13, Side, Peer
  <1>6. CASE RecvServerCertificateVerify13
    BY <1>0, <1>6, RecvServerCertificateVerify13Is
       DEF Moves, Sends, Takes, Shows, Skims, Ended, Tls13, Side, Peer
  <1>7. CASE RecvServerFinished13
    BY <1>0, <1>7, RecvServerFinished13Is
       DEF Moves, Sends, Takes, Shows, Skims, Ended, Tls13, Side, Peer
  <1>8. CASE SendClientCertificate13
    BY <1>0, <1>8, SendClientCertificate13Is
       DEF Moves, Sends, Takes, Shows, Skims, Ended, Tls13, Side, Peer
  <1>9. CASE SendCertificateVerify13
    <2>1. /\ SendSignature(Client, "send_cert_verify", "send_client_finished")
          /\ "send_client_finished" \in Steps
      BY <1>9 DEF SendCertificateVerify13, Steps, SendSteps13
    <2>2. /\ TypeOK' /\ UNCHANGED <<sent, got, share, secret, appSecret>> /\ OwnSeqs(Client)
          /\ faults' = faults \/ faults' = faults + 1
      BY <1>0, <2>1, SendSignatureIs
    <2>3. PICK m : /\ Sends(Client, "send_cert_verify", "send_client_finished", m)
                   /\ m.type = "certificate_verify"
                   /\ m.val = "sent" => m.over = transcript[Client]
      BY <1>0, <2>1, SendSignatureIs
    <2> QED
      BY <1>0, <2>2, <2>3
         DEF Moves, Sends, Takes, Shows, Skims, Ended, Tls13, Side, Peer
  <1>10. CASE SendClientFinished13
    BY <1>0, <1>10, SendClientFinished13Is
       DEF Moves, Sends, Takes, Shows, Skims, Ended, Tls13, Side, Peer
  <1> QED
    BY <1>1, <1>2, <1>3, <1>4, <1>5, <1>6, <1>7, <1>8, <1>9, <1>10
       DEF Connect13, Client13

LEMMA Accept13Moves == ASSUME TypeOK, Accept13 PROVE Moves(Server)
  <1>0. UNCHANGED local12 /\ config.protocol = "tls13" /\ Client \in Side /\ Server \in Side
    BY PeerOf DEF Accept13
  <1>1. CASE RecvClientHello13
    BY <1>0, <1>1, RecvClientHello13Is
       DEF Moves, Sends, Takes, Shows, Skims, Ended, Tls13, Side, Peer
  <1>2. CASE SendServerHello13
    BY <1>0, <1>2, SendServerHello13Is
       DEF Moves, Sends, Takes, Shows, Skims, Ended, Tls13, Side, Peer
  <1>3. CASE SendEncryptedExtensions13
    BY <1>0, <1>3, SendEncryptedExtensions13Is
       DEF Moves, Sends, Takes, Shows, Skims, Ended, Tls13, Side, Peer
  <1>4. CASE SendCertificateRequest13
    BY <1>0, <1>4, SendCertificateRequest13Is
       DEF Moves, Sends, Takes, Shows, Skims, Ended, Tls13, Side, Peer
  <1>5. CASE SendServerCertificate13
    BY <1>0, <1>5, SendServerCertificate13Is
       DEF Moves, Sends, Takes, Shows, Skims, Ended, Tls13, Side, Peer
  <1>6. CASE SendServerCertificateVerify13
    <2>1. /\ SendSignature(Server, "send_server_cert_verify", "send_server_finished")
          /\ "send_server_finished" \in Steps
      BY <1>6 DEF SendServerCertificateVerify13, Steps, SendSteps13
    <2>2. /\ TypeOK' /\ UNCHANGED <<sent, got, share, secret, appSecret>> /\ OwnSeqs(Server)
          /\ faults' = faults \/ faults' = faults + 1
      BY <1>0, <2>1, SendSignatureIs
    <2>3. PICK m : /\ Sends(Server, "send_server_cert_verify", "send_server_finished", m)
                   /\ m.type = "certificate_verify"
                   /\ m.val = "sent" => m.over = transcript[Server]
      BY <1>0, <2>1, SendSignatureIs
    <2> QED
      BY <1>0, <2>2, <2>3
         DEF Moves, Sends, Takes, Shows, Skims, Ended, Tls13, Side, Peer
  <1>7. CASE SendServerFinished13
    BY <1>0, <1>7, SendServerFinished13Is
       DEF Moves, Sends, Takes, Shows, Skims, Ended, Tls13, Side, Peer
  <1>8. CASE RecvClientCertificate13
    BY <1>0, <1>8, RecvClientCertificate13Is
       DEF Moves, Sends, Takes, Shows, Skims, Ended, Tls13, Side, Peer
  <1>9. CASE RecvCertificateVerify13
    BY <1>0, <1>9, RecvCertificateVerify13Is
       DEF Moves, Sends, Takes, Shows, Skims, Ended, Tls13, Side, Peer
  <1>10. CASE RecvClientFinished13
    BY <1>0, <1>10, RecvClientFinished13Is
       DEF Moves, Sends, Takes, Shows, Skims, Ended, Tls13, Side, Peer
  <1> QED
    BY <1>1, <1>2, <1>3, <1>4, <1>5, <1>6, <1>7, <1>8, <1>9, <1>10
       DEF Accept13, Server13

\* Every step is a message of one side, a step of the data, or quiet.
LEMMA StepCases ==
  ASSUME TypeOK, [Next]_vars
  PROVE  \/ \E s \in Side : Moves(s)
         \/ Quiet /\ TypeOK'
         \/ Tls13 /\ \E s \in Side : TypeOK' /\ Data13(s)
  <1>1. CASE Connect12 \/ Accept12 \/ Connect13 \/ Accept13
    BY <1>1, Connect12Moves, Accept12Moves, Connect13Moves, Accept13Moves, PeerOf
  <1>2. CASE Quiet
    BY <1>2, QuietTypes
  <1>3. ASSUME NEW s \in Side, Data13(s) PROVE TypeOK' /\ Tls13
    BY <1>3, SendDataIs, RecvDataIs, RecvDataFailsIs DEF Data13, Tls13
  <1> QED
    BY <1>1, <1>2, <1>3, NextCases

LEMMA TypeInit == ASSUME Init PROVE TypeOK
  <1>1. RecordSeqs(wire) /\ RecordSeqs(transcript)
    BY EmptySeq DEF Init, LinkInit, RecordSeqs, IsRecordSeq
  <1>2. pc \in [Side -> Steps]
    BY DEF Init, LinkInit, Steps, SendSteps12, RecvSteps12
  <1>3. KeysOK /\ SeqsOK /\ DataOK /\ OtherOK
    BY DEF Init, LinkInit, KeysOK, SeqsOK, DataOK, OtherOK
  <1> QED
    BY <1>1, <1>2, <1>3 DEF TypeOK

LEMMA TypeStep == ASSUME TypeOK, [Next]_vars PROVE TypeOK'
  BY StepCases DEF Moves

\* The records and the transcripts of both protocols stay sequences of records,
\* the counters numbers, and the steps those of the two protocols.
THEOREM TypeCorrect == Spec => []TypeOK
  <1>1. Init => TypeOK
    BY TypeInit
  <1>2. TypeOK /\ [Next]_vars => TypeOK'
    BY TypeStep
  <1> QED
    BY <1>1, <1>2, PTL DEF Spec

\* A data record that was not altered carries the datum its number stands for.
RecordsNumbered ==
    \A s \in Side : \A m \in Elems(wire[s]) :
        m.type = "application_data" /\ m.val # "bad" =>
            m.over = m.seq + 1 /\ m.over <= sent[s]

\* The sequence numbers of a side that has completed count its data, and there
\* is no data before.
NumbersCountData ==
    \A s \in Side :
        IF Tls13 /\ Completed(s) THEN sendSeq[s] = sent[s] /\ recvSeq[s] = Len(got[s])
                                 ELSE sent[s] = 0 /\ got[s] = <<>>

DataInv == RecordsNumbered /\ NumbersCountData /\ DataInOrder

LEMMA DataInit == ASSUME Init PROVE DataInv
  <1>1. RecordsNumbered
    BY EmptySeq DEF Init, LinkInit, RecordsNumbered
  <1>2. NumbersCountData
    BY DEF Init, LinkInit, NumbersCountData, Completed, Side
  <1>3. DataInOrder
    BY PeerType DEF Init, LinkInit, DataInOrder
  <1> QED
    BY <1>1, <1>2, <1>3 DEF DataInv

LEMMA DataMoves == ASSUME TypeOK, DataInv, NEW s \in Side, Moves(s) PROVE DataInv'
  <1>1. RecordsNumbered'
    BY DEF Moves, DataInv, RecordsNumbered
  <1>2. NumbersCountData'
    <2>1. ASSUME NEW t \in Side
          PROVE  IF Tls13' /\ Completed(t)'
                 THEN sendSeq'[t] = sent'[t] /\ recvSeq'[t] = Len(got'[t])
                 ELSE sent'[t] = 0 /\ got'[t] = <<>>
      <3>1. Tls13' = Tls13
        BY DEF Moves, Tls13
      <3>2. CASE t = s
        <4>1. sent[t] = 0 /\ got[t] = <<>>
          BY <3>2 DEF Moves, DataInv, NumbersCountData, Completed, Ended
        <4>2. Tls13 /\ Completed(t)' => sendSeq'[t] = 0 /\ recvSeq'[t] = 0
          BY <3>2 DEF Moves, Completed
        <4> QED
          BY <3>1, <4>1, <4>2 DEF Moves
      <3>3. CASE t = Peer(s)
        <4>1. Completed(t)' = Completed(t)
          BY <3>3 DEF Moves, Completed
        <4>2. Tls13 => sendSeq'[t] = sendSeq[t] /\ recvSeq'[t] = recvSeq[t]
          BY <3>3 DEF Moves, OwnSeqs
        <4> QED
          BY <3>1, <4>1, <4>2 DEF Moves, DataInv, NumbersCountData
      <3> QED
        BY <3>2, <3>3 DEF Side, Peer
    <2> QED
      BY <2>1 DEF NumbersCountData
  <1>3. DataInOrder'
    BY DEF Moves, DataInv, DataInOrder
  <1> QED
    BY <1>1, <1>2, <1>3 DEF DataInv

LEMMA DataQuiet == ASSUME TypeOK, DataInv, Quiet PROVE DataInv'
  <1>1. /\ UNCHANGED <<config, sendSeq, recvSeq, sent, got>>
        /\ \A t \in Side : \A m \in Elems(wire'[t]) : Weighty(m) => m \in Elems(wire[t])
        /\ pc' = pc \/ \E s \in Side : Fails(s)
    BY QuietEffect
  <1>2. RecordsNumbered'
    BY <1>1 DEF DataInv, RecordsNumbered, Weighty, WeightyTypes
  <1>3. \A t \in Side : Completed(t)' = Completed(t)
    BY <1>1 DEF Fails, Completed, Ended, Side, Peer
  <1>4. NumbersCountData'
    BY <1>1, <1>3 DEF DataInv, NumbersCountData, Tls13
  <1>5. DataInOrder'
    BY <1>1 DEF DataInv, DataInOrder
  <1> QED
    BY <1>2, <1>4, <1>5 DEF DataInv

LEMMA DataStep ==
  ASSUME TypeOK, DataInv, NEW s \in Side, Data13(s), Tls13 PROVE DataInv'
  <1>0. /\ UNCHANGED local12
        /\ tls13_send(s) \/ tls13_recv(s) \/ tls13_recv_fails(s)
        /\ Peer(s) \in Side /\ Peer(s) # s /\ Peer(Peer(s)) = s
        /\ \A t \in Side : t = s \/ t = Peer(s)
    BY PeerType DEF Data13, Side, Peer
  <1>1. /\ sent \in [Side -> Nat] /\ got \in [Side -> Seq(Nat)]
        /\ sendSeq \in [Side -> Nat] /\ recvSeq \in [Side -> Nat]
    BY DEF TypeOK, DataOK, SeqsOK
  <1>2. CASE tls13_send(s)
    <2>1. PICK m : /\ m.type = "application_data" /\ m.over = sent[s] + 1
                   /\ m.seq = sendSeq[s]
                   /\ Elems(wire'[s]) \subseteq Elems(wire[s]) \cup {m}
      BY <1>0, <1>2, SendDataIs
    <2>2. /\ UNCHANGED <<config, pc, recvSeq, got>>
          /\ pc[s] = "established" /\ wire'[Peer(s)] = wire[Peer(s)]
          /\ sendSeq' = [sendSeq EXCEPT ![s] = @ + 1]
          /\ sent' = [sent EXCEPT ![s] = @ + 1]
      BY <1>0, <1>2, SendDataIs
    <2>3. /\ sent'[s] = sent[s] + 1 /\ sent'[Peer(s)] = sent[Peer(s)]
          /\ sendSeq'[s] = sendSeq[s] + 1 /\ sendSeq'[Peer(s)] = sendSeq[Peer(s)]
      BY <1>0, <1>1, <2>2
    <2>4. sendSeq[s] = sent[s]
      BY <2>2 DEF DataInv, NumbersCountData, Completed
    <2>5. RecordsNumbered'
      <3>1. ASSUME NEW t \in Side, NEW x \in Elems(wire'[t]),
                   x.type = "application_data", x.val # "bad"
            PROVE  x.over = x.seq + 1 /\ x.over <= sent'[t]
        <4>1. CASE t = s /\ x = m
          BY <1>1, <2>1, <2>3, <2>4, <4>1
        <4>2. CASE x \in Elems(wire[t])
          <5>1. x.over = x.seq + 1 /\ x.over <= sent[t]
            BY <3>1, <4>2 DEF DataInv, RecordsNumbered
          <5>2. x.seq \in Nat
            BY <4>2, SeqsOf DEF TypeOK, RecordOK
          <5>3. sent[t] \in Nat /\ (sent'[t] = sent[t] \/ sent'[t] = sent[t] + 1)
            BY <1>0, <1>1, <2>3
          <5> QED
            BY <5>1, <5>2, <5>3
        <4> QED
          BY <1>0, <2>1, <2>2, <4>1, <4>2
      <3> QED
        BY <3>1 DEF RecordsNumbered
    <2>6. NumbersCountData'
      <3>1. \A t \in Side : Completed(t)' = Completed(t)
        BY <2>2 DEF Completed
      <3>2. Completed(s) /\ Tls13'
        BY <2>2 DEF Completed, Tls13
      <3> QED
        BY <1>0, <2>2, <2>3, <2>4, <3>1, <3>2 DEF DataInv, NumbersCountData
    <2>7. DataInOrder'
      <3>1. \A t \in Side : sent[t] \in Nat /\ (sent'[t] = sent[t] \/ sent'[t] = sent[t] + 1)
        BY <1>0, <1>1, <2>3
      <3>2. \A t \in Side : Len(got[t]) \in Nat
        BY <1>1
      <3>3. \A t \in Side : Len(got'[t]) <= sent'[Peer(t)]
        <4> TAKE t \in Side
        <4>1. Peer(t) \in Side /\ Len(got[t]) \in Nat /\ Len(got[t]) <= sent[Peer(t)]
          BY <3>2, PeerType DEF DataInv, DataInOrder
        <4>2. sent[Peer(t)] \in Nat /\ sent'[Peer(t)] >= sent[Peer(t)] /\ sent'[Peer(t)] \in Nat
          BY <3>1, <4>1
        <4> QED
          BY <2>2, <4>1, <4>2
      <3> QED
        BY <2>2, <3>3 DEF DataInv, DataInOrder
    <2> QED
      BY <2>5, <2>6, <2>7 DEF DataInv
  <1>3. CASE tls13_recv(s)
    <2>1. PICK m \in Elems(wire[Peer(s)]) :
                /\ m.type = "application_data" /\ m.val # "bad" /\ m.over \in Nat
                /\ m.seq = recvSeq[s]
                /\ got' = [got EXCEPT ![s] = Append(@, m.over)]
      BY <1>0, <1>3, RecvDataIs
    <2>2. /\ UNCHANGED <<config, pc, sendSeq, sent>>
          /\ pc[s] = "established" /\ wire'[s] = wire[s]
          /\ Elems(wire'[Peer(s)]) \subseteq Elems(wire[Peer(s)])
          /\ recvSeq' = [recvSeq EXCEPT ![s] = @ + 1]
      BY <1>0, <1>3, RecvDataIs
    <2>3. /\ got'[s] = Append(got[s], m.over) /\ got'[Peer(s)] = got[Peer(s)]
          /\ recvSeq'[s] = recvSeq[s] + 1 /\ recvSeq'[Peer(s)] = recvSeq[Peer(s)]
      BY <1>0, <1>1, <2>1, <2>2
    <2>4. /\ got[s] \in Seq(Nat) /\ Len(got[s]) \in Nat
          /\ recvSeq[s] = Len(got[s])
      BY <1>1, <2>2 DEF DataInv, NumbersCountData, Completed
    <2>5. m.over = Len(got[s]) + 1 /\ m.over <= sent[Peer(s)]
      BY <1>0, <2>1, <2>4 DEF DataInv, RecordsNumbered
    <2>6. RecordsNumbered'
      BY <1>0, <2>2 DEF DataInv, RecordsNumbered
    <2>7. NumbersCountData'
      <3>1. \A t \in Side : Completed(t)' = Completed(t)
        BY <2>2 DEF Completed
      <3>2. Completed(s) /\ Tls13'
        BY <2>2 DEF Completed, Tls13
      <3>3. recvSeq'[s] = Len(got'[s]) /\ sendSeq'[s] = sent'[s]
        BY <2>1, <2>2, <2>3, <2>4, <3>2 DEF DataInv, NumbersCountData
      <3> QED
        BY <1>0, <2>2, <2>3, <3>1, <3>2, <3>3 DEF DataInv, NumbersCountData
    <2>8. DataInOrder'
      <3>1. got[s] = [i \in 1 .. Len(got[s]) |-> i]
        BY DEF DataInv, DataInOrder
      <3>2. /\ got'[s] \in Seq(Nat) /\ Len(got'[s]) = Len(got[s]) + 1
            /\ \A i \in 1 .. Len(got[s]) + 1 : got'[s][i] = i
        BY <2>1, <2>3, <2>4, <2>5, <3>1
      <3>3. got'[s] = [i \in 1 .. Len(got'[s]) |-> i] /\ Len(got'[s]) <= sent'[Peer(s)]
        <4>1. PICK r : r = got'[s]
          OBVIOUS
        <4>2. r \in Seq(Nat) /\ Len(r) = Len(got[s]) + 1
          BY <3>2, <4>1
        <4>3. r = [i \in 1 .. Len(r) |-> r[i]]
          BY <4>2
        <4>4. \A i \in 1 .. Len(r) : r[i] = i
          BY <3>2, <4>1, <4>2
        <4>5. r = [i \in 1 .. Len(r) |-> i]
          BY <4>3, <4>4
        <4> QED
          BY <2>2, <2>5, <4>1, <4>2, <4>5
      <3>4. /\ got'[Peer(s)] = [i \in 1 .. Len(got'[Peer(s)]) |-> i]
            /\ Len(got'[Peer(s)]) <= sent'[s]
        BY <1>0, <2>2, <2>3 DEF DataInv, DataInOrder
      <3> QED
        BY <1>0, <3>3, <3>4 DEF DataInOrder
    <2> QED
      BY <2>6, <2>7, <2>8 DEF DataInv
  <1>4. CASE tls13_recv_fails(s)
    <2>1. /\ UNCHANGED <<config, sendSeq, recvSeq, sent, got>>
          /\ pc[s] = "established" /\ pc'[s] = "disconnected"
          /\ pc'[Peer(s)] = pc[Peer(s)] /\ wire'[s] = wire[s]
          /\ Elems(wire'[Peer(s)]) \subseteq Elems(wire[Peer(s)])
      BY <1>0, <1>4, RecvDataFailsIs
    <2>2. \A t \in Side : Completed(t)' = Completed(t)
      BY <1>0, <2>1 DEF Completed
    <2>3. RecordsNumbered'
      BY <1>0, <2>1 DEF DataInv, RecordsNumbered
    <2>4. NumbersCountData'
      BY <2>1, <2>2 DEF DataInv, NumbersCountData, Tls13
    <2>5. DataInOrder'
      BY <2>1 DEF DataInv, DataInOrder
    <2> QED
      BY <2>3, <2>4, <2>5 DEF DataInv
  <1> QED
    BY <1>0, <1>2, <1>3, <1>4

\* What tls13_recv has returned is a prefix of what the peer sent, whatever the
\* network does: no datum is handed out twice, left out or out of order.
THEOREM DataCorrect == Spec => []DataInOrder
  <1>1. Init => DataInv
    BY DataInit
  <1>2. TypeOK /\ DataInv /\ [Next]_vars => DataInv'
    BY StepCases, DataMoves, DataQuiet, DataStep
  <1>3. DataInv => DataInOrder
    BY DEF DataInv
  <1> QED
    BY <1>1, <1>2, <1>3, TypeCorrect, PTL DEF Spec

-----------------------------------------------------------------------------
(* Who was authenticated.                                                  *)

\* The message m stands in the transcript q, over what precedes it.
SignedAt(q, m) ==
    \E i \in 1 .. Len(q) : q[i] = Content(m) /\ m.over = SubSeq(q, 1, i - 1)
\* The transcript q has a signature over a prefix of p.
SignedBy(q, p) ==
    \E i \in 1 .. Len(q) :
        /\ q[i].type = "certificate_verify" /\ q[i].val = "sent"
        /\ i - 1 <= Len(p) /\ q[i].over = SubSeq(p, 1, i - 1)
\* The transcript q has a message of type t, as it was sent.
Shown(q, t) == \E i \in 1 .. Len(q) : q[i].type = t /\ q[i].val = "sent"

LEMMA AppendPrefix ==
  ASSUME NEW S, NEW q \in Seq(S), NEW x, NEW i \in 1 .. Len(q) + 1
  PROVE  SubSeq(Append(q, x), 1, i - 1) = SubSeq(q, 1, i - 1)
  <1> DEFINE r == Append(q, x)
  <1>1. /\ Len(q) \in Nat /\ Len(r) = Len(q) + 1
        /\ \A j \in 1 .. Len(q) : r[j] = q[j]
    OBVIOUS
  <1>2. /\ SubSeq(r, 1, i - 1) = [j \in 1 .. i - 1 |-> r[j]]
        /\ SubSeq(q, 1, i - 1) = [j \in 1 .. i - 1 |-> q[j]]
    BY <1>1
  <1>3. \A j \in 1 .. i - 1 : r[j] = q[j]
    BY <1>1
  <1> QED
    BY <1>2, <1>3

LEMMA AppendParts ==
  ASSUME NEW S, NEW q \in Seq(S), NEW x
  PROVE  /\ Len(q) \in Nat /\ Len(Append(q, x)) = Len(q) + 1
         /\ \A i \in 1 .. Len(q) : Append(q, x)[i] = q[i]
         /\ Append(q, x)[Len(q) + 1] = x
         /\ SubSeq(q, 1, Len(q)) = q
  OBVIOUS

LEMMA GrowSignedAt ==
  ASSUME NEW S, NEW q \in Seq(S), NEW m, NEW x
  PROVE  /\ SignedAt(q, m) => SignedAt(Append(q, x), m)
         /\ m.over = q => SignedAt(Append(q, Content(m)), m)
  <1>1. ASSUME SignedAt(q, m) PROVE SignedAt(Append(q, x), m)
    <2>1. PICK i \in 1 .. Len(q) : q[i] = Content(m) /\ m.over = SubSeq(q, 1, i - 1)
      BY <1>1 DEF SignedAt
    <2>2. i \in 1 .. Len(Append(q, x)) /\ i \in 1 .. Len(q) + 1 /\ Append(q, x)[i] = q[i]
      BY AppendParts
    <2>3. SubSeq(Append(q, x), 1, i - 1) = SubSeq(q, 1, i - 1)
      BY <2>2, AppendPrefix
    <2> QED
      BY <2>1, <2>2, <2>3 DEF SignedAt
  <1>2. ASSUME m.over = q PROVE SignedAt(Append(q, Content(m)), m)
    <2>1. PICK r : r = Append(q, Content(m))
      OBVIOUS
    <2>2. PICK i : i = Len(q) + 1
      OBVIOUS
    <2>3. i \in 1 .. Len(r) /\ i \in 1 .. Len(q) + 1 /\ r[i] = Content(m) /\ i - 1 = Len(q)
      BY <2>1, <2>2, AppendParts
    <2>4. SubSeq(r, 1, i - 1) = SubSeq(q, 1, i - 1)
      BY <2>1, <2>3, AppendPrefix
    <2>5. SubSeq(r, 1, i - 1) = q
      BY <2>3, <2>4, AppendParts
    <2> QED
      BY <1>2, <2>1, <2>3, <2>5 DEF SignedAt
  <1> QED
    BY <1>1, <1>2

LEMMA GrowSignedBy ==
  ASSUME NEW S, NEW q \in Seq(S), NEW T, NEW p \in Seq(T), SignedBy(q, p), NEW x
  PROVE  SignedBy(Append(q, x), p) /\ SignedBy(q, Append(p, x))
  <1>1. PICK i \in 1 .. Len(q) :
            /\ q[i].type = "certificate_verify" /\ q[i].val = "sent"
            /\ i - 1 <= Len(p) /\ q[i].over = SubSeq(p, 1, i - 1)
    BY DEF SignedBy
  <1>2. /\ i \in 1 .. Len(Append(q, x)) /\ Append(q, x)[i] = q[i]
        /\ i \in 1 .. Len(p) + 1 /\ i - 1 <= Len(Append(p, x))
    BY <1>1, AppendParts
  <1>3. SubSeq(Append(p, x), 1, i - 1) = SubSeq(p, 1, i - 1)
    BY <1>2, AppendPrefix
  <1> QED
    BY <1>1, <1>2, <1>3 DEF SignedBy

\* A signature that its verifier's transcript agrees with.
LEMMA VerifiedSignedBy ==
  ASSUME NEW S, NEW q \in Seq(S), NEW T, NEW p \in Seq(T), NEW m, RecordOK(m), NEW x,
         SignedAt(q, m), m.type = "certificate_verify", m.val = "sent", m.over = p
  PROVE  SignedBy(q, Append(p, x))
  <1>1. PICK i \in 1 .. Len(q) : q[i] = Content(m) /\ p = SubSeq(q, 1, i - 1)
    BY DEF SignedAt
  <1>2. q[i].type = "certificate_verify" /\ q[i].val = "sent" /\ q[i].over = p
    BY <1>1, ContentOK
  <1>3. Len(p) = i - 1
    BY <1>1
  <1>4. i \in 1 .. Len(p) + 1 /\ i - 1 <= Len(Append(p, x))
    BY <1>3, AppendParts
  <1>5. SubSeq(Append(p, x), 1, i - 1) = p
    <2>1. SubSeq(Append(p, x), 1, i - 1) = SubSeq(p, 1, i - 1)
      BY <1>4, AppendPrefix
    <2> QED
      BY <1>3, <2>1, AppendParts
  <1> QED
    BY <1>2, <1>4, <1>5 DEF SignedBy

LEMMA GrowShown ==
  ASSUME NEW S, NEW q \in Seq(S), NEW t, NEW x
  PROVE  /\ Shown(q, t) => Shown(Append(q, x), t)
         /\ x.type = t /\ x.val = "sent" => Shown(Append(q, x), t)
  <1>1. /\ \A i \in 1 .. Len(q) : i \in 1 .. Len(Append(q, x)) /\ Append(q, x)[i] = q[i]
        /\ Len(q) + 1 \in 1 .. Len(Append(q, x)) /\ Append(q, x)[Len(q) + 1] = x
    BY AppendParts
  <1> QED
    BY <1>1 DEF Shown

LEMMA SignedAtShown ==
  ASSUME NEW q, NEW m, RecordOK(m), SignedAt(q, m), m.val = "sent"
  PROVE  Shown(q, m.type)
  BY ContentOK DEF SignedAt, Shown

-----------------------------------------------------------------------------
\* The message that shows that the server holds its key.
ServerProof == IF Tls13 THEN "certificate_verify" ELSE "server_key_exchange"

\* The server once it has a certificate of a client it asked, and once it has
\* that client's signature.
HasSignature == {"recv_client_ccs", "recv_client_finished", "send_server_ccs",
                 "established", "disconnected"}
                \cup (IF Tls13 THEN {} ELSE {"send_server_finished"})
HasCert == {"recv_client_key_exchange", "recv_cert_verify"} \cup HasSignature

\* The client once it has the server's certificate, and the server's proof.
TrustsKey == {"recv_cert_request_or_done", "recv_server_hello_done",
              "send_client_cert", "send_client_key_exchange", "send_cert_verify",
              "send_client_ccs", "send_client_finished", "recv_server_ccs",
              "recv_server_finished", "established", "disconnected"}
TrustsCert == {"recv_server_key_exchange", "recv_server_cert_verify"} \cup TrustsKey

SignaturesOnWire ==
    \A s \in Side : \A m \in Elems(wire[s]) : m.val = "sent" =>
        /\ m.type = "certificate_verify" => SignedAt(transcript[s], m)
        /\ m.type = "server_key_exchange" => Shown(transcript[s], "server_key_exchange")
ServerKnowsClient ==
    client_verify =>
        /\ pc[Server] \in HasCert => config.clientCert = "good"
        /\ pc[Server] \in HasSignature => SignedBy(transcript[Client], transcript[Server])
ClientKnowsServer ==
    /\ pc[Client] \in TrustsCert => config.serverCerts = "good"
    /\ pc[Client] \in TrustsKey => Shown(transcript[Server], ServerProof)

AuthInv == SignaturesOnWire /\ ServerKnowsClient /\ ClientKnowsServer

\* What every step does about signatures: transcripts grow at their end, one
\* that is sent is over the transcript of its sender and goes into it, and
\* nobody trusts without a certificate and a proof that it has checked.
Vouches ==
    /\ config' = config
    /\ \A s \in Side : \/ transcript'[s] = transcript[s]
                       \/ \E x : transcript'[s] = Append(transcript[s], x)
    /\ \A s \in Side : \A m \in Elems(wire'[s]) :
            m.type \in {"certificate_verify", "server_key_exchange"} /\ m.val = "sent" =>
                \/ m \in Elems(wire[s])
                \/ /\ RecordOK(m)
                   /\ transcript'[s] = Append(transcript[s], Content(m))
                   /\ m.type = "certificate_verify" => m.over = transcript[s]
    /\ client_verify =>
        /\ pc'[Server] \in HasCert => pc[Server] \in HasCert \/ config.clientCert = "good"
        /\ pc'[Server] \in HasSignature =>
            \/ pc[Server] \in HasSignature
            \/ \E m \in Elems(wire[Client]) :
                /\ m.type = "certificate_verify" /\ m.val = "sent"
                /\ m.over = transcript[Server] /\ transcript'[Client] = transcript[Client]
                /\ transcript'[Server] = Append(transcript[Server], Content(m))
    /\ pc'[Client] \in TrustsCert => pc[Client] \in TrustsCert \/ config.serverCerts = "good"
    /\ pc'[Client] \in TrustsKey =>
        \/ pc[Client] \in TrustsKey
        \/ \E m \in Elems(wire[Server]) : m.type = ServerProof /\ m.val = "sent"

LEMMA AuthVouches == ASSUME TypeOK, AuthInv, Vouches PROVE AuthInv'
  <1>0. /\ Client \in Side /\ Server \in Side
        /\ \A s \in Side : transcript[s] \in Seq(Elems(transcript[s]))
        /\ \A s \in Side : \A m \in Elems(wire[s]) : RecordOK(m)
        /\ client_verify' = client_verify /\ ServerProof' = ServerProof
        /\ HasCert' = HasCert /\ HasSignature' = HasSignature
    BY PeerOf DEF TypeOK, RecordSeqs, Vouches, client_verify, ServerProof, Tls13,
                  HasCert, HasSignature
  <1>1. SignaturesOnWire'
    <2>1. ASSUME NEW s \in Side, NEW m \in Elems(wire'[s]), m.val = "sent",
                 m.type = "certificate_verify" \/ m.type = "server_key_exchange"
          PROVE  /\ m.type = "certificate_verify" => SignedAt(transcript'[s], m)
                 /\ m.type = "server_key_exchange" =>
                        Shown(transcript'[s], "server_key_exchange")
      <3>1. CASE m \in Elems(wire[s])
        <4>1. /\ m.type = "certificate_verify" => SignedAt(transcript[s], m)
              /\ m.type = "server_key_exchange" =>
                        Shown(transcript[s], "server_key_exchange")
          BY <2>1, <3>1 DEF AuthInv, SignaturesOnWire
        <4>2. \/ transcript'[s] = transcript[s]
              \/ \E x : transcript'[s] = Append(transcript[s], x)
          BY DEF Vouches
        <4>3. ASSUME NEW x, transcript'[s] = Append(transcript[s], x)
              PROVE  /\ SignedAt(transcript[s], m) => SignedAt(transcript'[s], m)
                     /\ Shown(transcript[s], "server_key_exchange") =>
                            Shown(transcript'[s], "server_key_exchange")
          <5>1. transcript[s] \in Seq(Elems(transcript[s]))
            BY <1>0
          <5>2. SignedAt(transcript[s], m) => SignedAt(Append(transcript[s], x), m)
            BY <5>1, GrowSignedAt
          <5>3. Shown(transcript[s], "server_key_exchange") =>
                    Shown(Append(transcript[s], x), "server_key_exchange")
            BY <5>1, GrowShown
          <5> QED
            BY <4>3, <5>2, <5>3
        <4> QED
          BY <4>1, <4>2, <4>3
      <3>2. CASE /\ RecordOK(m)
                 /\ transcript'[s] = Append(transcript[s], Content(m))
                 /\ m.type = "certificate_verify" => m.over = transcript[s]
        <4>1. m.type = "certificate_verify" => SignedAt(transcript'[s], m)
          BY <1>0, <3>2, GrowSignedAt
        <4>2. Content(m).type = m.type /\ Content(m).val = "sent"
          BY <2>1, <3>2, ContentOK
        <4>3. m.type = "server_key_exchange" =>
                  Shown(transcript'[s], "server_key_exchange")
          BY <1>0, <3>2, <4>2, GrowShown
        <4> QED
          BY <4>1, <4>3
      <3> QED
        BY <2>1, <3>1, <3>2 DEF Vouches
    <2> QED
      BY <2>1 DEF SignaturesOnWire
  <1>2. ServerKnowsClient'
    <2>1. ASSUME client_verify, pc'[Server] \in HasSignature
          PROVE  SignedBy(transcript'[Client], transcript'[Server])
      <3>1. CASE pc[Server] \in HasSignature
        <4>1. SignedBy(transcript[Client], transcript[Server])
          BY <2>1, <3>1 DEF AuthInv, ServerKnowsClient
        <4>2. PICK q, p : q = transcript[Client] /\ p = transcript[Server]
          OBVIOUS
        <4>3. q \in Seq(Elems(q)) /\ p \in Seq(Elems(p)) /\ SignedBy(q, p)
          BY <1>0, <4>1, <4>2
        <4>4. /\ SignedBy(transcript'[Client], p)
              /\ transcript'[Client] \in Seq(Elems(transcript'[Client]))
          <5>1. ASSUME NEW x, transcript'[Client] = Append(q, x)
                PROVE  /\ SignedBy(transcript'[Client], p)
                       /\ transcript'[Client] \in Seq(Elems(transcript'[Client]))
            <6>1. SignedBy(Append(q, x), p)
              BY <4>3, GrowSignedBy
            <6>2. Append(q, x) \in Seq(Elems(Append(q, x)))
              BY <4>3, AppendSeq
            <6> QED
              BY <5>1, <6>1, <6>2
          <5>2. transcript'[Client] = q \/ \E x : transcript'[Client] = Append(q, x)
            BY <1>0, <4>2 DEF Vouches
          <5> QED
            BY <4>3, <5>1, <5>2
        <4>5. PICK r : r = transcript'[Client]
          OBVIOUS
        <4>6. r \in Seq(Elems(r)) /\ SignedBy(r, p)
          BY <4>4, <4>5
        <4>7. ASSUME NEW x, transcript'[Server] = Append(p, x)
              PROVE  SignedBy(r, transcript'[Server])
          <5>1. SignedBy(r, Append(p, x))
            BY <4>3, <4>6, GrowSignedBy
          <5> QED
            BY <4>7, <5>1
        <4>8. transcript'[Server] = p \/ \E x : transcript'[Server] = Append(p, x)
          BY <1>0, <4>2 DEF Vouches
        <4> QED
          BY <4>5, <4>6, <4>7, <4>8
      <3>2. ASSUME NEW m \in Elems(wire[Client]),
                   m.type = "certificate_verify", m.val = "sent",
                   m.over = transcript[Server], transcript'[Client] = transcript[Client],
                   transcript'[Server] = Append(transcript[Server], Content(m))
            PROVE  SignedBy(transcript'[Client], transcript'[Server])
        <4>1. SignedAt(transcript[Client], m)
          BY <1>0, <3>2 DEF AuthInv, SignaturesOnWire
        <4> QED
          BY <1>0, <3>2, <4>1, VerifiedSignedBy
      <3> QED
        BY <2>1, <3>1, <3>2 DEF Vouches
    <2>2. ASSUME client_verify, pc'[Server] \in HasCert
          PROVE  config'.clientCert = "good"
      BY <2>2 DEF Vouches, AuthInv, ServerKnowsClient
    <2> QED
      BY <1>0, <2>1, <2>2 DEF ServerKnowsClient
  <1>3. ClientKnowsServer'
    <2>1. pc'[Client] \in TrustsCert => config'.serverCerts = "good"
      BY DEF Vouches, AuthInv, ClientKnowsServer
    <2>2. ASSUME pc'[Client] \in TrustsKey PROVE Shown(transcript[Server], ServerProof)
      <3>1. CASE pc[Client] \in TrustsKey
        BY <3>1 DEF AuthInv, ClientKnowsServer
      <3>2. ASSUME NEW m \in Elems(wire[Server]), m.type = ServerProof, m.val = "sent"
            PROVE  Shown(transcript[Server], ServerProof)
        <4>1. CASE m.type = "certificate_verify"
          BY <1>0, <3>2, <4>1, SignedAtShown DEF AuthInv, SignaturesOnWire
        <4>2. CASE m.type = "server_key_exchange"
          BY <1>0, <3>2, <4>2 DEF AuthInv, SignaturesOnWire
        <4> QED
          BY <3>2, <4>1, <4>2 DEF ServerProof
      <3> QED
        BY <2>2, <3>1, <3>2 DEF Vouches
    <2>3. Shown(transcript[Server], ServerProof) => Shown(transcript'[Server], ServerProof)
      <3>1. ASSUME NEW x, transcript'[Server] = Append(transcript[Server], x)
            PROVE  Shown(transcript[Server], ServerProof) =>
                        Shown(transcript'[Server], ServerProof)
        <4>1. PICK q, t : q = transcript[Server] /\ t = ServerProof
          OBVIOUS
        <4>2. q \in Seq(Elems(q))
          BY <1>0, <4>1
        <4>3. Shown(q, t) => Shown(Append(q, x), t)
          BY <4>2, GrowShown
        <4> QED
          BY <3>1, <4>1, <4>3
      <3>2. \/ transcript'[Server] = transcript[Server]
            \/ \E x : transcript'[Server] = Append(transcript[Server], x)
        BY <1>0 DEF Vouches
      <3> QED
        BY <3>1, <3>2
    <2> QED
      BY <1>0, <2>1, <2>2, <2>3 DEF ClientKnowsServer, TrustsCert, TrustsKey
  <1> QED
    BY <1>1, <1>2, <1>3 DEF AuthInv

LEMMA Connect12Vouches == ASSUME TypeOK, Connect12 PROVE Vouches
  <1>0. UNCHANGED local13 /\ config.protocol = "tls12" /\ Client \in Side /\ Server \in Side
    BY PeerOf DEF Connect12
  <1>1. CASE SendClientHello12
    BY <1>0, <1>1, SendClientHello12Is
       DEF Vouches, Sends, Takes, Shows, Skims, HasCert, HasSignature, TrustsCert,
       TrustsKey, ServerProof, Tls13, Side, Peer
  <1>2. CASE RecvServerHello12
    BY <1>0, <1>2, RecvServerHello12Is
       DEF Vouches, Sends, Takes, Shows, Skims, HasCert, HasSignature, TrustsCert,
       TrustsKey, ServerProof, Tls13, Side, Peer
  <1>3. CASE RecvServerCertificate12
    BY <1>0, <1>3, RecvServerCertificate12Is
       DEF Vouches, Sends, Takes, Shows, Skims, HasCert, HasSignature, TrustsCert,
       TrustsKey, ServerProof, Tls13, Side, Peer
  <1>4. CASE RecvServerKeyExchange12
    BY <1>0, <1>4, RecvServerKeyExchange12Is
       DEF Vouches, Sends, Takes, Shows, Skims, HasCert, HasSignature, TrustsCert,
       TrustsKey, ServerProof, Tls13, Side, Peer
  <1>5. CASE RecvCertificateRequest12
    BY <1>0, <1>5, RecvCertificateRequest12Is
       DEF Vouches, Sends, Takes, Shows, Skims, HasCert, HasSignature, TrustsCert,
       TrustsKey, ServerProof, Tls13, Side, Peer
  <1>6. CASE RecvServerHelloDone12
    BY <1>0, <1>6, RecvServerHelloDone12Is
       DEF Vouches, Sends, Takes, Shows, Skims, HasCert, HasSignature, TrustsCert,
       TrustsKey, ServerProof, Tls13, Side, Peer
  <1>7. CASE SendClientCertificate12
    BY <1>0, <1>7, SendClientCertificate12Is
       DEF Vouches, Sends, Takes, Shows, Skims, HasCert, HasSignature, TrustsCert,
       TrustsKey, ServerProof, Tls13, Side, Peer
  <1>8. CASE SendClientKeyExchange12
    BY <1>0, <1>8, SendClientKeyExchange12Is
       DEF Vouches, Sends, Takes, Shows, Skims, HasCert, HasSignature, TrustsCert,
       TrustsKey, ServerProof, Tls13, Side, Peer
  <1>9. CASE SendCertificateVerify12
    BY <1>0, <1>9, SendCertificateVerify12Is
       DEF Vouches, Sends, Takes, Shows, Skims, HasCert, HasSignature, TrustsCert,
       TrustsKey, ServerProof, Tls13, Side, Peer
  <1>10. CASE SendClientChangeCipherSpec12
    BY <1>0, <1>10, SendClientChangeCipherSpec12Is
       DEF Vouches, Sends, Takes, Shows, Skims, HasCert, HasSignature, TrustsCert,
       TrustsKey, ServerProof, Tls13, Side, Peer
  <1>11. CASE SendClientFinished12
    BY <1>0, <1>11, SendClientFinished12Is
       DEF Vouches, Sends, Takes, Shows, Skims, HasCert, HasSignature, TrustsCert,
       TrustsKey, ServerProof, Tls13, Side, Peer
  <1>12. CASE RecvServerChangeCipherSpec12
    BY <1>0, <1>12, RecvServerChangeCipherSpec12Is
       DEF Vouches, Sends, Takes, Shows, Skims, HasCert, HasSignature, TrustsCert,
       TrustsKey, ServerProof, Tls13, Side, Peer
  <1>13. CASE RecvServerFinished12
    BY <1>0, <1>13, RecvServerFinished12Is
       DEF Vouches, Sends, Takes, Shows, Skims, HasCert, HasSignature, TrustsCert,
       TrustsKey, ServerProof, Tls13, Side, Peer
  <1> QED
    BY <1>1, <1>2, <1>3, <1>4, <1>5, <1>6, <1>7, <1>8, <1>9, <1>10, <1>11, <1>12,
       <1>13
       DEF Connect12, Client12

LEMMA Accept12Vouches == ASSUME TypeOK, Accept12 PROVE Vouches
  <1>0. UNCHANGED local13 /\ config.protocol = "tls12" /\ Client \in Side /\ Server \in Side
    BY PeerOf DEF Accept12
  <1>1. CASE RecvClientHello12
    BY <1>0, <1>1, RecvClientHello12Is
       DEF Vouches, Sends, Takes, Shows, Skims, HasCert, HasSignature, TrustsCert,
       TrustsKey, ServerProof, Tls13, Side, Peer
  <1>2. CASE SendServerHello12
    BY <1>0, <1>2, SendServerHello12Is
       DEF Vouches, Sends, Takes, Shows, Skims, HasCert, HasSignature, TrustsCert,
       TrustsKey, ServerProof, Tls13, Side, Peer
  <1>3. CASE SendServerCertificate12
    BY <1>0, <1>3, SendServerCertificate12Is
       DEF Vouches, Sends, Takes, Shows, Skims, HasCert, HasSignature, TrustsCert,
       TrustsKey, ServerProof, Tls13, Side, Peer
  <1>4. CASE SendServerKeyExchange12
    BY <1>0, <1>4, SendServerKeyExchange12Is
       DEF Vouches, Sends, Takes, Shows, Skims, HasCert, HasSignature, TrustsCert,
       TrustsKey, ServerProof, Tls13, Side, Peer
  <1>5. CASE SendCertificateRequest12
    BY <1>0, <1>5, SendCertificateRequest12Is
       DEF Vouches, Sends, Takes, Shows, Skims, HasCert, HasSignature, TrustsCert,
       TrustsKey, ServerProof, Tls13, Side, Peer
  <1>6. CASE SendServerHelloDone12
    BY <1>0, <1>6, SendServerHelloDone12Is
       DEF Vouches, Sends, Takes, Shows, Skims, HasCert, HasSignature, TrustsCert,
       TrustsKey, ServerProof, Tls13, Side, Peer
  <1>7. CASE RecvClientCertificate12
    BY <1>0, <1>7, RecvClientCertificate12Is
       DEF Vouches, Sends, Takes, Shows, Skims, HasCert, HasSignature, TrustsCert,
       TrustsKey, ServerProof, Tls13, Side, Peer
  <1>8. CASE RecvClientKeyExchange12
    BY <1>0, <1>8, RecvClientKeyExchange12Is
       DEF Vouches, Sends, Takes, Shows, Skims, HasCert, HasSignature, TrustsCert,
       TrustsKey, ServerProof, Tls13, Side, Peer
  <1>9. CASE RecvCertificateVerify12
    BY <1>0, <1>9, RecvCertificateVerify12Is
       DEF Vouches, Sends, Takes, Shows, Skims, HasCert, HasSignature, TrustsCert,
       TrustsKey, ServerProof, Tls13, Side, Peer
  <1>10. CASE RecvClientChangeCipherSpec12
    BY <1>0, <1>10, RecvClientChangeCipherSpec12Is
       DEF Vouches, Sends, Takes, Shows, Skims, HasCert, HasSignature, TrustsCert,
       TrustsKey, ServerProof, Tls13, Side, Peer
  <1>11. CASE RecvClientFinished12
    BY <1>0, <1>11, RecvClientFinished12Is
       DEF Vouches, Sends, Takes, Shows, Skims, HasCert, HasSignature, TrustsCert,
       TrustsKey, ServerProof, Tls13, Side, Peer
  <1>12. CASE SendServerChangeCipherSpec12
    BY <1>0, <1>12, SendServerChangeCipherSpec12Is
       DEF Vouches, Sends, Takes, Shows, Skims, HasCert, HasSignature, TrustsCert,
       TrustsKey, ServerProof, Tls13, Side, Peer
  <1>13. CASE SendServerFinished12
    BY <1>0, <1>13, SendServerFinished12Is
       DEF Vouches, Sends, Takes, Shows, Skims, HasCert, HasSignature, TrustsCert,
       TrustsKey, ServerProof, Tls13, Side, Peer
  <1> QED
    BY <1>1, <1>2, <1>3, <1>4, <1>5, <1>6, <1>7, <1>8, <1>9, <1>10, <1>11, <1>12,
       <1>13
       DEF Accept12, Server12

LEMMA Connect13Vouches == ASSUME TypeOK, Connect13 PROVE Vouches
  <1>0. UNCHANGED local12 /\ config.protocol = "tls13" /\ Client \in Side /\ Server \in Side
    BY PeerOf DEF Connect13
  <1>1. CASE SendClientHello13
    BY <1>0, <1>1, SendClientHello13Is
       DEF Vouches, Sends, Takes, Shows, Skims, HasCert, HasSignature, TrustsCert,
       TrustsKey, ServerProof, Tls13, Side, Peer
  <1>2. CASE RecvServerHello13
    BY <1>0, <1>2, RecvServerHello13Is
       DEF Vouches, Sends, Takes, Shows, Skims, HasCert, HasSignature, TrustsCert,
       TrustsKey, ServerProof, Tls13, Side, Peer
  <1>3. CASE RecvEncryptedExtensions13
    BY <1>0, <1>3, RecvEncryptedExtensions13Is
       DEF Vouches, Sends, Takes, Shows, Skims, HasCert, HasSignature, TrustsCert,
       TrustsKey, ServerProof, Tls13, Side, Peer
  <1>4. CASE RecvCertificateRequest13
    BY <1>0, <1>4, RecvCertificateRequest13Is
       DEF Vouches, Sends, Takes, Shows, Skims, HasCert, HasSignature, TrustsCert,
       TrustsKey, ServerProof, Tls13, Side, Peer
  <1>5. CASE RecvServerCertificate13
    BY <1>0, <1>5, RecvServerCertificate13Is
       DEF Vouches, Sends, Takes, Shows, Skims, HasCert, HasSignature, TrustsCert,
       TrustsKey, ServerProof, Tls13, Side, Peer
  <1>6. CASE RecvServerCertificateVerify13
    BY <1>0, <1>6, RecvServerCertificateVerify13Is
       DEF Vouches, Sends, Takes, Shows, Skims, HasCert, HasSignature, TrustsCert,
       TrustsKey, ServerProof, Tls13, Side, Peer
  <1>7. CASE RecvServerFinished13
    BY <1>0, <1>7, RecvServerFinished13Is
       DEF Vouches, Sends, Takes, Shows, Skims, HasCert, HasSignature, TrustsCert,
       TrustsKey, ServerProof, Tls13, Side, Peer
  <1>8. CASE SendClientCertificate13
    BY <1>0, <1>8, SendClientCertificate13Is
       DEF Vouches, Sends, Takes, Shows, Skims, HasCert, HasSignature, TrustsCert,
       TrustsKey, ServerProof, Tls13, Side, Peer
  <1>9. CASE SendCertificateVerify13
    <2>1. /\ SendSignature(Client, "send_cert_verify", "send_client_finished")
          /\ "send_client_finished" \in Steps
      BY <1>9 DEF SendCertificateVerify13, Steps, SendSteps13
    <2>2. /\ TypeOK' /\ UNCHANGED <<sent, got, share, secret, appSecret>> /\ OwnSeqs(Client)
          /\ faults' = faults \/ faults' = faults + 1
      BY <1>0, <2>1, SendSignatureIs
    <2>3. PICK m : /\ Sends(Client, "send_cert_verify", "send_client_finished", m)
                   /\ m.type = "certificate_verify"
                   /\ m.val = "sent" => m.over = transcript[Client]
      BY <1>0, <2>1, SendSignatureIs
    <2> QED
      BY <1>0, <2>2, <2>3
         DEF Vouches, Sends, Takes, Shows, Skims, HasCert, HasSignature, TrustsCert,
       TrustsKey, ServerProof, Tls13, Side, Peer
  <1>10. CASE SendClientFinished13
    BY <1>0, <1>10, SendClientFinished13Is
       DEF Vouches, Sends, Takes, Shows, Skims, HasCert, HasSignature, TrustsCert,
       TrustsKey, ServerProof, Tls13, Side, Peer
  <1> QED
    BY <1>1, <1>2, <1>3, <1>4, <1>5, <1>6, <1>7, <1>8, <1>9, <1>10
       DEF Connect13, Client13

LEMMA Accept13Vouches == ASSUME TypeOK, Accept13 PROVE Vouches
  <1>0. UNCHANGED local12 /\ config.protocol = "tls13" /\ Client \in Side /\ Server \in Side
    BY PeerOf DEF Accept13
  <1>1. CASE RecvClientHello13
    BY <1>0, <1>1, RecvClientHello13Is
       DEF Vouches, Sends, Takes, Shows, Skims, HasCert, HasSignature, TrustsCert,
       TrustsKey, ServerProof, Tls13, Side, Peer
  <1>2. CASE SendServerHello13
    BY <1>0, <1>2, SendServerHello13Is
       DEF Vouches, Sends, Takes, Shows, Skims, HasCert, HasSignature, TrustsCert,
       TrustsKey, ServerProof, Tls13, Side, Peer
  <1>3. CASE SendEncryptedExtensions13
    BY <1>0, <1>3, SendEncryptedExtensions13Is
       DEF Vouches, Sends, Takes, Shows, Skims, HasCert, HasSignature, TrustsCert,
       TrustsKey, ServerProof, Tls13, Side, Peer
  <1>4. CASE SendCertificateRequest13
    BY <1>0, <1>4, SendCertificateRequest13Is
       DEF Vouches, Sends, Takes, Shows, Skims, HasCert, HasSignature, TrustsCert,
       TrustsKey, ServerProof, Tls13, Side, Peer
  <1>5. CASE SendServerCertificate13
    BY <1>0, <1>5, SendServerCertificate13Is
       DEF Vouches, Sends, Takes, Shows, Skims, HasCert, HasSignature, TrustsCert,
       TrustsKey, ServerProof, Tls13, Side, Peer
  <1>6. CASE SendServerCertificateVerify13
    <2>1. /\ SendSignature(Server, "send_server_cert_verify", "send_server_finished")
          /\ "send_server_finished" \in Steps
      BY <1>6 DEF SendServerCertificateVerify13, Steps, SendSteps13
    <2>2. /\ TypeOK' /\ UNCHANGED <<sent, got, share, secret, appSecret>> /\ OwnSeqs(Server)
          /\ faults' = faults \/ faults' = faults + 1
      BY <1>0, <2>1, SendSignatureIs
    <2>3. PICK m : /\ Sends(Server, "send_server_cert_verify", "send_server_finished", m)
                   /\ m.type = "certificate_verify"
                   /\ m.val = "sent" => m.over = transcript[Server]
      BY <1>0, <2>1, SendSignatureIs
    <2>4. /\ pc'[Server] = "send_server_finished" /\ pc'[Client] = pc[Client]
          /\ "send_server_finished" \notin HasSignature
          /\ "send_server_finished" \notin HasCert
      BY <1>0, <2>3 DEF Sends, HasCert, HasSignature, Tls13, Peer
    <2>5. /\ config' = config
          /\ \A s \in Side : \/ transcript'[s] = transcript[s]
                             \/ \E x : transcript'[s] = Append(transcript[s], x)
          /\ \A s \in Side : \A x \in Elems(wire'[s]) :
                x \in Elems(wire[s]) \/ (s = Server /\ x = m)
          /\ RecordOK(m) /\ transcript'[Server] = Append(transcript[Server], Content(m))
      BY <1>0, <2>3 DEF Sends, Side, Peer
    <2> QED
      BY <2>3, <2>4, <2>5 DEF Vouches
  <1>7. CASE SendServerFinished13
    BY <1>0, <1>7, SendServerFinished13Is
       DEF Vouches, Sends, Takes, Shows, Skims, HasCert, HasSignature, TrustsCert,
       TrustsKey, ServerProof, Tls13, Side, Peer
  <1>8. CASE RecvClientCertificate13
    BY <1>0, <1>8, RecvClientCertificate13Is
       DEF Vouches, Sends, Takes, Shows, Skims, HasCert, HasSignature, TrustsCert,
       TrustsKey, ServerProof, Tls13, Side, Peer
  <1>9. CASE RecvCertificateVerify13
    BY <1>0, <1>9, RecvCertificateVerify13Is
       DEF Vouches, Sends, Takes, Shows, Skims, HasCert, HasSignature, TrustsCert,
       TrustsKey, ServerProof, Tls13, Side, Peer
  <1>10. CASE RecvClientFinished13
    BY <1>0, <1>10, RecvClientFinished13Is
       DEF Vouches, Sends, Takes, Shows, Skims, HasCert, HasSignature, TrustsCert,
       TrustsKey, ServerProof, Tls13, Side, Peer
  <1> QED
    BY <1>1, <1>2, <1>3, <1>4, <1>5, <1>6, <1>7, <1>8, <1>9, <1>10
       DEF Accept13, Server13

LEMMA QuietVouches == ASSUME TypeOK, Quiet PROVE Vouches
  <1>1. /\ UNCHANGED <<config, transcript>>
        /\ pc' = pc \/ \E s \in Side : Fails(s)
        /\ \A t \in Side : \A m \in Elems(wire'[t]) : Weighty(m) => m \in Elems(wire[t])
    BY QuietEffect
  <1>2. \A s \in Side : pc'[s] = pc[s] \/ pc'[s] = "failed"
    BY <1>1 DEF Fails, Side, Peer
  <1> QED
    BY <1>1, <1>2, PeerOf
    DEF Vouches, Weighty, WeightyTypes, HasCert, HasSignature, TrustsCert, TrustsKey

LEMMA DataVouches == ASSUME TypeOK, NEW s \in Side, Data13(s) PROVE Vouches
  <1>0. /\ UNCHANGED local12
        /\ tls13_send(s) \/ tls13_recv(s) \/ tls13_recv_fails(s)
        /\ \A t \in Side : t = s \/ t = Peer(s)
    BY DEF Data13, Side, Peer
  <1>1. /\ UNCHANGED <<config, transcript>>
        /\ \A t \in Side : \/ pc'[t] = pc[t]
                           \/ pc[t] = "established" /\ pc'[t] = "disconnected"
        /\ \A t \in Side : \A m \in Elems(wire'[t]) :
                m \in Elems(wire[t]) \/ m.type = "application_data"
    <2>1. CASE tls13_send(s)
      <3>1. PICK m : /\ m.type = "application_data"
                     /\ Elems(wire'[s]) \subseteq Elems(wire[s]) \cup {m}
        BY <1>0, <2>1, SendDataIs
      <3>2. UNCHANGED <<config, pc, transcript>> /\ wire'[Peer(s)] = wire[Peer(s)]
        BY <1>0, <2>1, SendDataIs
      <3>3. \A x \in Elems(wire'[s]) : x \in Elems(wire[s]) \/ x.type = "application_data"
        BY <3>1
      <3>4. \A x \in Elems(wire'[Peer(s)]) : x \in Elems(wire[Peer(s)])
        BY <3>2
      <3>5. \A t \in Side : \A x \in Elems(wire'[t]) :
                x \in Elems(wire[t]) \/ x.type = "application_data"
        BY <1>0, <3>3, <3>4
      <3> QED
        BY <3>2, <3>5
    <2>2. CASE tls13_recv(s)
      <3>1. /\ UNCHANGED <<config, pc, transcript>> /\ wire'[s] = wire[s]
            /\ Elems(wire'[Peer(s)]) \subseteq Elems(wire[Peer(s)])
        BY <1>0, <2>2, RecvDataIs
      <3>2. /\ \A x \in Elems(wire'[s]) : x \in Elems(wire[s])
            /\ \A x \in Elems(wire'[Peer(s)]) : x \in Elems(wire[Peer(s)])
        BY <3>1
      <3>3. \A t \in Side : \A x \in Elems(wire'[t]) : x \in Elems(wire[t])
        BY <1>0, <3>2
      <3>4. \A t \in Side : \/ pc'[t] = pc[t]
                            \/ pc[t] = "established" /\ pc'[t] = "disconnected"
        BY <1>0, <3>1
      <3> QED
        BY <3>1, <3>3, <3>4
    <2>3. CASE tls13_recv_fails(s)
      <3>1. /\ UNCHANGED <<config, transcript>> /\ wire'[s] = wire[s]
            /\ pc[s] = "established" /\ pc'[s] = "disconnected"
            /\ pc'[Peer(s)] = pc[Peer(s)]
            /\ Elems(wire'[Peer(s)]) \subseteq Elems(wire[Peer(s)])
        BY <1>0, <2>3, RecvDataFailsIs
      <3>2. /\ \A x \in Elems(wire'[s]) : x \in Elems(wire[s])
            /\ \A x \in Elems(wire'[Peer(s)]) : x \in Elems(wire[Peer(s)])
        BY <3>1
      <3>3. \A t \in Side : \A x \in Elems(wire'[t]) : x \in Elems(wire[t])
        BY <1>0, <3>2
      <3>4. \A t \in Side : \/ pc'[t] = pc[t]
                            \/ pc[t] = "established" /\ pc'[t] = "disconnected"
        BY <1>0, <3>1
      <3> QED
        BY <3>1, <3>3, <3>4
    <2> QED
      BY <1>0, <2>1, <2>2, <2>3
  <1> QED
    BY <1>1, PeerOf DEF Vouches, HasCert, HasSignature, TrustsCert, TrustsKey

LEMMA StepVouches == ASSUME TypeOK, [Next]_vars PROVE Vouches
  BY NextCases, Connect12Vouches, Accept12Vouches, Connect13Vouches, Accept13Vouches,
     QuietVouches, DataVouches

LEMMA AuthInit == ASSUME Init PROVE AuthInv
  <1>1. SignaturesOnWire
    BY EmptySeq DEF Init, LinkInit, SignaturesOnWire
  <1>2. pc[Client] = "send_client_hello" /\ pc[Server] = "recv_client_hello"
    BY SidesAssumption DEF Init, LinkInit, Side
  <1> QED
    BY <1>1, <1>2 DEF AuthInv, ServerKnowsClient, ClientKnowsServer, HasCert,
                      HasSignature, TrustsCert, TrustsKey

LEMMA AuthSuffices == ASSUME AuthInv PROVE Authenticated
  <1>1. ASSUME Completed(Server), client_verify
        PROVE  /\ config.clientCert = "good"
               /\ SignedBy(transcript[Client], transcript[Server])
    BY <1>1 DEF AuthInv, ServerKnowsClient, Completed, HasCert, HasSignature
  <1>2. ASSUME Completed(Client)
        PROVE  config.serverCerts = "good" /\ Shown(transcript[Server], ServerProof)
    BY <1>2 DEF AuthInv, ClientKnowsServer, Completed, TrustsCert, TrustsKey
  <1> QED
    BY <1>1, <1>2 DEF Authenticated, SignedBy, Shown, ServerProof

\* A server that asks for a certificate completes only with a client that has a
\* good one and signed the server's own transcript up to its signature, a
\* client only with a server that has a good one and showed that it holds the
\* key, whatever the network disturbs and whichever signatures fail.
THEOREM AuthenticatedCorrect == Spec => []Authenticated
  <1>1. Init => AuthInv
    BY AuthInit
  <1>2. TypeOK /\ AuthInv /\ [Next]_vars => AuthInv'
    BY StepVouches, AuthVouches
  <1>3. AuthInv => Authenticated
    BY AuthSuffices
  <1> QED
    BY <1>1, <1>2, <1>3, TypeCorrect, PTL DEF Spec

-----------------------------------------------------------------------------
(* The agreement.                                                          *)

\* Completed and View after a step.
IsDone(s) == pc'[s] \in {"established", "disconnected"}
NextView(s) == IF Tls13 THEN appSecret'[s] ELSE <<secret'[s], transcript'[s]>>

\* A step of the agreement: nothing about it changes; the settler settles; a
\* side completes with what is settled, the settler only after its peer; a side
\* fails.
SameEnds == \A s \in Side : /\ IsDone(s) <=> Completed(s)
                            /\ pc'[s] = "failed" <=> pc[s] = "failed"
KeepsViews == \A s \in Side : Completed(s) => NextView(s) = View(s)
KeepsOffer == (Settled' <=> Settled) /\ (Settled => NextView(Settler) = View(Settler))

AgreesSame == SameEnds /\ KeepsViews /\ KeepsOffer
AgreesOffer == /\ SameEnds /\ KeepsViews /\ ~Settled /\ Settled'
               /\ pc[Settler] \notin Ended /\ NextView(Settler) # None
AgreesEstablish(s) ==
    /\ KeepsViews /\ Settled /\ KeepsOffer
    /\ pc[s] \notin Ended /\ pc'[s] = "established" /\ pc'[Peer(s)] = pc[Peer(s)]
    /\ View(Settler) # None /\ NextView(s) = View(Settler)
    /\ s = Settler => Completed(Peer(s))
AgreesFail(s) ==
    /\ KeepsViews /\ KeepsOffer
    /\ pc[s] \notin Ended /\ pc'[s] = "failed" /\ pc'[Peer(s)] = pc[Peer(s)]
Agrees == \/ AgreesSame \/ AgreesOffer
          \/ \E s \in Side : AgreesEstablish(s) \/ AgreesFail(s)

LEMMA RoleOf ==
  /\ \A s \in Side : /\ Role(s) \in Side /\ Role(Role(s)) = s
                     /\ Role(Peer(s)) = Peer(Role(s))
  /\ Role(Client) = Settler /\ Role(Settler) = Client /\ Settler \in Side
  /\ Role(Server) = Peer(Settler) /\ Role(Peer(Settler)) = Server
  BY SidesAssumption DEF Role, Peer, Side, Settler

\* The mapped state.
Stage == [s \in Side |-> IF Completed(Role(s)) THEN "established"
                         ELSE IF pc[Role(s)] = "failed" THEN "failed" ELSE "running"]
Agreed == [s \in Side |-> IF Completed(Role(s)) THEN View(Role(s)) ELSE None]
Offered == IF Settled THEN View(Settler) ELSE None
AgreementStep == Agreement!Next
AgreementSame == Agreement!avars' = Agreement!avars

\* The protocol, and with it the roles, stay.
LEMMA StaticRoles ==
  ASSUME config' = config
  PROVE  /\ Stage' = [s \in Side |-> IF IsDone(Role(s)) THEN "established"
                                     ELSE IF pc'[Role(s)] = "failed" THEN "failed"
                                     ELSE "running"]
         /\ Agreed' = [s \in Side |-> IF IsDone(Role(s)) THEN NextView(Role(s)) ELSE None]
         /\ Offered' = IF Settled' THEN NextView(Settler) ELSE None
  <1>1. Tls13' = Tls13 /\ Settler' = Settler /\ \A s : Role(s)' = Role(s)
    BY DEF Tls13, Settler, Role
  <1>2. \A s : Completed(Role(s))' = IsDone(Role(s)) /\ View(Role(s))' = NextView(Role(s))
    BY <1>1 DEF Completed, IsDone, View, NextView
  <1>3. View(Settler)' = NextView(Settler)
    BY <1>1 DEF View, NextView
  <1>4. \A s : (pc[Role(s)])' = pc'[Role(s)]
    BY <1>1
  <1> QED
    BY <1>2, <1>3, <1>4 DEF Stage, Agreed, Offered

LEMMA AgreesRefines == ASSUME config' = config, Agrees PROVE AgreementStep \/ AgreementSame
  <1>1. /\ Stage = [s \in Side |-> IF Completed(Role(s)) THEN "established"
                                   ELSE IF pc[Role(s)] = "failed" THEN "failed"
                                   ELSE "running"]
        /\ Agreed = [s \in Side |-> IF Completed(Role(s)) THEN View(Role(s)) ELSE None]
        /\ Offered = IF Settled THEN View(Settler) ELSE None
    BY DEF Stage, Agreed, Offered
  <1>2. /\ Stage' = [s \in Side |-> IF IsDone(Role(s)) THEN "established"
                                    ELSE IF pc'[Role(s)] = "failed" THEN "failed"
                                    ELSE "running"]
        /\ Agreed' = [s \in Side |-> IF IsDone(Role(s)) THEN NextView(Role(s)) ELSE None]
        /\ Offered' = IF Settled' THEN NextView(Settler) ELSE None
    BY StaticRoles
  <1>3. /\ AgreementSame <=> Stage' = Stage /\ Offered' = Offered /\ Agreed' = Agreed
        /\ Agreement!Offer <=> /\ Offered = None /\ Stage[Client] = "running"
                               /\ Offered' # None /\ Stage' = Stage /\ Agreed' = Agreed
        /\ \A s : Agreement!Establish(s) <=>
                /\ Stage[s] = "running" /\ Offered # None
                /\ s = Client => Stage[Server] = "established"
                /\ Stage' = [Stage EXCEPT ![s] = "established"]
                /\ Agreed' = [Agreed EXCEPT ![s] = Offered]
                /\ Offered' = Offered
        /\ \A s : Agreement!Fail(s) <=>
                /\ Stage[s] = "running"
                /\ Stage' = [Stage EXCEPT ![s] = "failed"]
                /\ Offered' = Offered /\ Agreed' = Agreed
    BY DEF AgreementSame, Agreement!avars, Agreement!Offer, Agreement!Establish,
           Agreement!Fail, Stage, Offered, Agreed
  <1>4. AgreementStep <=> Agreement!Offer
                         \/ \E s \in Side : Agreement!Establish(s) \/ Agreement!Fail(s)
    BY DEF AgreementStep, Agreement!Next, Agreement!Side, Side
  <1>5. SameEnds => Stage' = Stage
    BY <1>1, <1>2, RoleOf DEF SameEnds
  <1>6. SameEnds /\ KeepsViews => Agreed' = Agreed
    BY <1>1, <1>2, RoleOf DEF SameEnds, KeepsViews
  <1>7. KeepsOffer => Offered' = Offered
    BY <1>1, <1>2 DEF KeepsOffer
  <1>8. \A s \in Side : pc[Role(s)] \notin Ended => Stage[s] = "running"
    BY <1>1 DEF Ended, Completed
  <1>9. CASE AgreesSame
    BY <1>3, <1>5, <1>6, <1>7, <1>9 DEF AgreesSame
  <1>10. CASE AgreesOffer
    <2>1. Offered = None /\ Offered' # None
      BY <1>1, <1>2, <1>10 DEF AgreesOffer
    <2>2. Stage[Client] = "running"
      BY <1>8, <1>10, RoleOf, PeerOf DEF AgreesOffer
    <2> QED
      BY <1>3, <1>4, <1>5, <1>6, <1>10, <2>1, <2>2 DEF AgreesOffer
  <1>11. ASSUME NEW s \in Side, pc[s] \notin Ended, pc'[Peer(s)] = pc[Peer(s)], KeepsViews
         PROVE  /\ \A t \in Side : t # Role(s) => Stage'[t] = Stage[t] /\ Agreed'[t] = Agreed[t]
                /\ Stage[Role(s)] = "running" /\ Agreed[Role(s)] = None
    <2>1. Role(s) \in Side /\ Role(Role(s)) = s
      BY RoleOf
    <2>2. ~Completed(s)
      BY <1>11 DEF Completed, Ended
    <2>3. ASSUME NEW t \in Side, t # Role(s)
          PROVE  Stage'[t] = Stage[t] /\ Agreed'[t] = Agreed[t]
      <3>1. Role(t) \in Side /\ Role(t) = Peer(s)
        BY <2>1, <2>3, RoleOf DEF Side, Peer
      <3>2. (IsDone(Role(t)) <=> Completed(Role(t))) /\ pc'[Role(t)] = pc[Role(t)]
        BY <1>11, <3>1 DEF IsDone, Completed
      <3>3. Completed(Role(t)) => NextView(Role(t)) = View(Role(t))
        BY <1>11, <3>1 DEF KeepsViews
      <3> QED
        BY <1>1, <1>2, <3>2, <3>3
    <2> QED
      BY <1>1, <1>8, <1>11, <2>1, <2>2, <2>3
  <1>12. ASSUME NEW s \in Side, AgreesEstablish(s) PROVE AgreementStep
    <2>1. Role(s) \in Side /\ Role(Role(s)) = s
      BY RoleOf
    <2>2. IsDone(s)
      BY <1>12 DEF AgreesEstablish, IsDone
    <2>3. Stage'[Role(s)] = "established" /\ Agreed'[Role(s)] = NextView(s)
      BY <1>2, <2>1, <2>2
    <2>4. Offered = View(Settler) /\ Offered # None /\ Offered' = Offered
      BY <1>1, <1>7, <1>12 DEF AgreesEstablish
    <2>5. /\ \A t \in Side : t # Role(s) => Stage'[t] = Stage[t] /\ Agreed'[t] = Agreed[t]
          /\ Stage[Role(s)] = "running"
      BY <1>11, <1>12 DEF AgreesEstablish
    <2>6. Stage' = [Stage EXCEPT ![Role(s)] = "established"]
      BY <1>1, <1>2, <2>1, <2>3, <2>5
    <2>7. Agreed' = [Agreed EXCEPT ![Role(s)] = Offered]
      <3>1. NextView(s) = Offered
        BY <1>12, <2>4 DEF AgreesEstablish
      <3> QED
        BY <1>1, <1>2, <2>1, <2>3, <2>5, <3>1
    <2>8. Role(s) = Client => Stage[Server] = "established"
      <3>1. ASSUME Role(s) = Client PROVE s = Settler /\ Role(Server) = Peer(s)
        BY <2>1, <3>1, RoleOf
      <3>2. ASSUME Role(s) = Client PROVE Completed(Role(Server))
        BY <1>12, <3>1, <3>2 DEF AgreesEstablish
      <3> QED
        BY <1>1, <3>2, PeerOf
    <2> QED
      BY <1>3, <1>4, <2>1, <2>4, <2>5, <2>6, <2>7, <2>8
  <1>13. ASSUME NEW s \in Side, AgreesFail(s) PROVE AgreementStep
    <2>1. Role(s) \in Side /\ Role(Role(s)) = s
      BY RoleOf
    <2>2. ~IsDone(s) /\ pc'[s] = "failed"
      BY <1>13 DEF AgreesFail, IsDone
    <2>3. Stage'[Role(s)] = "failed" /\ Agreed'[Role(s)] = None
      BY <1>2, <2>1, <2>2
    <2>4. Offered' = Offered
      BY <1>7, <1>13 DEF AgreesFail
    <2>5. /\ \A t \in Side : t # Role(s) => Stage'[t] = Stage[t] /\ Agreed'[t] = Agreed[t]
          /\ Stage[Role(s)] = "running" /\ Agreed[Role(s)] = None
      BY <1>11, <1>13 DEF AgreesFail
    <2>6. Stage' = [Stage EXCEPT ![Role(s)] = "failed"]
      BY <1>1, <1>2, <2>1, <2>3, <2>5
    <2>7. Agreed' = Agreed
      BY <1>1, <1>2, <2>3, <2>5
    <2> QED
      BY <1>3, <1>4, <2>1, <2>4, <2>5, <2>6, <2>7
  <1> QED
    BY <1>9, <1>10, <1>12, <1>13 DEF Agrees

-----------------------------------------------------------------------------
(* Why TLS 1.2 agrees: its two Finished messages.                          *)

\* The client once it has sent its Finished, the server once it has it.
Sent12 == {"recv_server_ccs", "recv_server_finished", "established"}
Committed12 == {"send_server_ccs", "send_server_finished", "established"}

\* What the client has settled on stays; a Finished on its way says it; the
\* server that has it shares the client's view; a Finished of the server means
\* that the server has completed, and so does a client that has.
AgreeInv12 ==
    /\ \A s \in Side : pc[s] # "disconnected"
    /\ Settled => pc[Client] \in Sent12 \cup {"failed"}
    /\ \A m \in Elems(wire[Client]) :
        m.type = "client_finished" /\ m.val = "sent" =>
            /\ Settled /\ m.key = secret[Client]
            /\ transcript[Client] = Append(m.over, Content(m))
    /\ pc[Server] \in Committed12 =>
        /\ Settled /\ secret[Server] = secret[Client]
        /\ transcript[Server] = transcript[Client]
    /\ \A m \in Elems(wire[Server]) :
        m.type = "server_finished" /\ m.val = "sent" => pc[Server] = "established"
    /\ pc[Client] = "established" => pc[Server] = "established"

-----------------------------------------------------------------------------
(* Why TLS 1.3 agrees: the server's Finished under the handshake keys, and *)
(* the client's.                                                           *)

\* The server with handshake keys, and after its Finished; the client with
\* handshake keys, and after the server's Finished.
Handshaking13 == {"send_encrypted_exts", "send_cert_request", "send_server_cert",
                  "send_server_cert_verify", "send_server_finished"}
Late13 == {"recv_client_cert", "recv_cert_verify", "recv_client_finished",
           "established", "disconnected", "failed"}
Reading13 == {"recv_encrypted_exts", "recv_cert_request_or_cert", "recv_server_cert",
              "recv_server_cert_verify", "recv_server_finished"}
Past13 == {"send_client_cert", "send_cert_verify", "send_client_finished",
           "established", "disconnected"}

\* The handshake keys are those of the ECDH value the side has; a Finished of
\* the server on its way says what the server has derived; the client that has
\* it has derived the same; a Finished of the client means that the client has
\* completed, and whoever has completed uses what it derived.
AgreeInv13 ==
    /\ pc[Server] \in Handshaking13 => secret[Server][2] = Ecdh(Server)
    /\ appSecret[Server] # None => pc[Server] \in Late13
    /\ \A m \in Elems(wire[Server]) :
        m.type = "server_finished" /\ m.val # "bad" =>
            /\ appSecret[Server] = AppSecret(Server, Append(m.over, Content(m)))
            /\ m.key[2] = Ecdh(Server)
    /\ pc[Client] \in Reading13 => secret[Client][2] = Ecdh(Client)
    /\ pc[Client] \in Past13 => /\ appSecret[Server] # None
                                /\ appSecret[Client] = appSecret[Server]
    /\ \A m \in Elems(wire[Client]) :
        m.type = "client_finished" /\ m.val # "bad" => Completed(Client)
    /\ Completed(Server) => Completed(Client)
    /\ \A s \in Side : Completed(s) => secret[s] = appSecret[s]

AgreeInv == IF Tls13 THEN AgreeInv13 ELSE AgreeInv12

\* The steps of TLS 1.2 before the Finished messages.
EarlyClient12 ==
    /\ config' = config /\ ~Tls13
    /\ pc[Client] \notin Sent12 \cup Ended /\ pc'[Client] \notin Sent12 \cup Ended
    /\ pc'[Server] = pc[Server]
    /\ \/ transcript'[Client] = transcript[Client]
       \/ \E x : /\ transcript'[Client] = Append(transcript[Client], x)
                 /\ x.type # "client_finished"
    /\ \A m \in Elems(wire'[Client]) : m.type = "client_finished" => m \in Elems(wire[Client])
    /\ Elems(wire'[Server]) \subseteq Elems(wire[Server])
EarlyServer12 ==
    /\ config' = config /\ ~Tls13
    /\ pc[Server] \notin Committed12 \cup Ended /\ pc'[Server] \notin Committed12 \cup Ended
    /\ pc'[Client] = pc[Client]
    /\ secret'[Client] = secret[Client] /\ transcript'[Client] = transcript[Client]
    /\ \A m \in Elems(wire'[Server]) : m.type = "server_finished" => m \in Elems(wire[Server])
    /\ Elems(wire'[Client]) \subseteq Elems(wire[Client])

LEMMA Connect12Early ==
  ASSUME TypeOK, Connect12
  PROVE  \/ EarlyClient12
         \/ SendClientFinished12
         \/ RecvServerChangeCipherSpec12
         \/ RecvServerFinished12
  <1>0. UNCHANGED local13 /\ config.protocol = "tls12" /\ Client \in Side /\ Server \in Side
    BY PeerOf DEF Connect12
  <1>1. CASE SendClientHello12
    BY <1>0, <1>1, SendClientHello12Is, ContentOK, SidesAssumption
       DEF EarlyClient12, Sent12, Sends, Takes, Shows, Skims, Ended, Tls13, Side,
           Peer
  <1>2. CASE RecvServerHello12
    BY <1>0, <1>2, RecvServerHello12Is, ContentOK, SidesAssumption
       DEF EarlyClient12, Sent12, Sends, Takes, Shows, Skims, Ended, Tls13, Side,
           Peer
  <1>3. CASE RecvServerCertificate12
    BY <1>0, <1>3, RecvServerCertificate12Is, ContentOK, SidesAssumption
       DEF EarlyClient12, Sent12, Sends, Takes, Shows, Skims, Ended, Tls13, Side,
           Peer
  <1>4. CASE RecvServerKeyExchange12
    BY <1>0, <1>4, RecvServerKeyExchange12Is, ContentOK, SidesAssumption
       DEF EarlyClient12, Sent12, Sends, Takes, Shows, Skims, Ended, Tls13, Side,
           Peer
  <1>5. CASE RecvCertificateRequest12
    BY <1>0, <1>5, RecvCertificateRequest12Is, ContentOK, SidesAssumption
       DEF EarlyClient12, Sent12, Sends, Takes, Shows, Skims, Ended, Tls13, Side,
           Peer
  <1>6. CASE RecvServerHelloDone12
    BY <1>0, <1>6, RecvServerHelloDone12Is, ContentOK, SidesAssumption
       DEF EarlyClient12, Sent12, Sends, Takes, Shows, Skims, Ended, Tls13, Side,
           Peer
  <1>7. CASE SendClientCertificate12
    BY <1>0, <1>7, SendClientCertificate12Is, ContentOK, SidesAssumption
       DEF EarlyClient12, Sent12, Sends, Takes, Shows, Skims, Ended, Tls13, Side,
           Peer
  <1>8. CASE SendClientKeyExchange12
    BY <1>0, <1>8, SendClientKeyExchange12Is, ContentOK, SidesAssumption
       DEF EarlyClient12, Sent12, Sends, Takes, Shows, Skims, Ended, Tls13, Side,
           Peer
  <1>9. CASE SendCertificateVerify12
    BY <1>0, <1>9, SendCertificateVerify12Is, ContentOK, SidesAssumption
       DEF EarlyClient12, Sent12, Sends, Takes, Shows, Skims, Ended, Tls13, Side,
           Peer
  <1>10. CASE SendClientChangeCipherSpec12
    BY <1>0, <1>10, SendClientChangeCipherSpec12Is, ContentOK, SidesAssumption
       DEF EarlyClient12, Sent12, Sends, Takes, Shows, Skims, Ended, Tls13, Side,
           Peer
  <1> QED
    BY <1>1, <1>2, <1>3, <1>4, <1>5, <1>6, <1>7, <1>8, <1>9, <1>10
       DEF Connect12, Client12

LEMMA Accept12Early ==
  ASSUME TypeOK, Accept12
  PROVE  \/ EarlyServer12
         \/ RecvClientFinished12
         \/ SendServerChangeCipherSpec12
         \/ SendServerFinished12
  <1>0. UNCHANGED local13 /\ config.protocol = "tls12" /\ Client \in Side /\ Server \in Side
    BY PeerOf DEF Accept12
  <1>1. CASE RecvClientHello12
    BY <1>0, <1>1, RecvClientHello12Is, SidesAssumption
       DEF EarlyServer12, Committed12, Sends, Takes, Shows, Skims, Ended, Tls13,
           Side, Peer
  <1>2. CASE SendServerHello12
    BY <1>0, <1>2, SendServerHello12Is, SidesAssumption
       DEF EarlyServer12, Committed12, Sends, Takes, Shows, Skims, Ended, Tls13,
           Side, Peer
  <1>3. CASE SendServerCertificate12
    BY <1>0, <1>3, SendServerCertificate12Is, SidesAssumption
       DEF EarlyServer12, Committed12, Sends, Takes, Shows, Skims, Ended, Tls13,
           Side, Peer
  <1>4. CASE SendServerKeyExchange12
    BY <1>0, <1>4, SendServerKeyExchange12Is, SidesAssumption
       DEF EarlyServer12, Committed12, Sends, Takes, Shows, Skims, Ended, Tls13,
           Side, Peer
  <1>5. CASE SendCertificateRequest12
    BY <1>0, <1>5, SendCertificateRequest12Is, SidesAssumption
       DEF EarlyServer12, Committed12, Sends, Takes, Shows, Skims, Ended, Tls13,
           Side, Peer
  <1>6. CASE SendServerHelloDone12
    BY <1>0, <1>6, SendServerHelloDone12Is, SidesAssumption
       DEF EarlyServer12, Committed12, Sends, Takes, Shows, Skims, Ended, Tls13,
           Side, Peer
  <1>7. CASE RecvClientCertificate12
    BY <1>0, <1>7, RecvClientCertificate12Is, SidesAssumption
       DEF EarlyServer12, Committed12, Sends, Takes, Shows, Skims, Ended, Tls13,
           Side, Peer
  <1>8. CASE RecvClientKeyExchange12
    BY <1>0, <1>8, RecvClientKeyExchange12Is, SidesAssumption
       DEF EarlyServer12, Committed12, Sends, Takes, Shows, Skims, Ended, Tls13,
           Side, Peer
  <1>9. CASE RecvCertificateVerify12
    BY <1>0, <1>9, RecvCertificateVerify12Is, SidesAssumption
       DEF EarlyServer12, Committed12, Sends, Takes, Shows, Skims, Ended, Tls13,
           Side, Peer
  <1>10. CASE RecvClientChangeCipherSpec12
    BY <1>0, <1>10, RecvClientChangeCipherSpec12Is, SidesAssumption
       DEF EarlyServer12, Committed12, Sends, Takes, Shows, Skims, Ended, Tls13,
           Side, Peer
  <1> QED
    BY <1>1, <1>2, <1>3, <1>4, <1>5, <1>6, <1>7, <1>8, <1>9, <1>10
       DEF Accept12, Server12

LEMMA SettledGrows ==
  ASSUME TypeOK, ~Tls13, config' = config, NEW x,
         transcript'[Client] = Append(transcript[Client], x)
  PROVE  Settled' <=> Settled \/ x.type = "client_finished"
  <1>1. transcript[Client] \in Seq(Elems(transcript[Client]))
    BY PeerOf DEF TypeOK, RecordSeqs
  <1>2. PICK q, r : q = transcript[Client] /\ r = transcript'[Client]
    OBVIOUS
  <1>3. /\ Len(q) \in Nat /\ Len(r) = Len(q) + 1
        /\ \A i \in 1 .. Len(q) : r[i] = q[i]
        /\ r[Len(q) + 1] = x
    BY <1>1, <1>2, AppendParts
  <1>4. Settled <=> \E i \in 1 .. Len(q) : q[i].type = "client_finished"
    BY <1>2 DEF Settled
  <1>5. Settled' <=> \E i \in 1 .. Len(r) : r[i].type = "client_finished"
    BY <1>2 DEF Settled, Tls13
  <1>6. ASSUME NEW i \in 1 .. Len(r), r[i].type = "client_finished"
        PROVE  (\E j \in 1 .. Len(q) : q[j].type = "client_finished")
               \/ x.type = "client_finished"
    BY <1>3, <1>6
  <1>7. (\E j \in 1 .. Len(q) : q[j].type = "client_finished") \/ x.type = "client_finished"
        => \E i \in 1 .. Len(r) : r[i].type = "client_finished"
    BY <1>3
  <1> QED
    BY <1>4, <1>5, <1>6, <1>7

LEMMA SettledStays ==
  ASSUME ~Tls13, config' = config, transcript'[Client] = transcript[Client]
  PROVE  Settled' <=> Settled
  BY DEF Settled, Tls13

LEMMA EarlyClientAgrees ==
  ASSUME TypeOK, AgreeInv12, EarlyClient12 PROVE AgreeInv12' /\ AgreesSame
  <1>1. ~Settled /\ ~Tls13 /\ config' = config
    BY DEF AgreeInv12, EarlyClient12, Sent12, Ended
  <1>2. ~Settled'
    BY <1>1, SettledGrows, SettledStays DEF EarlyClient12
  <1>3. pc[Server] \notin Committed12
    BY <1>1 DEF AgreeInv12
  <1>4. \A s \in Side : pc'[s] # "disconnected" /\ pc[s] # "disconnected"
    BY DEF AgreeInv12, EarlyClient12, Ended, Side
  <1>5. AgreeInv12'
    BY <1>1, <1>2, <1>3, <1>4 DEF AgreeInv12, EarlyClient12, Sent12, Committed12, Ended
  <1>6. pc[Client] \notin Ended /\ pc'[Client] \notin Ended /\ pc'[Server] = pc[Server]
    BY DEF EarlyClient12
  <1>7. \A s \in Side : ~Completed(s) /\ ~IsDone(s)
    BY <1>3, <1>4, <1>6 DEF Completed, IsDone, Committed12, Ended, Side
  <1>8. AgreesSame
    BY <1>1, <1>2, <1>6, <1>7
       DEF AgreesSame, SameEnds, KeepsViews, KeepsOffer, Ended, Side
  <1> QED
    BY <1>5, <1>8

LEMMA EarlyServerAgrees ==
  ASSUME TypeOK, AgreeInv12, EarlyServer12 PROVE AgreeInv12' /\ AgreesSame
  <1>1. ~Tls13 /\ config' = config /\ (Settled' <=> Settled)
    BY SettledStays DEF EarlyServer12
  <1>2. \A s \in Side : pc'[s] # "disconnected" /\ pc[s] # "disconnected"
    BY DEF AgreeInv12, EarlyServer12, Ended, Side
  <1>3. pc[Client] # "established"
    BY DEF AgreeInv12, EarlyServer12, Ended
  <1>4. AgreeInv12'
    BY <1>1, <1>2, <1>3 DEF AgreeInv12, EarlyServer12, Committed12, Ended
  <1>5. pc[Server] \notin Ended /\ pc'[Server] \notin Ended /\ pc'[Client] = pc[Client]
    BY DEF EarlyServer12
  <1>6. \A s \in Side : ~Completed(s) /\ ~IsDone(s)
    BY <1>2, <1>3, <1>5 DEF Completed, IsDone, Ended, Side
  <1>7. NextView(Settler) = View(Settler)
    BY <1>1 DEF NextView, View, Settler, EarlyServer12
  <1>8. AgreesSame
    BY <1>1, <1>5, <1>6, <1>7
       DEF AgreesSame, SameEnds, KeepsViews, KeepsOffer, Ended, Side
  <1> QED
    BY <1>4, <1>8

\* The client's Finished settles what is agreed on.
LEMMA ClientSettles12 ==
  ASSUME TypeOK, AgreeInv12, ~Tls13, UNCHANGED local13, SendClientFinished12
  PROVE  AgreeInv12' /\ AgreesOffer
  <1>1. PICK m : /\ Sends(Client, "send_client_finished", "recv_server_ccs", m)
                 /\ m.type = "client_finished"
                 /\ m.over = transcript[Client] /\ m.key = secret[Client]
    BY SendClientFinished12Is
  <1>2. /\ pc[Client] = "send_client_finished" /\ pc'[Client] = "recv_server_ccs"
        /\ pc'[Server] = pc[Server] /\ config' = config /\ secret' = secret
        /\ wire'[Server] = wire[Server]
        /\ Elems(wire'[Client]) = Elems(wire[Client]) \cup {m}
        /\ transcript'[Client] = Append(transcript[Client], Content(m))
        /\ transcript'[Server] = transcript[Server]
    BY <1>1, SendClientFinished12Is, PeerOf DEF Sends
  <1>3. Content(m).type = "client_finished"
    BY <1>1, ContentOK DEF Sends
  <1>4. Settled'
    BY <1>2, <1>3, SettledGrows
  <1>5. ~Settled
    BY <1>2 DEF AgreeInv12, Sent12
  <1>6. pc[Server] \notin Committed12
    BY <1>5 DEF AgreeInv12
  <1>7. \A s \in Side : pc'[s] # "disconnected" /\ pc[s] # "disconnected"
    BY <1>2 DEF AgreeInv12, Side
  <1>8. AgreeInv12'
    <2>1. \A x \in Elems(wire'[Client]) :
            x.type = "client_finished" /\ x.val = "sent" =>
                /\ x.key = secret'[Client]
                /\ transcript'[Client] = Append(x.over, Content(x))
      BY <1>1, <1>2, <1>5 DEF AgreeInv12
    <2> QED
      BY <1>2, <1>4, <1>6, <1>7, <2>1 DEF AgreeInv12, Sent12, Committed12
  <1>9. \A s \in Side : ~Completed(s) /\ ~IsDone(s)
    BY <1>2, <1>6, <1>7 DEF Completed, IsDone, Committed12, Side
  <1>10. NextView(Settler) # None /\ pc[Settler] \notin Ended
    BY <1>2 DEF NextView, None, Settler, Ended
  <1> QED
    BY <1>2, <1>4, <1>5, <1>8, <1>9, <1>10
    DEF AgreesOffer, SameEnds, KeepsViews, Side

\* A step after the client's Finished that hashes nothing, or what the client
\* has hashed.
LEMMA LateAgrees12 ==
  ASSUME AgreeInv12, ~Tls13, UNCHANGED <<config, secret>>,
         transcript'[Client] = transcript[Client], NEW s \in Side,
         pc[s] \notin Ended, pc'[s] \notin Ended, pc'[Peer(s)] = pc[Peer(s)],
         s = Client => transcript'[Server] = transcript[Server],
         s = Server => pc[Client] # "established"
  PROVE  AgreesSame
  <1>1. Settled' <=> Settled
    BY SettledStays
  <1>2. SameEnds
    BY DEF SameEnds, IsDone, Completed, Ended, Side, Peer
  <1>3. ASSUME NEW t \in Side, Completed(t) PROVE NextView(t) = View(t)
    <2>1. t # s
      BY <1>3 DEF Completed, Ended
    <2>2. transcript'[t] = transcript[t]
      BY <2>1, SidesAssumption DEF Side
    <2> QED
      BY <2>2 DEF NextView, View
  <1>4. NextView(Settler) = View(Settler)
    BY DEF NextView, View, Settler
  <1> QED
    BY <1>1, <1>2, <1>3, <1>4 DEF AgreesSame, KeepsViews, KeepsOffer

LEMMA ClientSpecAgrees12 ==
  ASSUME TypeOK, AgreeInv12, ~Tls13, UNCHANGED local13, RecvServerChangeCipherSpec12
  PROVE  AgreeInv12' /\ AgreesSame
  <1>1. PICK m : Skims(Client, "recv_server_ccs", "recv_server_finished", m)
    BY RecvServerChangeCipherSpec12Is
  <1>2. /\ pc[Client] = "recv_server_ccs" /\ pc'[Client] = "recv_server_finished"
        /\ pc'[Server] = pc[Server] /\ UNCHANGED <<config, secret, transcript>>
        /\ wire'[Client] = wire[Client]
        /\ Elems(wire'[Server]) \subseteq Elems(wire[Server])
    BY <1>1, RecvServerChangeCipherSpec12Is, PeerOf DEF Skims
  <1>3. Settled' <=> Settled
    BY <1>2, SettledStays
  <1>4. \A s \in Side : pc'[s] # "disconnected"
    BY <1>2 DEF AgreeInv12, Side
  <1>5. AgreeInv12'
    BY <1>2, <1>3, <1>4 DEF AgreeInv12, Sent12
  <1>6. AgreesSame
    BY <1>2, LateAgrees12, PeerOf DEF Ended
  <1> QED
    BY <1>5, <1>6

\* The client completes after a server that has completed.
LEMMA ClientCompletes12 ==
  ASSUME TypeOK, AgreeInv12, ~Tls13, UNCHANGED local13, RecvServerFinished12
  PROVE  AgreeInv12' /\ AgreesEstablish(Client)
  <1>1. PICK m : /\ Skims(Client, "recv_server_finished", "established", m)
                 /\ m.type = "server_finished" /\ m.val = "sent"
    BY RecvServerFinished12Is
  <1>2. /\ pc[Client] = "recv_server_finished" /\ pc'[Client] = "established"
        /\ pc'[Server] = pc[Server] /\ UNCHANGED <<config, secret, transcript>>
        /\ wire'[Client] = wire[Client] /\ m \in Elems(wire[Server])
        /\ Elems(wire'[Server]) \subseteq Elems(wire[Server])
    BY <1>1, RecvServerFinished12Is, PeerOf DEF Skims
  <1>3. Settled' <=> Settled
    BY <1>2, SettledStays
  <1>4. pc[Server] = "established" /\ Settled
    BY <1>1, <1>2 DEF AgreeInv12, Committed12
  <1>5. \A s \in Side : pc'[s] # "disconnected"
    BY <1>2 DEF AgreeInv12, Side
  <1>6. AgreeInv12'
    BY <1>2, <1>3, <1>4, <1>5 DEF AgreeInv12, Sent12
  <1>7. \A s : NextView(s) = View(s)
    BY <1>2 DEF NextView, View
  <1>8. Settler = Client /\ View(Client) # None /\ Completed(Server)
    BY <1>4 DEF Settler, View, None, Completed
  <1> QED
    BY <1>2, <1>3, <1>4, <1>6, <1>7, <1>8, PeerOf
    DEF AgreesEstablish, KeepsViews, KeepsOffer, Ended

\* The server takes the client's Finished: both have the same view.
LEMMA ServerCommits12 ==
  ASSUME TypeOK, AgreeInv12, ~Tls13, UNCHANGED local13, RecvClientFinished12
  PROVE  AgreeInv12' /\ AgreesSame
  <1>1. PICK m : /\ Takes(Server, "recv_client_finished", "send_server_ccs", m)
                 /\ m.type = "client_finished" /\ m.val = "sent"
                 /\ m.key = secret[Server] /\ m.over = transcript[Server]
    BY RecvClientFinished12Is
  <1>2. /\ pc[Server] = "recv_client_finished" /\ pc'[Server] = "send_server_ccs"
        /\ pc'[Client] = pc[Client] /\ UNCHANGED <<config, secret>>
        /\ wire'[Server] = wire[Server] /\ m \in Elems(wire[Client])
        /\ Elems(wire'[Client]) \subseteq Elems(wire[Client])
        /\ transcript'[Server] = Append(transcript[Server], Content(m))
        /\ transcript'[Client] = transcript[Client]
    BY <1>1, RecvClientFinished12Is, PeerOf DEF Takes
  <1>3. Settled' <=> Settled
    BY <1>2, SettledStays
  <1>4. /\ Settled /\ m.key = secret[Client]
        /\ transcript[Client] = Append(m.over, Content(m))
    BY <1>1, <1>2 DEF AgreeInv12
  <1>5. secret'[Server] = secret'[Client] /\ transcript'[Server] = transcript'[Client]
    BY <1>1, <1>2, <1>4
  <1>6. \A s \in Side : pc'[s] # "disconnected"
    BY <1>2 DEF AgreeInv12, Side
  <1>7. pc[Client] # "established"
    BY <1>2 DEF AgreeInv12
  <1>8. AgreeInv12'
    BY <1>2, <1>3, <1>4, <1>5, <1>6, <1>7 DEF AgreeInv12, Sent12
  <1>9. AgreesSame
    BY <1>2, <1>7, LateAgrees12, PeerOf, SidesAssumption DEF Ended
  <1> QED
    BY <1>8, <1>9

LEMMA ServerSpecAgrees12 ==
  ASSUME TypeOK, AgreeInv12, ~Tls13, UNCHANGED local13, SendServerChangeCipherSpec12
  PROVE  AgreeInv12' /\ AgreesSame
  <1>1. PICK m : /\ Shows(Server, "send_server_ccs", "send_server_finished", m)
                 /\ m.type = "change_cipher_spec"
    BY SendServerChangeCipherSpec12Is
  <1>2. /\ pc[Server] = "send_server_ccs" /\ pc'[Server] = "send_server_finished"
        /\ pc'[Client] = pc[Client] /\ UNCHANGED <<config, secret, transcript>>
        /\ wire'[Client] = wire[Client]
        /\ Elems(wire'[Server]) = Elems(wire[Server]) \cup {m}
    BY <1>1, SendServerChangeCipherSpec12Is, PeerOf DEF Shows
  <1>3. Settled' <=> Settled
    BY <1>2, SettledStays
  <1>4. \A s \in Side : pc'[s] # "disconnected"
    BY <1>2 DEF AgreeInv12, Side
  <1>5. pc[Client] # "established"
    BY <1>2 DEF AgreeInv12
  <1>6. AgreeInv12'
    BY <1>1, <1>2, <1>3, <1>4, <1>5 DEF AgreeInv12, Committed12
  <1>7. AgreesSame
    BY <1>2, <1>5, LateAgrees12, PeerOf, SidesAssumption DEF Ended
  <1> QED
    BY <1>6, <1>7

LEMMA ServerCompletes12 ==
  ASSUME TypeOK, AgreeInv12, ~Tls13, UNCHANGED local13, SendServerFinished12
  PROVE  AgreeInv12' /\ AgreesEstablish(Server)
  <1>1. PICK m : Shows(Server, "send_server_finished", "established", m)
    BY SendServerFinished12Is
  <1>2. /\ pc[Server] = "send_server_finished" /\ pc'[Server] = "established"
        /\ pc'[Client] = pc[Client] /\ UNCHANGED <<config, secret, transcript>>
        /\ wire'[Client] = wire[Client]
    BY <1>1, SendServerFinished12Is, PeerOf DEF Shows
  <1>3. Settled' <=> Settled
    BY <1>2, SettledStays
  <1>4. /\ Settled /\ secret[Server] = secret[Client]
        /\ transcript[Server] = transcript[Client]
    BY <1>2 DEF AgreeInv12, Committed12
  <1>5. \A s \in Side : pc'[s] # "disconnected"
    BY <1>2 DEF AgreeInv12, Side
  <1>6. AgreeInv12'
    BY <1>2, <1>3, <1>4, <1>5 DEF AgreeInv12
  <1>7. \A s : NextView(s) = View(s)
    BY <1>2 DEF NextView, View
  <1>8. Settler = Client /\ View(Client) # None /\ View(Server) = View(Client)
    BY <1>4 DEF Settler, View, None
  <1> QED
    BY <1>2, <1>3, <1>4, <1>6, <1>7, <1>8, PeerOf, SidesAssumption
    DEF AgreesEstablish, KeepsViews, KeepsOffer, Ended

LEMMA Agree12 ==
  ASSUME TypeOK, AgreeInv12, ~Tls13, Connect12 \/ Accept12
  PROVE  AgreeInv12' /\ Agrees
  <1>1. UNCHANGED local13
    BY DEF Connect12, Accept12
  <1> QED
    BY <1>1, Connect12Early, Accept12Early, EarlyClientAgrees, EarlyServerAgrees,
       ClientSettles12, ClientSpecAgrees12, ClientCompletes12, ServerCommits12,
       ServerSpecAgrees12, ServerCompletes12, PeerOf DEF Agrees

\* The steps of TLS 1.3 that are not about a Finished.
EarlyClient13 ==
    /\ config' = config /\ appSecret' = appSecret
    /\ share'[Server] = share[Server] /\ secret'[Server] = secret[Server]
    /\ pc[Client] \notin Ended /\ pc'[Client] \notin Ended /\ pc'[Server] = pc[Server]
    /\ pc'[Client] \in Reading13 =>
        \/ secret'[Client][2] = <<"c", share'[Client]>>
        \/ pc[Client] \in Reading13 /\ UNCHANGED <<share, secret>>
    /\ pc'[Client] \in Past13 => pc[Client] \in Past13
    /\ \A m \in Elems(wire'[Client]) : m.type = "client_finished" => m \in Elems(wire[Client])
    /\ Elems(wire'[Server]) \subseteq Elems(wire[Server])
EarlyServer13 ==
    /\ config' = config /\ appSecret' = appSecret
    /\ share'[Client] = share[Client] /\ secret'[Client] = secret[Client]
    /\ pc[Server] \notin Ended /\ pc'[Server] \notin Ended /\ pc'[Client] = pc[Client]
    /\ share'[Server] = share[Server] \/ pc[Server] \notin Late13
    /\ pc'[Server] \in Handshaking13 =>
        /\ share' = share
        /\ \/ secret'[Server][2] = Ecdh(Server)
           \/ pc[Server] \in Handshaking13 /\ secret' = secret
    /\ pc[Server] \in Late13 => pc'[Server] \in Late13
    /\ \A m \in Elems(wire'[Server]) : m.type = "server_finished" => m \in Elems(wire[Server])
    /\ Elems(wire'[Client]) \subseteq Elems(wire[Client])

LEMMA Connect13Early ==
  ASSUME TypeOK, Connect13
  PROVE  EarlyClient13 \/ RecvServerFinished13 \/ SendClientFinished13
  <1>0. UNCHANGED local12 /\ config.protocol = "tls13" /\ Client \in Side /\ Server \in Side
    BY PeerOf DEF Connect13
  <1>1. CASE SendClientHello13
    BY <1>0, <1>1, SendClientHello13Is, SidesAssumption
       DEF EarlyClient13, Reading13, Past13, Sends, Takes, Shows, Skims, Ended,
           Side, Peer
  <1>2. CASE RecvServerHello13
    BY <1>0, <1>2, RecvServerHello13Is, SidesAssumption
       DEF EarlyClient13, Reading13, Past13, Sends, Takes, Shows, Skims, Ended,
           Side, Peer
  <1>3. CASE RecvEncryptedExtensions13
    BY <1>0, <1>3, RecvEncryptedExtensions13Is, SidesAssumption
       DEF EarlyClient13, Reading13, Past13, Sends, Takes, Shows, Skims, Ended,
           Side, Peer
  <1>4. CASE RecvCertificateRequest13
    BY <1>0, <1>4, RecvCertificateRequest13Is, SidesAssumption
       DEF EarlyClient13, Reading13, Past13, Sends, Takes, Shows, Skims, Ended,
           Side, Peer
  <1>5. CASE RecvServerCertificate13
    BY <1>0, <1>5, RecvServerCertificate13Is, SidesAssumption
       DEF EarlyClient13, Reading13, Past13, Sends, Takes, Shows, Skims, Ended,
           Side, Peer
  <1>6. CASE RecvServerCertificateVerify13
    BY <1>0, <1>6, RecvServerCertificateVerify13Is, SidesAssumption
       DEF EarlyClient13, Reading13, Past13, Sends, Takes, Shows, Skims, Ended,
           Side, Peer
  <1>7. CASE SendClientCertificate13
    BY <1>0, <1>7, SendClientCertificate13Is, SidesAssumption
       DEF EarlyClient13, Reading13, Past13, Sends, Takes, Shows, Skims, Ended,
           Side, Peer
  <1>8. CASE SendCertificateVerify13
    <2>1. /\ SendSignature(Client, "send_cert_verify", "send_client_finished")
          /\ "send_client_finished" \in Steps
      BY <1>8 DEF SendCertificateVerify13, Steps, SendSteps13
    <2>2. /\ TypeOK' /\ UNCHANGED <<sent, got, share, secret, appSecret>> /\ OwnSeqs(Client)
          /\ faults' = faults \/ faults' = faults + 1
      BY <1>0, <2>1, SendSignatureIs
    <2>3. PICK m : /\ Sends(Client, "send_cert_verify", "send_client_finished", m)
                   /\ m.type = "certificate_verify"
                   /\ m.val = "sent" => m.over = transcript[Client]
      BY <1>0, <2>1, SendSignatureIs
    <2> QED
      BY <1>0, <2>2, <2>3, SidesAssumption
         DEF EarlyClient13, Reading13, Past13, Sends, Takes, Shows, Skims, Ended,
             Side, Peer
  <1> QED
    BY <1>1, <1>2, <1>3, <1>4, <1>5, <1>6, <1>7, <1>8 DEF Connect13, Client13

LEMMA Accept13Early ==
  ASSUME TypeOK, Accept13
  PROVE  EarlyServer13 \/ SendServerFinished13 \/ RecvClientFinished13
  <1>0. UNCHANGED local12 /\ config.protocol = "tls13" /\ Client \in Side /\ Server \in Side
    BY PeerOf DEF Accept13
  <1>1. CASE RecvClientHello13
    BY <1>0, <1>1, RecvClientHello13Is, SidesAssumption
       DEF EarlyServer13, Handshaking13, Late13, Sends, Takes, Shows, Skims, Ended,
           Side, Peer
  <1>2. CASE SendServerHello13
    BY <1>0, <1>2, SendServerHello13Is, SidesAssumption
       DEF EarlyServer13, Handshaking13, Late13, Sends, Takes, Shows, Skims, Ended,
           Side, Peer
  <1>3. CASE SendEncryptedExtensions13
    BY <1>0, <1>3, SendEncryptedExtensions13Is, SidesAssumption
       DEF EarlyServer13, Handshaking13, Late13, Sends, Takes, Shows, Skims, Ended,
           Side, Peer
  <1>4. CASE SendCertificateRequest13
    BY <1>0, <1>4, SendCertificateRequest13Is, SidesAssumption
       DEF EarlyServer13, Handshaking13, Late13, Sends, Takes, Shows, Skims, Ended,
           Side, Peer
  <1>5. CASE SendServerCertificate13
    BY <1>0, <1>5, SendServerCertificate13Is, SidesAssumption
       DEF EarlyServer13, Handshaking13, Late13, Sends, Takes, Shows, Skims, Ended,
           Side, Peer
  <1>6. CASE SendServerCertificateVerify13
    <2>1. /\ SendSignature(Server, "send_server_cert_verify", "send_server_finished")
          /\ "send_server_finished" \in Steps
      BY <1>6 DEF SendServerCertificateVerify13, Steps, SendSteps13
    <2>2. /\ TypeOK' /\ UNCHANGED <<sent, got, share, secret, appSecret>> /\ OwnSeqs(Server)
          /\ faults' = faults \/ faults' = faults + 1
      BY <1>0, <2>1, SendSignatureIs
    <2>3. PICK m : /\ Sends(Server, "send_server_cert_verify", "send_server_finished", m)
                   /\ m.type = "certificate_verify"
                   /\ m.val = "sent" => m.over = transcript[Server]
      BY <1>0, <2>1, SendSignatureIs
    <2> QED
      BY <1>0, <2>2, <2>3, SidesAssumption
         DEF EarlyServer13, Handshaking13, Late13, Sends, Takes, Shows, Skims,
             Ended, Side, Peer
  <1>7. CASE RecvClientCertificate13
    BY <1>0, <1>7, RecvClientCertificate13Is, SidesAssumption
       DEF EarlyServer13, Handshaking13, Late13, Sends, Takes, Shows, Skims, Ended,
           Side, Peer
  <1>8. CASE RecvCertificateVerify13
    BY <1>0, <1>8, RecvCertificateVerify13Is, SidesAssumption
       DEF EarlyServer13, Handshaking13, Late13, Sends, Takes, Shows, Skims, Ended,
           Side, Peer
  <1> QED
    BY <1>1, <1>2, <1>3, <1>4, <1>5, <1>6, <1>7, <1>8 DEF Accept13, Server13

LEMMA EcdhOf ==
  /\ Ecdh(Client) = <<"c", share[Client]>> /\ Ecdh(Server) = <<share[Server], "s">>
  /\ \A s, q : AppSecret(s, q) = <<"ap", Ecdh(s), q>> /\ AppSecret(s, q) # None
  BY SidesAssumption DEF Ecdh, AppSecret, None

LEMMA NextEcdhOf ==
  Ecdh(Client)' = <<"c", share'[Client]>> /\ Ecdh(Server)' = <<share'[Server], "s">>
  BY SidesAssumption DEF Ecdh

\* The secret that a Finished of the server on its way says, as long as the
\* server's secret and key share stay.
LEMMA SaysStays ==
  ASSUME AgreeInv13, appSecret'[Server] = appSecret[Server],
         share'[Server] = share[Server] \/ pc[Server] \notin Late13,
         \A m \in Elems(wire'[Server]) :
            m.type = "server_finished" /\ m.val # "bad" => m \in Elems(wire[Server])
  PROVE  \A m \in Elems(wire'[Server]) :
            m.type = "server_finished" /\ m.val # "bad" =>
                /\ appSecret'[Server] = AppSecret(Server, Append(m.over, Content(m)))'
                /\ m.key[2] = Ecdh(Server)'
  <1> TAKE m \in Elems(wire'[Server])
  <1> HAVE m.type = "server_finished" /\ m.val # "bad"
  <1>1. /\ appSecret[Server] = AppSecret(Server, Append(m.over, Content(m)))
        /\ m.key[2] = Ecdh(Server)
    BY DEF AgreeInv13
  <1>2. appSecret[Server] # None
    BY <1>1, EcdhOf
  <1>3. share'[Server] = share[Server]
    BY <1>2 DEF AgreeInv13
  <1>4. Ecdh(Server)' = Ecdh(Server)
    BY <1>3, EcdhOf, NextEcdhOf
  <1> QED
    BY <1>1, <1>4 DEF AppSecret

LEMMA EarlyClientAgrees13 ==
  ASSUME TypeOK, AgreeInv13, Tls13, EarlyClient13 PROVE AgreeInv13' /\ AgreesSame
  <1>1. /\ ~Completed(Client) /\ ~Completed(Server)
        /\ ~Completed(Client)' /\ ~Completed(Server)' /\ ~IsDone(Client) /\ ~IsDone(Server)
        /\ pc[Client] # "failed" /\ pc'[Client] # "failed"
    BY DEF EarlyClient13, AgreeInv13, Completed, IsDone, Ended
  <1>2. pc'[Server] \in Handshaking13 => secret'[Server][2] = Ecdh(Server)'
    BY EcdhOf, NextEcdhOf DEF AgreeInv13, EarlyClient13
  <1>3. appSecret'[Server] # None => pc'[Server] \in Late13
    BY DEF AgreeInv13, EarlyClient13
  <1>4. \A m \in Elems(wire'[Server]) :
            m.type = "server_finished" /\ m.val # "bad" =>
                /\ appSecret'[Server] = AppSecret(Server, Append(m.over, Content(m)))'
                /\ m.key[2] = Ecdh(Server)'
    BY SaysStays DEF EarlyClient13
  <1>5. pc'[Client] \in Reading13 => secret'[Client][2] = Ecdh(Client)'
    BY EcdhOf, NextEcdhOf DEF AgreeInv13, EarlyClient13
  <1>6. pc'[Client] \in Past13 => /\ appSecret'[Server] # None
                                  /\ appSecret'[Client] = appSecret'[Server]
    BY DEF AgreeInv13, EarlyClient13
  <1>7. \A m \in Elems(wire'[Client]) :
            m.type = "client_finished" /\ m.val # "bad" => Completed(Client)'
    BY <1>1 DEF AgreeInv13, EarlyClient13
  <1>8. \A s \in Side : ~Completed(s) /\ ~Completed(s)'
    BY <1>1 DEF Side
  <1>9. AgreeInv13'
    BY <1>1, <1>2, <1>3, <1>4, <1>5, <1>6, <1>7, <1>8 DEF AgreeInv13
  <1>10. SameEnds /\ KeepsViews
    BY <1>1 DEF SameEnds, KeepsViews, EarlyClient13, Side
  <1>11. KeepsOffer
    BY DEF KeepsOffer, Settled, Settler, NextView, View, EarlyClient13, Tls13
  <1> QED
    BY <1>9, <1>10, <1>11 DEF AgreesSame

LEMMA EarlyServerAgrees13 ==
  ASSUME TypeOK, AgreeInv13, Tls13, EarlyServer13 PROVE AgreeInv13' /\ AgreesSame
  <1>1. /\ ~Completed(Server) /\ ~Completed(Server)' /\ ~IsDone(Server)
        /\ (Completed(Client)' <=> Completed(Client)) /\ (IsDone(Client) <=> Completed(Client))
        /\ pc[Server] # "failed" /\ pc'[Server] # "failed"
    BY DEF EarlyServer13, Completed, IsDone, Ended
  <1>2. pc'[Server] \in Handshaking13 => secret'[Server][2] = Ecdh(Server)'
    BY EcdhOf, NextEcdhOf DEF AgreeInv13, EarlyServer13
  <1>3. appSecret'[Server] # None => pc'[Server] \in Late13
    BY DEF AgreeInv13, EarlyServer13
  <1>4. \A m \in Elems(wire'[Server]) :
            m.type = "server_finished" /\ m.val # "bad" =>
                /\ appSecret'[Server] = AppSecret(Server, Append(m.over, Content(m)))'
                /\ m.key[2] = Ecdh(Server)'
    BY SaysStays DEF EarlyServer13
  <1>5. pc'[Client] \in Reading13 => secret'[Client][2] = Ecdh(Client)'
    BY EcdhOf, NextEcdhOf DEF AgreeInv13, EarlyServer13
  <1>6. pc'[Client] \in Past13 => /\ appSecret'[Server] # None
                                  /\ appSecret'[Client] = appSecret'[Server]
    BY DEF AgreeInv13, EarlyServer13
  <1>7. \A m \in Elems(wire'[Client]) :
            m.type = "client_finished" /\ m.val # "bad" => Completed(Client)'
    BY <1>1 DEF AgreeInv13, EarlyServer13
  <1>8. \A s \in Side : Completed(s)' => secret'[s] = appSecret'[s]
    BY <1>1 DEF AgreeInv13, EarlyServer13, Side
  <1>9. AgreeInv13'
    BY <1>1, <1>2, <1>3, <1>4, <1>5, <1>6, <1>7, <1>8 DEF AgreeInv13
  <1>10. SameEnds
    BY <1>1 DEF SameEnds, EarlyServer13, Side
  <1>11. KeepsViews /\ KeepsOffer
    BY
       DEF KeepsViews, KeepsOffer, Settled, Settler, NextView, View, EarlyServer13,
           Tls13
  <1> QED
    BY <1>9, <1>10, <1>11 DEF AgreesSame

\* The server's Finished settles what is agreed on.
LEMMA ServerSettles13 ==
  ASSUME TypeOK, AgreeInv13, Tls13, UNCHANGED local12, SendServerFinished13
  PROVE  AgreeInv13' /\ AgreesOffer
  <1>0. PICK next : /\ next = IF client_verify THEN "recv_client_cert"
                                               ELSE "recv_client_finished"
                    /\ next \in {"recv_client_cert", "recv_client_finished"}
    OBVIOUS
  <1>1. PICK m : /\ Sends(Server, "send_server_finished", next, m)
                 /\ m.type = "server_finished" /\ m.key = secret[Server]
                 /\ appSecret'[Server] = AppSecret(Server, Append(m.over, Content(m)))
    BY <1>0, SendServerFinished13Is
  <1>2. /\ pc[Server] = "send_server_finished" /\ pc'[Server] = next
        /\ pc'[Client] = pc[Client] /\ config' = config
        /\ wire'[Client] = wire[Client]
        /\ Elems(wire'[Server]) = Elems(wire[Server]) \cup {m}
        /\ UNCHANGED <<share, secret>> /\ appSecret'[Client] = appSecret[Client]
    BY <1>1, SendServerFinished13Is, PeerOf DEF Sends
  <1>3. appSecret[Server] = None /\ appSecret'[Server] # None
    BY <1>1, <1>2, EcdhOf DEF AgreeInv13, Late13
  <1>4. pc[Client] \notin Past13 /\ ~Completed(Client) /\ ~Completed(Server)
    BY <1>2, <1>3 DEF AgreeInv13, Past13, Completed
  <1>5. Ecdh(Server)' = Ecdh(Server) /\ Ecdh(Client)' = Ecdh(Client)
    BY <1>2, EcdhOf, NextEcdhOf
  <1>6. m.key[2] = Ecdh(Server)
    BY <1>1, <1>2 DEF AgreeInv13, Handshaking13
  <1>7. \A x \in Elems(wire'[Server]) :
            x.type = "server_finished" /\ x.val # "bad" =>
                /\ appSecret'[Server] = AppSecret(Server, Append(x.over, Content(x)))'
                /\ x.key[2] = Ecdh(Server)'
    <2>1. ASSUME NEW x \in Elems(wire'[Server]), x.type = "server_finished", x.val # "bad"
          PROVE  x = m
      <3>1. CASE x \in Elems(wire[Server])
        <4>1. appSecret[Server] = AppSecret(Server, Append(x.over, Content(x)))
          BY <2>1, <3>1 DEF AgreeInv13
        <4> QED
          BY <1>3, <4>1, EcdhOf
      <3> QED
        BY <1>2, <3>1
    <2>2. AppSecret(Server, Append(m.over, Content(m)))'
            = AppSecret(Server, Append(m.over, Content(m)))
      BY <1>5 DEF AppSecret
    <2> QED
      BY <1>1, <1>5, <1>6, <2>1, <2>2
  <1>8. ~Completed(Client)' /\ ~Completed(Server)' /\ ~IsDone(Client) /\ ~IsDone(Server)
    BY <1>0, <1>2, <1>4 DEF Completed, IsDone
  <1>9. \A s \in Side : ~Completed(s)'
    BY <1>8 DEF Side
  <1>10. /\ pc'[Server] \in Late13 /\ pc'[Server] \notin Handshaking13
         /\ pc'[Client] \notin Past13
         /\ pc'[Client] \in Reading13 => secret'[Client][2] = Ecdh(Client)'
    BY <1>0, <1>2, <1>4, <1>5 DEF AgreeInv13, Late13, Handshaking13
  <1>11. \A x \in Elems(wire'[Client]) :
            ~(x.type = "client_finished" /\ x.val # "bad")
    BY <1>2, <1>4 DEF AgreeInv13
  <1>12. AgreeInv13'
    BY <1>7, <1>8, <1>9, <1>10, <1>11 DEF AgreeInv13
  <1>13. SameEnds /\ KeepsViews
    BY <1>0, <1>2, <1>4, <1>8 DEF SameEnds, KeepsViews, Side
  <1>14. /\ ~Settled /\ Settled' /\ pc[Settler] \notin Ended /\ NextView(Settler) # None
    BY <1>2, <1>3 DEF Settled, Settler, NextView, Tls13, Ended
  <1> QED
    BY <1>12, <1>13, <1>14 DEF AgreesOffer

\* The client derives what the server has derived.
LEMMA ClientDerives13 ==
  ASSUME TypeOK, AgreeInv13, Tls13, UNCHANGED local12, RecvServerFinished13
  PROVE  AgreeInv13' /\ AgreesSame
  <1>0. PICK next : /\ next = IF clientCerts THEN "send_client_cert"
                                             ELSE "send_client_finished"
                    /\ next \in {"send_client_cert", "send_client_finished"}
    OBVIOUS
  <1>1. PICK m : /\ Takes(Client, "recv_server_finished", next, m)
                 /\ m.type = "server_finished" /\ m.val # "bad"
                 /\ m.key = secret[Client] /\ m.over = transcript[Client]
                 /\ appSecret'[Client] =
                        AppSecret(Client, Append(transcript[Client], Content(m)))
    BY <1>0, RecvServerFinished13Is
  <1>2. /\ pc[Client] = "recv_server_finished" /\ pc'[Client] = next
        /\ pc'[Server] = pc[Server] /\ config' = config
        /\ wire'[Client] = wire[Client] /\ m \in Elems(wire[Server])
        /\ Elems(wire'[Server]) \subseteq Elems(wire[Server])
        /\ UNCHANGED <<share, secret>> /\ appSecret'[Server] = appSecret[Server]
    BY <1>1, RecvServerFinished13Is, PeerOf DEF Takes
  <1>3. /\ appSecret[Server] = AppSecret(Server, Append(m.over, Content(m)))
        /\ m.key[2] = Ecdh(Server)
    BY <1>1, <1>2 DEF AgreeInv13
  <1>4. secret[Client][2] = Ecdh(Client)
    BY <1>2 DEF AgreeInv13, Reading13
  <1>5. appSecret'[Client] = appSecret'[Server] /\ appSecret'[Server] # None
    BY <1>1, <1>2, <1>3, <1>4, EcdhOf
  <1>6. /\ ~Completed(Client) /\ ~Completed(Server)
        /\ ~Completed(Client)' /\ ~Completed(Server)' /\ ~IsDone(Client) /\ ~IsDone(Server)
    BY <1>0, <1>2 DEF AgreeInv13, Completed, IsDone
  <1>7. Ecdh(Server)' = Ecdh(Server)
    BY <1>2, EcdhOf, NextEcdhOf
  <1>8. \A x \in Elems(wire'[Server]) :
            x.type = "server_finished" /\ x.val # "bad" =>
                /\ appSecret'[Server] = AppSecret(Server, Append(x.over, Content(x)))'
                /\ x.key[2] = Ecdh(Server)'
    BY <1>2, SaysStays
  <1>9. \A s \in Side : ~Completed(s)' /\ ~Completed(s)
    BY <1>6 DEF Side
  <1>10. pc'[Client] \notin Reading13
    BY <1>0, <1>2 DEF Reading13
  <1>11. /\ pc'[Server] \in Handshaking13 => secret'[Server][2] = Ecdh(Server)'
         /\ appSecret'[Server] # None => pc'[Server] \in Late13
         /\ \A x \in Elems(wire'[Client]) : ~(x.type = "client_finished" /\ x.val # "bad")
    BY <1>2, <1>6, <1>7 DEF AgreeInv13
  <1>12. AgreeInv13'
    BY <1>5, <1>6, <1>8, <1>9, <1>10, <1>11 DEF AgreeInv13
  <1>13. SameEnds /\ KeepsViews
    BY <1>0, <1>2, <1>6, <1>9 DEF SameEnds, KeepsViews, Side
  <1>14. KeepsOffer
    BY <1>2 DEF KeepsOffer, Settled, Settler, NextView, View, Tls13
  <1> QED
    BY <1>12, <1>13, <1>14 DEF AgreesSame

LEMMA ClientCompletes13 ==
  ASSUME TypeOK, AgreeInv13, Tls13, UNCHANGED local12, SendClientFinished13
  PROVE  AgreeInv13' /\ AgreesEstablish(Client)
  <1>1. PICK m : Sends(Client, "send_client_finished", "established", m)
    BY SendClientFinished13Is
  <1>2. /\ pc[Client] = "send_client_finished" /\ pc'[Client] = "established"
        /\ pc'[Server] = pc[Server] /\ config' = config
        /\ wire'[Server] = wire[Server]
        /\ UNCHANGED <<share, appSecret>>
        /\ secret'[Client] = appSecret[Client] /\ secret'[Server] = secret[Server]
    BY <1>1, SendClientFinished13Is, PeerOf DEF Sends
  <1>3. appSecret[Server] # None /\ appSecret[Client] = appSecret[Server]
    BY <1>2 DEF AgreeInv13, Past13
  <1>4. Completed(Client)' /\ ~Completed(Client) /\ (Completed(Server)' <=> Completed(Server))
    BY <1>2 DEF Completed
  <1>5. ~Completed(Server)
    BY <1>4 DEF AgreeInv13
  <1>6. Ecdh(Server)' = Ecdh(Server)
    BY <1>2, EcdhOf, NextEcdhOf
  <1>7. \A x \in Elems(wire'[Server]) :
            x.type = "server_finished" /\ x.val # "bad" =>
                /\ appSecret'[Server] = AppSecret(Server, Append(x.over, Content(x)))'
                /\ x.key[2] = Ecdh(Server)'
    BY <1>2, SaysStays
  <1>8. \A s \in Side : Completed(s)' => secret'[s] = appSecret'[s]
    BY <1>2, <1>4, <1>5 DEF Side
  <1>9. /\ pc'[Server] \in Handshaking13 => secret'[Server][2] = Ecdh(Server)'
        /\ appSecret'[Server] # None => pc'[Server] \in Late13
        /\ pc'[Client] \notin Reading13
        /\ appSecret'[Server] # None /\ appSecret'[Client] = appSecret'[Server]
    BY <1>2, <1>3, <1>6 DEF AgreeInv13, Reading13
  <1>10. AgreeInv13'
    BY <1>4, <1>7, <1>8, <1>9 DEF AgreeInv13
  <1>11. KeepsViews /\ KeepsOffer
    BY <1>2 DEF KeepsViews, KeepsOffer, Settled, Settler, NextView, View, Tls13
  <1>12. /\ Settled /\ View(Settler) # None /\ NextView(Client) = View(Settler)
         /\ Client # Settler
    BY <1>2, <1>3, SidesAssumption DEF Settled, Settler, View, NextView
  <1> QED
    BY <1>2, <1>10, <1>11, <1>12, PeerOf DEF AgreesEstablish, Ended

\* The server completes after a client that has completed.
LEMMA ServerCompletes13 ==
  ASSUME TypeOK, AgreeInv13, Tls13, UNCHANGED local12, RecvClientFinished13
  PROVE  AgreeInv13' /\ AgreesEstablish(Server)
  <1>1. PICK m : /\ Takes(Server, "recv_client_finished", "established", m)
                 /\ m.type = "client_finished" /\ m.val # "bad"
    BY RecvClientFinished13Is
  <1>2. /\ pc[Server] = "recv_client_finished" /\ pc'[Server] = "established"
        /\ pc'[Client] = pc[Client] /\ config' = config
        /\ wire'[Server] = wire[Server] /\ m \in Elems(wire[Client])
        /\ UNCHANGED <<share, appSecret>>
        /\ secret'[Server] = appSecret[Server] /\ secret'[Client] = secret[Client]
    BY <1>1, RecvClientFinished13Is, PeerOf DEF Takes
  <1>3. Completed(Client) /\ Completed(Client)' /\ ~Completed(Server)
    BY <1>1, <1>2 DEF AgreeInv13, Completed
  <1>4. appSecret[Server] # None /\ appSecret[Client] = appSecret[Server]
    BY <1>3 DEF AgreeInv13, Past13, Completed
  <1>5. \A x \in Elems(wire'[Server]) :
            x.type = "server_finished" /\ x.val # "bad" =>
                /\ appSecret'[Server] = AppSecret(Server, Append(x.over, Content(x)))'
                /\ x.key[2] = Ecdh(Server)'
    BY <1>2, SaysStays
  <1>6. \A s \in Side : secret'[s] = appSecret'[s]
    BY <1>2, <1>3, PeerOf DEF AgreeInv13, Side
  <1>7. /\ pc'[Server] \notin Handshaking13 /\ pc'[Server] \in Late13
        /\ pc'[Client] \notin Reading13
        /\ appSecret'[Server] # None /\ appSecret'[Client] = appSecret'[Server]
    BY <1>2, <1>3, <1>4 DEF Handshaking13, Late13, Reading13, Completed
  <1>8. AgreeInv13'
    BY <1>3, <1>5, <1>6, <1>7 DEF AgreeInv13
  <1>9. KeepsViews /\ KeepsOffer
    BY <1>2 DEF KeepsViews, KeepsOffer, Settled, Settler, NextView, View, Tls13
  <1>10. /\ Settled /\ View(Settler) # None /\ NextView(Server) = View(Settler)
    BY <1>2, <1>4 DEF Settled, Settler, View, NextView
  <1> QED
    BY <1>2, <1>3, <1>8, <1>9, <1>10, PeerOf DEF AgreesEstablish, Ended

LEMMA Agree13 ==
  ASSUME TypeOK, AgreeInv13, Tls13, Connect13 \/ Accept13
  PROVE  AgreeInv13' /\ Agrees
  <1>1. UNCHANGED local12
    BY DEF Connect13, Accept13
  <1> QED
    BY <1>1, Connect13Early, Accept13Early, EarlyClientAgrees13, EarlyServerAgrees13,
       ServerSettles13, ClientDerives13, ClientCompletes13, ServerCompletes13, PeerOf
    DEF Agrees

-----------------------------------------------------------------------------
\* A step that leaves the keys alone, adds no Finished, and after which a side
\* stands where it stood, has failed, or has gone from its data to the end.
Rests ==
    /\ UNCHANGED <<config, transcript, share, secret, appSecret>>
    /\ \A s \in Side : \A m \in Elems(wire'[s]) :
            m.type \in {"client_finished", "server_finished"} /\ m.val # "bad" =>
                m \in Elems(wire[s])
    /\ \A s \in Side : \/ pc'[s] = pc[s]
                       \/ pc[s] \notin Ended /\ pc'[s] = "failed"
                       \/ Tls13 /\ pc[s] = "established" /\ pc'[s] = "disconnected"

LEMMA RestsAgrees12 == ASSUME AgreeInv12, ~Tls13, Rests PROVE AgreeInv12'
  <1>1. Settled' <=> Settled
    BY SettledStays DEF Rests
  <1>2. \A s \in Side : pc'[s] = pc[s] \/ (pc[s] \notin Ended /\ pc'[s] = "failed")
    BY DEF Rests
  <1>3. \A s \in Side : \A m \in Elems(wire'[s]) :
            m.type \in {"client_finished", "server_finished"} /\ m.val = "sent" =>
                m \in Elems(wire[s])
    BY DEF Rests
  <1>4. UNCHANGED <<transcript, secret>>
    BY DEF Rests
  <1>5. \A s \in Side : pc'[s] # "disconnected"
    BY <1>2 DEF AgreeInv12
  <1>6. Settled' => pc'[Client] \in Sent12 \cup {"failed"}
    BY <1>1, <1>2, PeerOf DEF AgreeInv12
  <1>7. \A m \in Elems(wire'[Client]) :
            m.type = "client_finished" /\ m.val = "sent" =>
                /\ Settled' /\ m.key = secret'[Client]
                /\ transcript'[Client] = Append(m.over, Content(m))
    BY <1>1, <1>3, <1>4, PeerOf DEF AgreeInv12
  <1>8. pc'[Server] \in Committed12 =>
            /\ Settled' /\ secret'[Server] = secret'[Client]
            /\ transcript'[Server] = transcript'[Client]
    BY <1>1, <1>2, <1>4, PeerOf DEF AgreeInv12, Committed12
  <1>9. \A m \in Elems(wire'[Server]) :
            m.type = "server_finished" /\ m.val = "sent" => pc'[Server] = "established"
    BY <1>2, <1>3, PeerOf DEF AgreeInv12, Ended
  <1>10. pc'[Client] = "established" => pc'[Server] = "established"
    BY <1>2, PeerOf DEF AgreeInv12, Ended
  <1> QED
    BY <1>5, <1>6, <1>7, <1>8, <1>9, <1>10 DEF AgreeInv12

LEMMA RestsAgrees13 == ASSUME AgreeInv13, Tls13, Rests PROVE AgreeInv13'
  <1>1. UNCHANGED <<share, secret, appSecret>>
    BY DEF Rests
  <1>2. \A s \in Side : Completed(s)' <=> Completed(s)
    BY DEF Rests, Completed, Ended
  <1>3. Ecdh(Server)' = Ecdh(Server) /\ Ecdh(Client)' = Ecdh(Client)
    BY <1>1, EcdhOf, NextEcdhOf
  <1>4. \A m \in Elems(wire'[Server]) :
            m.type = "server_finished" /\ m.val # "bad" =>
                /\ appSecret'[Server] = AppSecret(Server, Append(m.over, Content(m)))'
                /\ m.key[2] = Ecdh(Server)'
    BY <1>1, SaysStays, PeerOf DEF Rests
  <1>5. \A m \in Elems(wire'[Client]) :
            m.type = "client_finished" /\ m.val # "bad" => Completed(Client)'
    BY <1>2, PeerOf DEF AgreeInv13, Rests
  <1>6. /\ pc'[Server] \in Handshaking13 => pc[Server] \in Handshaking13
        /\ pc[Server] \in Late13 => pc'[Server] \in Late13
        /\ pc'[Client] \in Reading13 => pc[Client] \in Reading13
        /\ pc'[Client] \in Past13 => pc[Client] \in Past13
    BY PeerOf DEF Rests, Handshaking13, Late13, Reading13, Past13
  <1>7. \A s \in Side : Completed(s)' => secret'[s] = appSecret'[s]
    BY <1>1, <1>2 DEF AgreeInv13
  <1>8. Completed(Server)' => Completed(Client)'
    BY <1>2, PeerOf DEF AgreeInv13
  <1>9. /\ pc'[Server] \in Handshaking13 => secret'[Server][2] = Ecdh(Server)'
        /\ appSecret'[Server] # None => pc'[Server] \in Late13
        /\ pc'[Client] \in Reading13 => secret'[Client][2] = Ecdh(Client)'
        /\ pc'[Client] \in Past13 => /\ appSecret'[Server] # None
                                     /\ appSecret'[Client] = appSecret'[Server]
    BY <1>1, <1>3, <1>6 DEF AgreeInv13
  <1> QED
    BY <1>4, <1>5, <1>7, <1>8, <1>9 DEF AgreeInv13

LEMMA RestsKeeps == ASSUME Rests PROVE KeepsViews /\ KeepsOffer
  BY DEF Rests, KeepsViews, KeepsOffer, Settled, Settler, NextView, View, Tls13

LEMMA QuietAgrees == ASSUME TypeOK, Quiet PROVE Rests /\ Agrees
  <1>1. /\ UNCHANGED <<config, transcript, share, secret, appSecret>>
        /\ pc' = pc \/ \E s \in Side : Fails(s)
        /\ \A t \in Side : \A m \in Elems(wire'[t]) : Weighty(m) => m \in Elems(wire[t])
    BY QuietEffect
  <1>2. \A s \in Side : \/ pc'[s] = pc[s]
                        \/ pc[s] \notin Ended /\ pc'[s] = "failed"
    BY <1>1 DEF Fails, Side, Peer
  <1>3. Rests
    BY <1>1, <1>2 DEF Rests, Weighty, WeightyTypes
  <1>4. KeepsViews /\ KeepsOffer
    BY <1>3, RestsKeeps
  <1>5. ASSUME pc' = pc PROVE Agrees
    <2>1. SameEnds
      BY <1>5 DEF SameEnds, IsDone, Completed
    <2> QED
      BY <1>4, <2>1 DEF Agrees, AgreesSame
  <1>6. ASSUME NEW s \in Side, Fails(s) PROVE Agrees
    BY <1>4, <1>6 DEF Agrees, AgreesFail, Fails
  <1> QED
    BY <1>1, <1>3, <1>5, <1>6

LEMMA DataAgrees ==
  ASSUME TypeOK, NEW s \in Side, Data13(s), Tls13 PROVE Rests /\ Agrees
  <1>0. /\ UNCHANGED local12
        /\ tls13_send(s) \/ tls13_recv(s) \/ tls13_recv_fails(s)
        /\ \A t \in Side : t = s \/ t = Peer(s)
    BY DEF Data13, Side, Peer
  <1>1. /\ UNCHANGED <<config, transcript, share, secret, appSecret>>
        /\ \A t \in Side : \/ pc'[t] = pc[t]
                           \/ pc[t] = "established" /\ pc'[t] = "disconnected"
        /\ \A t \in Side : \A m \in Elems(wire'[t]) :
                m \in Elems(wire[t]) \/ m.type = "application_data"
    <2>1. CASE tls13_send(s)
      <3>1. PICK m : /\ m.type = "application_data"
                     /\ Elems(wire'[s]) \subseteq Elems(wire[s]) \cup {m}
        BY <1>0, <2>1, SendDataIs
      <3>2. /\ UNCHANGED <<config, pc, transcript, share, secret, appSecret>>
            /\ wire'[Peer(s)] = wire[Peer(s)]
        BY <1>0, <2>1, SendDataIs
      <3> QED
        BY <1>0, <3>1, <3>2
    <2>2. CASE tls13_recv(s)
      <3>1. /\ UNCHANGED <<config, pc, transcript, share, secret, appSecret>>
            /\ wire'[s] = wire[s]
            /\ Elems(wire'[Peer(s)]) \subseteq Elems(wire[Peer(s)])
        BY <1>0, <2>2, RecvDataIs
      <3> QED
        BY <1>0, <3>1
    <2>3. CASE tls13_recv_fails(s)
      <3>1. /\ UNCHANGED <<config, transcript, share, secret, appSecret>>
            /\ wire'[s] = wire[s] /\ pc[s] = "established" /\ pc'[s] = "disconnected"
            /\ pc'[Peer(s)] = pc[Peer(s)]
            /\ Elems(wire'[Peer(s)]) \subseteq Elems(wire[Peer(s)])
        BY <1>0, <2>3, RecvDataFailsIs
      <3> QED
        BY <1>0, <3>1
    <2> QED
      BY <1>0, <2>1, <2>2, <2>3
  <1>2. Rests
    BY <1>1 DEF Rests
  <1>3. SameEnds
    BY <1>1 DEF SameEnds, IsDone, Completed
  <1> QED
    BY <1>2, <1>3, RestsKeeps DEF Agrees, AgreesSame

LEMMA AgreeInit == ASSUME Init PROVE AgreeInv
  <1>1. /\ pc[Client] = "send_client_hello" /\ pc[Server] = "recv_client_hello"
        /\ \A s \in Side : /\ wire[s] = <<>> /\ transcript[s] = <<>>
                           /\ appSecret[s] = None
    BY SidesAssumption DEF Init, LinkInit, Side
  <1>2. \A s \in Side : Elems(wire[s]) = {} /\ ~Completed(s) /\ pc[s] # "disconnected"
    BY <1>1, EmptySeq DEF Completed, Side
  <1>3. ~Tls13 => ~Settled
    BY <1>1, PeerOf DEF Settled
  <1>4. ~Tls13 => AgreeInv12
    BY <1>1, <1>2, <1>3, PeerOf DEF AgreeInv12, Committed12
  <1>5. Tls13 => AgreeInv13
    BY <1>1, <1>2, PeerOf DEF AgreeInv13, Handshaking13, Reading13, Past13
  <1> QED
    BY <1>4, <1>5 DEF AgreeInv

LEMMA AgreeStep ==
  ASSUME TypeOK, AgreeInv, [Next]_vars
  PROVE  AgreeInv' /\ Agrees /\ config' = config
  <1>1. config' = config
    BY StepVouches DEF Vouches
  <1>2. Tls13' = Tls13
    BY <1>1 DEF Tls13
  <1>3. CASE Connect12 \/ Accept12
    <2>1. ~Tls13
      BY <1>3 DEF Connect12, Accept12, Tls13
    <2> QED
      BY <1>1, <1>2, <1>3, <2>1, Agree12 DEF AgreeInv
  <1>4. CASE Connect13 \/ Accept13
    <2>1. Tls13
      BY <1>4 DEF Connect13, Accept13, Tls13
    <2> QED
      BY <1>1, <1>2, <1>4, <2>1, Agree13 DEF AgreeInv
  <1>5. CASE Rests /\ Agrees
    BY <1>1, <1>2, <1>5, RestsAgrees12, RestsAgrees13 DEF AgreeInv
  <1>6. ASSUME NEW s \in Side, Data13(s) PROVE Rests /\ Agrees
    BY <1>6, DataAgrees DEF Data13, Tls13
  <1> QED
    BY <1>3, <1>4, <1>5, <1>6, NextCases, QuietAgrees

LEMMA AgreementInit == ASSUME Init PROVE Agreement!Init
  <1>1. /\ pc[Client] = "send_client_hello" /\ pc[Server] = "recv_client_hello"
        /\ transcript[Client] = <<>> /\ appSecret[Server] = None
    BY SidesAssumption DEF Init, LinkInit, Side
  <1>2. ~Settled
    BY <1>1 DEF Settled
  <1>3. \A s \in Side : ~Completed(s) /\ pc[s] # "failed"
    BY <1>1 DEF Completed, Side
  <1> QED
    BY <1>2, <1>3, RoleOf DEF Agreement!Init, Agreement!Side, Side

\* TLS 1.2 and TLS 1.3 implement KeyAgreement, TLS 1.3 with the roles
\* exchanged: one side settles, both complete only with what it settled on, and
\* it completes only with a peer that has, under any disturbance.
THEOREM AgreementCorrect == Spec => ImplementsAgreement
  <1>1. Init => AgreeInv /\ Agreement!Init
    BY AgreeInit, AgreementInit
  <1>2. TypeOK /\ AgreeInv /\ [Next]_vars
        => AgreeInv' /\ [Agreement!Next]_(Agreement!avars)
    BY AgreeStep, AgreesRefines DEF AgreementStep, AgreementSame
  <1> QED
    BY <1>1, <1>2, TypeCorrect, PTL DEF Spec, ImplementsAgreement, Agreement!Spec

\* Peers that have both completed use the same keys.
SameKeys == Completed(Client) /\ Completed(Server) => secret[Client] = secret[Server]

\* Both protocols complete with the same record keys at both ends, the first
\* part of ReadyForData, under any disturbance.
THEOREM SameKeysCorrect == Spec => []SameKeys
  <1>1. Init => AgreeInv
    BY AgreeInit
  <1>2. TypeOK /\ AgreeInv /\ [Next]_vars => AgreeInv'
    BY AgreeStep
  <1>3. AgreeInv => SameKeys
    <2>1. CASE Tls13
      BY <2>1, PeerOf DEF AgreeInv, AgreeInv13, SameKeys, Completed, Past13
    <2>2. CASE ~Tls13
      BY <2>2, PeerOf DEF AgreeInv, AgreeInv12, SameKeys, Completed, Committed12
    <2> QED
      BY <2>1, <2>2
  <1> QED
    BY <1>1, <1>2, <1>3, TypeCorrect, PTL DEF Spec

=============================================================================
