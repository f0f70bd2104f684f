------------------------- MODULE CipherStreamProofs -------------------------
(***************************************************************************)
(* TLAPS proofs about CipherStream, for every size of block, unit, tag and *)
(* piece, every input and every way of cutting it into pieces: the calls   *)
(* put out what the one-shot function does, never ahead of the tag or of   *)
(* the block that must be held back, in the space the size query answers,  *)
(* and GCM uses every counter once.                                        *)
(***************************************************************************)
EXTENDS CipherStream, WellFoundedInduction, TLAPS

-----------------------------------------------------------------------------
(* Numbers and sequences.                                                  *)

\* Every set of natural numbers has a least element.
Below == {p \in Nat \X Nat : p[1] < p[2]}

\* The order of the natural numbers has no infinite descent.
LEMMA BelowWellFounded == IsWellFoundedOn(Below, Nat)
  <1>1. IsWellFoundedOn({ss \in Nat \X Nat : ss[1] < ss[2]}, Nat)
    BY NatLessThanWellFounded DEF OpToRel
  <1> QED
    BY <1>1 DEF Below

LEMMA LeastNumber ==
  ASSUME NEW S \in SUBSET Nat, S # {}
  PROVE  \E m \in S : \A n \in S : m <= n
  <1>1. PICK m \in S : \A n \in S : <<n, m>> \notin Below
    BY BelowWellFounded, WFMin
  <1>2. ASSUME NEW n \in S PROVE m <= n
    <2>1. n \in Nat /\ m \in Nat /\ <<n, m>> \notin Below
      BY <1>1
    <2>2. <<n, m>> \in Nat \X Nat /\ <<n, m>>[1] = n /\ <<n, m>>[2] = m
      BY <2>1
    <2>3. ~(n < m)
      BY <2>1, <2>2 DEF Below
    <2> QED
      BY <2>1, <2>3
  <1> QED
    BY <1>2

\* Quotient and remainder.
LEMMA Divides ==
  ASSUME NEW u \in Nat \ {0}, NEW a \in Nat, NEW r \in 0 .. u - 1
  PROVE  (a * u + r) \div u = a /\ (a * u + r) % u = r
  OBVIOUS

LEMMA Remainder ==
  ASSUME NEW m \in Nat, m > 0, NEW a \in Int
  PROVE  /\ a % m \in 0 .. m - 1
         /\ a \div m \in Int
         /\ a = (m * (a \div m)) + (a % m)
  OBVIOUS

\* A number is quotient times divisor plus remainder.
LEMMA Division ==
  ASSUME NEW u \in Nat \ {0}, NEW a \in Nat
  PROVE  \E d \in Nat, r \in 0 .. u - 1 :
            a \div u = d /\ a % u = r /\ a = d * u + r
  <1>1. a % u \in 0 .. u - 1 /\ a \div u \in Int /\ a = (u * (a \div u)) + (a % u)
    BY Remainder
  <1>2. PICK d \in Int : d = a \div u
    BY <1>1
  <1>3. PICK r \in 0 .. u - 1 : r = a % u
    BY <1>1
  <1>4. a = u * d + r
    BY <1>1, <1>2, <1>3
  <1>5. d \in Nat
    <2> SUFFICES ASSUME d <= -1 PROVE FALSE
      OBVIOUS
    <2>1. u * d <= -u
      BY d \in Int
    <2> QED BY <1>4, <2>1
  <1>6. u * d = d * u
    OBVIOUS
  <1>7. a = d * u + r
    BY <1>4, <1>6
  <1> QED BY <1>2, <1>3, <1>5, <1>7

\* A sum may be reduced before it is reduced.
LEMMA ModAdd == ASSUME NEW m \in Nat \ {0}, NEW a \in Nat, NEW b \in Nat
  PROVE ((a % m) + b) % m = (a + b) % m
  <1>1. PICK d \in Nat, r \in 0 .. m - 1 : r = a % m /\ a = d * m + r
    BY Division
  <1>2. PICK e \in Nat : e = r + b
    OBVIOUS
  <1>3. PICK y \in Nat, x \in 0 .. m - 1 : x = e % m /\ e = y * m + x
    BY Division
  <1>4. a + b = (d + y) * m + x
    <2>1. PICK f, g, h \in Nat : f = d * m /\ g = y * m /\ h = (d + y) * m
      OBVIOUS
    <2>2. h = f + g
      BY <2>1
    <2>3. a = f + r /\ e = g + x
      BY <1>1, <1>3, <2>1
    <2>4. a + b = h + x
      BY <1>2, <2>2, <2>3
    <2> QED BY <2>1, <2>4
  <1>5. (a + b) % m = x
    <2>1. PICK f \in Nat : f = d + y
      OBVIOUS
    <2>2. a + b = f * m + x
      BY <1>4, <2>1
    <2> QED BY <2>2, Divides
  <1> QED BY <1>1, <1>2, <1>3, <1>5

IsSeq(s) == s \in Seq({s[i] : i \in DOMAIN s})

\* A function on 1 .. n is a sequence, and the other way round.
LEMMA FunSeq == ASSUME NEW s, NEW n \in Nat, s = [i \in 1 .. n |-> s[i]]
  PROVE IsSeq(s) /\ Len(s) = n
  <1>1. s \in [1 .. n -> {s[i] : i \in DOMAIN s}]
    OBVIOUS
  <1>2. s \in Seq({s[i] : i \in DOMAIN s})
    BY <1>1
  <1>3. Len(s) = n BY <1>2, DOMAIN s = 1 .. n
  <1> QED BY <1>2, <1>3 DEF IsSeq

LEMMA SeqFun == ASSUME NEW s, IsSeq(s)
  PROVE Len(s) \in Nat /\ s = [i \in 1 .. Len(s) |-> s[i]]
  BY DEF IsSeq

\* SubSeq and concatenation, as functions.
LEMMA SubSeqFun ==
  ASSUME NEW s, IsSeq(s), NEW a \in Nat, NEW n \in Nat, a + n <= Len(s)
  PROVE  SubSeq(s, a + 1, a + n) = [i \in 1 .. n |-> s[a + i]]
  BY DEF IsSeq

LEMMA ConcatFun ==
  ASSUME NEW s, IsSeq(s), NEW t, IsSeq(t)
  PROVE  s \o t = [i \in 1 .. Len(s) + Len(t) |->
                      IF i <= Len(s) THEN s[i] ELSE t[i - Len(s)]]
  <1> DEFINE S == {s[i] : i \in DOMAIN s}
             T == {t[i] : i \in DOMAIN t}
  <1>1. s \in Seq(S \cup T) /\ t \in Seq(S \cup T)
    <2>1. s \in Seq(S) /\ t \in Seq(T)
      BY DEF IsSeq
    <2> HIDE DEF S, T
    <2> QED BY <2>1
  <1> HIDE DEF S, T
  <1>2. PICK U : U = S \cup T
    OBVIOUS
  <1>3. s \in Seq(U) /\ t \in Seq(U)
    BY <1>1, <1>2
  <1>4. PICK r : r = s \o t
    OBVIOUS
  <1>5. r \in Seq(U) /\ Len(r) = Len(s) + Len(t) /\ Len(s) \in Nat /\ Len(t) \in Nat
    BY <1>3, <1>4
  <1>6. \A i \in 1 .. Len(s) : r[i] = s[i]
    BY <1>3, <1>4
  <1>7. \A i \in 1 .. Len(s) + Len(t) : i > Len(s) => r[i] = t[i - Len(s)]
    BY <1>3, <1>4
  <1>8. r = [i \in 1 .. Len(s) + Len(t) |-> r[i]]
    BY <1>5
  <1>9. \A i \in 1 .. Len(s) + Len(t) : r[i] = IF i <= Len(s) THEN s[i] ELSE t[i - Len(s)]
    BY <1>5, <1>6, <1>7
  <1> QED BY <1>4, <1>8, <1>9

-----------------------------------------------------------------------------
(* Blocks.                                                                 *)

Apart(p, q, z) == p + z <= q \/ q + z <= p \/ p = q

CryptByte(b, k, j) == [byte |-> b.byte, by |-> Append(b.by, <<k, j>>)]

\* What CryptBlocks leaves in memory, read off the memory before.
Crypted(u, k, mem, p, n, q) ==
    [i \in 1 .. Len(mem) |->
        IF i \in q + 1 .. q + n * u
        THEN CryptByte(mem[p + (i - q)], After(k, (i - q - 1) \div u), ((i - q - 1) % u) + 1)
        ELSE mem[i]]

\* Crypt and Write, as functions.
LEMMA CryptFun ==
  ASSUME NEW s, NEW k
  PROVE  Crypt(s, k) = [i \in 1 .. Len(s) |-> CryptByte(s[i], k, i)]
  BY DEF Crypt, CryptByte

LEMMA WriteFun ==
  ASSUME NEW mem, IsSeq(mem), NEW s, NEW q
  PROVE  /\ Write(mem, q, s) = [i \in 1 .. Len(mem) |->
                                  IF i \in q + 1 .. q + Len(s) THEN s[i - q] ELSE mem[i]]
         /\ IsSeq(Write(mem, q, s)) /\ Len(Write(mem, q, s)) = Len(mem)
  <1>1. PICK w : w = Write(mem, q, s)
    OBVIOUS
  <1>2. w = [i \in 1 .. Len(mem) |->
               IF i \in q + 1 .. q + Len(s) THEN s[i - q] ELSE mem[i]]
    BY <1>1 DEF Write
  <1>3. w = [i \in 1 .. Len(mem) |-> w[i]]
    BY <1>2
  <1> QED
    BY <1>1, <1>2, <1>3, FunSeq, SeqFun

\* Encrypting in memory keeps its length.
LEMMA CryptedSeq ==
  ASSUME NEW u, NEW k, NEW mem, IsSeq(mem), NEW p, NEW n, NEW q
  PROVE  IsSeq(Crypted(u, k, mem, p, n, q)) /\ Len(Crypted(u, k, mem, p, n, q)) = Len(mem)
  <1>1. PICK s : s = Crypted(u, k, mem, p, n, q)
    OBVIOUS
  <1>2. s = [i \in 1 .. Len(mem) |-> s[i]]
    BY <1>1 DEF Crypted
  <1> QED
    BY <1>1, <1>2, FunSeq, SeqFun

\* One more block, when no block is read after it was written over.
LEMMA CryptStep ==
  ASSUME NEW mem, IsSeq(mem), NEW u \in Nat \ {0}, NEW k, NEW p \in Nat, NEW q \in Nat,
         NEW z \in Nat, NEW j \in Nat \ {0}, j * u <= z,
         p + z <= Len(mem), q + z <= Len(mem), Apart(p, q, z)
  PROVE  LET f == Crypted(u, k, mem, p, j - 1, q)
         IN  Write(f, q + (j - 1) * u,
                   Crypt(SubSeq(f, p + (j - 1) * u + 1, p + j * u), After(k, j - 1)))
             = Crypted(u, k, mem, p, j, q)
  <1>1. PICK f : f = Crypted(u, k, mem, p, j - 1, q)
    OBVIOUS
  <1>2. IsSeq(f) /\ Len(f) = Len(mem) /\ Len(mem) \in Nat
    BY <1>1, CryptedSeq, SeqFun
  <1>3. PICK a \in Nat : a = (j - 1) * u
    OBVIOUS
  <1>4. j * u = a + u
    BY <1>3
  <1>5. \A i \in 1 .. u : f[p + a + i] = mem[p + a + i]
    <2>1. \A i \in 1 .. u : p + a + i \in 1 .. Len(mem) /\ p + a + i \notin q + 1 .. q + a
      BY <1>2, <1>4 DEF Apart
    <2>2. f = [i \in 1 .. Len(mem) |->
                 IF i \in q + 1 .. q + a
                 THEN CryptByte(mem[p + (i - q)], After(k, (i - q - 1) \div u),
                                ((i - q - 1) % u) + 1)
                 ELSE mem[i]]
      BY <1>1, <1>3 DEF Crypted
    <2> QED
      BY <2>1, <2>2
  <1>6. PICK s : s = SubSeq(f, p + a + 1, p + a + u)
    OBVIOUS
  <1>7. s = [i \in 1 .. u |-> mem[p + a + i]]
    <2>1. p + a \in Nat /\ p + a + u <= Len(f)
      BY <1>2, <1>4
    <2>2. s = [i \in 1 .. u |-> f[p + a + i]]
      BY <1>2, <1>6, <2>1, SubSeqFun
    <2> QED
      BY <2>2, <1>5
  <1>8. PICK c : c = Crypt(s, After(k, j - 1))
    OBVIOUS
  <1>9. c = [i \in 1 .. u |-> CryptByte(mem[p + a + i], After(k, j - 1), i)]
    <2>1. Len(s) = u
      <3>1. s = [i \in 1 .. u |-> s[i]] /\ u \in Nat
        BY <1>7
      <3> QED
        BY <3>1, FunSeq
    <2>2. c = [i \in 1 .. u |-> CryptByte(s[i], After(k, j - 1), i)]
      BY <1>8, <2>1, CryptFun
    <2>3. \A i \in 1 .. u : s[i] = mem[p + a + i]
      BY <1>7
    <2> QED
      BY <2>2, <2>3
  <1>10. Write(f, q + a, c) = [i \in 1 .. Len(mem) |->
                                IF i \in q + a + 1 .. q + a + u THEN c[i - (q + a)] ELSE f[i]]
    <2>1. c = [i \in 1 .. u |-> c[i]] /\ u \in Nat
      BY <1>9
    <2>2. Len(c) = u
      BY <2>1, FunSeq
    <2> QED
      BY <1>2, <2>2, WriteFun
  <1>11. ASSUME NEW i \in 1 .. Len(mem)
         PROVE  (IF i \in q + a + 1 .. q + a + u THEN c[i - (q + a)] ELSE f[i])
                 = IF i \in q + 1 .. q + (a + u)
                   THEN CryptByte(mem[p + (i - q)], After(k, (i - q - 1) \div u),
                                  ((i - q - 1) % u) + 1)
                   ELSE mem[i]
    <2>1. CASE i \in q + a + 1 .. q + a + u
      <3>1. PICK x \in 0 .. u - 1 : i = q + a + 1 + x
        BY <2>1
      <3>2. i - q - 1 = (j - 1) * u + x /\ j - 1 \in Nat
        BY <3>1, <1>3
      <3>3. (i - q - 1) \div u = j - 1 /\ (i - q - 1) % u = x
        <4>1. PICK b \in Nat : b = j - 1
          BY <3>2
        <4>2. (b * u + x) \div u = b /\ (b * u + x) % u = x
          BY Divides
        <4> QED
          BY <3>2, <4>1, <4>2
      <3>4. c[i - (q + a)] = CryptByte(mem[p + (i - q)], After(k, j - 1), x + 1)
        <4>1. i - (q + a) = x + 1 /\ x + 1 \in 1 .. u /\ p + a + (x + 1) = p + (i - q)
          BY <3>1
        <4> QED
          BY <1>9, <4>1
      <3>5. i \in q + 1 .. q + (a + u)
        BY <2>1
      <3> QED
        BY <2>1, <3>3, <3>4, <3>5
    <2>2. CASE i \notin q + a + 1 .. q + a + u
      <3>1. i \in q + 1 .. q + (a + u) <=> i \in q + 1 .. q + a
        BY <2>2
      <3>2. f[i] = IF i \in q + 1 .. q + a
                   THEN CryptByte(mem[p + (i - q)], After(k, (i - q - 1) \div u),
                                  ((i - q - 1) % u) + 1)
                   ELSE mem[i]
        BY <1>1, <1>3 DEF Crypted
      <3> QED
        BY <2>2, <3>1, <3>2
    <2> QED
      BY <2>1, <2>2
  <1>12. Write(f, q + a, c) = Crypted(u, k, mem, p, j, q)
    BY <1>4, <1>10, <1>11 DEF Crypted
  <1>13. p + a + u = p + j * u
    BY <1>4
  <1> QED
    BY <1>1, <1>3, <1>6, <1>8, <1>12, <1>13

\* The loop of CryptBlocks, in closed form: a least block where it went wrong
\* would be one after a block where it went right.
LEMMA CryptBlocksIs ==
  ASSUME NEW mem, IsSeq(mem), NEW u \in Nat \ {0}, NEW k, NEW p \in Nat, NEW q \in Nat,
         NEW n \in Nat, p + n * u <= Len(mem), q + n * u <= Len(mem), Apart(p, q, n * u)
  PROVE  CryptBlocks(u, k, mem, p, n, q) = Crypted(u, k, mem, p, n, q)
  <1> DEFINE F(j) == Crypted(u, k, mem, p, j, q)
             Block(s, j) == Write(s, q + (j - 1) * u,
                                  Crypt(SubSeq(s, p + (j - 1) * u + 1, p + j * u),
                                        After(k, j - 1)))
             Rec(f) == [j \in 0 .. n |-> IF j = 0 THEN mem ELSE Block(f[j - 1], j)]
             after == CHOOSE f : f = Rec(f)
  <1>1. CryptBlocks(u, k, mem, p, n, q) = after[n]
    BY DEF CryptBlocks
  <1>2. F(0) = mem
    <2>1. 0 * u = 0 /\ \A i \in 1 .. Len(mem) : i \notin q + 1 .. q + 0
      BY SeqFun
    <2>2. mem = [i \in 1 .. Len(mem) |-> mem[i]]
      BY SeqFun
    <2> QED
      BY <2>1, <2>2 DEF Crypted
  <1>3. ASSUME NEW j \in 1 .. n PROVE Block(F(j - 1), j) = F(j)
    <2>1. PICK z \in Nat : z = n * u
      OBVIOUS
    <2>2. j * u <= z /\ j \in Nat \ {0}
      <3>1. PICK m \in Nat : n = j + m
        <4>1. n - j \in Nat /\ n = j + (n - j)
          OBVIOUS
        <4> QED
          BY <4>1
      <3>2. n * u = j * u + m * u /\ m * u \in Nat /\ j * u \in Nat
        BY <3>1
      <3> QED
        BY <2>1, <3>2
    <2> QED
      BY <2>1, <2>2, CryptStep
  <1> HIDE DEF F, Block
  <1>4. PICK g : g = [j \in 0 .. n |-> F(j)]
    OBVIOUS
  <1>5. g = Rec(g)
    <2>1. ASSUME NEW j \in 0 .. n
          PROVE  F(j) = IF j = 0 THEN mem ELSE Block(g[j - 1], j)
      <3>1. CASE j = 0
        BY <1>2, <3>1
      <3>2. CASE j # 0
        <4>1. j \in 1 .. n /\ j - 1 \in 0 .. n
          BY <3>2
        <4> QED
          BY <1>3, <1>4, <3>2, <4>1
      <3> QED
        BY <3>1, <3>2
    <2> QED
      BY <1>4, <2>1
  <1>6. after = Rec(after)
    BY <1>5
  <1> HIDE DEF after
  <1>7. after[0] = mem /\ \A j \in 1 .. n : after[j] = Block(after[j - 1], j)
    <2>1. \A j \in 0 .. n : after[j] = IF j = 0 THEN mem ELSE Block(after[j - 1], j)
      BY <1>6
    <2> QED
      BY <2>1
  <1>8. \A j \in 0 .. n : after[j] = F(j)
    <2> DEFINE Bad == {j \in 0 .. n : after[j] # F(j)}
    <2> SUFFICES ASSUME Bad # {} PROVE FALSE
      OBVIOUS
    <2>1. Bad \in SUBSET Nat
      OBVIOUS
    <2>2. PICK j \in Bad : \A i \in Bad : j <= i
      BY <2>1, LeastNumber
    <2>3. j \in 1 .. n /\ j - 1 \in 0 .. n
      BY <1>2, <1>7
    <2>4. after[j - 1] = F(j - 1)
      BY <2>2, <2>3
    <2> QED
      BY <1>3, <1>7, <2>3, <2>4
  <1> QED
    BY <1>1, <1>8 DEF F

-----------------------------------------------------------------------------
(* Chaining values and the number of blocks.                               *)

\* Counters are numbers.
LEMMA FirstNat == FirstChain(mode) \in Nat /\ CtrMod \in Nat \ {0}
  <1>1. CtrMod \in Nat \ {0}
    BY StreamAssumption
  <1>2. 2 % CtrMod \in Nat
    BY <1>1, Division
  <1> QED
    BY <1>1, <1>2 DEF FirstChain

\* The chaining value k blocks into the stream.
Chain(k) == After(FirstChain(mode), k)

\* The chaining value of the first block, and of one n blocks later.
LEMMA ChainFirst == Chain(0) = FirstChain(mode)
  <1>1. CASE mode \in {"ctr32", "gcm_enc", "gcm_dec"}
    <2>1. PICK a \in Nat : a = IF mode \in {"gcm_enc", "gcm_dec"} THEN 2 ELSE 0
      OBVIOUS
    <2>2. FirstChain(mode) = a % CtrMod
      <3>1. 0 * CtrMod = 0 /\ 0 \in 0 .. CtrMod - 1 /\ 0 * CtrMod + 0 = 0
        BY FirstNat
      <3>2. 0 % CtrMod = 0
        BY <3>1, Divides, FirstNat
      <3> QED
        BY <2>1, <3>2 DEF FirstChain
    <2>3. ((a % CtrMod) + 0) % CtrMod = (a + 0) % CtrMod
      BY ModAdd, FirstNat
    <2>4. a + 0 = a
      OBVIOUS
    <2> QED
      BY <1>1, <2>2, <2>3, <2>4 DEF Chain, After
  <1>2. CASE mode \notin {"ctr32", "gcm_enc", "gcm_dec"}
    BY <1>2, FirstNat DEF Chain, After
  <1> QED
    BY <1>1, <1>2

LEMMA ChainAfter == ASSUME NEW k \in Nat, NEW n \in Nat PROVE After(Chain(k), n) = Chain(k + n)
  <1>1. PICK f \in Nat : f = FirstChain(mode)
    BY FirstNat
  <1>2. CASE mode \in {"ctr32", "gcm_enc", "gcm_dec"}
    <2>1. (((f + k) % CtrMod) + n) % CtrMod = (f + k + n) % CtrMod
      <3>1. f + k \in Nat
        OBVIOUS
      <3> QED
        BY <3>1, ModAdd, FirstNat
    <2>2. f + k + n = f + (k + n)
      OBVIOUS
    <2> QED
      BY <1>1, <1>2, <2>1, <2>2 DEF Chain, After
  <1>3. CASE mode \notin {"ctr32", "gcm_enc", "gcm_dec"}
    <2>1. (f + k) + n = f + (k + n)
      OBVIOUS
    <2> QED
      BY <1>1, <1>3, <2>1 DEF Chain, After
  <1> QED
    BY <1>2, <1>3

\* k blocks of u bytes are out when d bytes are known, one being held back with
\* h = 1.
Counts(u, h, d, k) == /\ k \in Nat /\ k * u <= d
                      /\ d < k * u + u + h
                      /\ d > 0 => k * u + h <= d

\* What becomes of byte i of the stream.
Cell(u, i) == [byte |-> i, by |-> <<<<Chain((i - 1) \div u), ((i - 1) % u) + 1>>>>]

Bytes(x, n) == [i \in 1 .. n |-> Byte(x + i)]

\* A run of bytes is a sequence.
LEMMA BytesSeq == ASSUME NEW x, NEW n \in Nat
                  PROVE  IsSeq(Bytes(x, n)) /\ Len(Bytes(x, n)) = n
  <1>1. PICK s : s = Bytes(x, n)
    OBVIOUS
  <1>2. s = [i \in 1 .. n |-> s[i]]
    BY <1>1 DEF Bytes
  <1> QED
    BY <1>1, <1>2, FunSeq

\* Byte r of block b, and its place in the stream.
LEMMA CellIs ==
  ASSUME NEW u \in Nat \ {0}, NEW b \in Nat, NEW r \in 0 .. u - 1,
         NEW y \in Nat, y = b * u + r + 1
  PROVE  Cell(u, y) = CryptByte(Byte(y), Chain(b), r + 1)
  <1>1. y - 1 = b * u + r
    BY b * u \in Nat
  <1>2. (y - 1) \div u = b /\ (y - 1) % u = r
    BY <1>1, Divides
  <1>3. Append(Byte(y).by, <<Chain(b), r + 1>>) = <<<<Chain(b), r + 1>>>>
    BY DEF Byte
  <1>4. Byte(y).byte = y
    BY DEF Byte
  <1> QED
    BY <1>2, <1>3, <1>4 DEF CryptByte, Cell

-----------------------------------------------------------------------------
(* Update.                                                                 *)

\* Memory after n blocks of the stream from byte x on were put at q.
PutOut(u, mem2, mem, q, x, z) ==
    /\ IsSeq(mem2) /\ Len(mem2) = Len(mem)
    /\ \A i \in 1 .. z : mem2[q + i] = Cell(u, x + i)
    /\ \A i \in 1 .. Len(mem) : i \notin q + 1 .. q + z => mem2[i] = mem[i]

BlocksIn(u, h, l) == IF l > 0 THEN (l - h) \div u ELSE 0

WholeOut(u, h, k, x, mem, p, q, l, n, mem2) ==
    /\ n \in Nat /\ n * u \in 0 .. l
    /\ Counts(u, h, x + l, k + n) /\ (k + n) * u = x + n * u
    /\ PutOut(u, mem2, mem, q, x, n * u)
    /\ SubSeq(mem2, p + n * u + 1, p + l) = Bytes(x + n * u, l - n * u)

\* The whole blocks of a call.
LEMMA WholeBlocks ==
  ASSUME NEW u \in Nat \ {0}, NEW h \in {0, 1}, NEW k \in Nat, NEW x \in Nat, x = k * u,
         NEW mem, IsSeq(mem), NEW p \in Nat, NEW q \in Nat, NEW l \in Nat,
         p + l <= Len(mem), q + l <= Len(mem), Apart(p, q, l),
         \A i \in 1 .. l : mem[p + i] = Byte(x + i),
         h = 1 => l > 0 \/ x = 0,
         NEW n, n = BlocksIn(u, h, l),
         NEW mem2, mem2 = CryptBlocks(u, Chain(k), mem, p, n, q)
  PROVE  WholeOut(u, h, k, x, mem, p, q, l, n, mem2)
  <1>1. n \in Nat /\ n * u \in 0 .. l /\ l < n * u + u + h /\ (l > 0 => n * u + h <= l)
    <2>1. CASE l = 0
      <3>1. n = 0 /\ 0 * u = 0
        BY <2>1 DEF BlocksIn
      <3> QED
        BY <2>1, <3>1
    <2>2. CASE l > 0
      <3>1. PICK a \in Nat : a = l - h
        BY <2>2
      <3>2. PICK d \in Nat, r \in 0 .. u - 1 : a \div u = d /\ a % u = r /\ a = d * u + r
        BY Division
      <3>3. n = d /\ d * u \in Nat
        BY <2>2, <3>1, <3>2 DEF BlocksIn
      <3>4. PICK y \in Nat : y = d * u
        BY <3>3
      <3>5. a = y + r
        BY <3>2, <3>4
      <3>6. y \in 0 .. l /\ l < y + u + h /\ y + h <= l
        BY <3>1, <3>5
      <3> QED
        BY <3>3, <3>4, <3>6
    <2> QED
      BY <2>1, <2>2
  <1>2. PICK z \in 0 .. l : z = n * u
    BY <1>1
  <1>3. (k + n) * u = x + z
    BY <1>1, <1>2
  <1>4. Counts(u, h, x + l, k + n)
    <2>1. PICK j \in Nat : j = k + n
      BY <1>1
    <2>2. j * u = x + z
      BY <1>3, <2>1
    <2>3. z <= l /\ l < z + u + h /\ (l > 0 => z + h <= l)
      BY <1>1, <1>2
    <2>4. x + z <= x + l /\ x + l < x + z + u + h
      BY <2>3
    <2>5. x + l > 0 => x + z + h <= x + l
      BY <2>3
    <2> QED
      BY <2>1, <2>2, <2>4, <2>5 DEF Counts
  <1>5. mem2 = Crypted(u, Chain(k), mem, p, n, q)
    <2>1. p + z <= Len(mem) /\ q + z <= Len(mem) /\ Apart(p, q, z)
      BY SeqFun DEF Apart
    <2>2. PICK m \in Nat : m = n
      BY <1>1
    <2>3. p + m * u <= Len(mem) /\ q + m * u <= Len(mem) /\ Apart(p, q, m * u)
      BY <1>2, <2>1, <2>2
    <2>4. CryptBlocks(u, Chain(k), mem, p, m, q) = Crypted(u, Chain(k), mem, p, m, q)
      BY <2>3, CryptBlocksIs
    <2> QED
      BY <2>2, <2>4
  <1>6. IsSeq(mem2) /\ Len(mem2) = Len(mem) /\ Len(mem) \in Nat
    BY <1>5, CryptedSeq, SeqFun
  <1>7. \A i \in 1 .. Len(mem) :
            mem2[i] = IF i \in q + 1 .. q + z
                      THEN CryptByte(mem[p + (i - q)], After(Chain(k), (i - q - 1) \div u),
                                     ((i - q - 1) % u) + 1)
                      ELSE mem[i]
    BY <1>2, <1>5 DEF Crypted
  <1>8. ASSUME NEW i \in 1 .. z PROVE mem2[q + i] = Cell(u, x + i)
    <2>1. q + i \in 1 .. Len(mem) /\ q + i \in q + 1 .. q + z /\ (q + i) - q = i
          /\ (q + i) - q - 1 = i - 1 /\ i \in 1 .. l /\ i \in Nat \ {0}
      BY <1>6
    <2>2. mem2[q + i] = CryptByte(mem[p + i], After(Chain(k), (i - 1) \div u),
                                  ((i - 1) % u) + 1)
      BY <1>7, <2>1
    <2>3. mem[p + i] = Byte(x + i)
      BY <2>1
    <2>4. PICK a \in Nat, y \in Nat : a = i - 1 /\ y = x + i
      OBVIOUS
    <2>5. PICK d \in Nat, r \in 0 .. u - 1 : a \div u = d /\ a % u = r /\ a = d * u + r
      BY Division
    <2>6. PICK b \in Nat : b = k + d
      OBVIOUS
    <2>7. y = b * u + r + 1
      <3>1. b * u = k * u + d * u /\ k * u \in Nat /\ d * u \in Nat
        BY <2>6
      <3> QED
        BY <2>4, <2>5, <3>1
    <2>8. Cell(u, y) = CryptByte(Byte(y), Chain(b), r + 1)
      BY <2>7, CellIs
    <2>9. After(Chain(k), d) = Chain(b)
      BY <2>6, ChainAfter
    <2>10. mem2[q + i] = CryptByte(Byte(y), Chain(b), r + 1)
      BY <2>2, <2>3, <2>4, <2>5, <2>9
    <2> QED
      BY <2>4, <2>8, <2>10
  <1>9. \A i \in 1 .. Len(mem) : i \notin q + 1 .. q + z => mem2[i] = mem[i]
    BY <1>7
  <1>10. SubSeq(mem2, p + z + 1, p + l) = Bytes(x + z, l - z)
    <2>1. PICK m, a \in Nat : m = l - z /\ a = p + z
      OBVIOUS
    <2>2. a + m = p + l /\ a + m <= Len(mem2)
      BY <1>6, <2>1
    <2>3. SubSeq(mem2, a + 1, a + m) = [i \in 1 .. m |-> mem2[a + i]]
      BY <1>6, <2>2, SubSeqFun
    <2>4. ASSUME NEW i \in 1 .. m PROVE mem2[a + i] = Byte(x + z + i)
      <3>1. a + i \in 1 .. Len(mem) /\ a + i \notin q + 1 .. q + z
        BY <1>6, <2>1, <2>2 DEF Apart
      <3>2. z + i \in 1 .. l /\ a + i = p + (z + i) /\ x + z + i = x + (z + i)
        BY <2>1
      <3>3. mem2[a + i] = mem[p + (z + i)]
        BY <1>9, <3>1, <3>2
      <3> QED
        BY <3>2, <3>3
    <2> QED
      BY <2>1, <2>2, <2>3, <2>4 DEF Bytes
  <1> QED
    BY <1>1, <1>2, <1>3, <1>4, <1>6, <1>8, <1>9, <1>10 DEF PutOut, WholeOut

\* A context after d bytes, k blocks of which are out.
Ctx(c, u, k, d) == [block |-> Bytes(k * u, d - k * u), iv |-> Chain(k),
                    mac |-> c.mac, maced |-> c.maced, encedlen |-> c.encedlen]

IsCtx(c) == c = [block |-> c.block, iv |-> c.iv, mac |-> c.mac, maced |-> c.maced,
                 encedlen |-> c.encedlen]

\* A context is a record of its fields, and so is one with fields replaced.
LEMMA CtxIs ==
  ASSUME NEW c, NEW u, NEW k, NEW d, c = Ctx(c, u, k, d)
  PROVE  IsCtx(c) /\ c.block = Bytes(k * u, d - k * u) /\ c.iv = Chain(k)
  <1>1. PICK b : b = Bytes(k * u, d - k * u)
    OBVIOUS
  <1>2. c = [block |-> b, iv |-> Chain(k), mac |-> c.mac, maced |-> c.maced,
             encedlen |-> c.encedlen]
    BY <1>1 DEF Ctx
  <1>3. c.block = b /\ c.iv = Chain(k)
    BY <1>2
  <1> QED
    BY <1>1, <1>2, <1>3 DEF IsCtx

LEMMA SetCtx ==
  ASSUME NEW c, IsCtx(c), NEW b, NEW v
  PROVE  /\ [c EXCEPT !.block = b, !.iv = v] =
                [block |-> b, iv |-> v, mac |-> c.mac, maced |-> c.maced,
                 encedlen |-> c.encedlen]
         /\ [c EXCEPT !.block = b] =
                [block |-> b, iv |-> c.iv, mac |-> c.mac, maced |-> c.maced,
                 encedlen |-> c.encedlen]
  <1>1. PICK e : e = [c EXCEPT !.block = b]
    OBVIOUS
  <1>2. e = [block |-> b, iv |-> c.iv, mac |-> c.mac, maced |-> c.maced,
             encedlen |-> c.encedlen]
    BY <1>1 DEF IsCtx
  <1>3. [e EXCEPT !.iv = v] = [block |-> b, iv |-> v, mac |-> c.mac, maced |-> c.maced,
                               encedlen |-> c.encedlen]
    BY <1>2
  <1>4. [c EXCEPT !.block = b, !.iv = v] = [[c EXCEPT !.block = b] EXCEPT !.iv = v]
    OBVIOUS
  <1> QED
    BY <1>1, <1>2, <1>3, <1>4

\* What an update may do.
Updated(r, u, h, c, mem, q, k, d, len) ==
    \E k2 \in Nat :
        /\ Counts(u, h, d + len, k2) /\ k * u <= k2 * u
        /\ r = [ctx |-> Ctx(c, u, k2, d + len), mem |-> r.mem, outlen |-> k2 * u - k * u]
        /\ PutOut(u, r.mem, mem, q, k * u, k2 * u - k * u)

IsBytes(s, x, n) == s = Bytes(x, n)

\* Appending what follows.
LEMMA BytesConcat ==
  ASSUME NEW x \in Nat, NEW n \in Nat, NEW m \in Nat, NEW y \in Nat, NEW z \in Nat,
         y = x + n, z = n + m
  PROVE  IsBytes(Bytes(x, n) \o Bytes(y, m), x, z)
  <1>1. PICK s : s = Bytes(x, n)
    OBVIOUS
  <1>2. PICK t : t = Bytes(y, m)
    OBVIOUS
  <1>3. IsSeq(s) /\ IsSeq(t) /\ Len(s) = n /\ Len(t) = m
    BY <1>1, <1>2, BytesSeq
  <1>4. s \o t = [i \in 1 .. z |-> IF i <= n THEN s[i] ELSE t[i - n]]
    <2>1. s \o t = [i \in 1 .. Len(s) + Len(t) |->
                        IF i <= Len(s) THEN s[i] ELSE t[i - Len(s)]]
      BY <1>3, ConcatFun
    <2> QED
      BY <1>3, <2>1
  <1>5. ASSUME NEW i \in 1 .. z PROVE (IF i <= n THEN s[i] ELSE t[i - n]) = Byte(x + i)
    <2>1. CASE i <= n
      BY <1>1, <2>1 DEF Bytes
    <2>2. CASE i > n
      <3>1. i - n \in 1 .. m /\ y + (i - n) = x + i
        BY <2>2
      <3> QED
        BY <1>2, <2>2, <3>1 DEF Bytes
    <2> QED
      BY <2>1, <2>2
  <1> QED
    BY <1>1, <1>2, <1>4, <1>5 DEF Bytes, IsBytes

\* A run of bytes, cut from memory.
LEMMA BytesIn ==
  ASSUME NEW mem, IsSeq(mem), NEW p \in Nat, NEW x \in Nat, NEW n \in Nat, p + n <= Len(mem),
         \A i \in 1 .. n : mem[p + i] = Byte(x + i)
  PROVE  IsBytes(SubSeq(mem, p + 1, p + n), x, n)
  <1>1. SubSeq(mem, p + 1, p + n) = [i \in 1 .. n |-> mem[p + i]]
    BY SubSeqFun
  <1> QED
    BY <1>1 DEF Bytes, IsBytes

\* The call that only adds to the block.
LEMMA UpdateKeeps ==
  ASSUME NEW u \in Nat \ {0}, NEW h \in {0, 1}, NEW k \in Nat, NEW d \in Nat,
         Counts(u, h, d, k), NEW c, c = Ctx(c, u, k, d),
         NEW mem, IsSeq(mem), NEW p \in Nat, NEW q \in Nat, NEW len \in Nat,
         p + len <= Len(mem), \A i \in 1 .. len : mem[p + i] = Byte(d + i),
         Len(c.block) > 0, len < u - Len(c.block) + h
  PROVE  Updated(UpdateBlocks(u, h, c, mem, p, len, q), u, h, c, mem, q, k, d, len)
  <1>1. PICK x \in Nat : x = k * u
    OBVIOUS
  <1>2. PICK nb \in Nat : nb = d - x
    BY <1>1 DEF Counts
  <1>3. c.block = Bytes(x, nb) /\ c.iv = Chain(k) /\ Len(c.block) = nb
    BY <1>1, <1>2, BytesSeq DEF Ctx
  <1>4. SubSeq(mem, p + 1, p + len) = Bytes(d, len)
    <2>1. IsBytes(SubSeq(mem, p + 1, p + len), d, len)
      BY BytesIn
    <2> QED
      BY <2>1 DEF IsBytes
  <1>5. PICK b : b = c.block \o SubSeq(mem, p + 1, p + len)
    OBVIOUS
  <1>51. b = Bytes(x, (d + len) - x)
    <2>1. PICK z \in Nat : z = nb + len
      OBVIOUS
    <2>2. d = x + nb /\ z = (d + len) - x
      BY <1>2, <2>1
    <2>3. IsBytes(Bytes(x, nb) \o Bytes(d, len), x, z)
      BY <2>1, <2>2, BytesConcat
    <2> QED
      BY <1>3, <1>4, <1>5, <2>2, <2>3 DEF IsBytes
  <1>6. UpdateBlocks(u, h, c, mem, p, len, q) =
            [ctx |-> [c EXCEPT !.block = @ \o SubSeq(mem, p + 1, p + len)],
             mem |-> mem, outlen |-> 0]
    BY DEF UpdateBlocks, UpdateWith
  <1>7. [c EXCEPT !.block = b] = Ctx(c, u, k, d + len)
    <2>1. [c EXCEPT !.block = b] = [block |-> b, iv |-> c.iv, mac |-> c.mac,
                                    maced |-> c.maced, encedlen |-> c.encedlen]
      BY CtxIs, SetCtx
    <2>2. PICK w : w = (d + len) - x
      OBVIOUS
    <2>3. Ctx(c, u, k, d + len) = [block |-> Bytes(x, w), iv |-> Chain(k), mac |-> c.mac,
                                   maced |-> c.maced, encedlen |-> c.encedlen]
      BY <1>1, <2>2 DEF Ctx
    <2> QED
      BY <1>3, <1>51, <2>1, <2>2, <2>3
  <1>8. PICK r : r = UpdateBlocks(u, h, c, mem, p, len, q)
    OBVIOUS
  <1>9. r = [ctx |-> Ctx(c, u, k, d + len), mem |-> mem, outlen |-> 0]
    BY <1>5, <1>6, <1>7, <1>8
  <1>10. Counts(u, h, d + len, k)
    BY <1>1, <1>2, <1>3 DEF Counts
  <1>11. PutOut(u, mem, mem, q, x, 0)
    BY DEF PutOut
  <1>12. k * u - k * u = 0 /\ k * u <= k * u
    OBVIOUS
  <1>13. r.mem = mem
    BY <1>9
  <1>14. Updated(r, u, h, c, mem, q, k, d, len)
    BY <1>1, <1>9, <1>10, <1>11, <1>12, <1>13 DEF Updated
  <1> QED
    BY <1>8, <1>14

\* The call that finds no rest of a block.
LEMMA UpdateWhole ==
  ASSUME NEW u \in Nat \ {0}, NEW h \in {0, 1}, NEW k \in Nat, NEW d \in Nat,
         Counts(u, h, d, k), NEW c, c = Ctx(c, u, k, d),
         NEW mem, IsSeq(mem), NEW p \in Nat, NEW q \in Nat, NEW len \in Nat,
         p + len <= Len(mem), \A i \in 1 .. len : mem[p + i] = Byte(d + i),
         Len(c.block) = 0, q + len <= Len(mem), Apart(p, q, len)
  PROVE  Updated(UpdateBlocks(u, h, c, mem, p, len, q), u, h, c, mem, q, k, d, len)
  <1>1. PICK x \in Nat : x = k * u
    OBVIOUS
  <1>2. c.iv = Chain(k) /\ IsCtx(c) /\ d = x
    <2>1. d - x \in Nat
      BY <1>1 DEF Counts
    <2>2. c.block = Bytes(x, d - x) /\ c.iv = Chain(k) /\ IsCtx(c)
      BY <1>1, CtxIs
    <2>3. d - x = 0
      BY <2>1, <2>2, BytesSeq
    <2> QED
      BY <2>2, <2>3
  <1>3. h = 1 => len > 0 \/ x = 0
    BY <1>1, <1>2 DEF Counts
  <1>4. PICK n : n = BlocksIn(u, h, len)
    OBVIOUS
  <1>5. PICK mem2 : mem2 = CryptBlocks(u, Chain(k), mem, p, n, q)
    OBVIOUS
  <1>6. /\ n \in Nat /\ n * u \in 0 .. len
        /\ Counts(u, h, x + len, k + n) /\ (k + n) * u = x + n * u
        /\ PutOut(u, mem2, mem, q, x, n * u)
        /\ SubSeq(mem2, p + n * u + 1, p + len) = Bytes(x + n * u, len - n * u)
    <2>1. WholeOut(u, h, k, x, mem, p, q, len, n, mem2)
      BY <1>1, <1>2, <1>3, <1>4, <1>5, WholeBlocks
    <2> QED
      BY <2>1 DEF WholeOut
  <1>7. After(c.iv, 0) = Chain(k) /\ After(c.iv, n) = Chain(k + n)
    <2>1. k + 0 = k /\ After(Chain(k), 0) = Chain(k + 0)
      BY ChainAfter
    <2>2. After(Chain(k), n) = Chain(k + n)
      BY <1>6, ChainAfter
    <2> QED
      BY <1>2, <2>1, <2>2
  <1>8. PICK r : r = UpdateBlocks(u, h, c, mem, p, len, q)
    OBVIOUS
  <1>9. r = [ctx |-> [c EXCEPT !.block = SubSeq(mem2, p + n * u + 1, p + len),
                               !.iv = After(@, n)],
             mem |-> mem2, outlen |-> n * u]
    <2>1. len - 0 - h = len - h /\ p + 0 = p /\ 0 * u = 0 /\ q + 0 = q /\ 0 + n = n
      BY <1>6
    <2>2. ~(Len(c.block) > 0)
      OBVIOUS
    <2> QED
      BY <1>4, <1>5, <1>7, <1>8, <2>1, <2>2 DEF UpdateBlocks, UpdateWith, BlocksIn
  <1>10. [c EXCEPT !.block = SubSeq(mem2, p + n * u + 1, p + len), !.iv = After(@, n)]
            = [block |-> Bytes(x + n * u, len - n * u), iv |-> Chain(k + n), mac |-> c.mac,
               maced |-> c.maced, encedlen |-> c.encedlen]
    <2>1. PICK b : b = SubSeq(mem2, p + n * u + 1, p + len)
      OBVIOUS
    <2>2. [c EXCEPT !.block = b, !.iv = Chain(k + n)]
            = [block |-> b, iv |-> Chain(k + n), mac |-> c.mac, maced |-> c.maced,
               encedlen |-> c.encedlen]
      BY <1>2, SetCtx
    <2> QED
      BY <1>6, <1>7, <2>1, <2>2
  <1>11. PICK k2 \in Nat : k2 = k + n
    BY <1>6
  <1>12. k2 * u = x + n * u /\ k2 * u - k * u = n * u /\ k * u <= k2 * u
         /\ (d + len) - k2 * u = len - n * u
    BY <1>1, <1>2, <1>6, <1>11
  <1>13. r = [ctx |-> Ctx(c, u, k2, d + len), mem |-> mem2, outlen |-> k2 * u - k * u]
    BY <1>9, <1>10, <1>11, <1>12 DEF Ctx
  <1>14. r.mem = mem2
    BY <1>13
  <1>15. PutOut(u, mem2, mem, q, k * u, k2 * u - k * u)
    BY <1>1, <1>6, <1>12
  <1>16. Counts(u, h, d + len, k2)
    BY <1>2, <1>6, <1>11
  <1>17. Updated(r, u, h, c, mem, q, k, d, len)
    BY <1>12, <1>13, <1>14, <1>15, <1>16 DEF Updated
  <1> QED
    BY <1>8, <1>17

\* Blocks put out after blocks.
LEMMA PutOutMore ==
  ASSUME NEW u, NEW mem, NEW mem1, NEW mem2, NEW q \in Nat, NEW x \in Nat, NEW y \in Nat,
         NEW z \in Nat, q + y <= Len(mem), Len(mem) \in Nat,
         NEW q1 \in Nat, NEW x1 \in Nat, NEW w \in Nat, q1 = q + y, x1 = x + y, w = y + z,
         PutOut(u, mem1, mem, q, x, y), PutOut(u, mem2, mem1, q1, x1, z)
  PROVE  PutOut(u, mem2, mem, q, x, w)
  <1>1. Len(mem1) = Len(mem) /\ Len(mem2) = Len(mem) /\ IsSeq(mem2)
    BY DEF PutOut
  <1>2. ASSUME NEW i \in 1 .. w PROVE mem2[q + i] = Cell(u, x + i)
    <2>1. CASE i <= y
      <3>1. q + i \in 1 .. Len(mem1) /\ q + i \notin q1 + 1 .. q1 + z /\ i \in 1 .. y
        BY <1>1, <2>1
      <3> QED
        BY <3>1 DEF PutOut
    <2>2. CASE i > y
      <3>1. PICK j \in 1 .. z : i = y + j
        <4>1. i - y \in 1 .. z /\ i = y + (i - y)
          BY <2>2
        <4> QED
          BY <4>1
      <3>2. mem2[q1 + j] = Cell(u, x1 + j)
        BY DEF PutOut
      <3>3. q1 + j = q + i /\ x1 + j = x + i
        BY <3>1
      <3> QED
        BY <3>2, <3>3
    <2> QED
      BY <2>1, <2>2
  <1>3. ASSUME NEW i \in 1 .. Len(mem), i \notin q + 1 .. q + w PROVE mem2[i] = mem[i]
    <2>1. i \notin q + 1 .. q + y /\ i \notin q1 + 1 .. q1 + z
      BY <1>3
    <2> QED
      BY <1>1, <2>1 DEF PutOut
  <1> QED
    BY <1>1, <1>2, <1>3 DEF PutOut

\* One block from memory that holds its bytes.
LEMMA OneBlock ==
  ASSUME NEW u \in Nat \ {0}, NEW k \in Nat, NEW x \in Nat, x = k * u,
         NEW mem, IsSeq(mem), NEW q \in Nat, q + u <= Len(mem)
  PROVE  PutOut(u, Write(mem, q, Crypt(Bytes(x, u), Chain(k))), mem, q, x, u)
  <1>1. PICK c : c = Crypt(Bytes(x, u), Chain(k))
    OBVIOUS
  <1>2. PICK s : s = Bytes(x, u)
    OBVIOUS
  <1>3. Len(s) = u /\ \A i \in 1 .. u : s[i] = Byte(x + i)
    <2>1. u \in Nat
      OBVIOUS
    <2> QED
      BY <1>2, <2>1, BytesSeq DEF Bytes
  <1>4. c = [i \in 1 .. Len(s) |-> CryptByte(s[i], Chain(k), i)]
    BY <1>1, <1>2, CryptFun
  <1>5. ASSUME NEW i \in 1 .. u PROVE c[i] = Cell(u, x + i)
    <2>1. PICK r \in 0 .. u - 1, y \in Nat : i = r + 1 /\ y = x + i
      <3>1. i - 1 \in 0 .. u - 1 /\ i = (i - 1) + 1 /\ x + i \in Nat
        OBVIOUS
      <3> QED
        BY <3>1
    <2>2. y = k * u + r + 1
      BY <2>1
    <2>3. Cell(u, y) = CryptByte(Byte(y), Chain(k), r + 1)
      BY <2>2, CellIs
    <2>4. c[i] = CryptByte(Byte(x + i), Chain(k), i)
      BY <1>3, <1>4
    <2> QED
      BY <2>1, <2>3, <2>4
  <1>6. c = [i \in 1 .. u |-> c[i]]
    BY <1>3, <1>4
  <1>7. Len(c) = u
    BY <1>6, FunSeq, u \in Nat
  <1>8. PICK w : w = Write(mem, q, c)
    OBVIOUS
  <1>9. /\ IsSeq(w) /\ Len(w) = Len(mem) /\ Len(mem) \in Nat
        /\ w = [i \in 1 .. Len(mem) |->
                  IF i \in q + 1 .. q + Len(c) THEN c[i - q] ELSE mem[i]]
    BY <1>8, WriteFun, SeqFun
  <1>10. ASSUME NEW i \in 1 .. u PROVE w[q + i] = Cell(u, x + i)
    <2>1. q + i \in 1 .. Len(mem) /\ q + i \in q + 1 .. q + u /\ (q + i) - q = i
      BY <1>9
    <2>2. w[q + i] = c[i]
      BY <1>7, <1>9, <2>1
    <2> QED
      BY <1>5, <2>2
  <1>11. \A i \in 1 .. Len(mem) : i \notin q + 1 .. q + u => w[i] = mem[i]
    BY <1>7, <1>9
  <1>12. PutOut(u, w, mem, q, x, u)
    BY <1>9, <1>10, <1>11 DEF PutOut
  <1> QED
    BY <1>1, <1>8, <1>12

\* The call that fills the block, and may go on.
LEMMA UpdateFills ==
  ASSUME NEW u \in Nat \ {0}, NEW h \in {0, 1}, NEW k \in Nat, NEW d \in Nat,
         Counts(u, h, d, k), NEW c, c = Ctx(c, u, k, d),
         NEW mem, IsSeq(mem), NEW p \in Nat, NEW q \in Nat, NEW len \in Nat,
         p + len <= Len(mem), \A i \in 1 .. len : mem[p + i] = Byte(d + i),
         Len(c.block) > 0, len >= u - Len(c.block) + h,
         q + Len(c.block) + len <= Len(mem),
         p + len <= q \/ q + Len(c.block) + len <= p
  PROVE  Updated(UpdateBlocks(u, h, c, mem, p, len, q), u, h, c, mem, q, k, d, len)
  <1>1. PICK x \in Nat : x = k * u
    OBVIOUS
  <1>2. PICK nb \in Nat : nb = d - x
    BY <1>1 DEF Counts
  <1>3. c.block = Bytes(x, nb) /\ c.iv = Chain(k) /\ IsCtx(c) /\ Len(c.block) = nb
    <2>1. c.block = Bytes(x, nb) /\ c.iv = Chain(k) /\ IsCtx(c)
      BY <1>1, <1>2, CtxIs
    <2> QED
      BY <2>1, BytesSeq
  <1>4. PICK skip \in Nat : skip = u - nb
    BY <1>1, <1>2 DEF Counts
  <1>5. PICK l \in Nat : l = len - skip
    BY <1>3, <1>4
  <1>6. Len(mem) \in Nat /\ d = x + nb /\ u = nb + skip /\ len = skip + l
        /\ (h = 1 => l > 0) /\ d + len = x + u + l
    <2>1. Len(mem) \in Nat
      BY SeqFun
    <2>2. d = x + nb /\ u = nb + skip /\ len = skip + l
      BY <1>2, <1>4, <1>5
    <2>3. h = 1 => l > 0
      BY <1>3, <1>4, <1>5
    <2> QED
      BY <2>1, <2>2, <2>3
  <1>7. c.block \o SubSeq(mem, p + 1, p + skip) = Bytes(x, u)
    <2>1. IsBytes(SubSeq(mem, p + 1, p + skip), d, skip)
      <3>1. p + skip <= Len(mem) /\ \A i \in 1 .. skip : i \in 1 .. len
        BY <1>6
      <3>2. \A i \in 1 .. skip : mem[p + i] = Byte(d + i)
        BY <3>1
      <3> QED
        BY <3>1, <3>2, BytesIn
    <2>2. IsBytes(Bytes(x, nb) \o Bytes(d, skip), x, u)
      <3>1. u \in Nat
        OBVIOUS
      <3> QED
        BY <1>6, <3>1, BytesConcat
    <2> QED
      BY <1>3, <2>1, <2>2 DEF IsBytes
  <1>8. PICK mem1 : mem1 = Write(mem, q, Crypt(Bytes(x, u), Chain(k)))
    OBVIOUS
  <1>9. PutOut(u, mem1, mem, q, x, u)
    <2>1. q + u <= Len(mem)
      BY <1>3, <1>6
    <2> QED
      BY <1>1, <1>8, <2>1, OneBlock
  <1>10. IsSeq(mem1) /\ Len(mem1) = Len(mem)
    BY <1>9 DEF PutOut
  <1>11. PICK n : n = BlocksIn(u, h, l)
    OBVIOUS
  <1>12. PICK k1 \in Nat, x1 \in Nat, p1 \in Nat, q1 \in Nat :
            k1 = k + 1 /\ x1 = x + u /\ p1 = p + skip /\ q1 = q + u
    OBVIOUS
  <1>13. x1 = k1 * u
    BY <1>1, <1>12
  <1>14. PICK mem2 : mem2 = CryptBlocks(u, Chain(k1), mem1, p1, n, q1)
    OBVIOUS
  <1>15. ASSUME NEW i \in 1 .. l PROVE mem1[p1 + i] = Byte(x1 + i)
    <2>1. p1 + i \in 1 .. Len(mem) /\ p1 + i \notin q + 1 .. q + u
      BY <1>3, <1>6, <1>12
    <2>2. skip + i \in 1 .. len /\ p1 + i = p + (skip + i) /\ x1 + i = d + (skip + i)
      BY <1>6, <1>12
    <2>3. mem1[p1 + i] = mem[p + (skip + i)]
      BY <1>9, <2>1, <2>2 DEF PutOut
    <2> QED
      BY <2>2, <2>3
  <1>16. WholeOut(u, h, k1, x1, mem1, p1, q1, l, n, mem2)
    <2>1. p1 + l <= Len(mem1) /\ q1 + l <= Len(mem1) /\ Apart(p1, q1, l)
      BY <1>3, <1>6, <1>10, <1>12 DEF Apart
    <2>2. h = 1 => l > 0 \/ x1 = 0
      BY <1>6
    <2> QED
      BY <1>10, <1>11, <1>13, <1>14, <1>15, <2>1, <2>2, WholeBlocks
  <1>17. PICK z \in 0 .. l : z = n * u
    BY <1>16 DEF WholeOut
  <1>18. /\ n \in Nat /\ Counts(u, h, x1 + l, k1 + n) /\ (k1 + n) * u = x1 + z
         /\ PutOut(u, mem2, mem1, q1, x1, z)
         /\ SubSeq(mem2, p1 + z + 1, p1 + l) = Bytes(x1 + z, l - z)
    BY <1>16, <1>17 DEF WholeOut
  <1>19. PICK k2 \in Nat : k2 = k1 + n
    BY <1>18
  <1>20. k2 * u = x1 + z /\ k2 * u - k * u = u + z /\ k * u <= k2 * u /\ x1 + l = d + len
         /\ (d + len) - k2 * u = l - z /\ (1 + n) * u = u + z
    <2>1. k2 * u = x1 + z
      BY <1>18, <1>19
    <2>2. (1 + n) * u = u + n * u
      BY <1>18
    <2>3. PICK y \in Nat : y = k2 * u
      BY <1>19
    <2>4. y = x + u + z /\ y - x = u + z /\ x <= y /\ x1 + l = d + len
          /\ (d + len) - y = l - z
      BY <1>6, <1>12, <2>1, <2>3
    <2> QED
      BY <1>1, <1>12, <1>17, <2>1, <2>2, <2>3, <2>4
  <1>21. After(c.iv, 1) = Chain(k1) /\ After(c.iv, 1 + n) = Chain(k2)
    <2>1. After(Chain(k), 1) = Chain(k + 1)
      BY ChainAfter
    <2>2. PICK m \in Nat : m = 1 + n
      BY <1>18
    <2>3. After(Chain(k), m) = Chain(k + m)
      BY ChainAfter
    <2>4. k + m = k2
      BY <1>12, <1>18, <1>19, <2>2
    <2> QED
      BY <1>3, <1>12, <2>1, <2>2, <2>3, <2>4
  <1>22. PICK r : r = UpdateBlocks(u, h, c, mem, p, len, q)
    OBVIOUS
  <1>23. r = [ctx |-> [c EXCEPT !.block = SubSeq(mem2, p1 + z + 1, p1 + l),
                                !.iv = After(@, 1 + n)],
              mem |-> mem2, outlen |-> u + z]
    <2>1. /\ Len(c.block) > 0 /\ ~(len < u - Len(c.block) + h) /\ u - Len(c.block) = skip
          /\ n = IF len > skip THEN (len - skip - h) \div u ELSE 0
      <3>1. Len(c.block) > 0 /\ ~(len < u - Len(c.block) + h) /\ u - Len(c.block) = skip
        BY <1>3, <1>4
      <3>2. (len > skip <=> l > 0) /\ len - skip - h = l - h
        BY <1>5
      <3> QED
        BY <1>11, <3>1, <3>2 DEF BlocksIn
    <2>2. 1 * u = u /\ q + 1 * u = q1 /\ p + skip = p1 /\ p1 + l = p + len
          /\ p + skip + n * u + 1 = p1 + z + 1
      BY <1>5, <1>12, <1>17
    <2>3. mem1 = Write(mem, q, Crypt(c.block \o SubSeq(mem, p + 1, p + skip), c.iv))
      BY <1>3, <1>7, <1>8
    <2>4. mem2 = CryptBlocks(u, After(c.iv, 1), mem1, p + skip, n, q + 1 * u)
      BY <1>14, <1>21, <2>2
    <2>5. r = [ctx |-> [c EXCEPT !.block = SubSeq(mem2, p + skip + n * u + 1, p + len),
                                 !.iv = After(@, 1 + n)],
               mem |-> mem2, outlen |-> (1 + n) * u]
      BY <1>22, <2>1, <2>3, <2>4 DEF UpdateBlocks, UpdateWith
    <2> QED
      BY <1>20, <2>2, <2>5
  <1>24. [c EXCEPT !.block = SubSeq(mem2, p1 + z + 1, p1 + l), !.iv = After(@, 1 + n)]
            = [block |-> Bytes(x1 + z, l - z), iv |-> Chain(k2), mac |-> c.mac,
               maced |-> c.maced, encedlen |-> c.encedlen]
    <2>1. PICK b : b = SubSeq(mem2, p1 + z + 1, p1 + l)
      OBVIOUS
    <2>2. [c EXCEPT !.block = b, !.iv = Chain(k2)]
            = [block |-> b, iv |-> Chain(k2), mac |-> c.mac, maced |-> c.maced,
               encedlen |-> c.encedlen]
      BY <1>3, SetCtx
    <2> QED
      BY <1>18, <1>21, <2>1, <2>2
  <1>25. r = [ctx |-> Ctx(c, u, k2, d + len), mem |-> mem2, outlen |-> k2 * u - k * u]
    BY <1>20, <1>23, <1>24 DEF Ctx
  <1>26. r.mem = mem2
    BY <1>25
  <1>27. PutOut(u, mem2, mem, q, k * u, k2 * u - k * u)
    <2>1. q + u <= Len(mem) /\ u \in Nat
      BY <1>3, <1>6
    <2>2. PICK w \in Nat : w = u + z
      OBVIOUS
    <2>3. PutOut(u, mem2, mem, q, x, w)
      <3>1. Len(mem) \in Nat /\ q1 = q + u /\ x1 = x + u /\ z \in Nat
        BY <1>6, <1>12
      <3>2. PutOut(u, mem2, mem1, q1, x1, z)
        BY <1>18
      <3>3. PICK y \in Nat : y = u
        OBVIOUS
      <3>4. PutOut(u, mem1, mem, q, x, y) /\ q + y <= Len(mem) /\ q1 = q + y /\ x1 = x + y
            /\ w = y + z
        BY <1>9, <2>1, <2>2, <3>1, <3>3
      <3> QED
        BY <3>1, <3>2, <3>4, PutOutMore
    <2> QED
      BY <1>1, <1>20, <2>2, <2>3
  <1>28. Counts(u, h, d + len, k2)
    BY <1>18, <1>19, <1>20
  <1>29. Updated(r, u, h, c, mem, q, k, d, len)
    BY <1>20, <1>25, <1>26, <1>27, <1>28 DEF Updated
  <1> QED
    BY <1>22, <1>29

\* Update: the bytes known so far stand in the block or are out, in their blocks.
LEMMA UpdateBlocksIs ==
  ASSUME NEW u \in Nat \ {0}, NEW h \in {0, 1}, NEW k \in Nat, NEW d \in Nat,
         Counts(u, h, d, k), NEW c, c = Ctx(c, u, k, d),
         NEW mem, IsSeq(mem), NEW p \in Nat, NEW q \in Nat, NEW len \in Nat,
         p + len <= Len(mem), \A i \in 1 .. len : mem[p + i] = Byte(d + i),
         NEW nb, nb = d - k * u, q + nb + len <= Len(mem),
         p + len <= q \/ q + nb + len <= p \/ (p = q /\ nb = 0)
  PROVE  Updated(UpdateBlocks(u, h, c, mem, p, len, q), u, h, c, mem, q, k, d, len)
  <1>1. nb \in Nat /\ nb <= u
    <2>1. k * u \in Nat
      OBVIOUS
    <2> QED
      BY <2>1 DEF Counts
  <1>2. Len(c.block) = nb
    <2>1. c.block = Bytes(k * u, nb)
      BY CtxIs
    <2> QED
      BY <1>1, <2>1, BytesSeq
  <1>3. CASE nb = 0
    <2>1. q + len <= Len(mem) /\ Apart(p, q, len) /\ Len(c.block) = 0
      BY <1>2, <1>3, SeqFun DEF Apart
    <2> QED
      BY <2>1, UpdateWhole
  <1>4. CASE nb > 0 /\ len < u - nb + h
    <2>1. Len(c.block) > 0 /\ len < u - Len(c.block) + h
      BY <1>2, <1>4
    <2> QED
      BY <2>1, UpdateKeeps
  <1>5. CASE nb > 0 /\ len >= u - nb + h
    <2>1. Len(c.block) > 0 /\ len >= u - Len(c.block) + h
          /\ q + Len(c.block) + len <= Len(mem)
          /\ (p + len <= q \/ q + Len(c.block) + len <= p)
      BY <1>2, <1>5
    <2> QED
      BY <2>1, UpdateFills
  <1> QED
    BY <1>1, <1>3, <1>4, <1>5

-----------------------------------------------------------------------------
(* The caller's memory, and what is out.                                   *)

Cells(u, n) == [i \in 1 .. n |-> Cell(u, i)]

\* What the one-shot functions compute.
LEMMA WholeIs == ASSUME NEW n PROVE Whole(n) = Cells(Unit(mode), n)
  BY DEF Whole, Cells, Cell, Chain

\* What is out, and what is put out after it.
LEMMA CellsSeq == ASSUME NEW u, NEW n \in Nat
                  PROVE  IsSeq(Cells(u, n)) /\ Len(Cells(u, n)) = n
  <1>1. PICK s : s = Cells(u, n)
    OBVIOUS
  <1>2. s = [i \in 1 .. n |-> s[i]]
    BY <1>1 DEF Cells
  <1> QED
    BY <1>1, <1>2, FunSeq

IsCells(s, u, n) == s = Cells(u, n)

LEMMA CellsConcat ==
  ASSUME NEW u, NEW x \in Nat, NEW z \in Nat, NEW y \in Nat, y = x + z,
         NEW mem, IsSeq(mem), NEW q \in Nat, q + z <= Len(mem),
         \A i \in 1 .. z : mem[q + i] = Cell(u, x + i)
  PROVE  IsCells(Cells(u, x) \o SubSeq(mem, q + 1, q + z), u, y)
  <1>1. PICK s, t : s = Cells(u, x) /\ t = SubSeq(mem, q + 1, q + z)
    OBVIOUS
  <1>2. t = [i \in 1 .. z |-> mem[q + i]]
    BY <1>1, SubSeqFun
  <1>3. IsSeq(s) /\ IsSeq(t) /\ Len(s) = x /\ Len(t) = z
    <2>1. t = [i \in 1 .. z |-> t[i]]
      BY <1>2
    <2>2. IsSeq(t) /\ Len(t) = z
      BY <2>1, FunSeq
    <2>3. IsSeq(s) /\ Len(s) = x
      BY <1>1, CellsSeq
    <2> QED
      BY <2>2, <2>3
  <1>4. s \o t = [i \in 1 .. y |-> IF i <= x THEN s[i] ELSE t[i - x]]
    <2>1. s \o t = [i \in 1 .. Len(s) + Len(t) |->
                        IF i <= Len(s) THEN s[i] ELSE t[i - Len(s)]]
      BY <1>3, ConcatFun
    <2> QED
      BY <1>3, <2>1
  <1>5. ASSUME NEW i \in 1 .. y PROVE (IF i <= x THEN s[i] ELSE t[i - x]) = Cell(u, i)
    <2>1. CASE i <= x
      BY <1>1, <2>1 DEF Cells
    <2>2. CASE i > x
      <3>1. PICK j \in 1 .. z : i = x + j /\ i - x = j
        <4>1. i - x \in 1 .. z /\ i = x + (i - x)
          BY <2>2
        <4> QED
          BY <4>1
      <3>2. t[j] = Cell(u, x + j)
        BY <1>2
      <3> QED
        BY <2>2, <3>1, <3>2
    <2> QED
      BY <2>1, <2>2
  <1> QED
    BY <1>1, <1>4, <1>5 DEF Cells, IsCells

\* The sizes of the mode.
LEMMA KnownSizes ==
  /\ Unit(mode) \in Nat \ {0} /\ Unit(mode) <= DataUnit /\ Hold(mode) \in {0, 1}
  /\ TagLen(mode) \in Nat \ {0} /\ B \in Nat \ {0} /\ DataUnit \in Nat \ {0}
  /\ Piece \in Nat \ {0} /\ B <= DataUnit
  /\ mode \in MacModes \cup TagModes => Unit(mode) = B
  /\ mode \in MacModes => Hold(mode) = 0
  BY StreamAssumption DEF Unit, Hold, TagLen, MacModes, TagModes

\* The caller's buffer begins with the next bytes of the input.
LEMMA BufferIs ==
  ASSUME fed \in Nat, NEW n \in Nat
  PROVE  /\ IsSeq(Buffer(n)) /\ Len(Buffer(n)) = n + Piece + 2 * DataUnit
         /\ \A i \in 1 .. n : Buffer(n)[i] = Byte(fed + i)
  <1>1. PICK m \in Nat : m = Piece + 2 * DataUnit
    BY KnownSizes
  <1>2. PICK s, t : s = [i \in 1 .. n |-> Byte(fed + i)] /\ t = Other(m)
    OBVIOUS
  <1>3. s = [i \in 1 .. n |-> s[i]] /\ t = [i \in 1 .. m |-> t[i]]
    BY <1>2 DEF Other
  <1>4. IsSeq(s) /\ IsSeq(t) /\ Len(s) = n /\ Len(t) = m
    BY <1>3, FunSeq
  <1>5. PICK b : b = s \o t
    OBVIOUS
  <1>6. b = [i \in 1 .. Len(s) + Len(t) |-> IF i <= Len(s) THEN s[i] ELSE t[i - Len(s)]]
    BY <1>4, <1>5, ConcatFun
  <1>7. b = [i \in 1 .. n + m |-> b[i]] /\ n + m \in Nat
    BY <1>4, <1>6
  <1>8. IsSeq(b) /\ Len(b) = n + m
    BY <1>7, FunSeq
  <1>9. \A i \in 1 .. n : b[i] = Byte(fed + i)
    BY <1>2, <1>4, <1>6
  <1>10. b = Buffer(n)
    BY <1>1, <1>2, <1>5 DEF Buffer
  <1>11. n + m = n + Piece + 2 * DataUnit
    BY <1>1, KnownSizes
  <1> QED
    BY <1>8, <1>9, <1>10, <1>11

-----------------------------------------------------------------------------
(* The state of a stream.                                                  *)

\* The tools decrypt nothing in place that has to be held back, and their
\* buffer holds whole blocks.  (The sm4_cbc tool breaks the first: see the run of
\* MCToolCbcDecrypt.cfg.)
ToolsInPlace ==
    \A m \in ToolModes : m \notin TagModes \cup {"cbc_dec"} /\ Piece % Unit(m) = 0

\* No piece exceeds what GCM allows for a message.
PiecesFit == "gcm_dec" \in Modes => Piece <= MaxPlaintext

Setting == /\ mode \in Modes /\ tool \in BOOLEAN /\ input \in Inputs(mode)
           /\ tool => mode \in ToolModes
           /\ fed \in 0 .. input.len
           /\ status \in {"running", "finished", "failed"}

\* The bytes of f that cannot be the tag.
DataAt(f) == IF mode \in TagModes THEN IF f > TagLen(mode) THEN f - TagLen(mode) ELSE 0
             ELSE f

EncIn(l, d) == l \in Nat /\ l <= d

\* The first blocks are out, the rest is in the context.
StreamAt(c, o, d, k) == /\ Counts(Unit(mode), Hold(mode), d, k)
                        /\ c = Ctx(c, Unit(mode), k, d)
                        /\ o = Cells(Unit(mode), k * Unit(mode))

\* What may be the tag, and what went through the MAC.
MacAt(c, o, f) ==
    /\ mode \in MacModes => c.maced = o /\ c.encedlen = f
    /\ mode \in TagModes => /\ c.mac = Bytes(DataAt(f), f - DataAt(f))
                            /\ c.maced = Bytes(0, DataAt(f))
                            /\ EncIn(c.encedlen, DataAt(f))
    /\ mode = "gcm_enc" => f <= MaxPlaintext

\* A tool hands over whole blocks before the last piece.
AlignedAt(f) == tool => f % Unit(mode) = 0 \/ f = input.len

RunAt(c, o, f) == /\ \E k \in Nat : StreamAt(c, o, DataAt(f), k)
                  /\ MacAt(c, o, f)
                  /\ AlignedAt(f)

\* The bytes handed over are bytes of the input.
LEMMA InputNat == ASSUME Setting PROVE input.len \in Nat /\ fed \in Nat /\ fed <= input.len
  BY StreamAssumption DEF Setting, Inputs

\* Where a call reads and writes.
Placed(n, q, nb, mem) ==
    /\ n \in Nat /\ n <= Piece /\ fed + n <= input.len /\ q \in Nat
    /\ nb \in Nat /\ nb <= Unit(mode)
    /\ n <= Len(mem) /\ q + nb + n <= Len(mem)
    /\ n <= q \/ (0 = q /\ nb = 0)
    /\ tool => (fed + n) % Unit(mode) = 0 \/ fed + n = input.len

\* The pieces a caller may hand over.
LEMMA SizesAre ==
  ASSUME Setting, NEW n \in Sizes
  PROVE  /\ n \in Nat /\ n <= Piece /\ fed + n <= input.len
         /\ tool => fed # input.len /\ (n = Piece \/ fed + n = input.len)
  <1>1. PICK a \in Nat : a = input.len - fed
    BY InputNat
  <1>2. CASE tool
    <2>1. n \in IF a > Piece THEN {Piece} ELSE {a} \ {0}
      BY <1>1, <1>2 DEF Sizes
    <2>2. a # 0 /\ n \in Nat /\ n <= Piece /\ n <= a /\ (n = Piece \/ n = a)
      BY <2>1, KnownSizes
    <2> QED
      BY <1>1, <2>2, InputNat
  <1>3. CASE ~tool
    <2>1. n \in 0 .. Piece /\ fed + n <= input.len
      BY <1>3 DEF Sizes
    <2> QED
      BY <1>3, <2>1, KnownSizes
  <1> QED
    BY <1>2, <1>3

\* A call in place has nothing left in the context, or reads behind what it writes.
LEMMA PlacedIs ==
  ASSUME Setting, ToolsInPlace, AlignedAt(fed), NEW k \in Nat, mode \notin TagModes,
         StreamAt(ctx, out, fed, k), NEW n \in Sizes
  PROVE  Placed(n, OutAt(n), fed - k * Unit(mode), Buffer(n))
  <1>1. PICK u \in Nat \ {0}, h \in {0, 1} : u = Unit(mode) /\ h = Hold(mode)
    BY KnownSizes
  <1>2. PICK x \in Nat : x = k * u
    OBVIOUS
  <1>3. fed \in Nat /\ Counts(u, h, fed, k)
    BY <1>1, InputNat DEF StreamAt
  <1>4. PICK nb \in Nat : nb = fed - x
    BY <1>2, <1>3 DEF Counts
  <1>5. nb <= u /\ u <= DataUnit /\ Piece \in Nat /\ DataUnit \in Nat
    BY <1>1, <1>2, <1>3, <1>4, KnownSizes DEF Counts
  <1>6. /\ n \in Nat /\ n <= Piece /\ fed + n <= input.len
        /\ tool => fed # input.len /\ (n = Piece \/ fed + n = input.len)
    BY SizesAre
  <1>7. OutAt(n) \in Nat /\ OutAt(n) <= n
    BY <1>6 DEF OutAt
  <1>8. Len(Buffer(n)) = n + Piece + 2 * DataUnit
    BY <1>3, <1>6, BufferIs
  <1>9. n <= Len(Buffer(n)) /\ OutAt(n) + nb + n <= Len(Buffer(n))
    BY <1>5, <1>6, <1>7, <1>8
  <1>10. ASSUME tool
         PROVE  nb = 0 /\ ((fed + n) % u = 0 \/ fed + n = input.len)
    <2>1. fed % u = 0 /\ Piece % u = 0 /\ h = 0
      BY <1>1, <1>6, <1>10 DEF AlignedAt, ToolsInPlace, Setting, Hold, TagModes
    <2>2. PICK j \in Nat : fed = j * u
      <3>1. PICK d \in Nat, r \in 0 .. u - 1 : fed \div u = d /\ fed % u = r /\ fed = d * u + r
        BY <1>3, Division
      <3>2. fed = d * u
        BY <2>1, <3>1
      <3> QED
        BY <3>2
    <2>3. nb = 0
      <3>1. k * u <= j * u /\ j * u < k * u + u
        BY <1>3, <2>1, <2>2 DEF Counts
      <3>2. j = k
        <4>1. CASE j > k
          <5>1. PICK m \in Nat : j = k + 1 + m
            <6>1. j - k - 1 \in Nat /\ j = k + 1 + (j - k - 1)
              BY <4>1
            <6> QED
              BY <6>1
          <5>2. j * u = k * u + u + m * u /\ m * u \in Nat /\ k * u \in Nat
            BY <5>1
          <5> QED
            BY <3>1, <5>2
        <4>2. CASE j < k
          <5>1. PICK m \in Nat : k = j + 1 + m
            <6>1. k - j - 1 \in Nat /\ k = j + 1 + (k - j - 1)
              BY <4>2
            <6> QED
              BY <6>1
          <5>2. k * u = j * u + u + m * u /\ m * u \in Nat /\ j * u \in Nat
            BY <5>1
          <5> QED
            BY <3>1, <5>2
        <4> QED
          BY <4>1, <4>2
      <3> QED
        BY <1>2, <1>4, <2>2, <3>2
    <2>4. CASE n = Piece
      <3>1. ((fed % u) + n) % u = (fed + n) % u
        BY <1>3, <1>6, ModAdd
      <3>2. (fed % u) + n = n
        BY <1>6, <2>1
      <3> QED
        BY <2>1, <2>3, <2>4, <3>1, <3>2
    <2>5. CASE fed + n = input.len
      BY <2>3, <2>5
    <2> QED
      BY <1>6, <1>10, <2>4, <2>5
  <1>11. n <= OutAt(n) \/ (0 = OutAt(n) /\ nb = 0)
    BY <1>6, <1>10 DEF OutAt
  <1> QED
    BY <1>1, <1>2, <1>4, <1>5, <1>6, <1>7, <1>9, <1>10, <1>11 DEF Placed

\* What a call leaves: the context c2, and w bytes of memory put out at q.
Done(c2, w, mem2, q, n, d2, k, k2) ==
    /\ k2 \in Nat /\ k * Unit(mode) <= k2 * Unit(mode)
    /\ Counts(Unit(mode), Hold(mode), d2, k2)
    /\ c2 = Ctx(c2, Unit(mode), k2, d2)
    /\ w = k2 * Unit(mode) - k * Unit(mode)
    /\ PutOut(Unit(mode), mem2, Buffer(n), q, k * Unit(mode), w)

\* Such a call leaves the stream where its blocks take it.
LEMMA DoneIs ==
  ASSUME NEW k \in Nat, NEW d, StreamAt(ctx, out, d, k), fed \in Nat, NEW n \in Nat,
         NEW q \in Nat, NEW w \in Nat, q + w <= Len(Buffer(n)),
         NEW c2, NEW mem2, NEW d2, NEW k2, Done(c2, w, mem2, q, n, d2, k, k2)
  PROVE  StreamAt(c2, out \o SubSeq(mem2, q + 1, q + w), d2, k2)
  <1>1. PICK u \in Nat \ {0} : u = Unit(mode)
    BY KnownSizes
  <1>2. PICK x \in Nat : x = k * u
    OBVIOUS
  <1>3. k2 \in Nat /\ w = k2 * u - x
    BY <1>1, <1>2 DEF Done
  <1>4. PICK y \in Nat : y = k2 * u
    BY <1>3
  <1>5. y = x + w
    BY <1>3, <1>4
  <1>6. IsSeq(mem2) /\ q + w <= Len(mem2) /\ \A i \in 1 .. w : mem2[q + i] = Cell(u, x + i)
    BY <1>1, <1>2 DEF Done, PutOut
  <1>7. IsCells(Cells(u, x) \o SubSeq(mem2, q + 1, q + w), u, y)
    BY <1>5, <1>6, CellsConcat
  <1>8. out = Cells(u, x)
    BY <1>1, <1>2 DEF StreamAt
  <1> QED
    BY <1>1, <1>4, <1>7, <1>8 DEF Done, StreamAt, IsCells

\* Once more from the context an update left.
LEMMA CtxAgain ==
  ASSUME NEW c, NEW u, NEW k, NEW d, NEW c2, c2 = Ctx(c, u, k, d)
  PROVE  /\ c2 = Ctx(c2, u, k, d)
         /\ c2.mac = c.mac /\ c2.maced = c.maced /\ c2.encedlen = c.encedlen
  <1>1. PICK b : b = Bytes(k * u, d - k * u)
    OBVIOUS
  <1>2. c2 = [block |-> b, iv |-> Chain(k), mac |-> c.mac, maced |-> c.maced,
              encedlen |-> c.encedlen]
    BY <1>1 DEF Ctx
  <1>3. c2.mac = c.mac /\ c2.maced = c.maced /\ c2.encedlen = c.encedlen
    BY <1>2
  <1> QED
    BY <1>1, <1>2, <1>3 DEF Ctx

\* The update of a mode without a tag.
LEMMA UpdateDone ==
  ASSUME Setting, NEW k \in Nat, StreamAt(ctx, out, fed, k), NEW n, NEW q,
         Placed(n, q, fed - k * Unit(mode), Buffer(n)),
         NEW r, r = UpdateBlocks(Unit(mode), Hold(mode), ctx, Buffer(n), 0, n, q)
  PROVE  \E k2 \in Nat :
            /\ Done(r.ctx, r.outlen, r.mem, q, n, fed + n, k, k2)
            /\ r = [ctx |-> r.ctx, mem |-> r.mem, outlen |-> r.outlen]
            /\ r.ctx.mac = ctx.mac /\ r.ctx.maced = ctx.maced
            /\ r.ctx.encedlen = ctx.encedlen
            /\ r.outlen \in Nat /\ q + r.outlen <= Len(Buffer(n))
  <1>1. PICK u \in Nat \ {0}, h \in {0, 1} : u = Unit(mode) /\ h = Hold(mode)
    BY KnownSizes
  <1>2. PICK nb : nb = fed - k * u
    OBVIOUS
  <1>3. Placed(n, q, nb, Buffer(n))
    BY <1>1, <1>2
  <1>4. PICK mem : mem = Buffer(n)
    OBVIOUS
  <1>5. fed \in Nat /\ n \in Nat /\ q \in Nat /\ nb \in Nat
    BY <1>3, InputNat DEF Placed
  <1>6. IsSeq(mem) /\ Len(mem) \in Nat /\ \A i \in 1 .. n : mem[i] = Byte(fed + i)
    BY <1>4, <1>5, BufferIs, SeqFun
  <1>7. /\ 0 + n <= Len(mem) /\ q + nb + n <= Len(mem)
        /\ 0 + n <= q \/ q + nb + n <= 0 \/ (0 = q /\ nb = 0)
        /\ \A i \in 1 .. n : mem[0 + i] = Byte(fed + i)
    <2>1. n <= Len(mem) /\ q + nb + n <= Len(mem) /\ (n <= q \/ (0 = q /\ nb = 0))
      BY <1>3, <1>4 DEF Placed
    <2> QED
      BY <1>5, <1>6, <2>1
  <1>8. Counts(u, h, fed, k) /\ ctx = Ctx(ctx, u, k, fed)
    BY <1>1 DEF StreamAt
  <1>9. Updated(UpdateBlocks(u, h, ctx, mem, 0, n, q), u, h, ctx, mem, q, k, fed, n)
    BY <1>2, <1>5, <1>6, <1>7, <1>8, UpdateBlocksIs
  <1>10. Updated(r, u, h, ctx, mem, q, k, fed, n)
    BY <1>1, <1>4, <1>9
  <1>11. PICK k2 \in Nat :
            /\ Counts(u, h, fed + n, k2) /\ k * u <= k2 * u
            /\ r = [ctx |-> Ctx(ctx, u, k2, fed + n), mem |-> r.mem,
                    outlen |-> k2 * u - k * u]
            /\ PutOut(u, r.mem, mem, q, k * u, k2 * u - k * u)
    BY <1>10 DEF Updated
  <1>12. r.ctx = Ctx(ctx, u, k2, fed + n) /\ r.outlen = k2 * u - k * u
    BY <1>11
  <1>13. PICK c2 : c2 = r.ctx
    OBVIOUS
  <1>14. /\ c2 = Ctx(c2, u, k2, fed + n) /\ c2.mac = ctx.mac /\ c2.maced = ctx.maced
         /\ c2.encedlen = ctx.encedlen
    BY <1>12, <1>13, CtxAgain
  <1>15. PICK x \in Nat, y \in Nat : x = k * u /\ y = k2 * u
    OBVIOUS
  <1>16. r.outlen \in Nat /\ r.outlen <= nb + n
    BY <1>2, <1>5, <1>11, <1>12, <1>15 DEF Counts
  <1>17. q + r.outlen <= Len(mem)
    BY <1>5, <1>6, <1>7, <1>16
  <1>18. Done(c2, r.outlen, r.mem, q, n, fed + n, k, k2)
    BY <1>1, <1>4, <1>11, <1>12, <1>14 DEF Done
  <1> QED
    BY <1>4, <1>11, <1>12, <1>13, <1>14, <1>16, <1>17, <1>18

\* The bytes after the caller's memory are cut off again.
LEMMA CutOut ==
  ASSUME NEW u, NEW mem, IsSeq(mem), NEW bytes, IsSeq(bytes), NEW more, more = mem \o bytes,
         NEW m2, NEW q \in Nat, NEW x, NEW z \in Nat, q + z <= Len(mem),
         PutOut(u, m2, more, q, x, z)
  PROVE  PutOut(u, SubSeq(m2, 1, Len(mem)), mem, q, x, z)
  <1>1. PICK l \in Nat, t \in Nat : l = Len(mem) /\ t = Len(bytes)
    BY SeqFun
  <1>2. more = [i \in 1 .. l + t |-> IF i <= l THEN mem[i] ELSE bytes[i - l]]
    BY <1>1, ConcatFun
  <1>3. IsSeq(more) /\ Len(more) = l + t
    <2>1. more = [i \in 1 .. l + t |-> more[i]] /\ l + t \in Nat
      BY <1>2
    <2> QED
      BY <2>1, FunSeq
  <1>4. IsSeq(m2) /\ Len(m2) = l + t
    BY <1>3 DEF PutOut
  <1>5. PICK s : s = SubSeq(m2, 1, Len(mem))
    OBVIOUS
  <1>6. s = [i \in 1 .. l |-> m2[i]]
    <2>1. 0 + l <= Len(m2) /\ 0 + 1 = 1 /\ 0 + l = l
      BY <1>4
    <2>2. SubSeq(m2, 0 + 1, 0 + l) = [i \in 1 .. l |-> m2[0 + i]]
      BY <1>4, <2>1, SubSeqFun
    <2>3. \A i \in 1 .. l : 0 + i = i
      OBVIOUS
    <2>4. [i \in 1 .. l |-> m2[0 + i]] = [i \in 1 .. l |-> m2[i]]
      BY <2>3
    <2> QED
      BY <1>1, <1>5, <2>1, <2>2, <2>4
  <1>7. IsSeq(s) /\ Len(s) = l
    <2>1. s = [i \in 1 .. l |-> s[i]]
      BY <1>6
    <2> QED
      BY <2>1, FunSeq
  <1>8. ASSUME NEW i \in 1 .. z PROVE s[q + i] = Cell(u, x + i)
    <2>1. q + i \in 1 .. l
      BY <1>1
    <2> QED
      BY <1>6, <2>1 DEF PutOut
  <1>9. ASSUME NEW i \in 1 .. l, i \notin q + 1 .. q + z PROVE s[i] = mem[i]
    <2>1. i \in 1 .. l + t /\ i <= l
      BY <1>1
    <2>2. m2[i] = more[i]
      BY <1>3, <1>9, <2>1 DEF PutOut
    <2> QED
      BY <1>2, <1>6, <2>1, <2>2
  <1>10. PutOut(u, s, mem, q, x, z)
    BY <1>1, <1>7, <1>8, <1>9 DEF PutOut
  <1> QED
    BY <1>5, <1>10

\* The update of bytes that lie in the context.
LEMMA FromIs ==
  ASSUME NEW u, u = B, NEW h \in {0, 1}, NEW k \in Nat, NEW d \in Nat,
         Counts(u, h, d, k), NEW c, c = Ctx(c, u, k, d),
         NEW mem, IsSeq(mem), NEW q \in Nat, NEW t \in Nat, NEW nb, nb = d - k * u,
         q + nb + t <= Len(mem), NEW bytes, IsBytes(bytes, d, t)
  PROVE  Updated(UpdateFrom(h, c, bytes, mem, q), u, h, c, mem, q, k, d, t)
  <1>1. u \in Nat \ {0} /\ Len(mem) \in Nat
    BY KnownSizes, SeqFun
  <1>2. bytes = Bytes(d, t) /\ IsSeq(bytes) /\ Len(bytes) = t
    BY BytesSeq DEF IsBytes
  <1>21. IsSeq(bytes) /\ Len(bytes) = t
    BY <1>2
  <1>3. PICK more : more = mem \o bytes
    OBVIOUS
  <1>4. PICK l \in Nat : l = Len(mem)
    BY <1>1
  <1>5. more = [i \in 1 .. l + t |-> IF i <= l THEN mem[i] ELSE bytes[i - l]]
    <2>1. mem \o bytes = [i \in 1 .. Len(mem) + Len(bytes) |->
                            IF i <= Len(mem) THEN mem[i] ELSE bytes[i - Len(mem)]]
      BY <1>21, ConcatFun
    <2> QED
      BY <1>21, <1>3, <1>4, <2>1
  <1>6. IsSeq(more) /\ Len(more) = l + t
    <2>1. more = [i \in 1 .. l + t |-> more[i]] /\ l + t \in Nat
      BY <1>5
    <2> QED
      BY <2>1, FunSeq
  <1>7. ASSUME NEW i \in 1 .. t PROVE more[l + i] = Byte(d + i)
    <2>1. l + i \in 1 .. l + t /\ ~(l + i <= l) /\ (l + i) - l = i
      OBVIOUS
    <2> QED
      BY <1>2, <1>5, <2>1 DEF Bytes
  <1>8. PICK x \in Nat : x = k * u
    BY <1>1
  <1>9. nb \in Nat
    BY <1>1, <1>8 DEF Counts
  <1>10. PICK r : r = UpdateBlocks(u, h, c, more, l, t, q)
    OBVIOUS
  <1>11. Updated(r, u, h, c, more, q, k, d, t)
    <2>1. l + t <= Len(more) /\ q + nb + t <= Len(more) /\ q + nb + t <= l
      BY <1>4, <1>6, <1>9
    <2>2. Updated(UpdateBlocks(u, h, c, more, l, t, q), u, h, c, more, q, k, d, t)
      BY <1>1, <1>6, <1>7, <2>1, UpdateBlocksIs
    <2> QED
      BY <1>10, <2>2
  <1>12. PICK k2 \in Nat :
            /\ Counts(u, h, d + t, k2) /\ k * u <= k2 * u
            /\ r = [ctx |-> Ctx(c, u, k2, d + t), mem |-> r.mem, outlen |-> k2 * u - k * u]
            /\ PutOut(u, r.mem, more, q, k * u, k2 * u - k * u)
    BY <1>11 DEF Updated
  <1>13. PICK s : s = SubSeq(r.mem, 1, Len(mem))
    OBVIOUS
  <1>14. PutOut(u, s, mem, q, k * u, k2 * u - k * u)
    <2>1. PICK y \in Nat : y = k2 * u
      BY <1>1, <1>12
    <2>2. PICK w \in Nat : w = k2 * u - k * u
      BY <1>8, <1>12, <2>1
    <2>3. q + w <= Len(mem)
      <3>1. y <= d + t /\ w = y - x /\ nb = d - x
        BY <1>8, <1>12, <2>1, <2>2 DEF Counts
      <3> QED
        BY <1>1, <1>9, <3>1
    <2>4. PutOut(u, r.mem, more, q, x, w)
      BY <1>8, <1>12, <2>2
    <2>5. PutOut(u, SubSeq(r.mem, 1, Len(mem)), mem, q, x, w)
      BY <1>2, <1>3, <2>3, <2>4, CutOut
    <2> QED
      BY <1>8, <1>13, <2>2, <2>5
  <1>15. PICK f : f = UpdateFrom(h, c, bytes, mem, q)
    OBVIOUS
  <1>16. f = [r EXCEPT !.mem = s]
    BY <1>2, <1>3, <1>4, <1>10, <1>13, <1>15 DEF UpdateFrom
  <1>17. PICK g, w : g = Ctx(c, u, k2, d + t) /\ w = k2 * u - k * u
    OBVIOUS
  <1>18. f = [ctx |-> g, mem |-> s, outlen |-> w]
    BY <1>12, <1>16, <1>17
  <1>19. Updated(f, u, h, c, mem, q, k, d, t)
    <2>1. f = [ctx |-> Ctx(c, u, k2, d + t), mem |-> f.mem, outlen |-> k2 * u - k * u]
          /\ f.mem = s
      BY <1>17, <1>18
    <2> QED
      BY <1>12, <1>14, <2>1 DEF Updated
  <1> QED
    BY <1>15, <1>19

-----------------------------------------------------------------------------
(* Update of a mode that keeps what may be the tag.                        *)

\* What UpdateTag adds to the context.
SetTag(r, a, b, e) == [r EXCEPT !.ctx.maced = a, !.ctx.mac = b, !.ctx.encedlen = e]

\* The record that is left.
LEMMA SetTagIs ==
  ASSUME NEW g, IsCtx(g), NEW m, NEW w, NEW r, r = [ctx |-> g, mem |-> m, outlen |-> w],
         NEW a, NEW b, NEW e, NEW r2, r2 = SetTag(r, a, b, e)
  PROVE  r2 = [ctx |-> [block |-> g.block, iv |-> g.iv, mac |-> b, maced |-> a,
                        encedlen |-> e], mem |-> m, outlen |-> w]
  <1>1. PICK r1 : r1 = [r EXCEPT !.ctx.maced = a]
    OBVIOUS
  <1>2. r1 = [ctx |-> [block |-> g.block, iv |-> g.iv, mac |-> g.mac, maced |-> a,
                       encedlen |-> g.encedlen], mem |-> m, outlen |-> w]
    BY <1>1 DEF IsCtx
  <1>3. PICK r3 : r3 = [r1 EXCEPT !.ctx.mac = b]
    OBVIOUS
  <1>4. r3 = [ctx |-> [block |-> g.block, iv |-> g.iv, mac |-> b, maced |-> a,
                       encedlen |-> g.encedlen], mem |-> m, outlen |-> w]
    BY <1>2, <1>3
  <1>5. r2 = [r3 EXCEPT !.ctx.encedlen = e]
    BY <1>1, <1>3 DEF SetTag
  <1> QED
    BY <1>4, <1>5

\* The three cases of UpdateTag exclude each other.
LEMMA TagCase ==
  ASSUME NEW t \in Nat, NEW n \in Nat, NEW some \in Int, NEW fill \in Nat, NEW r, NEW r1,
         NEW r2, NEW r3, some = n - fill,
         r = CASE fill > 0 /\ n <= fill -> r1
               [] some \in 0 .. t /\ (fill = 0 \/ n > fill) -> r2
               [] some > t -> r3
  PROVE  /\ fill > 0 /\ n <= fill => r = r1
         /\ some \in 0 .. t /\ (fill = 0 \/ n > fill) => r = r2
         /\ some > t => r = r3
  <1>1. ASSUME fill > 0, n <= fill PROVE r = r1
    BY <1>1
  <1>2. ASSUME some \in 0 .. t, fill = 0 \/ n > fill PROVE r = r2
    BY <1>2
  <1>3. ASSUME some > t PROVE r = r3
    BY <1>3
  <1> QED
    BY <1>1, <1>2, <1>3

\* UpdateTag, unfolded.
MacWith(c, mem, fill) == c.mac \o SubSeq(mem, 1, fill)
Firsts(mac, some) == SubSeq(mac, 1, some)
MacedWith(c, bytes) == c.maced \o bytes
FewMac(mac, mem, some, fill, t) ==
    SubSeq(mac, some + 1, t) \o SubSeq(mem, fill + 1, fill + some)

TagFewOf(t, h, c, mem, q, fill, some) ==
    LET mac   == MacWith(c, mem, fill)
        bytes == Firsts(mac, some)
        few   == UpdateFrom(h, c, bytes, mem, q)
    IN SetTag(few, MacedWith(few.ctx, bytes), FewMac(mac, few.mem, some, fill, t),
              few.ctx.encedlen + some)
FewCase(t, c, n, fill, some) ==
    /\ t \in Nat /\ n \in Nat /\ fill \in Nat /\ some \in 0 .. t
    /\ fill = t - Len(c.mac) /\ some = n - fill /\ (fill = 0 \/ n > fill)

\* The case of no more bytes than the tag has.
LEMMA TagFewIs ==
  ASSUME NEW t, NEW h, NEW c, NEW mem, NEW n, NEW q, NEW fill, NEW some,
         FewCase(t, c, n, fill, some)
  PROVE  UpdateTag(t, h, c, mem, n, q) = TagFewOf(t, h, c, mem, q, fill, some)
  <1>0. /\ t \in Nat /\ n \in Nat /\ fill \in Nat /\ some \in 0 .. t
        /\ fill = t - Len(c.mac) /\ some = n - fill /\ (fill = 0 \/ n > fill)
    BY DEF FewCase
  <1>01. PICK mac : mac = MacWith(c, mem, fill)
    OBVIOUS
  <1>02. PICK bytes : bytes = Firsts(mac, some)
    OBVIOUS
  <1>03. PICK few : few = UpdateFrom(h, c, bytes, mem, q)
    OBVIOUS
  <1>1. PICK mac2, rest : mac2 = UpdateFrom(h, c, mac, mem, q) /\ rest = some - t
    OBVIOUS
  <1>2. PICK many :
            many = UpdateBlocks(B, h, mac2.ctx, mac2.mem, fill, rest, q + mac2.outlen)
    OBVIOUS
  <1>3. PICK r1 : r1 = [ctx |-> [c EXCEPT !.mac = @ \o SubSeq(mem, 1, n)], mem |-> mem,
                        outlen |-> -1]
    OBVIOUS
  <1>4. PICK r3 : r3 = [many EXCEPT
            !.ctx.maced = @ \o mac \o SubSeq(mac2.mem, fill + 1, fill + rest),
            !.ctx.mac = SubSeq(many.mem, fill + rest + 1, fill + rest + t),
            !.ctx.encedlen = @ + rest, !.outlen = mac2.outlen + @]
    OBVIOUS
  <1>5. PICK r2 : r2 = [few EXCEPT !.ctx.maced = @ \o bytes,
                          !.ctx.mac = SubSeq(mac, some + 1, t)
                                        \o SubSeq(few.mem, fill + 1, fill + some),
                          !.ctx.encedlen = @ + some]
    OBVIOUS
  <1>6. PICK r : r = UpdateTag(t, h, c, mem, n, q)
    OBVIOUS
  <1>7. r = CASE fill > 0 /\ n <= fill -> r1
              [] some \in 0 .. t /\ (fill = 0 \/ n > fill) -> r2
              [] some > t -> r3
    BY <1>0, <1>01, <1>02, <1>03, <1>1, <1>2, <1>3, <1>4, <1>5, <1>6, ZenonT(30)
    DEF UpdateTag, MacWith, Firsts
  <1>8. some \in Int
    BY <1>0
  <1>9. r = r2
    BY <1>0, <1>7, <1>8, TagCase
  <1>10. r2 = SetTag(few, MacedWith(few.ctx, bytes), FewMac(mac, few.mem, some, fill, t),
                     few.ctx.encedlen + some)
    BY <1>5 DEF SetTag, FewMac, MacedWith
  <1>11. r2 = TagFewOf(t, h, c, mem, q, fill, some)
    BY <1>01, <1>02, <1>03, <1>10 DEF TagFewOf
  <1> QED
    BY <1>6, <1>9, <1>11

\* A part of a row of bytes.
LEMMA BytesPart ==
  ASSUME NEW x \in Nat, NEW n \in Nat, NEW a \in Nat, NEW m \in Nat, a + m <= n,
         NEW y, y = x + a, NEW s, s = Bytes(x, n)
  PROVE  IsBytes(SubSeq(s, a + 1, a + m), y, m)
  <1>1. IsSeq(s) /\ Len(s) = n
    BY BytesSeq
  <1>2. SubSeq(s, a + 1, a + m) = [i \in 1 .. m |-> s[a + i]]
    BY <1>1, SubSeqFun
  <1>3. ASSUME NEW i \in 1 .. m PROVE s[a + i] = Byte(y + i)
    <2>1. a + i \in 1 .. n /\ x + (a + i) = y + i
      OBVIOUS
    <2> QED
      BY <2>1 DEF Bytes
  <1> QED
    BY <1>2, <1>3 DEF Bytes, IsBytes

\* encedlen stays behind the data.
LEMMA EncMore ==
  ASSUME NEW l, NEW d \in Nat, EncIn(l, d), NEW n \in Nat, NEW m \in Nat, n <= m
  PROVE  EncIn(l + n, d + m)
  BY DEF EncIn

\* What an update may do that keeps the last bytes.
TagUpdated(r, u, h, c, mem, q, k, e, t) ==
    \E k2 \in Nat :
        /\ Counts(u, h, e, k2) /\ k * u <= k2 * u
        /\ r.ctx = Ctx(r.ctx, u, k2, e)
        /\ r.ctx.mac = Bytes(e, t) /\ r.ctx.maced = Bytes(0, e)
        /\ EncIn(r.ctx.encedlen, e)
        /\ r.outlen = k2 * u - k * u
        /\ PutOut(u, r.mem, mem, q, k * u, k2 * u - k * u)

\* Where an update stands that keeps the last bytes: d bytes are known not to
\* belong to the tag, m may do, n more follow.
InTag(c, u, h, k, d, nb, t, m, mem, n) ==
    /\ u = B /\ Counts(u, h, d, k) /\ c = Ctx(c, u, k, d) /\ nb = d - k * u
    /\ m <= t /\ c.mac = Bytes(d, m) /\ c.maced = Bytes(0, d) /\ EncIn(c.encedlen, d)
    /\ IsSeq(mem) /\ n + nb + n <= Len(mem)
    /\ \A i \in 1 .. n : mem[i] = Byte((d + m) + i)

\* The call that brings no more bytes than the tag has.
LEMMA TagFew ==
  ASSUME NEW u, NEW h \in {0, 1}, NEW k \in Nat, NEW d \in Nat, NEW c, NEW nb,
         NEW t \in Nat, NEW m \in Nat, NEW mem, NEW n \in Nat,
         InTag(c, u, h, k, d, nb, t, m, mem, n),
         NEW some \in Nat, some <= t, n = (t - m) + some, t = m \/ some > 0
  PROVE  TagUpdated(UpdateTag(t, h, c, mem, n, n), u, h, c, mem, n, k, d + some, t)
  <1>0. m <= t /\ IsSeq(mem) /\ n + nb + n <= Len(mem) /\ u = B
    BY DEF InTag
  <1>01. Counts(u, h, d, k) /\ c = Ctx(c, u, k, d) /\ nb = d - k * u
    BY DEF InTag
  <1>02. c.mac = Bytes(d, m) /\ c.maced = Bytes(0, d) /\ EncIn(c.encedlen, d)
    BY DEF InTag
  <1>03. PICK f \in Nat : f = d + m
    OBVIOUS
  <1>04. \A i \in 1 .. n : mem[i] = Byte(f + i)
    BY <1>03 DEF InTag
  <1>1. PICK fill \in Nat : fill = t - m
    BY <1>0
  <1>2. u \in Nat \ {0} /\ Len(mem) \in Nat
    BY <1>0, KnownSizes, SeqFun
  <1>3. PICK x \in Nat : x = k * u
    BY <1>2
  <1>4. nb \in Nat
    BY <1>2, <1>3, <1>01 DEF Counts
  <1>41. n = fill + some /\ n <= Len(mem) /\ n + nb + some <= Len(mem)
    BY <1>0, <1>1, <1>2, <1>4
  <1>5. PICK mac : mac = MacWith(c, mem, fill)
    OBVIOUS
  <1>6. mac = Bytes(d, t)
    <2>1. 0 + fill <= Len(mem) /\ \A i \in 1 .. fill : mem[0 + i] = Byte(f + i)
      BY <1>2, <1>41, <1>04
    <2>2. IsBytes(SubSeq(mem, 0 + 1, 0 + fill), f, fill)
      BY <1>0, <2>1, BytesIn
    <2>3. IsBytes(Bytes(d, m) \o Bytes(f, fill), d, t)
      BY <1>03, <1>1, BytesConcat
    <2>4. 0 + 1 = 1 /\ 0 + fill = fill
      OBVIOUS
    <2> QED
      BY <1>02, <1>5, <2>2, <2>3, <2>4 DEF IsBytes, MacWith
  <1>7. PICK bytes : bytes = Firsts(mac, some)
    OBVIOUS
  <1>8. IsBytes(bytes, d, some)
    <2>1. 0 + some <= t /\ d = d + 0 /\ 0 + 1 = 1 /\ 0 + some = some
      OBVIOUS
    <2>2. IsBytes(SubSeq(mac, 0 + 1, 0 + some), d, some)
      BY <1>6, <2>1, BytesPart
    <2> QED
      BY <1>7, <2>1, <2>2 DEF Firsts
  <1>9. PICK few : few = UpdateFrom(h, c, bytes, mem, n)
    OBVIOUS
  <1>10. Updated(few, u, h, c, mem, n, k, d, some)
    <2>2. Updated(UpdateFrom(h, c, bytes, mem, n), u, h, c, mem, n, k, d, some)
      BY <1>0, <1>01, <1>41, <1>8, FromIs
    <2> QED
      BY <1>9, <2>2
  <1>11. PICK k2 \in Nat :
            /\ Counts(u, h, d + some, k2) /\ k * u <= k2 * u
            /\ few = [ctx |-> Ctx(c, u, k2, d + some), mem |-> few.mem,
                      outlen |-> k2 * u - k * u]
            /\ PutOut(u, few.mem, mem, n, k * u, k2 * u - k * u)
    BY <1>10 DEF Updated
  <1>12. PICK e \in Nat : e = d + some
    OBVIOUS
  <1>13. PICK g, w, mem2 : g = Ctx(c, u, k2, e) /\ w = k2 * u - k * u /\ mem2 = few.mem
    OBVIOUS
  <1>14. few = [ctx |-> g, mem |-> mem2, outlen |-> w]
    BY <1>11, <1>12, <1>13
  <1>15. /\ IsCtx(g) /\ g.mac = c.mac /\ g.maced = c.maced /\ g.encedlen = c.encedlen
         /\ g.block = Bytes(k2 * u, e - k2 * u) /\ g.iv = Chain(k2)
    <2>1. g = Ctx(g, u, k2, e) /\ g.mac = c.mac /\ g.maced = c.maced
          /\ g.encedlen = c.encedlen
      BY <1>13, CtxAgain
    <2>2. IsCtx(g) /\ g.block = Bytes(k2 * u, e - k2 * u) /\ g.iv = Chain(k2)
      <3>1. g = Ctx(g, u, k2, e)
        BY <2>1
      <3> QED
        BY <3>1, CtxIs
    <2> QED
      BY <2>1, <2>2
  <1>161. PICK l : l = c.encedlen + some
    OBVIOUS
  <1>16. PICK a, b : a = c.maced \o bytes /\ b = FewMac(mac, mem2, some, fill, t)
    OBVIOUS
  <1>17. PICK r : r = UpdateTag(t, h, c, mem, n, n)
    OBVIOUS
  <1>18. r = SetTag(few, a, b, l)
    <2>1. Len(c.mac) = m
      BY <1>02, BytesSeq
    <2>2. /\ t - Len(c.mac) = fill /\ n - fill = some /\ ~(fill > 0 /\ n <= fill)
          /\ some \in 0 .. t /\ (fill = 0 \/ n > fill)
      BY <1>1, <1>41, <2>1
    <2>3. /\ few.ctx.maced = c.maced /\ few.ctx.encedlen = c.encedlen
      BY <1>14, <1>15
    <2>4. r = SetTag(few, MacedWith(few.ctx, bytes), FewMac(mac, few.mem, some, fill, t),
                     few.ctx.encedlen + some)
      <3>1. FewCase(t, c, n, fill, some)
        BY <2>2 DEF FewCase
      <3>2. r = TagFewOf(t, h, c, mem, n, fill, some)
        BY <1>17, <3>1, TagFewIs
      <3> QED
        BY <1>5, <1>7, <1>9, <3>2 DEF TagFewOf
    <2> QED
      BY <1>13, <1>16, <1>161, <2>3, <2>4 DEF MacedWith
  <1>19. PICK c3 : c3 = [block |-> g.block, iv |-> g.iv, mac |-> b, maced |-> a,
                         encedlen |-> l]
    OBVIOUS
  <1>20. r = [ctx |-> c3, mem |-> mem2, outlen |-> w]
    <2>1. r = [ctx |-> [block |-> g.block, iv |-> g.iv, mac |-> b, maced |-> a,
                        encedlen |-> l], mem |-> mem2, outlen |-> w]
      BY <1>14, <1>15, <1>18, SetTagIs
    <2> QED
      BY <1>19, <2>1
  <1>21. a = Bytes(0, e)
    <2>1. e = d + some /\ d = 0 + d
      BY <1>12
    <2>2. IsBytes(Bytes(0, d) \o Bytes(d, some), 0, e)
      BY <2>1, BytesConcat
    <2> QED
      BY <1>02, <1>8, <1>16, <2>2 DEF IsBytes
  <1>22. b = Bytes(e, t)
    <2>1. PICK z \in Nat : z = t - some
      OBVIOUS
    <2>2. SubSeq(mac, some + 1, t) = Bytes(e, z)
      <3>1. some + z = t /\ some + z <= t /\ e = d + some
        BY <1>12, <2>1
      <3>2. IsBytes(SubSeq(mac, some + 1, some + z), e, z)
        BY <1>6, <3>1, BytesPart
      <3> QED
        BY <3>1, <3>2 DEF IsBytes
    <2>3. PICK y \in Nat : y = e + z
      OBVIOUS
    <2>4. SubSeq(mem2, fill + 1, fill + some) = Bytes(y, some)
      <3>1. /\ IsSeq(mem2) /\ Len(mem2) = Len(mem)
            /\ \A i \in 1 .. Len(mem) : i \notin n + 1 .. n + w => mem2[i] = mem[i]
        BY <1>11, <1>13 DEF PutOut
      <3>2. ASSUME NEW i \in 1 .. some PROVE mem2[fill + i] = Byte(y + i)
        <4>1. fill + i \in 1 .. n /\ fill + i \in 1 .. Len(mem) /\ f + (fill + i) = y + i
          BY <1>1, <1>2, <1>12, <1>03, <1>41, <2>1, <2>3
        <4>2. fill + i \notin n + 1 .. n + w
          BY <4>1
        <4>3. mem2[fill + i] = mem[fill + i] /\ mem[fill + i] = Byte(f + (fill + i))
          BY <1>04, <3>1, <4>1, <4>2
        <4> QED
          BY <4>1, <4>3
      <3>3. fill + some <= Len(mem2)
        BY <1>2, <1>41, <3>1
      <3>4. IsBytes(SubSeq(mem2, fill + 1, fill + some), y, some)
        BY <3>1, <3>2, <3>3, BytesIn
      <3> QED
        BY <3>4 DEF IsBytes
    <2>5. IsBytes(Bytes(e, z) \o Bytes(y, some), e, t)
      <3>1. t = z + some
        BY <2>1
      <3> QED
        BY <2>3, <3>1, BytesConcat
    <2> QED
      BY <1>16, <2>2, <2>4, <2>5 DEF IsBytes, FewMac
  <1>23. EncIn(l, e)
    <2>1. EncIn(c.encedlen + some, d + some)
      BY <1>02, EncMore
    <2> QED
      BY <1>12, <1>161, <2>1
  <1>24. r.ctx = c3 /\ r.mem = mem2 /\ r.outlen = w
    BY <1>20
  <1>25. c3 = Ctx(c3, u, k2, e) /\ c3.mac = b /\ c3.maced = a /\ c3.encedlen = l
    <2>1. c3.mac = b /\ c3.maced = a /\ c3.encedlen = l
      BY <1>19
    <2> QED
      BY <1>15, <1>19, <2>1 DEF Ctx
  <1>26. TagUpdated(r, u, h, c, mem, n, k, e, t)
    <2>1. Counts(u, h, e, k2) /\ k * u <= k2 * u
          /\ PutOut(u, r.mem, mem, n, k * u, k2 * u - k * u)
      BY <1>11, <1>12, <1>13, <1>24
    <2> QED
      BY <1>13, <1>21, <1>22, <1>23, <1>24, <1>25, <2>1 DEF TagUpdated
  <1> QED
    BY <1>12, <1>17, <1>26

MoreMaced(c, mac, mem, fill, rest) == c.maced \o mac \o SubSeq(mem, fill + 1, fill + rest)
LastMac(mem, at, t) == SubSeq(mem, at + 1, at + t)
SetLen(r, v) == [r EXCEPT !.outlen = v]

TagManyOf(t, h, c, mem, q, fill, rest) ==
    LET mac  == MacWith(c, mem, fill)
        mac2 == UpdateFrom(h, c, mac, mem, q)
        many == UpdateBlocks(B, h, mac2.ctx, mac2.mem, fill, rest, q + mac2.outlen)
    IN SetLen(SetTag(many, MoreMaced(many.ctx, mac, mac2.mem, fill, rest),
                     LastMac(many.mem, fill + rest, t), many.ctx.encedlen + rest),
              mac2.outlen + many.outlen)
ManyCase(t, c, n, fill, rest) ==
    /\ t \in Nat /\ n \in Nat /\ fill \in Nat /\ rest \in Nat \ {0}
    /\ fill = t - Len(c.mac) /\ rest = n - fill - t

\* The case of more bytes than the tag has.
LEMMA TagManyIs ==
  ASSUME NEW t, NEW h, NEW c, NEW mem, NEW n, NEW q, NEW fill, NEW rest,
         ManyCase(t, c, n, fill, rest)
  PROVE  UpdateTag(t, h, c, mem, n, q) = TagManyOf(t, h, c, mem, q, fill, rest)
  <1>0. /\ t \in Nat /\ n \in Nat /\ fill \in Nat /\ rest \in Nat \ {0}
        /\ fill = t - Len(c.mac) /\ rest = n - fill - t
    BY DEF ManyCase
  <1>00. t \in Nat /\ n \in Nat /\ fill \in Nat
    BY <1>0
  <1>01. PICK some \in Int : some = n - fill
    BY <1>00
  <1>02. rest = some - t /\ some > t
    BY <1>0, <1>01
  <1>03. PICK mac : mac = MacWith(c, mem, fill)
    OBVIOUS
  <1>1. PICK mac2 : mac2 = UpdateFrom(h, c, mac, mem, q)
    OBVIOUS
  <1>2. PICK many :
            many = UpdateBlocks(B, h, mac2.ctx, mac2.mem, fill, rest, q + mac2.outlen)
    OBVIOUS
  <1>3. PICK r1 : r1 = [ctx |-> [c EXCEPT !.mac = @ \o SubSeq(mem, 1, n)], mem |-> mem,
                        outlen |-> -1]
    OBVIOUS
  <1>4. PICK r3 : r3 = [many EXCEPT
            !.ctx.maced = @ \o mac \o SubSeq(mac2.mem, fill + 1, fill + rest),
            !.ctx.mac = SubSeq(many.mem, fill + rest + 1, fill + rest + t),
            !.ctx.encedlen = @ + rest, !.outlen = mac2.outlen + @]
    OBVIOUS
  <1>41. PICK few : few = UpdateFrom(h, c, SubSeq(mac, 1, some), mem, q)
    OBVIOUS
  <1>5. PICK r2 : r2 = [few EXCEPT !.ctx.maced = @ \o SubSeq(mac, 1, some),
                          !.ctx.mac = SubSeq(mac, some + 1, t)
                                        \o SubSeq(few.mem, fill + 1, fill + some),
                          !.ctx.encedlen = @ + some]
    OBVIOUS
  <1>6. PICK r : r = UpdateTag(t, h, c, mem, n, q)
    OBVIOUS
  <1>7. r = CASE fill > 0 /\ n <= fill -> r1
              [] some \in 0 .. t /\ (fill = 0 \/ n > fill) -> r2
              [] some > t -> r3
    BY <1>0, <1>01, <1>02, <1>03, <1>1, <1>2, <1>3, <1>4, <1>41, <1>5, <1>6, ZenonT(30)
    DEF UpdateTag, MacWith
  <1>9. r = r3
    BY <1>0, <1>01, <1>02, <1>7, TagCase
  <1>91. PICK e : e = SetTag(many, MoreMaced(many.ctx, mac, mac2.mem, fill, rest),
                       LastMac(many.mem, fill + rest, t), many.ctx.encedlen + rest)
    OBVIOUS
  <1>10. r3 = SetLen(e, mac2.outlen + many.outlen)
    BY <1>4, <1>91 DEF SetTag, SetLen, MoreMaced, LastMac
  <1>11. r3 = TagManyOf(t, h, c, mem, q, fill, rest)
    BY <1>03, <1>1, <1>2, <1>91, <1>10 DEF TagManyOf
  <1> QED
    BY <1>6, <1>9, <1>11

\* The call after which there is no more than a tag.
TagNoneOf(c, mem, n) ==
    [ctx |-> [c EXCEPT !.mac = @ \o SubSeq(mem, 1, n)], mem |-> mem, outlen |-> -1]
NoneCase(t, c, n, fill) ==
    /\ t \in Nat /\ n \in Nat /\ fill \in Nat
    /\ fill = t - Len(c.mac) /\ fill > 0 /\ n <= fill

\* UpdateTag, when all may belong to the tag.
LEMMA TagNoneIs ==
  ASSUME NEW t, NEW h, NEW c, NEW mem, NEW n, NEW q, NEW fill, NoneCase(t, c, n, fill)
  PROVE  UpdateTag(t, h, c, mem, n, q) = TagNoneOf(c, mem, n)
  <1>0. /\ t \in Nat /\ n \in Nat /\ fill \in Nat
        /\ fill = t - Len(c.mac) /\ fill > 0 /\ n <= fill
    BY DEF NoneCase
  <1>00. t \in Nat /\ n \in Nat /\ fill \in Nat
    BY <1>0
  <1>01. PICK some \in Int : some = n - fill
    BY <1>00
  <1>03. PICK mac, rest : mac = MacWith(c, mem, fill) /\ rest = some - t
    OBVIOUS
  <1>1. PICK mac2 : mac2 = UpdateFrom(h, c, mac, mem, q)
    OBVIOUS
  <1>2. PICK many :
            many = UpdateBlocks(B, h, mac2.ctx, mac2.mem, fill, rest, q + mac2.outlen)
    OBVIOUS
  <1>3. PICK r1 : r1 = [ctx |-> [c EXCEPT !.mac = @ \o SubSeq(mem, 1, n)], mem |-> mem,
                        outlen |-> -1]
    OBVIOUS
  <1>4. PICK r3 : r3 = [many EXCEPT
            !.ctx.maced = @ \o mac \o SubSeq(mac2.mem, fill + 1, fill + rest),
            !.ctx.mac = SubSeq(many.mem, fill + rest + 1, fill + rest + t),
            !.ctx.encedlen = @ + rest, !.outlen = mac2.outlen + @]
    OBVIOUS
  <1>41. PICK few : few = UpdateFrom(h, c, SubSeq(mac, 1, some), mem, q)
    OBVIOUS
  <1>5. PICK r2 : r2 = [few EXCEPT !.ctx.maced = @ \o SubSeq(mac, 1, some),
                          !.ctx.mac = SubSeq(mac, some + 1, t)
                                        \o SubSeq(few.mem, fill + 1, fill + some),
                          !.ctx.encedlen = @ + some]
    OBVIOUS
  <1>6. PICK r : r = UpdateTag(t, h, c, mem, n, q)
    OBVIOUS
  <1>7. r = CASE fill > 0 /\ n <= fill -> r1
              [] some \in 0 .. t /\ (fill = 0 \/ n > fill) -> r2
              [] some > t -> r3
    BY <1>0, <1>01, <1>03, <1>1, <1>2, <1>3, <1>4, <1>41, <1>5, <1>6, ZenonT(30)
    DEF UpdateTag, MacWith
  <1>9. r = r1
    BY <1>0, <1>01, <1>7, TagCase
  <1> QED
    BY <1>3, <1>6, <1>9 DEF TagNoneOf

Kept(r, u, c, mem, k, d, m) ==
    /\ r.ctx = Ctx(r.ctx, u, k, d) /\ r.ctx.mac = Bytes(d, m)
    /\ r.ctx.maced = c.maced /\ r.ctx.encedlen = c.encedlen
    /\ r.mem = mem /\ r.outlen = -1

\* It keeps all of them.
LEMMA TagNone ==
  ASSUME NEW u, NEW h \in {0, 1}, NEW k \in Nat, NEW d \in Nat, NEW c, NEW nb,
         NEW t \in Nat, NEW m \in Nat, NEW mem, NEW n \in Nat,
         InTag(c, u, h, k, d, nb, t, m, mem, n), m < t, m + n <= t
  PROVE  Kept(UpdateTag(t, h, c, mem, n, n), u, c, mem, k, d, m + n)
  <1>0. m <= t /\ IsSeq(mem) /\ n + nb + n <= Len(mem) /\ u = B
    BY DEF InTag
  <1>01. Counts(u, h, d, k) /\ c = Ctx(c, u, k, d) /\ nb = d - k * u
    BY DEF InTag
  <1>02. c.mac = Bytes(d, m)
    BY DEF InTag
  <1>03. PICK f \in Nat : f = d + m
    OBVIOUS
  <1>04. \A i \in 1 .. n : mem[i] = Byte(f + i)
    BY <1>03 DEF InTag
  <1>1. PICK fill \in Nat : fill = t - m
    OBVIOUS
  <1>2. u \in Nat \ {0} /\ Len(mem) \in Nat
    BY <1>0, KnownSizes, SeqFun
  <1>3. PICK x \in Nat : x = k * u
    BY <1>2
  <1>4. nb \in Nat
    BY <1>2, <1>3, <1>01 DEF Counts
  <1>5. PICK b : b = c.mac \o SubSeq(mem, 1, n)
    OBVIOUS
  <1>6. b = Bytes(d, m + n)
    <2>1. 0 + n <= Len(mem) /\ \A i \in 1 .. n : mem[0 + i] = Byte(f + i)
      BY <1>0, <1>2, <1>4, <1>04
    <2>2. IsBytes(SubSeq(mem, 0 + 1, 0 + n), f, n)
      BY <1>0, <2>1, BytesIn
    <2>3. PICK z \in Nat : z = m + n
      OBVIOUS
    <2>31. IsBytes(Bytes(d, m) \o Bytes(f, n), d, z)
      BY <1>03, <2>3, BytesConcat
    <2>4. 0 + 1 = 1 /\ 0 + n = n
      OBVIOUS
    <2> QED
      BY <1>02, <1>5, <2>2, <2>3, <2>31, <2>4 DEF IsBytes
  <1>7. Len(c.mac) = m
    BY <1>02, BytesSeq
  <1>8. PICK r : r = UpdateTag(t, h, c, mem, n, n)
    OBVIOUS
  <1>9. r = [ctx |-> [c EXCEPT !.mac = b], mem |-> mem, outlen |-> -1]
    <2>1. NoneCase(t, c, n, fill)
      BY <1>1, <1>7 DEF NoneCase
    <2>2. r = TagNoneOf(c, mem, n)
      BY <1>8, <2>1, TagNoneIs
    <2> QED
      BY <1>5, <2>2 DEF TagNoneOf
  <1>10. IsCtx(c) /\ c.block = Bytes(k * u, d - k * u) /\ c.iv = Chain(k)
    BY <1>01, CtxIs
  <1>11. PICK c3 : c3 = [c EXCEPT !.mac = b]
    OBVIOUS
  <1>12. c3 = [block |-> c.block, iv |-> c.iv, mac |-> b, maced |-> c.maced,
               encedlen |-> c.encedlen]
    BY <1>10, <1>11 DEF IsCtx
  <1>13. c3.mac = b /\ c3.maced = c.maced /\ c3.encedlen = c.encedlen
    BY <1>12
  <1>14. c3 = Ctx(c3, u, k, d)
    BY <1>10, <1>12, <1>13 DEF Ctx
  <1>15. r.ctx = c3 /\ r.mem = mem /\ r.outlen = -1
    BY <1>9, <1>11
  <1>16. Kept(r, u, c, mem, k, d, m + n)
    BY <1>6, <1>13, <1>14, <1>15 DEF Kept
  <1> QED
    BY <1>8, <1>16

\* The call that brings more bytes than the tag has.
LEMMA TagMany ==
  ASSUME NEW u, NEW h \in {0, 1}, NEW k \in Nat, NEW d \in Nat, NEW c, NEW nb,
         NEW t \in Nat, NEW m \in Nat, NEW mem, NEW n \in Nat,
         InTag(c, u, h, k, d, nb, t, m, mem, n),
         NEW rest \in Nat \ {0}, n = (t - m) + t + rest
  PROVE  TagUpdated(UpdateTag(t, h, c, mem, n, n), u, h, c, mem, n, k, d + (t + rest), t)
  <1>0. m <= t /\ IsSeq(mem) /\ n + nb + n <= Len(mem) /\ u = B
    BY DEF InTag
  <1>01. Counts(u, h, d, k) /\ c = Ctx(c, u, k, d) /\ nb = d - k * u
    BY DEF InTag
  <1>02. c.mac = Bytes(d, m) /\ c.maced = Bytes(0, d) /\ EncIn(c.encedlen, d)
    BY DEF InTag
  <1>03. PICK f \in Nat : f = d + m
    OBVIOUS
  <1>04. \A i \in 1 .. n : mem[i] = Byte(f + i)
    BY <1>03 DEF InTag
  <1>1. PICK fill \in Nat : fill = t - m
    BY <1>0
  <1>2. u \in Nat \ {0} /\ Len(mem) \in Nat
    BY <1>0, KnownSizes, SeqFun
  <1>3. PICK x \in Nat : x = k * u
    BY <1>2
  <1>4. nb \in Nat
    BY <1>2, <1>3, <1>01 DEF Counts
  <1>41. /\ n = fill + rest + t /\ n <= Len(mem) /\ n + nb + t <= Len(mem)
         /\ n + nb + t + rest <= Len(mem)
    BY <1>0, <1>1, <1>2, <1>4
  <1>5. PICK mac : mac = MacWith(c, mem, fill)
    OBVIOUS
  <1>6. mac = Bytes(d, t)
    <2>1. 0 + fill <= Len(mem) /\ \A i \in 1 .. fill : mem[0 + i] = Byte(f + i)
      BY <1>2, <1>41, <1>04
    <2>2. IsBytes(SubSeq(mem, 0 + 1, 0 + fill), f, fill)
      BY <1>0, <2>1, BytesIn
    <2>3. IsBytes(Bytes(d, m) \o Bytes(f, fill), d, t)
      BY <1>03, <1>1, BytesConcat
    <2>4. 0 + 1 = 1 /\ 0 + fill = fill
      OBVIOUS
    <2> QED
      BY <1>02, <1>5, <2>2, <2>3, <2>4 DEF IsBytes, MacWith
  <1>7. PICK mac2 : mac2 = UpdateFrom(h, c, mac, mem, n)
    OBVIOUS
  <1>8. Updated(mac2, u, h, c, mem, n, k, d, t)
    <2>1. IsBytes(mac, d, t)
      BY <1>6 DEF IsBytes
    <2>2. Updated(UpdateFrom(h, c, mac, mem, n), u, h, c, mem, n, k, d, t)
      BY <1>0, <1>01, <1>41, <2>1, FromIs
    <2> QED
      BY <1>7, <2>2
  <1>9. PICK k1 \in Nat :
            /\ Counts(u, h, d + t, k1) /\ k * u <= k1 * u
            /\ mac2 = [ctx |-> Ctx(c, u, k1, d + t), mem |-> mac2.mem,
                       outlen |-> k1 * u - k * u]
            /\ PutOut(u, mac2.mem, mem, n, k * u, k1 * u - k * u)
    BY <1>8 DEF Updated
  <1>10. PICK d1 \in Nat : d1 = d + t
    OBVIOUS
  <1>11. PICK g1, w1, mem1 :
            g1 = Ctx(c, u, k1, d1) /\ w1 = k1 * u - k * u /\ mem1 = mac2.mem
    OBVIOUS
  <1>12. mac2.ctx = g1 /\ mac2.outlen = w1 /\ mac2.mem = mem1
    BY <1>9, <1>10, <1>11
  <1>13. g1 = Ctx(g1, u, k1, d1) /\ g1.maced = c.maced /\ g1.encedlen = c.encedlen
    BY <1>11, CtxAgain
  <1>14. PICK x1 \in Nat : x1 = k1 * u
    BY <1>2
  <1>15. PICK nb1 : nb1 = d1 - k1 * u
    OBVIOUS
  <1>16. nb1 \in Nat /\ w1 \in Nat /\ w1 = x1 - x /\ w1 + nb1 = nb + t
    <2>1. x1 <= d1 /\ x <= x1 /\ nb1 = d1 - x1 /\ w1 = x1 - x /\ nb = d - x
      BY <1>3, <1>01, <1>9, <1>10, <1>11, <1>14, <1>15 DEF Counts
    <2> QED
      BY <1>10, <2>1
  <1>17. /\ IsSeq(mem1) /\ Len(mem1) = Len(mem)
         /\ \A i \in 1 .. Len(mem) : i \notin n + 1 .. n + w1 => mem1[i] = mem[i]
    BY <1>9, <1>11 DEF PutOut
  <1>18. ASSUME NEW i \in 1 .. rest PROVE mem1[fill + i] = Byte(d1 + i)
    <2>1. fill + i \in 1 .. n /\ fill + i \in 1 .. Len(mem) /\ f + (fill + i) = d1 + i
          /\ fill + i \notin n + 1 .. n + w1
      BY <1>03, <1>1, <1>2, <1>10, <1>41, <1>16
    <2>2. mem1[fill + i] = mem[fill + i] /\ mem[fill + i] = Byte(f + (fill + i))
      BY <1>04, <1>17, <2>1
    <2> QED
      BY <2>1, <2>2
  <1>19. PICK q1 \in Nat : q1 = n + w1
    BY <1>16
  <1>20. PICK many : many = UpdateBlocks(u, h, g1, mem1, fill, rest, q1)
    OBVIOUS
  <1>21. Updated(many, u, h, g1, mem1, q1, k1, d1, rest)
    <2>1. /\ fill + rest <= Len(mem1) /\ q1 + nb1 + rest <= Len(mem1)
          /\ fill + rest <= q1
      BY <1>2, <1>4, <1>16, <1>17, <1>19, <1>41
    <2>2. Counts(u, h, d1, k1)
      BY <1>9, <1>10
    <2>3. rest \in Nat
      OBVIOUS
    <2>4. Updated(UpdateBlocks(u, h, g1, mem1, fill, rest, q1), u, h, g1, mem1, q1, k1, d1,
                  rest)
      BY <1>2, <1>13, <1>15, <1>17, <1>18, <2>1, <2>2, <2>3, UpdateBlocksIs
    <2> QED
      BY <1>20, <2>4
  <1>22. PICK k2 \in Nat :
            /\ Counts(u, h, d1 + rest, k2) /\ k1 * u <= k2 * u
            /\ many = [ctx |-> Ctx(g1, u, k2, d1 + rest), mem |-> many.mem,
                       outlen |-> k2 * u - k1 * u]
            /\ PutOut(u, many.mem, mem1, q1, k1 * u, k2 * u - k1 * u)
    BY <1>21 DEF Updated
  <1>23. PICK e \in Nat : e = d1 + rest
    OBVIOUS
  <1>24. PICK g, w2, mem2 :
            g = Ctx(g1, u, k2, e) /\ w2 = k2 * u - k1 * u /\ mem2 = many.mem
    OBVIOUS
  <1>25. many = [ctx |-> g, mem |-> mem2, outlen |-> w2]
    BY <1>22, <1>23, <1>24
  <1>26. PICK x2 \in Nat : x2 = k2 * u
    BY <1>2
  <1>27. w2 \in Nat /\ w2 = x2 - x1 /\ w1 + w2 = x2 - x /\ w1 + w2 = k2 * u - k * u
         /\ k * u <= k2 * u
    <2>1. x1 <= x2 /\ w2 = x2 - x1 /\ x <= x1
      BY <1>3, <1>9, <1>14, <1>22, <1>24, <1>26
    <2>2. w2 \in Nat /\ w1 + w2 = x2 - x /\ x <= x2
      BY <1>16, <2>1
    <2> QED
      BY <1>3, <1>26, <2>1, <2>2
  <1>28. PutOut(u, mem2, mem, n, k * u, k2 * u - k * u)
    <2>1. PICK w \in Nat : w = w1 + w2
      BY <1>16, <1>27
    <2>2. n + w1 <= Len(mem)
      BY <1>2, <1>4, <1>16, <1>41
    <2>3. PutOut(u, mem1, mem, n, x, w1) /\ PutOut(u, mem2, mem1, q1, x1, w2)
      BY <1>3, <1>9, <1>11, <1>14, <1>22, <1>24
    <2>4. x1 = x + w1
      BY <1>16
    <2>5. PutOut(u, mem2, mem, n, x, w)
      <3>1. PICK y \in Nat, z \in Nat : y = w1 /\ z = w2
        BY <1>16, <1>27
      <3>2. PICK q \in Nat : q = n
        OBVIOUS
      <3>3. /\ q + y <= Len(mem) /\ q1 = q + y /\ x1 = x + y /\ w = y + z
            /\ PutOut(u, mem1, mem, q, x, y) /\ PutOut(u, mem2, mem1, q1, x1, z)
        BY <1>19, <2>1, <2>2, <2>3, <2>4, <3>1, <3>2
      <3>4. PutOut(u, mem2, mem, q, x, w)
        BY <1>2, <3>3, PutOutMore
      <3> QED
        BY <3>2, <3>4
    <2> QED
      BY <1>3, <1>27, <2>1, <2>5
  <1>29. /\ IsCtx(g) /\ g.maced = c.maced /\ g.encedlen = c.encedlen
         /\ g.block = Bytes(k2 * u, e - k2 * u) /\ g.iv = Chain(k2)
    <2>1. g = Ctx(g, u, k2, e) /\ g.maced = g1.maced /\ g.encedlen = g1.encedlen
      BY <1>24, CtxAgain
    <2>2. IsCtx(g) /\ g.block = Bytes(k2 * u, e - k2 * u) /\ g.iv = Chain(k2)
      <3>1. g = Ctx(g, u, k2, e)
        BY <2>1
      <3> QED
        BY <3>1, CtxIs
    <2> QED
      BY <1>13, <2>1, <2>2
  <1>30. PICK l : l = c.encedlen + rest
    OBVIOUS
  <1>31. PICK at \in Nat : at = fill + rest
    OBVIOUS
  <1>32. PICK a, b : a = MoreMaced(g, mac, mem1, fill, rest) /\ b = LastMac(mem2, at, t)
    OBVIOUS
  <1>33. PICK s : s = SetTag(many, a, b, l)
    OBVIOUS
  <1>34. PICK c3 : c3 = [block |-> g.block, iv |-> g.iv, mac |-> b, maced |-> a,
                         encedlen |-> l]
    OBVIOUS
  <1>35. s = [ctx |-> c3, mem |-> mem2, outlen |-> w2]
    <2>1. s = [ctx |-> [block |-> g.block, iv |-> g.iv, mac |-> b, maced |-> a,
                        encedlen |-> l], mem |-> mem2, outlen |-> w2]
      BY <1>25, <1>29, <1>33, SetTagIs
    <2> QED
      BY <1>34, <2>1
  <1>36. PICK r : r = UpdateTag(t, h, c, mem, n, n)
    OBVIOUS
  <1>37. r = SetLen(s, w1 + w2)
    <2>1. Len(c.mac) = m
      BY <1>02, BytesSeq
    <2>2. ManyCase(t, c, n, fill, rest)
      BY <1>1, <1>41, <2>1 DEF ManyCase
    <2>3. r = TagManyOf(t, h, c, mem, n, fill, rest)
      BY <1>36, <2>2, TagManyIs
    <2>4. many = UpdateBlocks(B, h, mac2.ctx, mac2.mem, fill, rest, n + mac2.outlen)
      BY <1>0, <1>12, <1>19, <1>20
    <2>5. r = SetLen(SetTag(many, MoreMaced(many.ctx, mac, mac2.mem, fill, rest),
                            LastMac(many.mem, fill + rest, t), many.ctx.encedlen + rest),
                     mac2.outlen + many.outlen)
      BY <1>5, <1>7, <2>3, <2>4 DEF TagManyOf
    <2>6. many.ctx = g /\ many.mem = mem2 /\ many.outlen = w2
      BY <1>25
    <2> QED
      BY <1>12, <1>29, <1>30, <1>31, <1>32, <1>33, <2>5, <2>6 DEF MoreMaced
  <1>38. r.ctx = c3 /\ r.mem = mem2 /\ r.outlen = w1 + w2
    BY <1>35, <1>37 DEF SetLen
  <1>39. a = Bytes(0, e)
    <2>1. IsBytes(Bytes(0, d) \o Bytes(d, t), 0, d1)
      <3>1. d = 0 + d
        OBVIOUS
      <3> QED
        BY <1>10, <3>1, BytesConcat
    <2>2. IsBytes(SubSeq(mem1, fill + 1, fill + rest), d1, rest)
      <3>1. fill + rest <= Len(mem1) /\ rest \in Nat
        BY <1>2, <1>17, <1>41
      <3> QED
        BY <1>17, <1>18, <3>1, BytesIn
    <2>3. IsBytes(Bytes(0, d1) \o Bytes(d1, rest), 0, e)
      <3>1. d1 = 0 + d1 /\ rest \in Nat
        OBVIOUS
      <3> QED
        BY <1>23, <3>1, BytesConcat
    <2> QED
      BY <1>02, <1>6, <1>29, <1>32, <2>1, <2>2, <2>3 DEF IsBytes, MoreMaced
  <1>40. b = Bytes(e, t)
    <2>1. /\ IsSeq(mem2) /\ Len(mem2) = Len(mem)
          /\ \A i \in 1 .. Len(mem) : i \notin n + 1 .. n + (w1 + w2) => mem2[i] = mem[i]
      BY <1>27, <1>28 DEF PutOut
    <2>2. ASSUME NEW i \in 1 .. t PROVE mem2[at + i] = Byte(e + i)
      <3>1. at + i \in 1 .. n /\ at + i \in 1 .. Len(mem) /\ f + (at + i) = e + i
            /\ at + i \notin n + 1 .. n + (w1 + w2)
        BY <1>03, <1>1, <1>2, <1>10, <1>23, <1>31, <1>41, <1>16, <1>27
      <3>2. mem2[at + i] = mem[at + i] /\ mem[at + i] = Byte(f + (at + i))
        BY <1>04, <2>1, <3>1
      <3> QED
        BY <3>1, <3>2
    <2>3. at + t <= Len(mem2)
      BY <1>2, <1>31, <1>41, <2>1
    <2>4. IsBytes(SubSeq(mem2, at + 1, at + t), e, t)
      BY <2>1, <2>2, <2>3, BytesIn
    <2> QED
      BY <1>32, <2>4 DEF IsBytes, LastMac
  <1>42. EncIn(l, e)
    <2>1. rest <= t + rest /\ t + rest \in Nat /\ rest \in Nat /\ e = d + (t + rest)
      BY <1>10, <1>23
    <2>2. EncIn(c.encedlen + rest, d + (t + rest))
      BY <1>02, <2>1, EncMore
    <2> QED
      BY <1>30, <2>1, <2>2
  <1>43. c3 = Ctx(c3, u, k2, e) /\ c3.mac = b /\ c3.maced = a /\ c3.encedlen = l
    <2>1. c3.mac = b /\ c3.maced = a /\ c3.encedlen = l
      BY <1>34
    <2> QED
      BY <1>29, <1>34, <2>1 DEF Ctx
  <1>44. TagUpdated(r, u, h, c, mem, n, k, e, t)
    <2>1. Counts(u, h, e, k2)
      BY <1>22, <1>23
    <2> QED
      BY <1>27, <1>28, <1>38, <1>39, <1>40, <1>42, <1>43, <2>1 DEF TagUpdated
  <1>45. e = d + (t + rest)
    BY <1>10, <1>23
  <1> QED
    BY <1>36, <1>44, <1>45

-----------------------------------------------------------------------------
(* One update, from the caller's side.                                     *)

\* A tool keeps to whole blocks.
LEMMA PlacedAligned ==
  ASSUME NEW n, NEW q, NEW nb, NEW mem, Placed(n, q, nb, mem)
  PROVE  AlignedAt(fed + n)
  BY DEF Placed, AlignedAt

Stepped(r, q, n) ==
    /\ Written(n, r) \in Nat
    /\ RunAt(r.ctx, out \o SubSeq(r.mem, q + 1, q + Written(n, r)), fed + n)

\* A call that sets outlen is believed.
LEMMA WrittenIs == ASSUME NEW n, NEW r, r.outlen \in Nat PROVE Written(n, r) = r.outlen
  <1>1. r.outlen # -1
    OBVIOUS
  <1> QED
    BY <1>1 DEF Written

\* Update of a mode without a MAC.
LEMMA BlockStep ==
  ASSUME Setting, ToolsInPlace, RunAt(ctx, out, fed), mode \notin MacModes \cup TagModes,
         NEW n \in Sizes, NEW q, q = OutAt(n),
         NEW r, r = UpdateBlocks(Unit(mode), Hold(mode), ctx, Buffer(n), 0, n, q)
  PROVE  Stepped(r, q, n)
  <1>1. DataAt(fed) = fed /\ DataAt(fed + n) = fed + n
    BY DEF DataAt
  <1>2. PICK k \in Nat : StreamAt(ctx, out, fed, k)
    BY <1>1 DEF RunAt
  <1>3. Placed(n, q, fed - k * Unit(mode), Buffer(n))
    BY <1>2, PlacedIs DEF RunAt
  <1>4. n \in Nat /\ q \in Nat /\ fed \in Nat
    BY <1>3, InputNat DEF Placed
  <1>5. PICK k2 \in Nat :
            /\ Done(r.ctx, r.outlen, r.mem, q, n, fed + n, k, k2)
            /\ r = [ctx |-> r.ctx, mem |-> r.mem, outlen |-> r.outlen]
            /\ r.ctx.mac = ctx.mac /\ r.ctx.maced = ctx.maced
            /\ r.ctx.encedlen = ctx.encedlen
            /\ r.outlen \in Nat /\ q + r.outlen <= Len(Buffer(n))
    BY <1>2, <1>3, UpdateDone
  <1>51. PICK w \in Nat : w = r.outlen
    BY <1>5
  <1>6. PICK c2, mem2 : w = r.outlen /\ c2 = r.ctx /\ mem2 = r.mem
    BY <1>51
  <1>7. StreamAt(c2, out \o SubSeq(mem2, q + 1, q + w), fed + n, k2)
    <2>1. Done(c2, w, mem2, q, n, fed + n, k, k2) /\ q + w <= Len(Buffer(n))
      BY <1>5, <1>6
    <2> QED
      BY <1>2, <1>4, <2>1, DoneIs
  <1>8. PICK o2 : o2 = out \o SubSeq(mem2, q + 1, q + w)
    OBVIOUS
  <1>9. MacAt(c2, o2, fed + n)
    BY DEF MacAt, MacModes
  <1>10. AlignedAt(fed + n)
    BY <1>3, PlacedAligned
  <1>11. RunAt(c2, o2, fed + n)
    BY <1>1, <1>7, <1>8, <1>9, <1>10 DEF RunAt
  <1> QED
    BY <1>6, <1>8, <1>11, WrittenIs DEF Stepped

\* Update of a mode that encrypts and then takes the MAC.
LEMMA MacStep ==
  ASSUME Setting, ToolsInPlace, RunAt(ctx, out, fed), mode \in MacModes,
         NEW n \in Sizes, ~TooLong(n), NEW q, q = OutAt(n),
         NEW r, r = UpdateMac(ctx, Buffer(n), n, q)
  PROVE  Stepped(r, q, n)
  <1>1. DataAt(fed) = fed /\ DataAt(fed + n) = fed + n /\ mode \notin TagModes
    BY DEF DataAt, MacModes, TagModes
  <1>2. PICK k \in Nat : StreamAt(ctx, out, fed, k)
    BY <1>1 DEF RunAt
  <1>3. Placed(n, q, fed - k * Unit(mode), Buffer(n))
    BY <1>1, <1>2, PlacedIs DEF RunAt
  <1>4. n \in Nat /\ q \in Nat /\ fed \in Nat
    BY <1>3, InputNat DEF Placed
  <1>5. PICK p : p = UpdateBlocks(Unit(mode), Hold(mode), ctx, Buffer(n), 0, n, q)
    OBVIOUS
  <1>6. PICK k2 \in Nat :
            /\ Done(p.ctx, p.outlen, p.mem, q, n, fed + n, k, k2)
            /\ p = [ctx |-> p.ctx, mem |-> p.mem, outlen |-> p.outlen]
            /\ p.ctx.mac = ctx.mac /\ p.ctx.maced = ctx.maced
            /\ p.ctx.encedlen = ctx.encedlen
            /\ p.outlen \in Nat /\ q + p.outlen <= Len(Buffer(n))
    BY <1>2, <1>3, <1>5, UpdateDone
  <1>61. PICK w \in Nat : w = p.outlen
    BY <1>6
  <1>7. PICK c2, mem2 : w = p.outlen /\ c2 = p.ctx /\ mem2 = p.mem
    BY <1>61
  <1>8. PICK o2 : o2 = out \o SubSeq(mem2, q + 1, q + w)
    OBVIOUS
  <1>9. StreamAt(c2, o2, fed + n, k2)
    <2>1. Done(c2, w, mem2, q, n, fed + n, k, k2) /\ q + w <= Len(Buffer(n))
      BY <1>6, <1>7
    <2>2. StreamAt(c2, out \o SubSeq(mem2, q + 1, q + w), fed + n, k2)
      BY <1>2, <1>4, <2>1, DoneIs
    <2> QED
      BY <1>8, <2>2
  <1>10. PICK a, e : a = ctx.maced \o SubSeq(mem2, q + 1, q + w) /\ e = ctx.encedlen + n
    OBVIOUS
  <1>11. p = [ctx |-> c2, mem |-> mem2, outlen |-> w]
         /\ c2.maced = ctx.maced /\ c2.encedlen = ctx.encedlen
    BY <1>6, <1>7
  <1>12. r = [p EXCEPT !.ctx.maced = a, !.ctx.encedlen = e]
    <2>1. Unit(mode) = B /\ Hold(mode) = 0
      BY KnownSizes
    <2>2. p = UpdateBlocks(B, 0, ctx, Buffer(n), 0, n, q)
      BY <1>5, <2>1
    <2>3. r = [p EXCEPT !.ctx.maced = @ \o SubSeq(p.mem, q + 1, q + p.outlen),
                        !.ctx.encedlen = @ + n]
      BY <2>2 DEF UpdateMac
    <2>4. p.ctx.maced = ctx.maced /\ p.ctx.encedlen = ctx.encedlen /\ p.mem = mem2
          /\ p.outlen = w
      BY <1>6, <1>7
    <2> QED
      BY <1>10, <2>3, <2>4
  <1>13. c2 = Ctx(c2, Unit(mode), k2, fed + n)
    BY <1>9 DEF StreamAt
  <1>14. IsCtx(c2)
    BY <1>13, CtxIs
  <1>15. PICK c3 : c3 = [block |-> c2.block, iv |-> c2.iv, mac |-> c2.mac, maced |-> a,
                         encedlen |-> e]
    OBVIOUS
  <1>16. r = [ctx |-> c3, mem |-> mem2, outlen |-> w]
    <2>1. PICK r1 : r1 = [p EXCEPT !.ctx.maced = a]
      OBVIOUS
    <2>2. PICK p2 : p2 = [ctx |-> c2, mem |-> mem2, outlen |-> w] /\ p2 = p
      BY <1>11
    <2>3. r1 = [p2 EXCEPT !.ctx.maced = a]
      BY <2>1, <2>2
    <2>4. r1 = [ctx |-> [block |-> c2.block, iv |-> c2.iv, mac |-> c2.mac, maced |-> a,
                         encedlen |-> c2.encedlen], mem |-> mem2, outlen |-> w]
      BY <1>14, <2>2, <2>3 DEF IsCtx
    <2>5. r = [r1 EXCEPT !.ctx.encedlen = e]
      BY <1>12, <2>1
    <2> QED
      BY <1>15, <2>4, <2>5
  <1>17. r.ctx = c3 /\ r.mem = mem2 /\ r.outlen = w
    BY <1>16
  <1>18. c3.mac = c2.mac /\ c3.maced = a /\ c3.encedlen = e /\ c3.block = c2.block
         /\ c3.iv = c2.iv
    BY <1>15
  <1>19. c3 = Ctx(c3, Unit(mode), k2, fed + n)
    <2>1. c2.block = Bytes(k2 * Unit(mode), (fed + n) - k2 * Unit(mode))
          /\ c2.iv = Chain(k2)
      BY <1>13, CtxIs
    <2> QED
      BY <1>15, <1>18, <2>1 DEF Ctx
  <1>20. StreamAt(c3, o2, fed + n, k2)
    BY <1>9, <1>19 DEF StreamAt
  <1>21. ctx.maced = out /\ ctx.encedlen = fed
    BY DEF RunAt, MacAt
  <1>22. a = o2 /\ e = fed + n
    BY <1>8, <1>10, <1>21
  <1>23. mode = "gcm_enc" => fed + n <= MaxPlaintext
    <2>1. MaxPlaintext \in Int
      BY KnownSizes, FirstNat DEF MaxPlaintext
    <2> QED
      BY <1>4, <1>21, <2>1 DEF TooLong
  <1>24. MacAt(c3, o2, fed + n)
    BY <1>1, <1>18, <1>22, <1>23 DEF MacAt
  <1>25. AlignedAt(fed + n)
    BY <1>3, PlacedAligned
  <1>26. RunAt(c3, o2, fed + n)
    BY <1>1, <1>20, <1>24, <1>25 DEF RunAt
  <1> QED
    BY <1>8, <1>17, <1>26, WrittenIs DEF Stepped

\* The bytes that cannot be the tag, before and after a call.
LEMMA DataIs ==
  ASSUME fed \in Nat, NEW n \in Nat, NEW t, t = TagLen(mode), mode \in TagModes,
         NEW d, d = DataAt(fed), NEW e, e = DataAt(fed + n)
  PROVE  /\ t \in Nat \ {0} /\ d \in Nat /\ e \in Nat /\ d <= fed /\ fed - d <= t
         /\ fed - d < t => d = 0
         /\ e = IF fed + n > t THEN (fed + n) - t ELSE 0
  <1>1. t \in Nat \ {0}
    BY KnownSizes
  <1>2. d = IF fed > t THEN fed - t ELSE 0
    BY DEF DataAt
  <1>3. e = IF fed + n > t THEN (fed + n) - t ELSE 0
    BY DEF DataAt
  <1>4. d \in Nat /\ d <= fed /\ fed - d <= t /\ (fed - d < t => d = 0)
    BY <1>1, <1>2
  <1>5. e \in Nat
    BY <1>1, <1>3
  <1> QED
    BY <1>1, <1>3, <1>4, <1>5

\* Update of a mode that keeps what may be the tag.
LEMMA TagStep ==
  ASSUME Setting, ToolsInPlace, RunAt(ctx, out, fed), mode \in TagModes,
         NEW n \in Sizes, NEW q, q = OutAt(n),
         NEW r, r = UpdateTag(TagLen(mode), Hold(mode), ctx, Buffer(n), n, q)
  PROVE  Stepped(r, q, n)
  <1>1. ~tool /\ q = n
    <2>1. ~tool
      BY DEF ToolsInPlace, Setting
    <2> QED
      BY <2>1 DEF OutAt
  <1>2. fed \in Nat /\ n \in Nat /\ n <= Piece
    BY InputNat, SizesAre
  <1>3. PICK t, d, e, f2 :
            t = TagLen(mode) /\ d = DataAt(fed) /\ e = DataAt(f2) /\ f2 = fed + n
    OBVIOUS
  <1>4. /\ t \in Nat \ {0} /\ d \in Nat /\ e \in Nat /\ d <= fed /\ fed - d <= t
        /\ fed - d < t => d = 0
        /\ e = IF fed + n > t THEN (fed + n) - t ELSE 0
    BY <1>2, <1>3, DataIs
  <1>5. PICK m \in Nat : m = fed - d
    BY <1>2, <1>4
  <1>6. PICK u \in Nat \ {0}, h \in {0, 1} : u = Unit(mode) /\ h = Hold(mode)
    BY KnownSizes
  <1>7. u = B /\ u <= DataUnit /\ Piece \in Nat /\ DataUnit \in Nat
    BY <1>6, KnownSizes
  <1>8. PICK k \in Nat : StreamAt(ctx, out, d, k)
    BY <1>3 DEF RunAt
  <1>9. Counts(u, h, d, k) /\ ctx = Ctx(ctx, u, k, d)
    BY <1>6, <1>8 DEF StreamAt
  <1>10. PICK nb : nb = d - k * u
    OBVIOUS
  <1>11. nb \in Nat /\ nb <= u
    <2>1. PICK x \in Nat : x = k * u
      OBVIOUS
    <2>2. x <= d /\ d < x + u + h /\ nb = d - x
      BY <1>9, <1>10, <2>1 DEF Counts
    <2> QED
      BY <1>4, <2>2
  <1>12. PICK mem : mem = Buffer(n)
    OBVIOUS
  <1>13. /\ IsSeq(mem) /\ Len(mem) = n + Piece + 2 * DataUnit
         /\ \A i \in 1 .. n : mem[i] = Byte(fed + i)
    BY <1>2, <1>12, BufferIs
  <1>14. n + nb + n <= Len(mem)
    BY <1>2, <1>7, <1>11, <1>13
  <1>15. ctx.mac = Bytes(d, m) /\ ctx.maced = Bytes(0, d) /\ EncIn(ctx.encedlen, d)
    BY <1>3, <1>5 DEF RunAt, MacAt
  <1>16. InTag(ctx, u, h, k, d, nb, t, m, mem, n)
    <2>1. d + m = fed /\ m <= t
      BY <1>2, <1>4, <1>5
    <2> QED
      BY <1>7, <1>9, <1>10, <1>13, <1>14, <1>15, <2>1 DEF InTag
  <1>17. r = UpdateTag(t, h, ctx, mem, n, n)
    BY <1>1, <1>3, <1>6, <1>12
  <1>18. AlignedAt(f2)
    BY <1>1 DEF AlignedAt
  <1>19. mode # "gcm_enc" /\ mode \notin MacModes
    BY DEF TagModes, MacModes
  <1>20. ASSUME NEW o2, NEW j \in Nat, StreamAt(r.ctx, o2, e, j),
                r.ctx.mac = Bytes(e, f2 - e), r.ctx.maced = Bytes(0, e),
                EncIn(r.ctx.encedlen, e)
         PROVE  RunAt(r.ctx, o2, f2)
    <2>1. MacAt(r.ctx, o2, f2)
      BY <1>3, <1>19, <1>20 DEF MacAt
    <2> QED
      BY <1>3, <1>18, <1>20, <2>1 DEF RunAt
  <1>21. ASSUME TagUpdated(r, u, h, ctx, mem, n, k, e, t), f2 - e = t
         PROVE  Stepped(r, q, n)
    <2>1. PICK k2 \in Nat :
            /\ Counts(u, h, e, k2) /\ k * u <= k2 * u
            /\ r.ctx = Ctx(r.ctx, u, k2, e)
            /\ r.ctx.mac = Bytes(e, t) /\ r.ctx.maced = Bytes(0, e)
            /\ EncIn(r.ctx.encedlen, e)
            /\ r.outlen = k2 * u - k * u
            /\ PutOut(u, r.mem, mem, n, k * u, k2 * u - k * u)
      BY <1>21 DEF TagUpdated
    <2>2. PICK x \in Nat, y \in Nat : x = k * u /\ y = k2 * u
      OBVIOUS
    <2>3. x <= y /\ r.outlen = y - x /\ y <= e /\ nb = d - x
      BY <1>10, <2>1, <2>2 DEF Counts
    <2>4. PICK w \in Nat : w = r.outlen
      BY <2>3
    <2>5. n + w <= Len(mem)
      <3>1. e <= d + n
        BY <1>2, <1>4
      <3>2. w <= nb + n
        BY <1>2, <1>4, <1>11, <2>3, <2>4, <3>1
      <3> QED
        BY <1>2, <1>7, <1>11, <1>13, <1>14, <3>2
    <2>6. PICK c2, mem2 : c2 = r.ctx /\ mem2 = r.mem
      OBVIOUS
    <2>7. Done(c2, w, mem2, n, n, e, k, k2)
      BY <1>6, <1>12, <2>1, <2>4, <2>6 DEF Done
    <2>8. StreamAt(c2, out \o SubSeq(mem2, n + 1, n + w), e, k2)
      <3>1. n + w <= Len(Buffer(n))
        BY <1>12, <2>5
      <3> QED
        BY <1>2, <1>8, <2>7, <3>1, DoneIs
    <2>9. PICK o2 : o2 = out \o SubSeq(mem2, n + 1, n + w)
      OBVIOUS
    <2>10. RunAt(r.ctx, o2, f2)
      BY <1>20, <1>21, <2>1, <2>6, <2>8, <2>9
    <2>11. Written(n, r) = w
      BY <2>4, WrittenIs
    <2> QED
      BY <1>1, <1>3, <2>6, <2>9, <2>10, <2>11 DEF Stepped
  <1>22. CASE m < t /\ m + n <= t
    <2>1. Kept(r, u, ctx, mem, k, d, m + n)
      <3>1. t \in Nat /\ d \in Nat
        BY <1>4
      <3>2. Kept(UpdateTag(t, h, ctx, mem, n, n), u, ctx, mem, k, d, m + n)
        BY <1>2, <1>16, <1>22, <3>1, TagNone
      <3> QED
        BY <1>17, <3>2
    <2>2. d = 0 /\ e = d /\ f2 - e = m + n
      BY <1>2, <1>3, <1>4, <1>5, <1>22
    <2>3. /\ r.ctx = Ctx(r.ctx, u, k, d) /\ r.ctx.mac = Bytes(d, m + n)
          /\ r.ctx.maced = ctx.maced /\ r.ctx.encedlen = ctx.encedlen
          /\ r.mem = mem /\ r.outlen = -1
      BY <2>1 DEF Kept
    <2>4. Written(n, r) = 0
      BY <1>1, <2>3 DEF Written
    <2>5. out \o SubSeq(mem, n + 1, n + 0) = out
      <3>1. IsSeq(out)
        <4>1. k * Unit(mode) \in Nat
          BY <1>6
        <4>2. out = Cells(Unit(mode), k * Unit(mode))
          BY <1>8 DEF StreamAt
        <4> QED
          BY <4>1, <4>2, CellsSeq
      <3>2. SubSeq(mem, n + 1, n + 0) = << >>
        BY <1>2, <1>13 DEF IsSeq
      <3>3. PICK S : out \in Seq(S)
        BY <3>1 DEF IsSeq
      <3>4. out \o << >> = out
        BY <3>3
      <3> QED
        BY <3>2, <3>4
    <2>6. StreamAt(r.ctx, out, e, k)
      BY <1>6, <1>8, <2>2, <2>3 DEF StreamAt
    <2>7. RunAt(r.ctx, out, f2)
      BY <1>15, <1>20, <2>2, <2>3, <2>6
    <2>8. out \o SubSeq(r.mem, q + 1, q + Written(n, r)) = out
      BY <1>1, <2>3, <2>4, <2>5
    <2> QED
      <3>1. PICK o2 : o2 = out \o SubSeq(r.mem, q + 1, q + Written(n, r))
        OBVIOUS
      <3>2. RunAt(r.ctx, o2, fed + n)
        BY <1>3, <2>7, <2>8, <3>1
      <3>3. Written(n, r) \in Nat
        BY <2>4
      <3> QED
        BY <3>1, <3>2, <3>3 DEF Stepped
  <1>23. CASE ~(m < t /\ m + n <= t)
    <2>1. PICK some \in Nat : n = (t - m) + some
      <3>1. n - (t - m) \in Nat /\ n = (t - m) + (n - (t - m))
        BY <1>2, <1>4, <1>5, <1>23
      <3> QED
        BY <3>1
    <2>2. (t = m \/ some > 0) /\ e = d + some /\ f2 - e = t
      <3>1. PICK a \in Nat : a = fed + n
        BY <1>2
      <3>2. fed = d + m /\ m <= t /\ (m < t => d = 0) /\ a = d + t + some
        BY <1>2, <1>4, <1>5, <2>1, <3>1
      <3>3. t = m \/ some > 0
        BY <1>2, <1>4, <1>23, <2>1
      <3>4. e = IF a > t THEN a - t ELSE 0
        BY <1>4, <3>1
      <3>5. e = d + some
        BY <1>4, <3>2, <3>3, <3>4
      <3> QED
        BY <1>3, <1>4, <3>1, <3>2, <3>3, <3>5
    <2>3. CASE some <= t
      <3>1. TagUpdated(UpdateTag(t, h, ctx, mem, n, n), u, h, ctx, mem, n, k, d + some, t)
        BY <1>2, <1>4, <1>16, <2>1, <2>2, <2>3, TagFew
      <3> QED
        BY <1>17, <1>21, <2>2, <3>1
    <2>4. CASE some > t
      <3>1. PICK rest \in Nat \ {0} : some = t + rest
        <4>1. some - t \in Nat \ {0} /\ some = t + (some - t)
          BY <1>4, <2>4
        <4> QED
          BY <4>1
      <3>2. n = (t - m) + t + rest
        BY <1>2, <1>4, <2>1, <3>1
      <3>3. TagUpdated(UpdateTag(t, h, ctx, mem, n, n), u, h, ctx, mem, n, k,
                       d + (t + rest), t)
        BY <1>2, <1>4, <1>16, <3>2, TagMany
      <3> QED
        BY <1>17, <1>21, <2>2, <3>1, <3>3
    <2> QED
      BY <1>4, <2>3, <2>4
  <1> QED
    BY <1>22, <1>23

-----------------------------------------------------------------------------
(* What the last call puts out.                                            *)

\* At the start nothing is out.
LEMMA EmptyIs ==
  /\ \A x : Bytes(x, 0) = << >>
  /\ \A u : Cells(u, 0) = << >>
  BY DEF Bytes, Cells

\* The first m bytes of the block that is left.
LEMMA BlockCells ==
  ASSUME NEW d \in Nat, NEW k \in Nat, StreamAt(ctx, out, d, k),
         NEW u, u = Unit(mode), NEW x, x = k * u, NEW nb, nb = d - x, nb <= u,
         NEW s, s = Crypt(ctx.block, ctx.iv)
  PROVE  /\ nb \in Nat /\ x \in Nat /\ ctx.block = Bytes(x, nb) /\ Len(ctx.block) = nb
         /\ IsSeq(s) /\ Len(s) = nb /\ out = Cells(u, x)
         /\ \A i \in 1 .. nb : s[i] = Cell(u, x + i)
  <1>1. PICK v \in Nat \ {0} : v = u
    BY KnownSizes
  <1>2. PICK y \in Nat : y = x
    BY <1>1
  <1>3. PICK l \in Nat : l = nb
    BY <1>1, <1>2 DEF StreamAt, Counts
  <1>4. ctx = Ctx(ctx, u, k, d)
    BY DEF StreamAt
  <1>5. ctx.block = Bytes(k * u, d - k * u) /\ ctx.iv = Chain(k)
    BY <1>4, CtxIs
  <1>6. ctx.block = Bytes(y, l)
    BY <1>2, <1>3, <1>5
  <1>7. Len(ctx.block) = l
    BY <1>6, BytesSeq
  <1>8. s = [i \in 1 .. l |-> CryptByte(ctx.block[i], ctx.iv, i)]
    BY <1>7, CryptFun
  <1>9. IsSeq(s) /\ Len(s) = l
    <2>1. s = [i \in 1 .. l |-> s[i]]
      BY <1>8
    <2> QED
      BY <2>1, FunSeq
  <1>10. ASSUME NEW i \in 1 .. l PROVE s[i] = Cell(u, x + i)
    <2>1. PICK r \in 0 .. v - 1 : i = r + 1
      <3>1. i - 1 \in 0 .. v - 1 /\ i = (i - 1) + 1
        BY <1>1, <1>3
      <3> QED
        BY <3>1
    <2>2. PICK z \in Nat : z = y + i
      OBVIOUS
    <2>3. z = k * v + r + 1
      BY <1>1, <1>2, <2>1, <2>2
    <2>4. Cell(v, z) = CryptByte(Byte(z), Chain(k), r + 1)
      BY <2>3, CellIs
    <2>5. ctx.block[i] = Byte(y + i)
      BY <1>6 DEF Bytes
    <2>6. s[i] = CryptByte(Byte(z), Chain(k), i)
      BY <1>5, <1>8, <2>2, <2>5
    <2> QED
      BY <1>1, <1>2, <2>1, <2>2, <2>4, <2>6
  <1>11. out = Cells(u, x)
    BY DEF StreamAt
  <1> QED
    BY <1>2, <1>3, <1>6, <1>7, <1>9, <1>10, <1>11

\* Put out after the blocks.
LEMMA LastCells ==
  ASSUME NEW d \in Nat, NEW k \in Nat, StreamAt(ctx, out, d, k),
         NEW u, u = Unit(mode), NEW x, x = k * u, NEW nb, nb = d - x, nb <= u,
         NEW s, s = Crypt(ctx.block, ctx.iv), NEW m \in Nat, m <= nb,
         NEW y, y = x + m
  PROVE  IsCells(out \o SubSeq(s, 1, m), u, y)
  <1>1. /\ nb \in Nat /\ x \in Nat /\ ctx.block = Bytes(x, nb) /\ Len(ctx.block) = nb
        /\ IsSeq(s) /\ Len(s) = nb /\ out = Cells(u, x)
        /\ \A i \in 1 .. nb : s[i] = Cell(u, x + i)
    BY BlockCells
  <1>2. PICK x1 \in Nat : x1 = x
    BY <1>1
  <1>3. PICK s1 : s1 = s
    OBVIOUS
  <1>4. IsSeq(s1) /\ 0 + m <= Len(s1) /\ \A i \in 1 .. m : s1[0 + i] = Cell(u, x1 + i)
    <2>1. IsSeq(s1) /\ Len(s1) = nb /\ nb \in Nat
      BY <1>1, <1>3
    <2>2. \A i \in 1 .. nb : s1[i] = Cell(u, x1 + i)
      BY <1>1, <1>2, <1>3
    <2>3. 0 + m <= Len(s1)
      BY <2>1
    <2>4. ASSUME NEW i \in 1 .. m PROVE s1[0 + i] = Cell(u, x1 + i)
      <3>1. i \in 1 .. nb /\ 0 + i = i
        BY <2>1
      <3> QED
        BY <2>2, <3>1
    <2> QED
      BY <2>1, <2>3, <2>4
  <1>5. PICK y1 \in Nat : y1 = y
    BY <1>1
  <1>6. y1 = x1 + m
    BY <1>2, <1>5
  <1>7. IsCells(Cells(u, x1) \o SubSeq(s1, 0 + 1, 0 + m), u, y1)
    BY <1>4, <1>6, CellsConcat
  <1>8. 0 + 1 = 1 /\ 0 + m = m
    OBVIOUS
  <1> QED
    BY <1>1, <1>2, <1>3, <1>5, <1>7, <1>8

\* All of it.
LEMMA PartOut ==
  ASSUME NEW d \in Nat, NEW k \in Nat, StreamAt(ctx, out, d, k), Hold(mode) = 0
  PROVE  IsCells(out \o Crypt(ctx.block, ctx.iv), Unit(mode), d)
  <1>1. PICK u \in Nat \ {0} : u = Unit(mode)
    BY KnownSizes
  <1>2. PICK x \in Nat : x = k * u
    OBVIOUS
  <1>3. PICK nb \in Nat : nb = d - x
    BY <1>1, <1>2 DEF StreamAt, Counts
  <1>4. nb <= u /\ d = x + nb
    BY <1>1, <1>2, <1>3 DEF StreamAt, Counts
  <1>5. PICK s : s = Crypt(ctx.block, ctx.iv)
    OBVIOUS
  <1>6. IsSeq(s) /\ Len(s) = nb
    BY <1>1, <1>2, <1>3, <1>4, <1>5, BlockCells
  <1>7. IsCells(out \o SubSeq(s, 1, nb), u, d)
    <2>1. nb \in Nat /\ nb <= nb
      OBVIOUS
    <2> QED
      BY <1>1, <1>2, <1>3, <1>4, <1>5, <2>1, LastCells, ZenonT(30)
  <1>8. SubSeq(s, 1, nb) = s
    BY <1>6 DEF IsSeq
  <1> QED
    BY <1>1, <1>5, <1>7, <1>8

IsPadded(s, n) == s = Padded(n)

ZeroByte(b) == [b EXCEPT !.byte = 0]

\* The padded input, byte by byte.
LEMMA PaddedIs ==
  ASSUME Unit(mode) = B, NEW n, NEW z \in Nat, z = B * (n \div B + 1)
  PROVE  Padded(n) = [i \in 1 .. z |-> IF i <= n THEN Cell(B, i) ELSE ZeroByte(Cell(B, i))]
  <1>1. PICK all : all = Cells(B, z)
    OBVIOUS
  <1>2. Whole(B * (n \div B + 1)) = all
    BY <1>1, WholeIs
  <1>3. Len(all) = z
    BY <1>1, CellsSeq
  <1>4. Padded(n) = [i \in 1 .. Len(all) |->
                        IF i <= n THEN all[i] ELSE [all[i] EXCEPT !.byte = 0]]
    BY <1>2 DEF Padded
  <1>5. \A i \in 1 .. z : all[i] = Cell(B, i)
    BY <1>1 DEF Cells
  <1>6. Padded(n) = [i \in 1 .. z |-> IF i <= n THEN all[i] ELSE ZeroByte(all[i])]
    BY <1>3, <1>4 DEF ZeroByte
  <1> QED
    BY <1>5, <1>6

\* A byte of padding goes through the cipher as a byte of input does.
LEMMA ZeroIs ==
  ASSUME NEW i, NEW k, NEW j
  PROVE  ZeroByte(CryptByte(Byte(i), k, j)) = CryptByte(Byte(0), k, j)
  BY DEF ZeroByte, CryptByte, Byte

\* Encryption with padding ends as the one-shot function does.
LEMMA PaddedOut ==
  ASSUME NEW n \in Nat, NEW k \in Nat, StreamAt(ctx, out, n, k), Hold(mode) = 0,
         Unit(mode) = B
  PROVE  IsPadded(out \o Crypt(ctx.block \o Pad(B - Len(ctx.block)), ctx.iv), n)
  <1>1. PICK u \in Nat \ {0} : u = B
    BY KnownSizes
  <1>2. PICK x \in Nat : x = k * u
    OBVIOUS
  <1>3. PICK nb \in Nat : nb = n - x
    BY <1>1, <1>2 DEF StreamAt, Counts
  <1>4. nb < u /\ n = x + nb
    BY <1>1, <1>2, <1>3 DEF StreamAt, Counts
  <1>5. PICK t \in Nat : t = u - nb
    BY <1>4
  <1>6. out = Cells(u, x) /\ ctx.block = Bytes(x, nb) /\ ctx.iv = Chain(k)
    <2>1. ctx = Ctx(ctx, u, k, n) /\ out = Cells(u, x)
      BY <1>1, <1>2 DEF StreamAt
    <2>2. ctx.block = Bytes(k * u, n - k * u) /\ ctx.iv = Chain(k)
      BY <2>1, CtxIs
    <2> QED
      BY <1>2, <1>3, <2>1, <2>2
  <1>7. PICK pad : pad = Pad(t)
    OBVIOUS
  <1>8. pad = [i \in 1 .. t |-> Byte(0)]
    BY <1>7 DEF Pad
  <1>9. IsSeq(pad) /\ Len(pad) = t
    <2>1. pad = [i \in 1 .. t |-> pad[i]]
      BY <1>8
    <2> QED
      BY <2>1, FunSeq
  <1>10. PICK a : a = Bytes(x, nb)
    OBVIOUS
  <1>11. IsSeq(a) /\ Len(a) = nb
    BY <1>10, BytesSeq
  <1>12. PICK b : b = a \o pad
    OBVIOUS
  <1>13. b = [i \in 1 .. u |-> IF i <= nb THEN a[i] ELSE pad[i - nb]]
    <2>1. a \o pad = [i \in 1 .. Len(a) + Len(pad) |->
                        IF i <= Len(a) THEN a[i] ELSE pad[i - Len(a)]]
      BY <1>9, <1>11, ConcatFun
    <2>2. nb + t = u
      BY <1>5
    <2> QED
      BY <1>9, <1>11, <1>12, <2>1, <2>2
  <1>14. ASSUME NEW i \in 1 .. u
         PROVE  b[i] = IF i <= nb THEN Byte(x + i) ELSE Byte(0)
    <2>1. CASE i <= nb
      <3>1. i \in 1 .. nb
        BY <2>1
      <3> QED
        BY <1>10, <1>13, <2>1, <3>1 DEF Bytes
    <2>2. CASE i > nb
      <3>1. i - nb \in 1 .. t /\ ~(i <= nb)
        BY <1>5, <2>2
      <3> QED
        BY <1>8, <1>13, <3>1
    <2> QED
      BY <2>1, <2>2
  <1>15. PICK s : s = Crypt(b, Chain(k))
    OBVIOUS
  <1>16. s = [i \in 1 .. u |-> CryptByte(b[i], Chain(k), i)]
    <2>1. b = [i \in 1 .. u |-> b[i]] /\ u \in Nat
      BY <1>13
    <2>2. Len(b) = u
      BY <2>1, FunSeq
    <2> QED
      BY <1>15, <2>2, CryptFun
  <1>17. IsSeq(s) /\ Len(s) = u
    <2>1. s = [i \in 1 .. u |-> s[i]] /\ u \in Nat
      BY <1>16
    <2> QED
      BY <2>1, FunSeq
  <1>18. PICK z \in Nat : z = x + u
    OBVIOUS
  <1>19. PICK o : o = Cells(u, x)
    OBVIOUS
  <1>20. IsSeq(o) /\ Len(o) = x
    BY <1>19, CellsSeq
  <1>21. o \o s = [i \in 1 .. z |-> IF i <= x THEN o[i] ELSE s[i - x]]
    <2>1. o \o s = [i \in 1 .. Len(o) + Len(s) |->
                        IF i <= Len(o) THEN o[i] ELSE s[i - Len(o)]]
      BY <1>17, <1>20, ConcatFun
    <2> QED
      BY <1>17, <1>18, <1>20, <2>1
  <1>22. ASSUME NEW i \in 1 .. z
         PROVE  (IF i <= x THEN o[i] ELSE s[i - x])
                    = IF i <= n THEN Cell(u, i) ELSE ZeroByte(Cell(u, i))
    <2>1. CASE i <= x
      <3>1. i \in 1 .. x /\ i <= n
        BY <1>4, <2>1
      <3> QED
        BY <1>19, <2>1, <3>1 DEF Cells
    <2>2. CASE i > x
      <3>1. PICK r \in 0 .. u - 1 : i = x + r + 1
        <4>1. i - x - 1 \in 0 .. u - 1 /\ i = x + (i - x - 1) + 1
          BY <1>18, <2>2
        <4> QED
          BY <4>1
      <3>2. PICK j \in 1 .. u : j = r + 1 /\ i - x = j /\ x + j = i
        <4>1. r + 1 \in 1 .. u /\ i - x = r + 1 /\ x + (r + 1) = i
          BY <3>1
        <4> QED
          BY <4>1
      <3>3. Cell(u, i) = CryptByte(Byte(i), Chain(k), j)
        <4>1. PICK y \in Nat : y = i
          OBVIOUS
        <4>2. y = k * u + r + 1
          BY <1>2, <3>1, <4>1
        <4>3. Cell(u, y) = CryptByte(Byte(y), Chain(k), r + 1)
          BY <4>2, CellIs
        <4> QED
          BY <3>2, <4>1, <4>3
      <3>4. s[j] = CryptByte(b[j], Chain(k), j)
        BY <1>16
      <3>5. CASE j <= nb
        <4>1. b[j] = Byte(i) /\ i <= n
          BY <1>4, <1>14, <3>2, <3>5
        <4> QED
          BY <2>2, <3>2, <3>3, <3>4, <4>1
      <3>6. CASE j > nb
        <4>1. b[j] = Byte(0) /\ ~(i <= n) /\ ~(i <= x)
          BY <1>4, <1>14, <2>2, <3>2, <3>6
        <4>2. ZeroByte(Cell(u, i)) = CryptByte(Byte(0), Chain(k), j)
          BY <3>3, ZeroIs
        <4> QED
          BY <3>2, <3>4, <4>1, <4>2
      <3> QED
        BY <3>5, <3>6
    <2> QED
      BY <2>1, <2>2
  <1>23. z = B * (n \div B + 1)
    <2>1. nb \in 0 .. u - 1 /\ n = k * u + nb
      BY <1>2, <1>4
    <2>2. n \div u = k
      BY <2>1, Divides
    <2>3. u * (k + 1) = z
      BY <1>2, <1>18
    <2> QED
      BY <1>1, <2>2, <2>3
  <1>24. Padded(n) = [i \in 1 .. z |-> IF i <= n THEN Cell(u, i) ELSE ZeroByte(Cell(u, i))]
    <2>1. Padded(n) = [i \in 1 .. z |->
                         IF i <= n THEN Cell(B, i) ELSE ZeroByte(Cell(B, i))]
      BY <1>23, PaddedIs
    <2> QED
      BY <1>1, <2>1
  <1>25. o \o s = Padded(n)
    BY <1>21, <1>22, <1>24
  <1>26. Crypt(ctx.block \o Pad(B - Len(ctx.block)), ctx.iv) = s
    BY <1>1, <1>5, <1>6, <1>7, <1>10, <1>11, <1>12, <1>15
  <1> QED
    BY <1>6, <1>19, <1>25, <1>26 DEF IsPadded

\* The block that is kept for its padding.
LEMMA CbcKept ==
  ASSUME NEW n \in Nat, NEW k \in Nat, StreamAt(ctx, out, n, k), Hold(mode) = 1,
         Unit(mode) = B
  PROVE  /\ Len(ctx.block) = B =>
                n > 0 /\ n % B = 0 /\ ctx.block = [i \in 1 .. B |-> Byte(n - B + i)]
         /\ Len(ctx.block) # B => n = 0 \/ n % B # 0
  <1>1. PICK u \in Nat \ {0} : u = B
    BY KnownSizes
  <1>2. PICK x \in Nat : x = k * u
    OBVIOUS
  <1>3. PICK nb \in Nat : nb = n - x
    BY <1>1, <1>2 DEF StreamAt, Counts
  <1>4. nb <= u /\ n = x + nb /\ (n > 0 => nb > 0)
    BY <1>1, <1>2, <1>3 DEF StreamAt, Counts
  <1>5. ctx.block = Bytes(x, nb)
    <2>1. ctx = Ctx(ctx, u, k, n)
      BY <1>1 DEF StreamAt
    <2>2. ctx.block = Bytes(k * u, n - k * u)
      BY <2>1, CtxIs
    <2> QED
      BY <1>2, <1>3, <2>2
  <1>6. Len(ctx.block) = nb
    BY <1>5, BytesSeq
  <1>7. ASSUME nb = u
        PROVE  n > 0 /\ n % u = 0 /\ ctx.block = [i \in 1 .. u |-> Byte(n - u + i)]
    <2>1. n - u = x /\ n > 0
      BY <1>4, <1>7
    <2>2. PICK j \in Nat : j = k + 1
      OBVIOUS
    <2>3. n = j * u + 0 /\ 0 \in 0 .. u - 1
      BY <1>2, <1>4, <1>7, <2>2
    <2>4. n % u = 0
      BY <2>3, Divides
    <2>5. ctx.block = [i \in 1 .. u |-> Byte(x + i)]
      BY <1>5, <1>7 DEF Bytes
    <2> QED
      BY <2>1, <2>4, <2>5
  <1>8. ASSUME nb # u, n > 0 PROVE n % u # 0
    <2>1. nb \in 1 .. u - 1 /\ nb \in 0 .. u - 1 /\ n = k * u + nb
      BY <1>2, <1>4, <1>8
    <2>2. n % u = nb
      BY <2>1, Divides
    <2> QED
      BY <2>1, <2>2
  <1> QED
    BY <1>1, <1>6, <1>7, <1>8

\* Decryption with padding drops the padding and nothing else.
LEMMA CbcOut ==
  ASSUME NEW n \in Nat, NEW k \in Nat, StreamAt(ctx, out, n, k), Unit(mode) = B,
         Len(ctx.block) = B, NEW p \in 1 .. B
  PROVE  IsCells(out \o SubSeq(Crypt(ctx.block, ctx.iv), 1, B - p), B, n - p)
  <1>1. PICK u \in Nat \ {0} : u = B
    BY KnownSizes
  <1>2. PICK x \in Nat : x = k * u
    OBVIOUS
  <1>3. PICK nb \in Nat : nb = n - x
    BY <1>1, <1>2 DEF StreamAt, Counts
  <1>4. nb = u
    <2>1. ctx = Ctx(ctx, u, k, n)
      BY <1>1 DEF StreamAt
    <2>2. ctx.block = Bytes(k * u, n - k * u)
      BY <2>1, CtxIs
    <2>3. Len(ctx.block) = nb
      BY <1>2, <1>3, <2>2, BytesSeq
    <2> QED
      BY <1>1, <2>3
  <1>5. PICK s : s = Crypt(ctx.block, ctx.iv)
    OBVIOUS
  <1>6. PICK m \in Nat : m = u - p
    BY <1>1
  <1>7. m <= nb /\ n - p = x + m
    BY <1>1, <1>3, <1>4, <1>6
  <1>8. PICK y : y = x + m
    OBVIOUS
  <1>9. IsCells(out \o SubSeq(s, 1, m), u, y)
    <2>1. nb <= u /\ u = Unit(mode)
      BY <1>1, <1>4
    <2> QED
      BY <1>2, <1>3, <1>5, <1>7, <1>8, <2>1, LastCells
  <1> QED
    BY <1>1, <1>5, <1>6, <1>7, <1>8, <1>9

\* Decryption with padding ends as the one-shot function does.
LEMMA CbcEnds ==
  ASSUME NEW n \in Nat, NEW k \in Nat, StreamAt(ctx, out, n, k),
         mode \in {"cbc_dec", "cbc_hmac_dec"}, input.pad \in 0 .. B,
         n = IF mode = "cbc_dec" THEN input.len ELSE input.len - HmacTag
  PROVE  /\ \A bytes \in CbcDecryptFinish : out \o bytes \in Unpadded(n)
         /\ CbcDecryptFinish = {} \/ 0 \in Paddings => Unpadded(n) = {}
  <1>1. Hold(mode) = 1 /\ Unit(mode) = B /\ B \in Nat \ {0}
    BY KnownSizes DEF Hold, Unit
  <1>2. /\ Len(ctx.block) = B =>
                n > 0 /\ n % B = 0 /\ ctx.block = [i \in 1 .. B |-> Byte(n - B + i)]
        /\ Len(ctx.block) # B => n = 0 \/ n % B # 0
    BY <1>1, CbcKept
  <1>3. CASE Len(ctx.block) = B
    <2>1. n > 0 /\ n % B = 0 /\ ctx.block = [i \in 1 .. B |-> Byte(n - B + i)]
      BY <1>2, <1>3
    <2>2. Paddings = {input.pad}
      BY <2>1 DEF Paddings
    <2>3. CASE input.pad = 0
      <3>1. Unpadded(n) = {}
        BY <2>3 DEF Unpadded
      <3>2. CbcDecryptFinish = {}
        BY <2>2, <2>3 DEF CbcDecryptFinish
      <3> QED
        BY <3>1, <3>2
    <2>4. CASE input.pad # 0
      <3>1. PICK p \in 1 .. B : p = input.pad
        BY <1>1, <2>4
      <3>2. Unpadded(n) = {Whole(n - p)}
        BY <2>1, <2>4, <3>1 DEF Unpadded
      <3>3. CbcDecryptFinish = {SubSeq(Crypt(ctx.block, ctx.iv), 1, B - p)}
        <4>1. Paddings \ {0} = {p}
          BY <2>2, <2>4, <3>1
        <4> QED
          BY <1>3, <4>1 DEF CbcDecryptFinish
      <3>4. IsCells(out \o SubSeq(Crypt(ctx.block, ctx.iv), 1, B - p), B, n - p)
        BY <1>1, <1>3, CbcOut
      <3>5. Whole(n - p) = Cells(B, n - p)
        BY <1>1, WholeIs
      <3>6. 0 \notin Paddings
        BY <2>2, <2>4
      <3> QED
        BY <3>2, <3>3, <3>4, <3>5, <3>6 DEF IsCells
    <2> QED
      BY <2>3, <2>4
  <1>4. CASE Len(ctx.block) # B
    <2>1. ~(n > 0 /\ n % B = 0)
      BY <1>2, <1>4
    <2>2. Unpadded(n) = {}
      BY <2>1 DEF Unpadded
    <2>3. CbcDecryptFinish = {}
      BY <1>4 DEF CbcDecryptFinish
    <2> QED
      BY <2>2, <2>3
  <1> QED
    BY <1>3, <1>4

\* The modes, and the ones that hold a block back.
LEMMA ModeKinds ==
  ASSUME Setting
  PROVE  /\ mode \in AllModes
         /\ Hold(mode) = 1 <=> mode \in {"cbc_dec", "cbc_hmac_dec"}
         /\ mode \in {"cbc_enc", "cbc_dec"} => Unit(mode) = B
         /\ input.pad \in 0 .. B /\ input.authentic \in BOOLEAN
  BY StreamAssumption DEF Setting, Inputs, Hold, Unit

\* A mode without a MAC.
LEMMA BlockEnds ==
  ASSUME Setting, RunAt(ctx, out, fed), fed = input.len, mode \notin MacModes \cup TagModes
  PROVE  /\ \A bytes \in LastBytes : out \o bytes \in OneShot
         /\ LastBytes = {} \/ (mode \in {"cbc_dec", "cbc_hmac_dec"} /\ 0 \in Paddings)
                => OneShot = {}
  <1>1. PICK n \in Nat : n = input.len
    BY InputNat
  <1>2. DataAt(fed) = n
    BY <1>1 DEF DataAt
  <1>3. PICK k \in Nat : StreamAt(ctx, out, n, k)
    BY <1>2 DEF RunAt
  <1>4. PICK u \in Nat \ {0} : u = Unit(mode)
    BY KnownSizes
  <1>5. mode \in EcbModes \cup PartModes \cup {"cbc_enc", "cbc_dec"}
    BY ModeKinds DEF AllModes
  <1>6. CASE mode \in EcbModes
    <2>1. Hold(mode) = 0 /\ mode \notin {"cbc_dec", "cbc_hmac_dec"}
      BY <1>6 DEF Hold, EcbModes
    <2>2. LastBytes = EcbFinish
      BY <1>6 DEF LastBytes, EcbModes
    <2>3. OneShot = IF n % u = 0 THEN {Whole(n)} ELSE {}
      BY <1>1, <1>4, <1>6 DEF OneShot, EcbModes, PartModes, TagModes
    <2>4. PICK x \in Nat : x = k * u
      OBVIOUS
    <2>5. PICK nb \in Nat : nb = n - x
      BY <1>3, <1>4, <2>4 DEF StreamAt, Counts
    <2>6. nb \in 0 .. u - 1 /\ n = k * u + nb
      <3>1. n < x + u
        BY <1>3, <1>4, <2>1, <2>4 DEF StreamAt, Counts
      <3> QED
        BY <2>4, <2>5, <3>1
    <2>7. n % u = nb
      BY <2>6, Divides
    <2>8. ctx.block = Bytes(x, nb)
      <3>1. ctx = Ctx(ctx, u, k, n)
        BY <1>3, <1>4 DEF StreamAt
      <3>2. ctx.block = Bytes(k * u, n - k * u)
        BY <3>1, CtxIs
      <3> QED
        BY <2>4, <2>5, <3>2
    <2>9. Len(ctx.block) = nb
      BY <2>8, BytesSeq
    <2>10. CASE nb = 0
      <3>1. ctx.block = << >>
        BY <2>8, <2>10, EmptyIs
      <3>2. LastBytes = {<< >>}
        BY <2>2, <3>1 DEF EcbFinish
      <3>3. n = x
        BY <2>5, <2>10
      <3>4. out = Cells(u, n)
        BY <1>3, <1>4, <2>4, <3>3 DEF StreamAt
      <3>5. out = Whole(n)
        BY <1>4, <3>4, WholeIs
      <3>6. IsSeq(out)
        BY <3>4, CellsSeq
      <3>7. out \o << >> = out
        <4>1. PICK S : out \in Seq(S)
          BY <3>6 DEF IsSeq
        <4> QED
          BY <4>1
      <3>8. OneShot = {out}
        BY <2>3, <2>7, <2>10, <3>5
      <3> QED
        BY <2>1, <3>2, <3>7, <3>8
    <2>11. CASE nb # 0
      <3>1. ctx.block # << >>
        <4>1. Len(<< >>) = 0
          OBVIOUS
        <4> QED
          BY <2>9, <2>11, <4>1
      <3>2. LastBytes = {}
        BY <2>2, <3>1 DEF EcbFinish
      <3>3. OneShot = {}
        BY <2>3, <2>7, <2>11
      <3> QED
        BY <3>2, <3>3
    <2> QED
      BY <2>10, <2>11
  <1>7. CASE mode \in PartModes
    <2>1. Hold(mode) = 0 /\ mode \notin {"cbc_dec", "cbc_hmac_dec", "cbc_enc", "cbc_hmac_enc"}
          /\ mode \notin EcbModes
      BY <1>7 DEF Hold, PartModes, EcbModes
    <2>2. LastBytes = {Crypt(ctx.block, ctx.iv)}
      BY <2>1 DEF LastBytes, PartFinish
    <2>3. OneShot = {Whole(n)}
      BY <1>1, <1>7, <2>1 DEF OneShot, EcbModes, PartModes, TagModes
    <2>4. IsCells(out \o Crypt(ctx.block, ctx.iv), Unit(mode), n)
      BY <1>3, <2>1, PartOut
    <2>5. Whole(n) = Cells(Unit(mode), n)
      BY WholeIs
    <2> QED
      BY <2>1, <2>2, <2>3, <2>4, <2>5 DEF IsCells
  <1>8. CASE mode = "cbc_enc"
    <2>1. LastBytes = CbcEncryptFinish /\ OneShot = {Padded(n)}
      BY <1>1, <1>8 DEF LastBytes, OneShot, EcbModes, PartModes
    <2>2. Hold(mode) = 0 /\ Unit(mode) = B
      BY <1>8 DEF Hold, Unit
    <2>3. IsPadded(out \o Crypt(ctx.block \o Pad(B - Len(ctx.block)), ctx.iv), n)
      BY <1>3, <2>2, PaddedOut
    <2>4. LastBytes = {Crypt(ctx.block \o Pad(B - Len(ctx.block)), ctx.iv)}
      BY <2>1 DEF CbcEncryptFinish
    <2> QED
      BY <1>8, <2>1, <2>3, <2>4 DEF IsPadded
  <1>9. CASE mode = "cbc_dec"
    <2>1. LastBytes = CbcDecryptFinish /\ OneShot = Unpadded(n)
      BY <1>1, <1>9 DEF LastBytes, OneShot, EcbModes, PartModes
    <2>2. n = IF mode = "cbc_dec" THEN input.len ELSE input.len - HmacTag
      BY <1>1, <1>9
    <2>3. /\ \A bytes \in CbcDecryptFinish : out \o bytes \in Unpadded(n)
          /\ CbcDecryptFinish = {} \/ 0 \in Paddings => Unpadded(n) = {}
      BY <1>3, <1>9, <2>2, ModeKinds, CbcEnds
    <2> QED
      BY <2>1, <2>3
  <1> QED
    BY <1>5, <1>6, <1>7, <1>8, <1>9

\* What a last block and a tag add to the output.
LEMMA CryptSeq == ASSUME NEW s, NEW k, Len(s) \in Nat PROVE IsSeq(Crypt(s, k))
  <1>1. PICK c : c = Crypt(s, k)
    OBVIOUS
  <1>2. c = [i \in 1 .. Len(s) |-> c[i]]
    BY <1>1, CryptFun
  <1> QED
    BY <1>1, <1>2, FunSeq

LEMMA TagSeq == ASSUME NEW n \in Nat PROVE IsSeq(Tag(n)) /\ Len(Tag(n)) = n
  <1>1. PICK c : c = Tag(n)
    OBVIOUS
  <1>2. c = [i \in 1 .. n |-> c[i]]
    BY <1>1 DEF Tag
  <1> QED
    BY <1>1, <1>2, FunSeq

LEMMA Together ==
  ASSUME NEW a, IsSeq(a), NEW b, IsSeq(b)
  PROVE  \E S : a \in Seq(S) /\ b \in Seq(S)
  <1> DEFINE A == {a[i] : i \in DOMAIN a}
             C == {b[i] : i \in DOMAIN b}
  <1>1. a \in Seq(A) /\ b \in Seq(C)
    BY DEF IsSeq
  <1> HIDE DEF A, C
  <1>2. a \in Seq(A \cup C) /\ b \in Seq(A \cup C)
    BY <1>1
  <1> QED
    BY <1>2

\* The tag follows what was put out, and is cut off again.
Tagged(a, b, w, v, t) ==
    w = a \o b /\ v = a \o (b \o Tag(t)) => v = w \o Tag(t) /\ w = SubSeq(v, 1, Len(v) - t)

\* Appending the tag does not disturb the rest.
LEMMA ThenTag ==
  ASSUME NEW a, IsSeq(a), NEW b, IsSeq(b), NEW w, NEW t \in Nat, NEW v
  PROVE  Tagged(a, b, w, v, t)
  <1> SUFFICES ASSUME w = a \o b, v = a \o (b \o Tag(t))
               PROVE  v = w \o Tag(t) /\ w = SubSeq(v, 1, Len(v) - t)
    BY DEF Tagged
  <1>1. PICK S : a \in Seq(S) /\ b \in Seq(S)
    BY Together
  <1>2. PICK c : c = Tag(t)
    OBVIOUS
  <1>3. IsSeq(c) /\ Len(c) = t
    BY <1>2, TagSeq
  <1>4. PICK T : c \in Seq(T)
    BY <1>3 DEF IsSeq
  <1>5. PICK U : U = S \cup T
    OBVIOUS
  <1>6. a \in Seq(U) /\ b \in Seq(U) /\ c \in Seq(U)
    BY <1>1, <1>4, <1>5
  <1>7. v = w \o c
    BY <1>2, <1>6
  <1>8. w \in Seq(U)
    BY <1>6
  <1>9. PICK y, x : y = w /\ x = v
    OBVIOUS
  <1>10. y \in Seq(U) /\ x = y \o c
    BY <1>7, <1>8, <1>9
  <1>11. Len(x) = Len(y) + Len(c) /\ Len(y) \in Nat /\ SubSeq(x, 1, Len(y)) = y
    BY <1>6, <1>10
  <1>12. Len(x) - t = Len(y)
    BY <1>3, <1>11
  <1>13. y = SubSeq(x, 1, Len(x) - t)
    BY <1>11, <1>12
  <1> QED
    BY <1>2, <1>7, <1>9, <1>13

\* The length of what is out.
LEMMA OutSeq ==
  ASSUME NEW d, NEW k \in Nat, StreamAt(ctx, out, d, k)
  PROVE  IsSeq(out) /\ Len(out) = k * Unit(mode)
  <1>1. PICK u \in Nat \ {0} : u = Unit(mode)
    BY KnownSizes
  <1>2. PICK x \in Nat : x = k * u
    OBVIOUS
  <1>3. out = Cells(u, x)
    BY <1>1, <1>2 DEF StreamAt
  <1>4. IsSeq(out) /\ Len(out) = x
    BY <1>3, CellsSeq
  <1> QED
    BY <1>1, <1>2, <1>4

\* The one-shot functions, one by one.
LEMMA OneShotIs ==
  ASSUME NEW n, n = input.len, NEW t, t = TagLen(mode)
  PROVE  /\ mode = "gcm_enc" /\ n <= MaxPlaintext => OneShot = {Whole(n) \o Tag(t)}
         /\ mode = "gcm_enc" /\ ~(n <= MaxPlaintext) => OneShot = {}
         /\ mode = "ctr_hmac_enc" => OneShot = {Whole(n) \o Tag(t)}
         /\ mode = "cbc_hmac_enc" => OneShot = {Padded(n) \o Tag(t)}
         /\ mode \in TagModes /\ ~input.authentic => OneShot = {}
         /\ mode = "gcm_dec" /\ n - t > MaxPlaintext => OneShot = {}
         /\ mode \in {"gcm_dec", "ctr_hmac_dec"} /\ input.authentic
                /\ ~(mode = "gcm_dec" /\ n - t > MaxPlaintext) => OneShot = {Whole(n - t)}
         /\ mode = "cbc_hmac_dec" /\ input.authentic => OneShot = Unpadded(n - t)
  <1>1. PICK a, b : a = Whole(n) \o Tag(t) /\ b = Padded(n) \o Tag(t)
    OBVIOUS
  <1>2. PICK e, f, g : /\ e = (IF n % Unit(mode) = 0 THEN {Whole(n)} ELSE {})
                       /\ f = Unpadded(n) /\ g = Unpadded(n - t)
    OBVIOUS
  <1>3. PICK c, d, p : c = Whole(n) /\ d = Whole(n - t) /\ p = Padded(n)
    OBVIOUS
  <1>4. OneShot = CASE mode \in EcbModes -> e
                    [] mode \in PartModes -> {c}
                    [] mode = "cbc_enc" -> {p}
                    [] mode = "cbc_dec" -> f
                    [] mode = "gcm_enc" -> IF n <= MaxPlaintext THEN {a} ELSE {}
                    [] mode = "ctr_hmac_enc" -> {a}
                    [] mode = "cbc_hmac_enc" -> {b}
                    [] mode \in TagModes ->
                        IF ~input.authentic \/ (mode = "gcm_dec" /\ n - t > MaxPlaintext)
                        THEN {} ELSE IF mode = "cbc_hmac_dec" THEN g ELSE {d}
    BY <1>1, <1>2, <1>3, ZenonT(30) DEF OneShot
  <1>5. /\ mode = "gcm_enc" => OneShot = IF n <= MaxPlaintext THEN {a} ELSE {}
        /\ mode = "ctr_hmac_enc" => OneShot = {a}
        /\ mode = "cbc_hmac_enc" => OneShot = {b}
        /\ mode \in TagModes =>
            OneShot = IF ~input.authentic \/ (mode = "gcm_dec" /\ n - t > MaxPlaintext)
                      THEN {} ELSE IF mode = "cbc_hmac_dec" THEN g ELSE {d}
    BY <1>4 DEF EcbModes, PartModes, TagModes
  <1>6. mode \in {"gcm_dec", "ctr_hmac_dec", "cbc_hmac_dec"} => mode \in TagModes
    BY DEF TagModes
  <1> QED
    BY <1>1, <1>2, <1>3, <1>5, <1>6

\* A mode that encrypts and then takes the MAC.
LEMMA MacEnds ==
  ASSUME Setting, RunAt(ctx, out, fed), fed = input.len, mode \in MacModes
  PROVE  /\ \A bytes \in LastBytes :
              LET v == out \o (bytes \o Tag(TagLen(mode)))
              IN  /\ v \in OneShot
                  /\ ctx.maced \o bytes = SubSeq(v, 1, Len(v) - TagLen(mode))
         /\ LastBytes # {}
  <1>1. PICK n \in Nat : n = input.len
    BY InputNat
  <1>2. DataAt(fed) = n
    BY <1>1 DEF DataAt, TagModes, MacModes
  <1>3. PICK k \in Nat : StreamAt(ctx, out, n, k)
    BY <1>2 DEF RunAt
  <1>4. PICK t \in Nat : t = TagLen(mode)
    BY KnownSizes
  <1>5. Unit(mode) = B /\ Hold(mode) = 0 /\ B \in Nat \ {0}
    BY KnownSizes
  <1>6. ctx.maced = out
    BY DEF RunAt, MacAt
  <1>7. mode = "gcm_enc" => n <= MaxPlaintext
    BY <1>1 DEF RunAt, MacAt
  <1>8. IsSeq(out)
    BY <1>3, OutSeq
  <1>9. PICK x \in Nat : x = k * B
    BY <1>5
  <1>10. PICK nb \in Nat : nb = n - x
    BY <1>3, <1>5, <1>9 DEF StreamAt, Counts
  <1>11. n < x + B
    BY <1>3, <1>5, <1>9 DEF StreamAt, Counts
  <1>12. nb <= B
    BY <1>5, <1>10, <1>11
  <1>13. ctx.block = Bytes(x, nb) /\ Len(ctx.block) = nb /\ IsSeq(ctx.block)
    <2>1. ctx = Ctx(ctx, B, k, n)
      BY <1>3, <1>5 DEF StreamAt
    <2>2. ctx.block = Bytes(k * B, n - k * B)
      BY <2>1, CtxIs
    <2>3. ctx.block = Bytes(x, nb)
      BY <1>9, <1>10, <2>2
    <2> QED
      BY <2>3, BytesSeq
  <1>14. ASSUME NEW bytes, IsSeq(bytes), NEW w, w = out \o bytes,
                OneShot = {w \o Tag(t)}
         PROVE  LET v == out \o (bytes \o Tag(TagLen(mode)))
                IN  /\ v \in OneShot
                    /\ ctx.maced \o bytes = SubSeq(v, 1, Len(v) - TagLen(mode))
    <2>1. PICK v : v = out \o (bytes \o Tag(t))
      OBVIOUS
    <2>2. v = w \o Tag(t) /\ w = SubSeq(v, 1, Len(v) - t)
      <3>1. Tagged(out, bytes, w, v, t)
        BY <1>8, <1>14, ThenTag
      <3> QED
        BY <1>14, <2>1, <3>1 DEF Tagged
    <2>3. v \in OneShot
      BY <1>14, <2>2
    <2>4. ctx.maced \o bytes = SubSeq(v, 1, Len(v) - t)
      BY <1>6, <1>14, <2>2
    <2> QED
      BY <1>4, <2>1, <2>3, <2>4
  <1>15. CASE mode = "cbc_hmac_enc"
    <2>1. PICK pad : pad = Pad(B - nb)
      OBVIOUS
    <2>2. PICK b : b = ctx.block \o pad
      OBVIOUS
    <2>3. PICK bytes : bytes = Crypt(b, ctx.iv)
      OBVIOUS
    <2>4. LastBytes = {bytes}
      BY <1>13, <1>15, <2>1, <2>2, <2>3 DEF LastBytes, CbcEncryptFinish, EcbModes
    <2>5. OneShot = {Padded(n) \o Tag(t)}
      BY <1>1, <1>4, <1>15, OneShotIs
    <2>6. IsPadded(out \o Crypt(ctx.block \o Pad(B - Len(ctx.block)), ctx.iv), n)
      BY <1>3, <1>5, PaddedOut
    <2>7. out \o bytes = Padded(n)
      BY <1>13, <2>1, <2>2, <2>3, <2>6 DEF IsPadded
    <2>8. IsSeq(bytes)
      <3>1. PICK l \in Nat : l = B - nb
        BY <1>5, <1>12
      <3>2. pad = [i \in 1 .. l |-> Byte(0)]
        BY <2>1, <3>1 DEF Pad
      <3>3. pad = [i \in 1 .. l |-> pad[i]]
        BY <3>2
      <3>4. IsSeq(pad)
        BY <3>3, FunSeq
      <3>5. PICK S : ctx.block \in Seq(S) /\ pad \in Seq(S)
        BY <1>13, <3>4, Together
      <3>6. b \in Seq(S)
        BY <2>2, <3>5
      <3>7. Len(b) \in Nat
        BY <3>6
      <3> QED
        BY <2>3, <3>7, CryptSeq
    <2>9. PICK w : w = out \o bytes
      OBVIOUS
    <2>10. OneShot = {w \o Tag(t)}
      BY <2>5, <2>7, <2>9
    <2> QED
      BY <1>14, <2>4, <2>8, <2>9, <2>10
  <1>16. CASE mode \in {"gcm_enc", "ctr_hmac_enc"}
    <2>1. PICK bytes : bytes = Crypt(ctx.block, ctx.iv)
      OBVIOUS
    <2>2. LastBytes = {bytes}
      BY <1>16, <2>1 DEF LastBytes, PartFinish, EcbModes
    <2>3. OneShot = {Whole(n) \o Tag(t)}
      BY <1>1, <1>4, <1>7, <1>16, OneShotIs
    <2>4. IsCells(out \o Crypt(ctx.block, ctx.iv), Unit(mode), n)
      BY <1>3, <1>5, PartOut
    <2>5. Whole(n) = Cells(Unit(mode), n)
      BY WholeIs
    <2>6. out \o bytes = Whole(n)
      BY <2>1, <2>4, <2>5 DEF IsCells
    <2>7. IsSeq(bytes)
      BY <1>13, <2>1, CryptSeq
    <2>8. PICK w : w = out \o bytes
      OBVIOUS
    <2>9. OneShot = {w \o Tag(t)}
      BY <2>3, <2>6, <2>8
    <2> QED
      BY <1>14, <2>2, <2>7, <2>8, <2>9
  <1> QED
    BY <1>15, <1>16 DEF MacModes

\* A mode that keeps what may be the tag.
LEMMA TagEnds ==
  ASSUME Setting, RunAt(ctx, out, fed), fed = input.len, mode \in TagModes
  PROVE  /\ ~Verified => OneShot = {}
         /\ Verified => \A bytes \in LastBytes : out \o bytes \in OneShot
         /\ LastBytes = {} \/ (mode \in {"cbc_dec", "cbc_hmac_dec"} /\ 0 \in Paddings)
                => OneShot = {}
  <1>1. PICK l \in Nat : l = input.len
    BY InputNat
  <1>2. PICK t \in Nat \ {0} : t = TagLen(mode)
    BY KnownSizes
  <1>3. CASE ~input.authentic
    <2>1. OneShot = {}
      BY <1>1, <1>2, <1>3, OneShotIs
    <2>2. ~Verified
      BY <1>3 DEF Verified
    <2> QED
      BY <2>1, <2>2
  <1>4. CASE input.authentic
    <2>1. input \in Inputs(mode)
      BY DEF Setting
    <2>2. /\ l >= t
          /\ mode = "gcm_dec" => l - GcmTag <= MaxPlaintext
      BY <1>1, <1>2, <1>4, <2>1 DEF Inputs
    <2>3. PICK d \in Nat : d = l - t
      BY <2>2
    <2>4. DataAt(fed) = d /\ fed - d = t
      <3>1. DataAt(fed) = IF l > t THEN l - t ELSE 0
        BY <1>1, <1>2 DEF DataAt
      <3> QED
        BY <1>1, <2>2, <2>3, <3>1
    <2>5. PICK k \in Nat : StreamAt(ctx, out, d, k)
      BY <2>4 DEF RunAt
    <2>6. ctx.mac = Bytes(d, t) /\ ctx.maced = Bytes(0, d)
      BY <2>4 DEF RunAt, MacAt
    <2>7. Verified
      <3>1. Len(ctx.mac) = t
        BY <2>6, BytesSeq
      <3>2. ctx.maced = [i \in 1 .. d |-> Byte(i)]
        <4>1. \A i \in 1 .. d : 0 + i = i
          OBVIOUS
        <4>2. Bytes(0, d) = [i \in 1 .. d |-> Byte(i)]
          BY <4>1 DEF Bytes
        <4> QED
          BY <2>6, <4>2
      <3>3. ctx.mac = [i \in 1 .. t |-> Byte(d + i)]
        BY <2>6 DEF Bytes
      <3>4. d = input.len - TagLen(mode)
        BY <1>1, <1>2, <2>3
      <3> QED
        BY <1>2, <1>4, <3>1, <3>2, <3>3, <3>4 DEF Verified
    <2>8. CASE mode = "cbc_hmac_dec"
      <3>1. OneShot = Unpadded(d) /\ LastBytes = CbcDecryptFinish
        <4>1. OneShot = Unpadded(d)
          BY <1>1, <1>2, <1>4, <2>3, <2>8, OneShotIs
        <4>2. LastBytes = CbcDecryptFinish
          BY <2>8 DEF LastBytes, EcbModes
        <4> QED
          BY <4>1, <4>2
      <3>2. d = IF mode = "cbc_dec" THEN input.len ELSE input.len - HmacTag
        BY <1>1, <1>2, <2>3, <2>8 DEF TagLen
      <3>3. /\ \A bytes \in CbcDecryptFinish : out \o bytes \in Unpadded(d)
            /\ CbcDecryptFinish = {} \/ 0 \in Paddings => Unpadded(d) = {}
        BY <2>5, <2>8, <3>2, ModeKinds, CbcEnds
      <3> QED
        BY <2>7, <3>1, <3>3
    <2>9. CASE mode \in {"gcm_dec", "ctr_hmac_dec"}
      <3>1. ~(mode = "gcm_dec" /\ l - t > MaxPlaintext)
        <4>1. CASE mode = "gcm_dec"
          <5>1. t = GcmTag
            BY <1>2, <4>1 DEF TagLen
          <5>2. MaxPlaintext \in Int
            BY KnownSizes, FirstNat DEF MaxPlaintext
          <5> QED
            BY <2>2, <4>1, <5>1, <5>2
        <4> QED
          BY <4>1
      <3>2. OneShot = {Whole(d)}
        <4>1. OneShot = {Whole(l - t)}
          BY <1>1, <1>2, <1>4, <2>9, <3>1, OneShotIs
        <4> QED
          BY <2>3, <4>1
      <3>3. Hold(mode) = 0 /\ LastBytes = {Crypt(ctx.block, ctx.iv)}
        BY <2>9 DEF LastBytes, PartFinish, EcbModes, Hold
      <3>4. IsCells(out \o Crypt(ctx.block, ctx.iv), Unit(mode), d)
        BY <2>5, <3>3, PartOut
      <3>5. Whole(d) = Cells(Unit(mode), d)
        BY WholeIs
      <3>6. out \o Crypt(ctx.block, ctx.iv) \in OneShot
        BY <3>2, <3>4, <3>5 DEF IsCells
      <3> QED
        BY <2>7, <2>9, <3>3, <3>6
    <2> QED
      BY <2>8, <2>9 DEF TagModes
  <1> QED
    BY <1>3, <1>4

\* What the updates of GCM refuse, the one-shot functions refuse.
LEMMA RefusedEnds ==
  ASSUME Setting, RunAt(ctx, out, fed), PiecesFit, NEW n \in Sizes, TooLong(n)
  PROVE  OneShot = {}
  <1>1. PICK l \in Nat : l = input.len
    BY InputNat
  <1>2. PICK t \in Nat \ {0} : t = TagLen(mode)
    BY KnownSizes
  <1>3. n \in Nat /\ n <= Piece /\ fed + n <= l /\ fed \in Nat /\ Piece \in Nat
    BY <1>1, SizesAre, InputNat, KnownSizes
  <1>4. PICK max \in Int : max = MaxPlaintext
    BY KnownSizes, FirstNat DEF MaxPlaintext
  <1>5. mode \in {"gcm_enc", "gcm_dec"} /\ n > max - ctx.encedlen
    BY <1>4 DEF TooLong
  <1>6. CASE mode = "gcm_enc"
    <2>1. ctx.encedlen = fed
      BY <1>6 DEF RunAt, MacAt, MacModes
    <2>2. ~(l <= max)
      BY <1>3, <1>5, <2>1
    <2> QED
      BY <1>1, <1>2, <1>4, <1>6, <2>2, OneShotIs
  <1>7. CASE mode = "gcm_dec"
    <2>1. mode \in TagModes /\ mode \in Modes
      BY <1>7 DEF TagModes, Setting
    <2>2. Piece <= max
      BY <1>4, <1>7, <2>1 DEF PiecesFit
    <2>3. PICK d : d = DataAt(fed)
      OBVIOUS
    <2>4. d = IF fed > t THEN fed - t ELSE 0
      BY <1>2, <2>1, <2>3 DEF DataAt
    <2>5. EncIn(ctx.encedlen, d)
      BY <2>1, <2>3 DEF RunAt, MacAt
    <2>6. PICK e \in Nat : e = ctx.encedlen /\ e <= d
      BY <2>5 DEF EncIn
    <2>7. n > max - e
      BY <1>5, <2>6
    <2>8. l - t > max
      BY <1>3, <2>2, <2>4, <2>6, <2>7
    <2> QED
      BY <1>1, <1>2, <1>4, <1>7, <2>8, OneShotIs
  <1> QED
    BY <1>5, <1>6, <1>7

-----------------------------------------------------------------------------
(* The next state.                                                         *)

\* A call leaves the setting alone.
SameCall == mode' = mode /\ tool' = tool /\ input' = input

\* What depends on the setting alone stays as it is.
LEMMA SameSizes ==
  ASSUME SameCall
  PROVE  /\ Unit(mode)' = Unit(mode) /\ Hold(mode)' = Hold(mode)
         /\ TagLen(mode)' = TagLen(mode) /\ FirstChain(mode)' = FirstChain(mode)
  BY DEF SameCall, Unit, Hold, TagLen, FirstChain

LEMMA SameCells ==
  ASSUME SameCall, NEW u, NEW n
  PROVE  Chain(n)' = Chain(n) /\ Cell(u, n)' = Cell(u, n) /\ Cells(u, n)' = Cells(u, n)
  <1>1. ASSUME NEW k PROVE Chain(k)' = Chain(k)
    BY SameSizes DEF SameCall, Chain, After
  <1>2. ASSUME NEW i PROVE Cell(u, i)' = Cell(u, i)
    BY <1>1 DEF Cell
  <1> QED
    BY <1>1, <1>2 DEF Cells

\* The state of the stream, seen from the next state.
LEMMA SameRun ==
  ASSUME SameCall, RunAt(ctx', out', fed')
  PROVE  RunAt(ctx, out, fed)'
  <1>1. DataAt(fed)' = DataAt(fed')
    BY SameSizes DEF DataAt, SameCall
  <1>2. PICK k \in Nat : StreamAt(ctx', out', DataAt(fed'), k)
    BY DEF RunAt
  <1>3. PICK u, h, d : u = Unit(mode) /\ h = Hold(mode) /\ d = DataAt(fed')
    OBVIOUS
  <1>4. Counts(u, h, d, k) /\ ctx' = Ctx(ctx', u, k, d) /\ out' = Cells(u, k * u)
    BY <1>2, <1>3 DEF StreamAt
  <1>5. Ctx(ctx, u, k, d)' = Ctx(ctx', u, k, d)
    BY SameCells DEF Ctx
  <1>6. Cells(u, k * u)' = Cells(u, k * u)
    BY SameCells
  <1>7. StreamAt(ctx, out, d, k)'
    BY <1>3, <1>4, <1>5, <1>6, SameSizes DEF StreamAt
  <1>8. \E j \in Nat : StreamAt(ctx, out, DataAt(fed), j)'
    BY <1>1, <1>3, <1>7
  <1>9. MacAt(ctx, out, fed)'
    BY <1>1 DEF RunAt, MacAt, SameCall
  <1>10. AlignedAt(fed)'
    BY SameSizes DEF RunAt, AlignedAt, SameCall
  <1> QED
    BY <1>8, <1>9, <1>10 DEF RunAt

\* The one-shot function gives what it gave.
LEMMA SameOneShot == ASSUME SameCall PROVE OneShot' = OneShot
  <1>1. ASSUME NEW n PROVE Whole(n)' = Whole(n)
    BY SameSizes DEF SameCall, Whole, After
  <1>2. ASSUME NEW n PROVE Padded(n)' = Padded(n)
    BY <1>1 DEF Padded
  <1>3. ASSUME NEW n PROVE Unpadded(n)' = Unpadded(n)
    BY <1>1 DEF Unpadded, SameCall
  <1> QED
    BY <1>1, <1>2, <1>3, SameSizes DEF OneShot, SameCall

-----------------------------------------------------------------------------
(* The inductive invariant.                                                *)

\* What GCM encryption has put out: blocks within its limit, and the tag.
Released == mode = "gcm_enc" =>
    \E x \in Nat : /\ x <= MaxPlaintext
                   /\ out = Cells(B, x) \/ out = Cells(B, x) \o Tag(GcmTag)

Inv == /\ Setting
       /\ status = "running" => RunAt(ctx, out, fed)
       /\ StreamIsOneShot
       /\ Released

\* SM4_GCM_MAX_PLAINTEXT_SIZE in numbers.
LEMMA MaxInt == MaxPlaintext \in Nat /\ MaxPlaintext = (CtrMod - 2) * B
                /\ CtrMod \in Nat /\ CtrMod >= 2 /\ B \in Nat \ {0}
  <1>1. CtrMod \in Nat /\ CtrMod >= 2 /\ B \in Nat \ {0}
    BY StreamAssumption
  <1>2. PICK a \in Nat : a = CtrMod - 2
    BY <1>1
  <1>3. a * B \in Nat
    BY <1>1
  <1> QED
    BY <1>1, <1>2, <1>3 DEF MaxPlaintext

\* GCM encryption within its limit, before and after the last call.
LEMMA ReleasedRun == ASSUME Setting, RunAt(ctx, out, fed) PROVE Released
  <1> SUFFICES ASSUME mode = "gcm_enc"
               PROVE  \E x \in Nat : x <= MaxPlaintext /\ out = Cells(B, x)
    BY DEF Released
  <1>1. DataAt(fed) = fed /\ fed <= MaxPlaintext /\ fed \in Nat
    BY InputNat DEF RunAt, MacAt, DataAt, TagModes
  <1>2. PICK k \in Nat : StreamAt(ctx, out, fed, k)
    BY <1>1 DEF RunAt
  <1>3. Unit(mode) = B
    BY DEF Unit
  <1>4. PICK x \in Nat : x = k * B
    BY MaxInt
  <1>5. x <= fed /\ out = Cells(B, x)
    BY <1>2, <1>3, <1>4 DEF StreamAt, Counts
  <1> QED
    BY <1>1, <1>5, MaxInt

LEMMA ReleasedEnd ==
  ASSUME Setting, NEW o, o \in OneShot, mode = "gcm_enc"
  PROVE  \E x \in Nat : x <= MaxPlaintext /\ o = Cells(B, x) \o Tag(GcmTag)
  <1>1. PICK n \in Nat : n = input.len
    BY InputNat
  <1>2. PICK t : t = TagLen(mode)
    OBVIOUS
  <1>3. t = GcmTag /\ Unit(mode) = B
    BY <1>2 DEF TagLen, Unit
  <1>4. n <= MaxPlaintext
    BY <1>1, <1>2, OneShotIs
  <1>5. OneShot = {Whole(n) \o Tag(t)}
    BY <1>1, <1>2, <1>4, OneShotIs
  <1>6. Whole(n) = Cells(B, n)
    BY <1>3, WholeIs
  <1> QED
    BY <1>3, <1>4, <1>5, <1>6

\* The invariant holds at the start,
LEMMA InitInv == ASSUME Init PROVE Inv
  <1>1. input.len \in Nat
    BY StreamAssumption DEF Init, Inputs
  <1>2. Setting
    BY <1>1 DEF Init, Setting
  <1>3. PICK u \in Nat \ {0}, h \in {0, 1} : u = Unit(mode) /\ h = Hold(mode)
    BY KnownSizes
  <1>4. 0 * u = 0 /\ 0 - 0 = 0
    BY <1>3
  <1>5. DataAt(0) = 0
    <2>1. TagLen(mode) \in Nat \ {0}
      BY KnownSizes
    <2>2. ~(0 > TagLen(mode))
      BY <2>1
    <2> QED
      BY <2>2 DEF DataAt
  <1>6. ctx = [block |-> <<>>, iv |-> FirstChain(mode), mac |-> <<>>, maced |-> <<>>,
               encedlen |-> 0] /\ out = <<>> /\ fed = 0 /\ status = "running"
    BY DEF Init
  <1>7. StreamAt(ctx, out, 0, 0)
    <2>1. Counts(u, h, 0, 0)
      BY <1>3, <1>4 DEF Counts
    <2>2. ctx = Ctx(ctx, u, 0, 0)
      <3>1. ctx.mac = <<>> /\ ctx.maced = <<>> /\ ctx.encedlen = 0
        BY <1>6
      <3>2. Bytes(0 * u, 0 - 0 * u) = <<>>
        BY <1>4, EmptyIs
      <3>3. Chain(0) = FirstChain(mode)
        BY ChainFirst
      <3> QED
        BY <1>6, <3>1, <3>2, <3>3 DEF Ctx
    <2>3. out = Cells(u, 0 * u)
      BY <1>4, <1>6, EmptyIs
    <2> QED
      BY <1>3, <2>1, <2>2, <2>3 DEF StreamAt
  <1>8. MacAt(ctx, out, 0)
    <2>1. ctx.mac = <<>> /\ ctx.maced = <<>> /\ ctx.encedlen = 0
      BY <1>6
    <2>2. Bytes(0, 0) = <<>> /\ 0 - 0 = 0
      BY EmptyIs
    <2>3. EncIn(0, 0)
      BY DEF EncIn
    <2>4. 0 <= MaxPlaintext
      BY MaxInt
    <2> QED
      BY <1>5, <1>6, <2>1, <2>2, <2>3, <2>4 DEF MacAt
  <1>9. AlignedAt(0)
    <2>1. 0 = 0 * u + 0 /\ 0 \in 0 .. u - 1
      BY <1>3
    <2>2. 0 % u = 0
      BY <1>3, <2>1, Divides
    <2> QED
      BY <1>3, <2>2 DEF AlignedAt
  <1>10. RunAt(ctx, out, fed)
    BY <1>5, <1>6, <1>7, <1>8, <1>9 DEF RunAt
  <1>11. StreamIsOneShot
    BY <1>6 DEF StreamIsOneShot
  <1> QED
    BY <1>2, <1>10, <1>11, ReleasedRun DEF Inv

\* Every update puts out the next blocks.
LEMMA UpdateStep ==
  ASSUME Inv, ToolsInPlace, Update
  PROVE  \E n \in Sizes : \E r : Feed(n, r) /\ Stepped(r, OutAt(n), n)
  <1>1. \/ \E m \in EcbModes \cup PartModes \cup {"cbc_enc", "cbc_dec"} : BlockUpdate(m)
        \/ \E m \in MacModes : MacUpdate(m)
        \/ \E m \in TagModes : TagUpdate(m)
    BY DEF Update, EcbModes, PartModes, MacModes, TagModes,
           sm4_ecb_encrypt_update, sm4_xts_encrypt_update, sm4_xts_decrypt_update,
           sm4_cbc_encrypt_update, sm4_cbc_decrypt_update, sm4_ctr_encrypt_update,
           sm4_ctr32_encrypt_update, sm4_cfb_encrypt_update, sm4_cfb_decrypt_update,
           sm4_ofb_encrypt_update, sm4_gcm_encrypt_update,
           sm4_cbc_sm3_hmac_encrypt_update, sm4_ctr_sm3_hmac_encrypt_update,
           sm4_gcm_decrypt_update, sm4_cbc_sm3_hmac_decrypt_update,
           sm4_ctr_sm3_hmac_decrypt_update
  <1>2. ASSUME NEW n \in Sizes, NEW r, Feed(n, r)
        PROVE  Setting /\ RunAt(ctx, out, fed) /\ ~TooLong(n)
    BY <1>2 DEF Inv, Feed
  <1>3. CASE \E m \in EcbModes \cup PartModes \cup {"cbc_enc", "cbc_dec"} : BlockUpdate(m)
    <2>1. mode \in EcbModes \cup PartModes \cup {"cbc_enc", "cbc_dec"} /\ BlockUpdate(mode)
      BY <1>3 DEF BlockUpdate
    <2>2. mode \notin MacModes \cup TagModes
      BY <2>1 DEF EcbModes, PartModes, MacModes, TagModes
    <2>3. PICK n \in Sizes :
             Feed(n, UpdateBlocks(Unit(mode), Hold(mode), ctx, Buffer(n), 0, n, OutAt(n)))
      BY <2>1 DEF BlockUpdate
    <2>4. PICK q, r : q = OutAt(n)
                      /\ r = UpdateBlocks(Unit(mode), Hold(mode), ctx, Buffer(n), 0, n, q)
      OBVIOUS
    <2>5. Feed(n, r)
      BY <2>3, <2>4
    <2>6. Stepped(r, q, n)
      BY <1>2, <2>2, <2>4, <2>5, BlockStep
    <2> QED
      BY <2>4, <2>5, <2>6
  <1>4. CASE \E m \in MacModes : MacUpdate(m)
    <2>1. mode \in MacModes /\ MacUpdate(mode)
      BY <1>4 DEF MacUpdate
    <2>3. PICK n \in Sizes : Feed(n, UpdateMac(ctx, Buffer(n), n, OutAt(n)))
      BY <2>1 DEF MacUpdate
    <2>4. PICK q, r : q = OutAt(n) /\ r = UpdateMac(ctx, Buffer(n), n, q)
      OBVIOUS
    <2>5. Feed(n, r)
      BY <2>3, <2>4
    <2>6. Stepped(r, q, n)
      BY <1>2, <2>1, <2>4, <2>5, MacStep
    <2> QED
      BY <2>4, <2>5, <2>6
  <1>5. CASE \E m \in TagModes : TagUpdate(m)
    <2>1. mode \in TagModes /\ TagUpdate(mode)
      BY <1>5 DEF TagUpdate
    <2>3. PICK n \in Sizes :
             Feed(n, UpdateTag(TagLen(mode), Hold(mode), ctx, Buffer(n), n, OutAt(n)))
      BY <2>1 DEF TagUpdate
    <2>4. PICK q, r : q = OutAt(n)
                      /\ r = UpdateTag(TagLen(mode), Hold(mode), ctx, Buffer(n), n, q)
      OBVIOUS
    <2>5. Feed(n, r)
      BY <2>3, <2>4
    <2>6. Stepped(r, q, n)
      BY <1>2, <2>1, <2>4, <2>5, TagStep
    <2> QED
      BY <2>4, <2>5, <2>6
  <1> QED
    BY <1>1, <1>3, <1>4, <1>5

\* After it, the stream is where one more piece takes it.
LEMMA FeedRun ==
  ASSUME Inv, NEW n \in Sizes, NEW r, Feed(n, r), Stepped(r, OutAt(n), n)
  PROVE  SameCall /\ RunAt(ctx', out', fed') /\ fed' = fed + n /\ Inv'
  <1>1. SameCall /\ fed' = fed + n /\ status = "running" /\ status' = "running"
    BY DEF Feed, SameCall
  <1>2. RunAt(ctx', out', fed')
    BY DEF Feed, Stepped
  <1>3. RunAt(ctx, out, fed)'
    BY <1>1, <1>2, SameRun
  <1>4. Setting'
    <2>1. Setting
      BY DEF Inv
    <2>2. n \in Nat /\ fed + n <= input.len /\ fed \in Nat /\ input.len \in Nat
      BY <2>1, SizesAre, InputNat
    <2>3. fed' \in 0 .. input.len
      BY <1>1, <2>2
    <2>4. Inputs(mode)' = Inputs(mode)
      BY <1>1, SameSizes DEF Inputs, SameCall, MaxPlaintext
    <2> QED
      BY <1>1, <2>1, <2>3, <2>4 DEF Setting, SameCall
  <1>5. StreamIsOneShot'
    BY <1>1 DEF StreamIsOneShot
  <1>6. Released'
    BY <1>3, <1>4, ReleasedRun, PTL
  <1> QED
    BY <1>1, <1>2, <1>3, <1>4, <1>5, <1>6 DEF Inv

\* The call ends, with what the one-shot function gives or where it gives nothing.
LEMMA EndInv ==
  ASSUME Inv, status = "running", SameCall, fed' = fed, StreamIsOneShot',
         \/ status' = "finished"
         \/ status' = "failed" /\ out' = out
  PROVE  Inv'
  <1>1. Setting /\ RunAt(ctx, out, fed)
    BY DEF Inv
  <1>2. Setting'
    <2>1. Inputs(mode)' = Inputs(mode)
      BY SameSizes DEF Inputs, SameCall, MaxPlaintext
    <2> QED
      BY <1>1, <2>1 DEF Setting, SameCall
  <1>3. Released'
    <2>1. CASE status' = "finished"
      <3>1. out' \in OneShot
        BY <2>1, SameOneShot DEF StreamIsOneShot
      <3>2. SUFFICES ASSUME mode = "gcm_enc"
                     PROVE  Released'
        BY DEF Released, SameCall
      <3>3. PICK x \in Nat : x <= MaxPlaintext /\ out' = Cells(B, x) \o Tag(GcmTag)
        BY <1>1, <3>1, <3>2, ReleasedEnd
      <3>4. Cells(B, x)' = Cells(B, x) /\ Tag(GcmTag)' = Tag(GcmTag)
            /\ MaxPlaintext' = MaxPlaintext
        BY SameCells DEF Tag, Byte, MaxPlaintext
      <3> QED
        BY <3>3, <3>4 DEF Released
    <2>2. CASE status' = "failed" /\ out' = out
      <3>1. \A x \in Nat : Cells(B, x)' = Cells(B, x)
        BY SameCells
      <3>2. Tag(GcmTag)' = Tag(GcmTag) /\ MaxPlaintext' = MaxPlaintext
        BY DEF Tag, Byte, MaxPlaintext
      <3> QED
        BY <2>2, <3>1, <3>2 DEF Inv, Released, SameCall
    <2> QED
      BY <2>1, <2>2
  <1> QED
    BY <1>2, <1>3 DEF Inv

\* and every step keeps it.
LEMMA NextInv ==
  ASSUME Inv, ToolsInPlace, PiecesFit, [Next]_vars
  PROVE  Inv'
  <1>1. CASE Update
    BY <1>1, UpdateStep, FeedRun
  <1>2. CASE Refused
    <2>1. status = "running" /\ status' = "failed" /\ SameCall /\ fed' = fed /\ out' = out
      BY <1>2 DEF Refused, SameCall
    <2>2. OneShot = {}
      BY <1>2, <2>1, RefusedEnds DEF Refused, Inv
    <2>3. StreamIsOneShot'
      BY <2>1, <2>2, SameOneShot DEF StreamIsOneShot
    <2> QED
      BY <2>1, <2>3, EndInv
  <1>3. CASE BlockFinish
    <2>1. PICK bytes \in LastBytes : Finished(bytes, ctx.maced)
      BY <1>3 DEF BlockFinish
    <2>2. status = "running" /\ fed = input.len /\ mode \notin MacModes \cup TagModes
          /\ Setting /\ RunAt(ctx, out, fed)
      BY <1>3 DEF BlockFinish, Ready, Inv
    <2>3. status' = "finished" /\ SameCall /\ fed' = fed /\ out' = out \o bytes
      BY <2>1 DEF Finished, SameCall
    <2>4. out' \in OneShot
      BY <2>1, <2>2, <2>3, BlockEnds
    <2>5. StreamIsOneShot'
      BY <2>2, <2>3, <2>4, SameOneShot DEF StreamIsOneShot, SameCall
    <2> QED
      BY <2>2, <2>3, <2>5, EndInv
  <1>4. CASE MacFinish
    <2>1. PICK bytes \in LastBytes :
            Finished(bytes \o Tag(TagLen(mode)), ctx.maced \o bytes)
      BY <1>4 DEF MacFinish
    <2>2. status = "running" /\ fed = input.len /\ mode \in MacModes
          /\ Setting /\ RunAt(ctx, out, fed)
      BY <1>4 DEF MacFinish, Ready, Inv
    <2>3. /\ status' = "finished" /\ SameCall /\ fed' = fed
          /\ out' = out \o (bytes \o Tag(TagLen(mode)))
      BY <2>1 DEF Finished, SameCall
    <2>4. PICK v, w : v = out \o (bytes \o Tag(TagLen(mode))) /\ w = ctx.maced \o bytes
      OBVIOUS
    <2>5. v \in OneShot /\ w = SubSeq(v, 1, Len(v) - TagLen(mode))
      BY <2>2, <2>4, MacEnds
    <2>6. ctx'.maced = w
      <3>1. ctx' = [ctx EXCEPT !.maced = w]
        BY <2>1, <2>4 DEF Finished
      <3>2. PICK k \in Nat : StreamAt(ctx, out, DataAt(fed), k)
        BY <2>2 DEF RunAt
      <3>3. IsCtx(ctx)
        BY <3>2, CtxIs DEF StreamAt
      <3> QED
        BY <3>1, <3>3 DEF IsCtx
    <2>7. StreamIsOneShot'
      BY <2>3, <2>4, <2>5, <2>6, SameOneShot, SameSizes DEF StreamIsOneShot
    <2> QED
      BY <2>2, <2>3, <2>7, EndInv
  <1>5. CASE TagFinish
    <2>1. PICK bytes \in LastBytes : Finished(bytes, ctx.maced)
      BY <1>5 DEF TagFinish
    <2>2. status = "running" /\ fed = input.len /\ mode \in TagModes /\ Verified
          /\ Setting /\ RunAt(ctx, out, fed)
      BY <1>5 DEF TagFinish, Ready, Inv
    <2>3. status' = "finished" /\ SameCall /\ fed' = fed /\ out' = out \o bytes
      BY <2>1 DEF Finished, SameCall
    <2>4. out' \in OneShot
      BY <2>1, <2>2, <2>3, TagEnds
    <2>5. mode' \notin MacModes
      BY <2>2, <2>3 DEF SameCall, TagModes, MacModes
    <2>6. StreamIsOneShot'
      BY <2>3, <2>4, <2>5, SameOneShot DEF StreamIsOneShot
    <2> QED
      BY <2>2, <2>3, <2>6, EndInv
  <1>6. CASE FinishFails
    <2>1. status = "running" /\ status' = "failed" /\ SameCall /\ fed' = fed /\ out' = out
      BY <1>6 DEF FinishFails, Ready, SameCall
    <2>2. fed = input.len /\ Setting /\ RunAt(ctx, out, fed)
      BY <1>6 DEF FinishFails, Ready, Inv
    <2>3. \/ LastBytes = {} \/ (mode \in {"cbc_dec", "cbc_hmac_dec"} /\ 0 \in Paddings)
          \/ mode \in TagModes /\ ~Verified
      BY <1>6 DEF FinishFails
    <2>4. OneShot = {}
      <3>1. CASE mode \in MacModes
        <4>1. mode \notin TagModes /\ mode \notin {"cbc_dec", "cbc_hmac_dec"}
          BY <3>1 DEF MacModes, TagModes
        <4> QED
          BY <2>2, <2>3, <3>1, <4>1, MacEnds
      <3>2. CASE mode \in TagModes
        BY <2>2, <2>3, <3>2, TagEnds
      <3>3. CASE mode \notin MacModes \cup TagModes
        BY <2>2, <2>3, <3>3, BlockEnds
      <3> QED
        BY <3>1, <3>2, <3>3
    <2>5. StreamIsOneShot'
      BY <2>1, <2>4, SameOneShot DEF StreamIsOneShot
    <2> QED
      BY <2>1, <2>5, EndInv
  <1>7. CASE UNCHANGED vars
    <2>1. SameCall /\ status' = status /\ fed' = fed /\ out' = out /\ ctx' = ctx
      BY <1>7 DEF vars, SameCall
    <2>2. Setting'
      <3>1. Inputs(mode)' = Inputs(mode)
        BY <2>1, SameSizes DEF Inputs, SameCall, MaxPlaintext
      <3> QED
        BY <2>1, <3>1 DEF Inv, Setting, SameCall
    <2>3. status' = "running" => RunAt(ctx, out, fed)'
      BY <2>1, SameRun DEF Inv
    <2>4. StreamIsOneShot'
      BY <2>1, SameOneShot, SameSizes DEF Inv, StreamIsOneShot, SameCall
    <2>5. Released'
      <3>1. \A x \in Nat : Cells(B, x)' = Cells(B, x)
        BY <2>1, SameCells
      <3>2. Tag(GcmTag)' = Tag(GcmTag) /\ MaxPlaintext' = MaxPlaintext
        BY DEF Tag, Byte, MaxPlaintext
      <3> QED
        BY <2>1, <3>1, <3>2 DEF Inv, Released, SameCall
    <2> QED
      BY <2>2, <2>3, <2>4, <2>5 DEF Inv
  <1> QED
    BY <1>1, <1>2, <1>3, <1>4, <1>5, <1>6, <1>7 DEF Next, Finish, Returned

-----------------------------------------------------------------------------
(* The theorems.                                                           *)

\* So it always holds.
LEMMA InvAlways == ASSUME ToolsInPlace, PiecesFit PROVE Spec => []Inv
  <1>1. Init => Inv
    BY InitInv
  <1>2. Inv /\ [Next]_vars => Inv'
    BY NextInv
  <1> QED
    BY <1>1, <1>2, PTL DEF Spec

\* However the input is cut into pieces, init, update and finish of every mode put
\* out exactly what the one-shot function does, the MAC covers exactly the
\* ciphertext, and a call fails only where the one-shot function does: for every
\* size and input, in the tools as the hypotheses say.
THEOREM OneShotCorrect == ASSUME ToolsInPlace, PiecesFit PROVE Spec => []StreamIsOneShot
  <1>1. Inv => StreamIsOneShot
    BY DEF Inv
  <1> QED
    BY <1>1, InvAlways, PTL

\* The bytes that are known not to be the tag, and how many are out.
LEMMA AheadBy ==
  ASSUME NEW u \in Nat \ {0}, NEW h \in {0, 1}, NEW t \in Nat, NEW f \in Nat,
         NEW d \in Nat, d = (IF f > t THEN f - t ELSE 0), NEW x \in Nat,
         x <= d, d < x + u + h, d > 0 => x + h <= d
  PROVE  /\ f - x < t + u + h
         /\ f - x >= (IF f < t THEN f ELSE t)
         /\ h = 1 /\ f > t => f - x > t
  OBVIOUS

\* Before the last call what is out is the beginning of the one-shot
\* function's result, at most a block and a tag behind the input, and nothing of
\* what may be the tag or the padding is out (sm4_*_update, every mode).
THEOREM NeverAheadCorrect == ASSUME ToolsInPlace, PiecesFit PROVE Spec => []NeverAhead
  <1>1. ASSUME Inv PROVE NeverAhead
    <2> SUFFICES ASSUME status = "running" PROVE NeverAhead
      BY DEF NeverAhead
    <2>1. Setting /\ RunAt(ctx, out, fed)
      BY <1>1 DEF Inv
    <2>2. PICK u \in Nat \ {0}, h \in {0, 1} : u = Unit(mode) /\ h = Hold(mode)
      BY KnownSizes
    <2>3. PICK t \in Nat : t = IF mode \in TagModes THEN TagLen(mode) ELSE 0
      BY KnownSizes
    <2>4. PICK f \in Nat : f = fed
      BY <2>1, InputNat
    <2>5. PICK d \in Nat : d = (IF f > t THEN f - t ELSE 0)
      <3>1. CASE f > t
        <4>1. f - t \in Nat
          BY <3>1
        <4> QED
          BY <3>1, <4>1
      <3>2. CASE ~(f > t)
        BY <3>2
      <3> QED
        BY <3>1, <3>2
    <2>6. DataAt(fed) = d
      <3>1. CASE mode \in TagModes
        BY <2>3, <2>4, <2>5, <3>1 DEF DataAt
      <3>2. CASE mode \notin TagModes
        <4>1. t = 0
          BY <2>3, <3>2
        <4>2. d = f
          BY <2>5, <4>1
        <4> QED
          BY <2>4, <3>2, <4>2 DEF DataAt
      <3> QED
        BY <3>1, <3>2
    <2>7. PICK k \in Nat : StreamAt(ctx, out, d, k)
      BY <2>1, <2>6 DEF RunAt
    <2>8. PICK x \in Nat : x = k * u
      OBVIOUS
    <2>9. x <= d /\ d < x + u + h /\ (d > 0 => x + h <= d) /\ out = Cells(u, x)
      BY <2>2, <2>7, <2>8 DEF StreamAt, Counts
    <2>10. Len(out) = x /\ out = Whole(x)
      BY <2>2, <2>9, CellsSeq, WholeIs
    <2>11. /\ f - x < t + u + h
           /\ f - x >= (IF f < t THEN f ELSE t)
           /\ h = 1 /\ f > t => f - x > t
      BY <2>5, <2>9, AheadBy
    <2> QED
      BY <2>2, <2>3, <2>4, <2>10, <2>11 DEF NeverAhead
  <1> QED
    BY <1>1, InvAlways, PTL

\* The counters of the blocks GCM may encrypt are 2, 3 and so on: the period is
\* not used up.
LEMMA CounterOf ==
  ASSUME mode = "gcm_enc", NEW x \in Nat, x <= MaxPlaintext, NEW i \in 1 .. x
  PROVE  \E q \in Nat, r \in 0 .. B - 1 :
            i = q * B + r + 1 /\ Cell(B, i) = [byte |-> i, by |-> <<<<2 + q, r + 1>>>>]
  <1>1. PICK a \in Nat : a = i - 1
    OBVIOUS
  <1>2. PICK q \in Nat, r \in 0 .. B - 1 : a \div B = q /\ a % B = r /\ a = q * B + r
    BY Division, MaxInt
  <1>3. PICK c \in Nat : c = CtrMod - 2
    BY MaxInt
  <1>4. q < c
    <2>1. q * B < c * B
      <3>1. q * B \in Nat /\ c * B \in Nat /\ MaxPlaintext = c * B
        BY <1>3, MaxInt
      <3> QED
        BY <1>1, <1>2, <3>1, MaxInt
    <2> QED
      BY <2>1, MaxInt
  <1>5. 2 + q \in 0 .. CtrMod - 1 /\ 2 \in 0 .. CtrMod - 1
    BY <1>3, <1>4, MaxInt
  <1>6. 2 % CtrMod = 2 /\ (2 + q) % CtrMod = 2 + q
    <2>1. ASSUME NEW y \in 0 .. CtrMod - 1 PROVE y % CtrMod = y
      <3>1. 0 * CtrMod + y = y
        BY <2>1, MaxInt
      <3> QED
        BY <3>1, Divides, MaxInt
    <2> QED
      BY <1>5, <2>1
  <1>7. Chain(q) = 2 + q
    BY <1>6 DEF Chain, After, FirstChain
  <1>8. Cell(B, i) = [byte |-> i, by |-> <<<<2 + q, r + 1>>>>]
    BY <1>1, <1>2, <1>7 DEF Cell
  <1>9. i = q * B + r + 1
    <2>1. PICK p \in Nat : p = q * B
      BY MaxInt
    <2> QED
      BY <1>1, <1>2, <2>1, MaxInt
  <1> QED
    BY <1>8, <1>9

\* No two blocks of a GCM encryption (sm4_gcm_encrypt_update, with its check
\* against SM4_GCM_MAX_PLAINTEXT_SIZE) are encrypted under one counter, nor any
\* under the counter of the tag.
THEOREM CounterCorrect == ASSUME ToolsInPlace, PiecesFit PROVE Spec => []CounterFresh
  <1>1. ASSUME Inv PROVE CounterFresh
    <2> SUFFICES ASSUME mode = "gcm_enc", NEW i \in 1 .. Len(out), NEW j \in 1 .. Len(out),
                        out[i].byte = i
                 PROVE  /\ out[i].by[1][1] # 1
                        /\ out[j].byte = j /\ out[i].by = out[j].by => i = j
      BY DEF CounterFresh
    <2>1. PICK x \in Nat : /\ x <= MaxPlaintext
                           /\ out = Cells(B, x) \/ out = Cells(B, x) \o Tag(GcmTag)
      BY <1>1 DEF Inv, Released
    <2>2. ASSUME NEW y \in 1 .. Len(out), out[y].byte = y
          PROVE  y \in 1 .. x /\ out[y] = Cell(B, y)
      <3>1. CASE out = Cells(B, x)
        <4>1. y \in 1 .. x
          BY <3>1, CellsSeq
        <4> QED
          BY <3>1, <4>1 DEF Cells
      <3>2. CASE out = Cells(B, x) \o Tag(GcmTag)
        <4>1. PICK s, w : s = Cells(B, x) /\ w = Tag(GcmTag)
          OBVIOUS
        <4>2. IsSeq(s) /\ Len(s) = x
          BY <4>1, CellsSeq
        <4>3. IsSeq(w) /\ Len(w) = GcmTag /\ \A z \in 1 .. GcmTag : w[z] = Byte(-2)
          BY <4>1, TagSeq, StreamAssumption DEF Tag
        <4>4. /\ Len(out) = x + GcmTag
              /\ out = [z \in 1 .. x + GcmTag |-> IF z <= x THEN s[z] ELSE w[z - x]]
          <5>1. PICK S : s \in Seq(S) /\ w \in Seq(S)
            BY <4>2, <4>3, Together
          <5>2. out = s \o w /\ GcmTag \in Nat
            BY <3>2, <4>1, StreamAssumption
          <5>3. Len(s \o w) = x + GcmTag
            <6>1. Len(s \o w) = Len(s) + Len(w)
              BY <5>1
            <6> QED
              BY <4>2, <4>3, <6>1
          <5>4. s \o w = [z \in 1 .. Len(s) + Len(w) |->
                            IF z <= Len(s) THEN s[z] ELSE w[z - Len(s)]]
            BY <4>2, <4>3, ConcatFun
          <5> QED
            BY <4>2, <4>3, <5>2, <5>3, <5>4
        <4>5. y \in 1 .. x + GcmTag /\ x + GcmTag \in Nat
          BY <4>4, StreamAssumption
        <4>6. CASE y > x
          <5>1. y - x \in 1 .. GcmTag
            BY <4>5, <4>6, StreamAssumption
          <5>2. out[y] = Byte(-2)
            BY <4>3, <4>4, <4>5, <4>6, <5>1
          <5>3. y = -2
            BY <2>2, <5>2 DEF Byte
          <5> QED
            BY <4>5, <5>3
        <4>7. CASE y <= x
          <5>1. y \in 1 .. x
            BY <4>5, <4>7
          <5>2. out[y] = s[y]
            BY <4>4, <4>5, <4>7
          <5> QED
            BY <4>1, <5>1, <5>2 DEF Cells
        <4> QED
          BY <4>5, <4>6, <4>7
      <3> QED
        BY <2>1, <3>1, <3>2
    <2>6. i \in 1 .. x /\ out[i] = Cell(B, i)
      BY <2>2
    <2>3. PICK q \in Nat, r \in 0 .. B - 1 :
            i = q * B + r + 1 /\ out[i] = [byte |-> i, by |-> <<<<2 + q, r + 1>>>>]
      BY <2>1, <2>6, CounterOf
    <2>4. out[i].by[1][1] # 1
      <3>1. out[i].by[1][1] = 2 + q
        BY <2>3
      <3> QED
        BY <3>1
    <2>5. ASSUME out[j].byte = j, out[i].by = out[j].by PROVE i = j
      <3>1. PICK a \in Nat, b \in 0 .. B - 1 :
              j = a * B + b + 1 /\ out[j] = [byte |-> j, by |-> <<<<2 + a, b + 1>>>>]
        <4>1. j \in 1 .. x /\ out[j] = Cell(B, j)
          BY <2>2, <2>5
        <4> QED
          BY <2>1, <4>1, CounterOf
      <3>2. <<<<2 + q, r + 1>>>> = <<<<2 + a, b + 1>>>>
        BY <2>3, <2>5, <3>1
      <3>3. 2 + q = 2 + a /\ r + 1 = b + 1
        BY <3>2
      <3>4. q = a /\ r = b
        BY <3>3, MaxInt
      <3> QED
        BY <2>3, <3>1, <3>4
    <2> QED
      BY <2>4, <2>5
  <1> QED
    BY <1>1, InvAlways, PTL

\* The sum of what two updates leave.
LEMMA FitsIn ==
  ASSUME NEW u \in Nat \ {0}, NEW h \in {0, 1}, NEW d \in Nat, NEW e \in Nat,
         NEW n \in Nat, e - d <= n, NEW k \in Nat, NEW l \in Nat,
         Counts(u, h, d, k), Counts(u, h, e, l)
  PROVE  (l * u) - (k * u) <= u * ((n + u - 1) \div u)
  <1>1. PICK x \in Nat, y \in Nat : x = k * u /\ y = l * u
    OBVIOUS
  <1>2. y - x <= n + u - 1
    <2>1. d < x + u + h /\ (e > 0 => y + h <= e) /\ y <= e
      BY <1>1 DEF Counts
    <2> QED
      BY <2>1
  <1>3. PICK a \in Nat : a = n + u - 1
    OBVIOUS
  <1>4. PICK m \in Nat, r \in 0 .. u - 1 : a \div u = m /\ a % u = r /\ a = m * u + r
    BY Division
  <1>5. l - k <= m
    <2>1. (l - k) * u = y - x
      BY <1>1
    <2>2. (l - k) * u < (m + 1) * u
      <3>1. PICK z \in Nat : z = m * u
        OBVIOUS
      <3>2. (m + 1) * u = z + u
        BY <3>1
      <3> QED
        BY <1>2, <1>3, <1>4, <2>1, <3>1, <3>2
    <2>3. l - k < m + 1
      BY <2>2
    <2> QED
      BY <2>3
  <1>6. (l - k) * u <= m * u
    BY <1>5
  <1>7. m * u = u * m /\ (l - k) * u = (l * u) - (k * u)
    OBVIOUS
  <1> QED
    BY <1>3, <1>4, <1>6, <1>7

\* How much of the data one more piece makes known.
LEMMA DataMore ==
  ASSUME Setting, NEW n \in Sizes
  PROVE  DataAt(fed) \in Nat /\ DataAt(fed + n) \in Nat /\ DataAt(fed + n) - DataAt(fed) <= n
  <1>1. fed \in Nat /\ n \in Nat /\ fed + n \in Nat
    BY InputNat, SizesAre
  <1>2. PICK t \in Nat : t = TagLen(mode)
    BY KnownSizes
  <1>3. PICK f \in Nat, g \in Nat : f = fed /\ g = fed + n
    BY <1>1
  <1>4. g = f + n
    BY <1>3
  <1>5. CASE mode \in TagModes
    <2>1. DataAt(fed) = (IF f > t THEN f - t ELSE 0)
          /\ DataAt(fed + n) = (IF g > t THEN g - t ELSE 0)
      BY <1>2, <1>3, <1>5 DEF DataAt
    <2> QED
      BY <1>1, <1>4, <2>1
  <1>6. CASE mode \notin TagModes
    <2>1. DataAt(fed) = f /\ DataAt(fed + n) = g
      BY <1>3, <1>6 DEF DataAt
    <2> QED
      BY <1>1, <1>4, <2>1
  <1> QED
    BY <1>5, <1>6

\* An update puts out no more than the size it answers when it is asked with
\* out = NULL, what the context holds included.
THEOREM FitsCorrect == ASSUME ToolsInPlace, PiecesFit PROVE Spec => OutFits
  <1>1. ASSUME Inv, Next, UNCHANGED vars => FALSE, Unit(mode) = B, status' = "running"
        PROVE  Len(out') - Len(out) <= OutSize(fed' - fed)
    <2>1. Update
      BY <1>1 DEF Next, Refused, Finish, BlockFinish, MacFinish, TagFinish, FinishFails,
                  Finished, Returned
    <2>2. PICK n \in Sizes : \E r : Feed(n, r) /\ Stepped(r, OutAt(n), n)
      BY <1>1, <2>1, UpdateStep
    <2>3. PICK r : Feed(n, r) /\ Stepped(r, OutAt(n), n)
      BY <2>2
    <2>4. SameCall /\ RunAt(ctx', out', fed') /\ fed' = fed + n
      BY <1>1, <2>3, FeedRun
    <2>5. Setting /\ RunAt(ctx, out, fed)
      BY <1>1, <2>3 DEF Inv, Feed
    <2>6. PICK d \in Nat, e \in Nat : d = DataAt(fed) /\ e = DataAt(fed') /\ e - d <= n
      BY <2>4, <2>5, DataMore
    <2>7. PICK k \in Nat : StreamAt(ctx, out, d, k)
      BY <2>5, <2>6 DEF RunAt
    <2>8. PICK l \in Nat : StreamAt(ctx', out', e, l)
      BY <2>4, <2>6 DEF RunAt
    <2>9. PICK u \in Nat \ {0}, h \in {0, 1} : u = Unit(mode) /\ h = Hold(mode)
      BY KnownSizes
    <2>10. n \in Nat /\ fed \in Nat
      BY <2>5, SizesAre, InputNat
    <2>11. (l * u) - (k * u) <= u * ((n + u - 1) \div u)
      <3>1. Counts(u, h, d, k) /\ Counts(u, h, e, l)
        BY <2>7, <2>8, <2>9 DEF StreamAt
      <3> QED
        BY <2>6, <2>10, <3>1, FitsIn
    <2>12. Len(out) = k * u /\ Len(out') = l * u
      <3>1. out = Cells(u, k * u) /\ out' = Cells(u, l * u)
        BY <2>7, <2>8, <2>9 DEF StreamAt
      <3>2. k * u \in Nat /\ l * u \in Nat
        OBVIOUS
      <3> QED
        BY <3>1, <3>2, CellsSeq
    <2>13. fed' - fed = n
      BY <2>4, <2>10
    <2> QED
      BY <1>1, <2>9, <2>11, <2>12, <2>13 DEF OutSize
  <1>2. Inv /\ [Next]_vars =>
          [Unit(mode) = B => Len(out') - Len(out) <= OutSize(fed' - fed)
              \/ status' # "running"]_vars
    BY <1>1
  <1> QED
    BY <1>2, InvAlways, PTL DEF Spec, OutFits
=============================================================================
