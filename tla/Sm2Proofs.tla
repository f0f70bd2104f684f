----------------------------- MODULE Sm2Proofs -----------------------------
(***************************************************************************)
(* TLAPS proofs about SM2.                                                 *)
(*                                                                         *)
(* Sm2Sign, for every prime order, every curve of that order, every        *)
(* private key, digest and nonce: what sm2_do_sign puts out is accepted    *)
(* for its digest and no other one, and the fast path computes the same    *)
(* signature.                                                              *)
(*                                                                         *)
(* Sm2Pool, for contexts of any size and any number of draws: no nonce is  *)
(* used twice, and each goes with the point computed from it.              *)
(***************************************************************************)
EXTENDS Sm2Sign, Sm2Pool, WellFoundedInduction, TLAPS

-----------------------------------------------------------------------------
(* Every set of natural numbers has a least element.                       *)

Below == {p \in Nat \X Nat : p[1] < p[2]}

LEMMA BelowWellFounded == IsWellFoundedOn(Below, Nat)
<1>1. IsWellFoundedOn({ss \in Nat \X Nat : ss[1] < ss[2]}, Nat)
  BY NatLessThanWellFounded DEF OpToRel
<1> QED BY <1>1 DEF Below

LEMMA LeastNumber ==
    ASSUME NEW S \in SUBSET Nat, S # {}
    PROVE  \E m \in S : \A n \in S : m <= n
<1>1. PICK m \in S : \A n \in S : <<n, m>> \notin Below
  BY BelowWellFounded, WFMin
<1>2. ASSUME NEW n \in S PROVE m <= n
  <2>1. n \in Nat /\ m \in Nat /\ <<n, m>> \notin Below
    BY <1>1
  <2>2. <<n, m>> \in Nat \X Nat /\ <<n, m>>[1] = n /\ <<n, m>>[2] = m
    BY <2>1
  <2>3. ~(n < m)
    BY <2>1, <2>2 DEF Below
  <2> QED BY <2>1, <2>3
<1> QED BY <1>2

-----------------------------------------------------------------------------
(* Congruence modulo N.                                                    *)

Cong(a, b) == \E q \in Int : a = b + q * N

LEMMA NFacts == N \in Nat /\ N \in Int /\ N > 3
BY Sm2Assumption

LEMMA CongRefl == ASSUME NEW a \in Int PROVE Cong(a, a)
<1>1. 0 \in Int /\ a = a + 0 * N
  BY NFacts
<1> QED BY <1>1 DEF Cong

LEMMA CongSym == ASSUME NEW a \in Int, NEW b \in Int, Cong(a, b) PROVE Cong(b, a)
<1>1. PICK q \in Int : a = b + q * N
  BY DEF Cong
<1>2. -q \in Int /\ b = a + (-q) * N
  BY <1>1, NFacts
<1> QED BY <1>2 DEF Cong

LEMMA CongTrans ==
    ASSUME NEW a \in Int, NEW b \in Int, NEW c \in Int, Cong(a, b), Cong(b, c)
    PROVE  Cong(a, c)
<1>1. PICK p \in Int : a = b + p * N
  BY DEF Cong
<1>2. PICK q \in Int : b = c + q * N
  BY DEF Cong
<1>3. p + q \in Int /\ a = c + (p + q) * N
  BY <1>1, <1>2, NFacts
<1> QED BY <1>3 DEF Cong

LEMMA CongAdd ==
    ASSUME NEW a \in Int, NEW b \in Int, NEW c \in Int, NEW e \in Int,
           Cong(a, b), Cong(c, e)
    PROVE  Cong(a + c, b + e) /\ Cong(a - c, b - e)
<1>1. PICK p \in Int : a = b + p * N
  BY DEF Cong
<1>2. PICK q \in Int : c = e + q * N
  BY DEF Cong
<1>3. p + q \in Int /\ a + c = (b + e) + (p + q) * N
  BY <1>1, <1>2, NFacts
<1>4. p - q \in Int /\ a - c = (b - e) + (p - q) * N
  BY <1>1, <1>2, NFacts
<1> QED BY <1>3, <1>4 DEF Cong

LEMMA CongMul ==
    ASSUME NEW a \in Int, NEW b \in Int, NEW c \in Int, Cong(a, b)
    PROVE  Cong(a * c, b * c) /\ Cong(c * a, c * b)
<1>1. PICK p \in Int : a = b + p * N
  BY DEF Cong
<1>2. p * c \in Int /\ a * c = b * c + (p * c) * N /\ c * a = c * b + (p * c) * N
  BY <1>1, NFacts
<1> QED BY <1>2 DEF Cong

\* What the remainder is: the number below the modulus congruent to its argument.
LEMMA Remainder ==
    ASSUME NEW m \in Nat, m > 0, NEW a \in Int
    PROVE  /\ a % m \in 0 .. m - 1
           /\ a \div m \in Int
           /\ a = (m * (a \div m)) + (a % m)
OBVIOUS

LEMMA ModCong == ASSUME NEW a \in Int PROVE a % N \in 0 .. N - 1 /\ Cong(a % N, a)
<1>1. a % N \in 0 .. N - 1 /\ a \div N \in Int /\ a = (N * (a \div N)) + (a % N)
  BY Remainder, NFacts
<1>2. -(a \div N) \in Int /\ a % N = a + (-(a \div N)) * N
  BY <1>1, NFacts
<1> QED BY <1>1, <1>2 DEF Cong

\* Congruent numbers below N are equal.
LEMMA CongEqual ==
    ASSUME NEW a \in 0 .. N - 1, NEW b \in 0 .. N - 1, Cong(a, b)
    PROVE  a = b
<1>1. PICK q \in Int : a = b + q * N
  BY DEF Cong
<1>2. ~(q >= 1)
  <2> SUFFICES ASSUME q >= 1 PROVE FALSE
    OBVIOUS
  <2>1. q * N >= N
    BY NFacts
  <2> QED BY <1>1, <2>1, NFacts
<1>3. ~(q <= -1)
  <2> SUFFICES ASSUME q <= -1 PROVE FALSE
    OBVIOUS
  <2>1. q * N <= -N
    BY NFacts
  <2> QED BY <1>1, <2>1, NFacts
<1>4. q = 0
  BY <1>2, <1>3
<1> QED BY <1>1, <1>4, NFacts

-----------------------------------------------------------------------------
(* The residues modulo a prime are a field.                                *)

\* The positive numbers that some multiple of a is congruent to.
Multiples(a) == {m \in Nat : m >= 1 /\ \E b \in Int : Cong(a * b, m)}

\* No divisor of N lies between 1 and N: the least positive number that some
\* multiple of a is congruent to leaves no remainder but 0, so it is 1.
LEMMA InverseExists ==
    ASSUME NEW a \in 1 .. N - 1
    PROVE  \E b \in 1 .. N - 1 : (a * b) % N = 1
<1>1. a \in Nat /\ a \in Int /\ a >= 1 /\ a < N
  BY NFacts
<1>2. a \in Multiples(a)
  <2>1. PICK o \in Int : o = 1
    OBVIOUS
  <2>2. a * o = a
    BY <1>1, <2>1
  <2>3. Cong(a * o, a)
    BY <1>1, <2>2, CongRefl
  <2> QED BY <1>1, <2>1, <2>3 DEF Multiples
<1>3. PICK m \in Multiples(a) : \A n \in Multiples(a) : m <= n
  <2>1. Multiples(a) \in SUBSET Nat /\ Multiples(a) # {}
    BY <1>2 DEF Multiples
  <2> QED BY <2>1, LeastNumber
<1>4. m \in Nat /\ m >= 1 /\ m <= a /\ m < N
  <2>1. m \in Nat /\ m >= 1
    BY DEF Multiples
  <2>2. m <= a
    BY <1>2, <1>3
  <2> QED BY <1>1, <2>1, <2>2, NFacts
<1>5. PICK b \in Int : Cong(a * b, m)
  BY DEF Multiples
<1>6. m = 1
  <2> SUFFICES ASSUME m # 1 PROVE FALSE
    OBVIOUS
  <2>1. N % m # 0
    BY <1>4, Sm2Assumption
  <2> DEFINE q == N \div m
             r == N % m
  <2>2. r \in 0 .. m - 1 /\ q \in Int /\ N = (m * q) + r
    BY <1>4, Remainder, NFacts
  <2> HIDE DEF q, r
  <2>3. r \in Nat /\ r >= 1 /\ r < m
    BY <1>4, <2>1, <2>2 DEF r
  <2>4. Cong((a * b) * (-q), m * (-q))
    <3>1. a * b \in Int /\ -q \in Int /\ m \in Int
      BY <1>1, <1>4, <2>2
    <3> QED BY <1>5, <3>1, CongMul
  <2>5. Cong(m * (-q), r)
    <3>1. -1 \in Int /\ m * (-q) = r + (-1) * N
      BY <1>4, <2>2, <2>3, NFacts
    <3> QED BY <3>1 DEF Cong
  <2>6. b * (-q) \in Int /\ a * (b * (-q)) = (a * b) * (-q) /\ m * (-q) \in Int
        /\ a * (b * (-q)) \in Int
    BY <1>1, <1>4, <2>2
  <2>7. Cong(a * (b * (-q)), r)
    <3>1. Cong(a * (b * (-q)), m * (-q))
      BY <2>4, <2>6
    <3> QED BY <3>1, <2>3, <2>5, <2>6, CongTrans
  <2>8. r \in Multiples(a)
    BY <2>3, <2>6, <2>7 DEF Multiples
  <2>9. m <= r
    BY <1>3, <2>8
  <2> QED BY <1>4, <2>3, <2>9
<1> DEFINE c == b % N
<1>7. c \in 0 .. N - 1 /\ Cong(c, b)
  BY ModCong
<1> HIDE DEF c
<1>8. Cong(a * c, 1)
  <2>1. Cong(a * c, a * b)
    BY <1>1, <1>7, CongMul, NFacts
  <2>2. a * c \in Int /\ a * b \in Int /\ c \in Int
    BY <1>1, <1>7, NFacts
  <2> QED BY <1>5, <1>6, <2>1, <2>2, CongTrans
<1>9. (a * c) % N = 1
  <2>1. a * c \in Int
    BY <1>1, <1>7, NFacts
  <2>2. (a * c) % N \in 0 .. N - 1 /\ Cong((a * c) % N, a * c)
    BY <2>1, ModCong
  <2>3. Cong((a * c) % N, 1)
    BY <1>8, <2>1, <2>2, CongTrans, NFacts
  <2>4. 1 \in 0 .. N - 1
    BY NFacts
  <2> QED BY <2>2, <2>3, <2>4, CongEqual
<1>10. c # 0
  <2> SUFFICES ASSUME c = 0 PROVE FALSE
    OBVIOUS
  <2>1. (a * c) = 0
    BY <1>1
  <2>2. 0 \in 0 .. N - 1 /\ 1 \in 0 .. N - 1 /\ Cong(0, 1)
    BY <1>8, <2>1, NFacts
  <2> QED BY <2>2, CongEqual
<1> QED BY <1>7, <1>9, <1>10, NFacts

\* What modn_inv computes.
LEMMA InverseCong ==
    ASSUME NEW a \in 1 .. N - 1
    PROVE  modn_inv(a) \in 1 .. N - 1 /\ Cong(a * modn_inv(a), 1)
<1>1. modn_inv(a) \in 1 .. N - 1 /\ (a * modn_inv(a)) % N = 1
  BY InverseExists DEF modn_inv
<1> DEFINE i == modn_inv(a)
<1> HIDE DEF i
<1>2. i \in 1 .. N - 1 /\ (a * i) % N = 1
  BY <1>1 DEF i
<1>3. a * i \in Int
  BY <1>2, NFacts
<1>4. Cong((a * i) % N, a * i)
  BY <1>3, ModCong
<1>5. Cong(a * i, 1)
  BY <1>2, <1>3, <1>4, CongSym
<1> QED BY <1>2, <1>5 DEF i

\* A factor that has an inverse may be cancelled.
LEMMA Cancel ==
    ASSUME NEW a \in 1 .. N - 1, NEW x \in Int, NEW y \in Int, Cong(a * x, a * y)
    PROVE  Cong(x, y)
<1> DEFINE i == modn_inv(a)
<1>1. i \in 1 .. N - 1 /\ Cong(a * i, 1)
  BY InverseCong
<1> HIDE DEF i
<1>2. a \in Int /\ i \in Int /\ a * i \in Int /\ a * x \in Int /\ a * y \in Int
  BY <1>1, NFacts
<1>3. Cong((a * x) * i, (a * y) * i)
  BY <1>2, CongMul
<1>4. Cong((a * i) * x, x) /\ Cong((a * i) * y, y)
  <2>1. PICK o \in Int : o = 1
    OBVIOUS
  <2>2. Cong((a * i) * x, o * x) /\ Cong((a * i) * y, o * y)
    BY <1>1, <1>2, <2>1, CongMul
  <2>3. o * x = x /\ o * y = y
    BY <2>1
  <2> QED BY <2>2, <2>3
<1>5. /\ (a * x) * i = (a * i) * x /\ (a * y) * i = (a * i) * y
      /\ (a * i) * x \in Int /\ (a * i) * y \in Int
  BY <1>2
<1>6. Cong(x, (a * i) * x)
  BY <1>4, <1>5, CongSym
<1>7. Cong(x, (a * i) * y)
  BY <1>3, <1>5, <1>6, CongTrans
<1> QED BY <1>4, <1>5, <1>7, CongTrans

\* A product is 0 only if a factor is.
LEMMA NonZero ==
    ASSUME NEW a \in 1 .. N - 1, NEW b \in 1 .. N - 1
    PROVE  (a * b) % N \in 1 .. N - 1
<1>1. a \in Int /\ b \in Int /\ a * b \in Int /\ 0 \in Int
  BY NFacts
<1>2. (a * b) % N \in 0 .. N - 1 /\ Cong((a * b) % N, a * b)
  BY <1>1, ModCong
<1>3. ASSUME (a * b) % N = 0 PROVE FALSE
  <2>1. a * 0 = 0
    BY <1>1
  <2>2. Cong(a * b, a * 0)
    BY <1>1, <1>2, <1>3, <2>1, CongSym
  <2>3. Cong(b, 0)
    BY <1>1, <2>2, Cancel
  <2>4. b \in 0 .. N - 1 /\ 0 \in 0 .. N - 1
    BY NFacts
  <2> QED BY <2>3, <2>4, CongEqual
<1> QED BY <1>2, <1>3, NFacts

-----------------------------------------------------------------------------
(* The operations on words, up to congruence.                              *)

LEMMA CongMul2 ==
    ASSUME NEW a \in Int, NEW b \in Int, NEW c \in Int, NEW e \in Int,
           Cong(a, b), Cong(c, e)
    PROVE  Cong(a * c, b * e)
<1>1. Cong(a * c, b * c) /\ Cong(b * c, b * e)
  BY CongMul
<1>2. a * c \in Int /\ b * c \in Int /\ b * e \in Int
  OBVIOUS
<1> QED BY <1>1, <1>2, CongTrans

\* A number below the modulus is its own remainder.
LEMMA ModSmall == ASSUME NEW m \in Nat, m > 0, NEW a \in 0 .. m - 1 PROVE a % m = a
OBVIOUS

LEMMA ReduceRange == ASSUME NEW a \in 0 .. Word - 1 PROVE Reduce(a) \in 0 .. N - 1
BY Sm2Assumption DEF Reduce

\* The Montgomery factor is not 0.
LEMMA RRange == R \in 1 .. N - 1
<1>1. Word - N \in 0 .. N - 1 /\ Word \in Int /\ Word - N \in Int
  BY Sm2Assumption
<1>2. R \in 0 .. N - 1 /\ Cong(R, Word)
  BY <1>1, ModCong DEF R
<1>3. Cong(Word, Word - N)
  <2>1. 1 \in Int /\ Word = (Word - N) + 1 * N
    BY <1>1, NFacts
  <2> QED BY <2>1 DEF Cong
<1>4. Cong(R, Word - N)
  BY <1>1, <1>2, <1>3, CongTrans, NFacts
<1>5. R = Word - N
  BY <1>1, <1>2, <1>4, CongEqual
<1> QED BY <1>5, Sm2Assumption

LEMMA ToMont ==
    ASSUME NEW a \in Int
    PROVE  modn_to_mont(a) \in 0 .. N - 1 /\ Cong(modn_to_mont(a), a * R)
<1>1. a * R \in Int
  BY RRange, NFacts
<1> QED BY <1>1, ModCong DEF modn_to_mont

\* A Montgomery product is the product without one factor R.
LEMMA MontMul ==
    ASSUME NEW a \in Int, NEW b \in Int
    PROVE  modn_mont_mul(a, b) \in 0 .. N - 1 /\ Cong(R * modn_mont_mul(a, b), a * b)
<1> DEFINE i == modn_inv(R)
           m == modn_mont_mul(a, b)
<1>1. i \in 1 .. N - 1 /\ Cong(R * i, 1) /\ R \in Int /\ i \in Int
  BY RRange, InverseCong, NFacts
<1>2. a * b * i \in Int
  BY <1>1
<1>3. m \in 0 .. N - 1 /\ Cong(m, a * b * i)
  BY <1>2, ModCong DEF modn_mont_mul
<1> HIDE DEF i, m
<1>4. m \in Int /\ R * m \in Int /\ R * (a * b * i) \in Int /\ R * i \in Int /\ a * b \in Int
  BY <1>1, <1>3, NFacts
<1>5. Cong(R * m, R * (a * b * i))
  BY <1>1, <1>2, <1>3, <1>4, CongMul
<1>6. Cong((a * b) * (R * i), a * b)
  <2>1. PICK o \in Int : o = 1
    OBVIOUS
  <2>2. (a * b) * o = a * b
    BY <1>4, <2>1
  <2>3. Cong(R * i, o)
    BY <1>1, <2>1
  <2>4. Cong((a * b) * (R * i), (a * b) * o)
    BY <1>4, <2>3, CongMul
  <2> QED BY <2>2, <2>4
<1>7. R * (a * b * i) = (a * b) * (R * i)
  BY <1>1
<1>8. Cong(R * (a * b * i), a * b)
  BY <1>6, <1>7
<1>9. Cong(R * m, a * b)
  BY <1>4, <1>5, <1>8, CongTrans
<1> QED BY <1>3, <1>9 DEF m

\* d + 1 is not 0 modulo n: private keys are at most n - 2.
LEMMA DPlusOne ==
    ASSUME d \in 1 .. N - 2
    PROVE  modn_add(d, 1) = d + 1 /\ d + 1 \in 1 .. N - 1 /\ d \in Int
<1>1. d + 1 \in 0 .. N - 1 /\ d + 1 \in 1 .. N - 1 /\ d \in Int
  BY NFacts
<1>2. (d + 1) % N = d + 1
  BY <1>1, ModSmall, NFacts
<1> QED BY <1>1, <1>2 DEF modn_add

\* The equation of the signature: s (1 + d) = k - r d.
LEMMA SForSolves ==
    ASSUME d \in 1 .. N - 2, NEW r \in 0 .. N - 1, NEW k \in 1 .. N - 1
    PROVE  SFor(r, k) \in 0 .. N - 1 /\ Cong((d + 1) * SFor(r, k), k - r * d)
<1> DEFINE u == d + 1
           m == modn_to_mont(u)
           i == modn_inv(m)
           v == modn_mont_inv(m)
           rm == modn_to_mont(r)
           t == modn_mont_mul(rm, d)
           w == modn_sub(k, t)
           s == modn_mont_mul(v, w)
<1>1. modn_add(d, 1) = u /\ u \in 1 .. N - 1 /\ u \in Int /\ d \in Int
  BY DPlusOne, NFacts
<1>2. SFor(r, k) = s
  BY <1>1 DEF SFor
<1> HIDE DEF u, m, i, v, rm, t, w, s
<1>3. R \in 1 .. N - 1 /\ R \in Int /\ r \in Int /\ k \in Int
  BY RRange, NFacts
<1>4. m \in 1 .. N - 1 /\ m \in Int /\ Cong(m, u * R)
  BY <1>1, <1>3, ToMont, NonZero, NFacts DEF m, modn_to_mont
<1>5. i \in 1 .. N - 1 /\ i \in Int /\ Cong(m * i, 1)
  BY <1>4, InverseCong, NFacts DEF i
<1>6. v \in 0 .. N - 1 /\ v \in Int /\ Cong(v, i * R * R)
  <2>1. i * R * R \in Int
    BY <1>3, <1>5
  <2> QED BY <2>1, ModCong, NFacts DEF v, i, modn_mont_inv
<1>7. rm \in 0 .. N - 1 /\ rm \in Int /\ Cong(rm, r * R)
  BY <1>3, ToMont, NFacts DEF rm
<1>8. t \in 0 .. N - 1 /\ t \in Int /\ Cong(R * t, rm * d)
  BY <1>1, <1>7, MontMul, NFacts DEF t
<1>9. w \in 0 .. N - 1 /\ w \in Int /\ Cong(w, k - t)
  <2>1. k - t \in Int
    BY <1>3, <1>8
  <2> QED BY <2>1, ModCong, NFacts DEF w, modn_sub
<1>10. s \in 0 .. N - 1 /\ s \in Int /\ Cong(R * s, v * w)
  BY <1>6, <1>9, MontMul, NFacts DEF s
<1>11. Cong(t, r * d)
  <2>1. Cong(rm * d, (r * R) * d) /\ (r * R) * d = R * (r * d)
    <3>1. r * R \in Int /\ (r * R) * d = R * (r * d)
      BY <1>1, <1>3
    <3>2. Cong(rm * d, (r * R) * d)
      BY <1>1, <1>7, <3>1, CongMul
    <3> QED BY <3>1, <3>2
  <2>2. R * t \in Int /\ rm * d \in Int /\ R * (r * d) \in Int /\ r * d \in Int
    BY <1>1, <1>3, <1>7, <1>8
  <2>3. Cong(R * t, R * (r * d))
    BY <1>8, <2>1, <2>2, CongTrans
  <2> QED BY <1>3, <1>8, <2>2, <2>3, Cancel
<1>12. Cong(w, k - r * d)
  <2>1. r * d \in Int /\ k - r * d \in Int /\ k - t \in Int
    BY <1>1, <1>3, <1>8
  <2>2. Cong(k - t, k - r * d)
    BY <1>3, <1>8, <1>11, <2>1, CongRefl, CongAdd
  <2> QED BY <1>9, <2>1, <2>2, CongTrans
<1>13. Cong(u * v, R)
  <2>1. Cong(u * v, u * (i * R * R))
    <3>1. i * R * R \in Int
      BY <1>3, <1>5
    <3> QED BY <1>1, <1>6, <3>1, CongMul
  <2>2. Cong(m * i, (u * R) * i)
    <3>1. u * R \in Int
      BY <1>1, <1>3
    <3> QED BY <1>4, <1>5, <3>1, CongMul
  <2>3. Cong((u * R) * i, 1)
    <3>1. (u * R) * i \in Int /\ m * i \in Int
      BY <1>1, <1>3, <1>4, <1>5
    <3> QED BY <1>5, <2>2, <3>1, CongSym, CongTrans
  <2>4. Cong(((u * R) * i) * R, R)
    <3>1. PICK o \in Int : o = 1
      OBVIOUS
    <3>2. (u * R) * i \in Int /\ o * R = R
      BY <1>1, <1>3, <1>5, <3>1
    <3>3. Cong(((u * R) * i) * R, o * R)
      BY <1>3, <2>3, <3>1, <3>2, CongMul
    <3> QED BY <3>2, <3>3
  <2>5. /\ u * (i * R * R) = ((u * R) * i) * R
        /\ u * v \in Int /\ u * (i * R * R) \in Int
    BY <1>1, <1>3, <1>5, <1>6
  <2> QED BY <1>3, <2>1, <2>4, <2>5, CongTrans
<1>14. Cong(u * s, w)
  <2>1. Cong(u * (R * s), u * (v * w)) /\ Cong((u * v) * w, R * w)
    <3>1. R * s \in Int /\ v * w \in Int /\ u * v \in Int
      BY <1>1, <1>3, <1>6, <1>9, <1>10
    <3> QED BY <1>1, <1>3, <1>9, <1>10, <1>13, <3>1, CongMul
  <2>2. /\ u * (R * s) = R * (u * s) /\ u * (v * w) = (u * v) * w
        /\ R * (u * s) \in Int /\ (u * v) * w \in Int /\ R * w \in Int /\ u * s \in Int
    BY <1>1, <1>3, <1>6, <1>9, <1>10
  <2>3. Cong(R * (u * s), R * w)
    BY <2>1, <2>2, CongTrans
  <2> QED BY <1>3, <1>9, <2>2, <2>3, Cancel
<1>15. Cong(u * s, k - r * d)
  <2>1. u * s \in Int /\ k - r * d \in Int
    BY <1>1, <1>3, <1>10
  <2> QED BY <1>9, <1>12, <1>14, <2>1, CongTrans
<1> QED BY <1>2, <1>10, <1>15 DEF u

-----------------------------------------------------------------------------
(* The x-coordinate of the nonce's point.                                  *)

CurveOK == curve \in [1 .. N - 1 -> 0 .. Word - 1]

NonceX(k) == Reduce(point_get_x(point_mul_generator(k)))

LEMMA NonceXRange ==
    ASSUME CurveOK, NEW k \in 1 .. N - 1
    PROVE  /\ point_mul_generator(k) = k
           /\ NonceX(k) = Reduce(curve[k])
           /\ NonceX(k) \in 0 .. N - 1
<1>1. k \in 0 .. N - 1 /\ k # 0
  BY NFacts
<1>2. point_mul_generator(k) = k
  BY <1>1, ModSmall, NFacts DEF point_mul_generator
<1>3. point_get_x(k) = curve[k] /\ curve[k] \in 0 .. Word - 1
  BY <1>1 DEF point_get_x, CurveOK
<1> QED BY <1>2, <1>3, ReduceRange DEF NonceX

LEMMA RForIs ==
    ASSUME CurveOK, NEW e \in 0 .. Word - 1, NEW k \in 1 .. N - 1
    PROVE  /\ RFor(e, k) = (Reduce(e) + NonceX(k)) % N
           /\ RFor(e, k) \in 0 .. N - 1
<1>1. RFor(e, k) = (Reduce(e) + NonceX(k)) % N
  BY DEF RFor, NonceX, modn_add
<1>2. Reduce(e) \in 0 .. N - 1 /\ NonceX(k) \in 0 .. N - 1
  BY ReduceRange, NonceXRange
<1>3. Reduce(e) + NonceX(k) \in Int
  BY <1>2, NFacts
<1> QED BY <1>1, <1>3, ModCong

\* Every curve of the model gives each point an x-coordinate that is a word.
LEMMA CurvesAreOK == ASSUME NEW c \in Curves PROVE c \in [1 .. N - 1 -> 0 .. Word - 1]
<1> DEFINE half == 1 .. (N - 1) \div 2
<1>1. PICK x \in [half -> 0 .. Word - 1] :
        c = [k \in 1 .. N - 1 |-> x[IF k \in half THEN k ELSE N - k]]
  BY DEF Curves
<1>2. ASSUME NEW k \in 1 .. N - 1 PROVE (IF k \in half THEN k ELSE N - k) \in half
  <2>1. N % 2 # 0
    BY Sm2Assumption
  <2> QED BY <2>1, NFacts
<1> HIDE DEF half
<1> QED BY <1>1, <1>2

-----------------------------------------------------------------------------
(* Verification gets back to the nonce's point.                            *)

\* [s]G + [t]P = [k]G.
LEMMA PointIsNonce ==
    ASSUME d \in 1 .. N - 2, NEW r \in 0 .. N - 1, NEW s \in 0 .. N - 1,
           NEW k \in 1 .. N - 1, Cong((d + 1) * s, k - r * d)
    PROVE  /\ modn_add(r, s) \in 0 .. N - 1
           /\ Cong(modn_add(r, s), r + s)
           /\ Cong(s + modn_add(r, s) * d, k)
           /\ point_add(point_mul_generator(s),
                        point_mul(modn_add(r, s), point_mul_generator(d))) = k
<1> DEFINE t == modn_add(r, s)
           p == point_mul_generator(s)
           a == point_mul_generator(d)
           b == point_mul(t, a)
           q == point_add(p, b)
<1>1. d \in Int /\ r \in Int /\ s \in Int /\ k \in Int /\ d \in 0 .. N - 1
  BY NFacts
<1> HIDE DEF t, p, a, b, q
<1>2. t \in 0 .. N - 1 /\ t \in Int /\ Cong(t, r + s)
  <2>1. r + s \in Int
    BY <1>1
  <2> QED BY <2>1, ModCong, NFacts DEF t, modn_add
<1>3. p = s /\ a = d
  BY <1>1, ModSmall, NFacts DEF p, a, point_mul_generator
<1>4. b \in 0 .. N - 1 /\ b \in Int /\ Cong(b, t * d)
  <2>1. t * d \in Int
    BY <1>1, <1>2
  <2> QED BY <1>3, <2>1, ModCong, NFacts DEF b, point_mul
<1>5. q \in 0 .. N - 1 /\ q \in Int /\ Cong(q, s + b)
  <2>1. s + b \in Int
    BY <1>1, <1>4
  <2> QED BY <1>3, <2>1, ModCong, NFacts DEF q, point_add
<1>6. Cong(s + t * d, k)
  <2>1. Cong(t * d, (r + s) * d)
    <3>1. r + s \in Int
      BY <1>1
    <3> QED BY <1>1, <1>2, <3>1, CongMul
  <2>2. /\ t * d \in Int /\ (r + s) * d \in Int /\ s + t * d \in Int
        /\ s + (r + s) * d \in Int /\ (d + 1) * s \in Int /\ r * d \in Int
        /\ k - r * d \in Int
    BY <1>1, <1>2
  <2>3. Cong(s + t * d, s + (r + s) * d)
    BY <1>1, <2>1, <2>2, CongRefl, CongAdd
  <2>4. Cong((d + 1) * s + r * d, (k - r * d) + r * d)
    BY <2>2, CongRefl, CongAdd
  <2>5. s + (r + s) * d = (d + 1) * s + r * d /\ (k - r * d) + r * d = k
    BY <1>1
  <2>6. Cong(s + (r + s) * d, k)
    BY <2>4, <2>5
  <2> QED BY <1>1, <2>2, <2>3, <2>6, CongTrans
<1>7. Cong(q, k)
  <2>1. s + b \in Int /\ t * d \in Int /\ s + t * d \in Int
    BY <1>1, <1>2, <1>4
  <2>2. Cong(s + b, s + t * d)
    BY <1>1, <1>4, <2>1, CongRefl, CongAdd
  <2>3. Cong(q, s + t * d)
    BY <1>5, <2>1, <2>2, CongTrans
  <2> QED BY <1>1, <1>5, <1>6, <2>1, <2>3, CongTrans
<1>8. q = k
  <2>1. k \in 0 .. N - 1
    BY NFacts
  <2> QED BY <1>5, <1>7, <2>1, CongEqual
<1> QED BY <1>2, <1>6, <1>8 DEF t, q, p, b, a

\* Two digests give one r only if they are congruent.
LEMMA DigestsDiffer ==
    ASSUME NEW a \in 0 .. N - 1, NEW b \in 0 .. N - 1, NEW x \in 0 .. N - 1,
           (a + x) % N = (b + x) % N
    PROVE  a = b
<1>1. a \in Int /\ b \in Int /\ x \in Int /\ a + x \in Int /\ b + x \in Int
  BY NFacts
<1> DEFINE y == (b + x) % N
<1>2. y \in 0 .. N - 1 /\ Cong(y, a + x) /\ Cong(y, b + x) /\ y \in Int
  <2>1. (b + x) % N \in 0 .. N - 1 /\ Cong((b + x) % N, b + x)
    BY <1>1, ModCong
  <2>2. Cong((a + x) % N, a + x)
    BY <1>1, ModCong
  <2> QED BY <2>1, <2>2, NFacts
<1> HIDE DEF y
<1>3. Cong(a + x, b + x)
  BY <1>1, <1>2, CongSym, CongTrans
<1>4. Cong((a + x) - x, (b + x) - x)
  BY <1>1, <1>3, CongRefl, CongAdd
<1>5. (a + x) - x = a /\ (b + x) - x = b
  BY <1>1
<1>6. Cong(a, b)
  BY <1>4, <1>5
<1> QED BY <1>6, CongEqual

\* If t = r + s were 0, k would be -r, which sm2_do_sign does not use.
LEMMA TNotZero ==
    ASSUME d \in 1 .. N - 2, NEW r \in 0 .. N - 1, NEW s \in 0 .. N - 1,
           NEW k \in 1 .. N - 1, Cong((d + 1) * s, k - r * d),
           ~MustRetry(r, s, k)
    PROVE  modn_add(r, s) # 0
<1> SUFFICES ASSUME modn_add(r, s) = 0 PROVE FALSE
  OBVIOUS
<1>1. d \in Int /\ r \in Int /\ s \in Int /\ k \in Int /\ r + s \in Int /\ r + k \in Int
  BY NFacts
<1>2. Cong(0, r + s) /\ Cong(s + 0 * d, k)
  BY PointIsNonce
<1>3. Cong(s, k)
  <2>1. s + 0 * d = s
    BY <1>1
  <2> QED BY <1>2, <2>1
<1>4. Cong(r + s, r + k)
  BY <1>1, <1>3, CongRefl, CongAdd
<1>5. Cong(0, r + k)
  BY <1>1, <1>2, <1>4, CongTrans
<1>6. r # 0 /\ (r + k) % Word # N
  BY DEF MustRetry
<1>7. CASE r + k < N
  <2>1. r + k \in 0 .. N - 1 /\ 0 \in 0 .. N - 1 /\ r + k # 0
    BY <1>1, <1>6, <1>7, NFacts
  <2> QED BY <1>5, <2>1, CongEqual
<1>8. CASE r + k >= N
  <2>1. /\ (r + k) - N \in 0 .. N - 1 /\ 0 \in 0 .. N - 1 /\ (r + k) - N \in Int
    BY <1>1, <1>8, NFacts
  <2>2. Cong(r + k, (r + k) - N)
    <3>1. 1 \in Int /\ r + k = ((r + k) - N) + 1 * N
      BY <1>1, NFacts
    <3> QED BY <3>1 DEF Cong
  <2>3. Cong(0, (r + k) - N)
    BY <1>1, <1>5, <2>1, <2>2, CongTrans
  <2>4. r + k = N
    BY <1>1, <2>1, <2>3, CongEqual, NFacts
  <2>5. N \in 0 .. Word - 1 /\ Word > 0 /\ Word \in Nat
    BY Sm2Assumption
  <2>6. N % Word = N
    BY <2>5, ModSmall
  <2> QED BY <1>6, <2>4, <2>6
<1> QED BY <1>1, <1>7, <1>8, NFacts

\* What sm2_do_sign puts out is accepted for its digest only.
LEMMA SignThenVerify ==
    ASSUME CurveOK, d \in 1 .. N - 2, NEW e \in 0 .. Word - 1, NEW k \in 1 .. N - 1,
           NEW r, r = RFor(e, k), NEW s, s = SFor(r, k), ~MustRetry(r, s, k),
           NEW f \in 0 .. Word - 1
    PROVE  sm2_do_verify(r, s, f) <=> Reduce(f) = Reduce(e)
<1> DEFINE x == NonceX(k)
<1>1. r \in 0 .. N - 1 /\ r = (Reduce(e) + x) % N
  BY RForIs
<1>2. s \in 0 .. N - 1 /\ Cong((d + 1) * s, k - r * d)
  BY <1>1, SForSolves
<1>3. InRange(r) /\ InRange(s)
  BY <1>1, <1>2, NFacts DEF InRange, MustRetry
<1>4. modn_add(r, s) # 0
  BY <1>1, <1>2, TNotZero
<1>5. point_add(point_mul_generator(s),
                point_mul(modn_add(r, s), point_mul_generator(d))) = k
  BY <1>1, <1>2, PointIsNonce
<1>6. x \in 0 .. N - 1 /\ Reduce(point_get_x(k)) = x
  BY NonceXRange DEF NonceX
<1>7. Reduce(e) \in 0 .. N - 1 /\ Reduce(f) \in 0 .. N - 1
  BY ReduceRange
<1>8. sm2_do_verify(r, s, f) <=> (Reduce(f) + x) % N = r
  BY <1>3, <1>4, <1>5, <1>6 DEF sm2_do_verify, modn_add
<1> HIDE DEF x
<1> QED BY <1>1, <1>6, <1>7, <1>8, DigestsDiffer

-----------------------------------------------------------------------------
(* The fast path.                                                          *)

\* s = (k + r) / (1 + d) - r solves the same equation.
LEMMA FastSolves ==
    ASSUME d \in 1 .. N - 2, NEW r \in 0 .. N - 1, NEW k \in 1 .. N - 1,
           NEW m, m = modn_mont_mul(modn_to_mont(modn_add(k, r)),
                                    sm2_fast_sign_compute_key)
    PROVE  modn_sub(m, r) \in 0 .. N - 1 /\ Cong((d + 1) * modn_sub(m, r), k - r * d)
<1> DEFINE u == d + 1
           y == modn_add(k, r)
           ym == modn_to_mont(y)
           j == sm2_fast_sign_compute_key
           s == modn_sub(m, r)
<1>1. modn_add(d, 1) = u /\ u \in 1 .. N - 1 /\ u \in Int /\ d \in Int
  BY DPlusOne, NFacts
<1>2. R \in 1 .. N - 1 /\ R \in Int /\ r \in Int /\ k \in Int /\ k + r \in Int
  BY RRange, NFacts
<1> HIDE DEF u, y, ym, j, s
<1>3. j \in 1 .. N - 1 /\ j \in Int /\ Cong(u * j, 1)
  BY <1>1, InverseCong, NFacts DEF j, sm2_fast_sign_compute_key
<1>4. y \in 0 .. N - 1 /\ y \in Int /\ Cong(y, k + r)
  <2>1. (k + r) % N \in 0 .. N - 1 /\ Cong((k + r) % N, k + r)
    BY <1>2, ModCong
  <2>2. y = (k + r) % N
    BY DEF y, modn_add
  <2> QED BY <2>1, <2>2, NFacts
<1>5. ym \in 0 .. N - 1 /\ ym \in Int /\ Cong(ym, y * R)
  BY <1>4, ToMont, NFacts DEF ym
<1>6. m \in 0 .. N - 1 /\ m \in Int /\ Cong(R * m, ym * j)
  <2>1. m = modn_mont_mul(ym, j)
    BY DEF ym, y, j
  <2>2. modn_mont_mul(ym, j) \in 0 .. N - 1 /\ Cong(R * modn_mont_mul(ym, j), ym * j)
    BY <1>3, <1>5, MontMul
  <2> QED BY <2>1, <2>2, NFacts
<1>7. s \in 0 .. N - 1 /\ s \in Int /\ Cong(s, m - r)
  <2>1. m - r \in Int
    BY <1>2, <1>6
  <2> QED BY <2>1, ModCong, NFacts DEF s, modn_sub
<1>8. Cong(m, y * j)
  <2>1. y * R \in Int /\ (y * R) * j = R * (y * j)
    BY <1>2, <1>3, <1>4
  <2>2. Cong(ym * j, (y * R) * j)
    BY <1>3, <1>5, <2>1, CongMul
  <2>3. R * m \in Int /\ ym * j \in Int /\ R * (y * j) \in Int /\ y * j \in Int
    BY <1>2, <1>3, <1>4, <1>5, <1>6
  <2>4. Cong(R * m, R * (y * j))
    BY <1>6, <2>1, <2>2, <2>3, CongTrans
  <2> QED BY <1>2, <1>6, <2>3, <2>4, Cancel
<1>9. Cong(u * m, k + r)
  <2>1. y * j \in Int /\ u * m \in Int /\ u * j \in Int /\ u * (y * j) = y * (u * j)
        /\ y * (u * j) \in Int
    BY <1>1, <1>3, <1>4, <1>6
  <2>2. Cong(u * m, u * (y * j))
    BY <1>1, <1>6, <1>8, <2>1, CongMul
  <2>3. PICK o \in Int : o = 1
    OBVIOUS
  <2>4. Cong(u * j, o) /\ y * o = y
    BY <1>3, <1>4, <2>3
  <2>5. Cong(y * (u * j), y * o)
    BY <1>4, <2>1, <2>4, CongMul
  <2>6. Cong(u * m, y)
    BY <1>4, <2>1, <2>2, <2>4, <2>5, CongTrans
  <2> QED BY <1>2, <1>4, <2>1, <2>6, CongTrans
<1>10. Cong(u * s, k - r * d)
  <2>1. m - r \in Int /\ u * s \in Int /\ u * (m - r) \in Int /\ u * m \in Int
        /\ u * r \in Int /\ k - r * d \in Int
    BY <1>1, <1>2, <1>6, <1>7
  <2>2. Cong(u * s, u * (m - r))
    BY <1>1, <1>7, <2>1, CongMul
  <2>3. Cong((u * m) - (u * r), (k + r) - (u * r))
    BY <1>2, <1>9, <2>1, CongRefl, CongAdd
  <2>4. u * (m - r) = (u * m) - (u * r) /\ (k + r) - (u * r) = k - r * d
    BY <1>1, <1>2, <1>6 DEF u
  <2>5. Cong(u * (m - r), k - r * d)
    BY <2>3, <2>4
  <2> QED BY <2>1, <2>2, <2>5, CongTrans
<1> QED BY <1>7, <1>10 DEF u, s

\* The equation has one solution.
LEMMA FastIsSlow ==
    ASSUME CurveOK, d \in 1 .. N - 2, NEW e \in 0 .. Word - 1, NEW k \in 1 .. N - 1
    PROVE  /\ sm2_fast_sign(sm2_fast_sign_pre_compute(k), e).r = sm2_do_sign(e, k).r
           /\ sm2_fast_sign(sm2_fast_sign_pre_compute(k), e).s = sm2_do_sign(e, k).s
<1> DEFINE r == RFor(e, k)
           m == modn_mont_mul(modn_to_mont(modn_add(k, r)), sm2_fast_sign_compute_key)
           fast == modn_sub(m, r)
           slow == SFor(r, k)
<1>1. sm2_fast_sign(sm2_fast_sign_pre_compute(k), e).r = r
      /\ sm2_fast_sign(sm2_fast_sign_pre_compute(k), e).s = fast
  BY DEF sm2_fast_sign, sm2_fast_sign_pre_compute, RFor
<1>2. sm2_do_sign(e, k).r = r /\ sm2_do_sign(e, k).s = slow
  BY DEF sm2_do_sign
<1>3. r \in 0 .. N - 1
  BY RForIs
<1> HIDE DEF r
<1>4. fast \in 0 .. N - 1 /\ Cong((d + 1) * fast, k - r * d)
  <2> HIDE DEF m
  <2> QED BY <1>3, FastSolves DEF m
<1>5. slow \in 0 .. N - 1 /\ Cong((d + 1) * slow, k - r * d)
  BY <1>3, SForSolves
<1> HIDE DEF m, fast, slow
<1>6. /\ d + 1 \in 1 .. N - 1 /\ d + 1 \in Int /\ fast \in Int /\ slow \in Int
      /\ (d + 1) * fast \in Int /\ (d + 1) * slow \in Int /\ k - r * d \in Int
  BY <1>3, <1>4, <1>5, NFacts
<1>7. Cong((d + 1) * fast, (d + 1) * slow)
  BY <1>4, <1>5, <1>6, CongSym, CongTrans
<1>8. Cong(fast, slow)
  BY <1>6, <1>7, Cancel
<1>9. fast = slow
  BY <1>4, <1>5, <1>8, CongEqual
<1> QED BY <1>1, <1>2, <1>9

-----------------------------------------------------------------------------
(* The invariant: what the two signers have put out.                       *)

SigInv ==
    /\ CurveOK
    /\ d \in 1 .. N - 2
    /\ \/ sig = None
       \/ \E e \in 0 .. Word - 1, k \in 1 .. N - 1 :
            sig = sm2_do_sign(e, k) /\ ~MustRetry(sig.r, sig.s, k)
       \/ \E e \in 0 .. Word - 1, k \in 1 .. N - 1 :
            sig = sm2_fast_sign(sm2_fast_sign_pre_compute(k), e)

LEMMA SigInit == Init => SigInv
BY CurvesAreOK DEF Init, SigInv, CurveOK

LEMMA SigStep == SigInv /\ [Next]_vars => SigInv'
<1> SUFFICES ASSUME SigInv, [Next]_vars PROVE SigInv'
  OBVIOUS
<1>1. CurveOK' /\ (d \in 1 .. N - 2)' /\ curve' = curve /\ d' = d
  BY DEF SigInv, CurveOK, Next, vars, Sign, FastSign, Signed
<1>2. ASSUME NEW e, NEW k
      PROVE  /\ (sm2_do_sign(e, k))' = sm2_do_sign(e, k)
             /\ (sm2_fast_sign(sm2_fast_sign_pre_compute(k), e))'
                  = sm2_fast_sign(sm2_fast_sign_pre_compute(k), e)
  BY <1>1 DEF sm2_do_sign, sm2_fast_sign, sm2_fast_sign_pre_compute, RFor, SFor,
     point_get_x, sm2_fast_sign_compute_key
<1>3. CASE Sign
  <2>1. PICK e \in 0 .. Word - 1, k \in 1 .. N - 1 :
          sig' = sm2_do_sign(e, k) /\ ~MustRetry(sig'.r, sig'.s, k)
    BY <1>3 DEF Sign
  <2> QED BY <1>1, <1>2, <2>1 DEF SigInv, MustRetry
<1>4. CASE FastSign
  <2>1. PICK e \in 0 .. Word - 1, k \in 1 .. N - 1 :
          sig' = sm2_fast_sign(sm2_fast_sign_pre_compute(k), e)
    BY <1>4 DEF FastSign
  <2> QED BY <1>1, <1>2, <2>1 DEF SigInv
<1>5. CASE Signed
  BY <1>1, <1>5 DEF SigInv, Signed, None
<1>6. CASE UNCHANGED vars
  <2>1. sig' = sig
    BY <1>6 DEF vars
  <2> QED BY <1>1, <1>2, <2>1 DEF SigInv, MustRetry, None
<1> QED BY <1>3, <1>4, <1>5, <1>6 DEF Next

\* For every curve of prime order, private key, digest and nonce: what sm2_do_sign
\* puts out passes sm2_do_verify with its digest, and with no digest that is not
\* congruent to it.
THEOREM SignaturesCorrect == Spec => []SignatureVerifies
<1>1. SigInv => SignatureVerifies
  <2> SUFFICES ASSUME SigInv, sig.by = "do_sign", NEW f \in 0 .. Word - 1
               PROVE  sm2_do_verify(sig.r, sig.s, f) <=> Reduce(f) = Reduce(sig.e)
    BY DEF SignatureVerifies
  <2>1. PICK e \in 0 .. Word - 1, k \in 1 .. N - 1 :
          sig = sm2_do_sign(e, k) /\ ~MustRetry(sig.r, sig.s, k)
    BY DEF SigInv, None, sm2_fast_sign
  <2>2. /\ sig.e = e
        /\ sig.r = RFor(e, k)
        /\ sig.s = SFor(sig.r, k)
    BY <2>1 DEF sm2_do_sign
  <2> QED BY <2>1, <2>2, SignThenVerify DEF SigInv
<1> QED BY <1>1, SigInit, SigStep, PTL DEF Spec

\* The two halves of the fast path compute, for every curve of prime order, private
\* key, digest and nonce, the signature sm2_do_sign computes.
THEOREM FastCorrect == Spec => []FastAgrees
<1>1. SigInv => FastAgrees
  <2> SUFFICES ASSUME SigInv, sig.by = "fast_sign"
               PROVE  /\ sig.r = sm2_do_sign(sig.e, sig.k).r
                      /\ sig.s = sm2_do_sign(sig.e, sig.k).s
    BY DEF FastAgrees
  <2>1. PICK e \in 0 .. Word - 1, k \in 1 .. N - 1 :
          sig = sm2_fast_sign(sm2_fast_sign_pre_compute(k), e)
    BY DEF SigInv, None, sm2_do_sign
  <2>2. sig.e = e /\ sig.k = k
    BY <2>1 DEF sm2_fast_sign, sm2_fast_sign_pre_compute
  <2> QED BY <2>1, <2>2, FastIsSlow DEF SigInv
<1> QED BY <1>1, SigInit, SigStep, PTL DEF Spec

-----------------------------------------------------------------------------
(* The inductive invariant.                                                *)

PoolRec == [pre : [Places -> Entries], left : 0 .. Count + 1,
            init : {"none", "failed", "done"}]

PoolType ==
    /\ pool \in [Ctxs -> PoolRec]
    /\ draws \in 0 .. MaxDraws /\ out \in Seq(Used)

\* The places of a context that a later finish may take.
Held(c) == {i \in Places : i < pool[c].left}

\* What they hold was drawn or never set; after a successful init it was drawn,
\* is complete, and lies in the array,
HeldRight == \A c \in Ctxs :
    /\ pool[c].init = "done" => pool[c].left <= Count
    /\ \A i \in Held(c) :
        /\ pool[c].pre[i].k \in 0 .. draws
        /\ pool[c].init = "done" => /\ pool[c].pre[i].k > 0
                                    /\ pool[c].pre[i].from = pool[c].pre[i].k

\* is in no other place of either context,
HeldOnce == \A c, e \in Ctxs : \A i \in Held(c), j \in Held(e) :
    pool[c].pre[i].k > 0 /\ pool[c].pre[i].k = pool[e].pre[j].k => c = e /\ i = j

\* and has not been used.
HeldUnused == \A c \in Ctxs : \A i \in Held(c), m \in 1 .. Len(out) :
    out[m].k > 0 => out[m].k # pool[c].pre[i].k

OutRight == \A m \in 1 .. Len(out) :
    /\ out[m].k \in 0 .. draws
    /\ out[m].ok => out[m].k > 0 /\ out[m].from = out[m].k

PoolInv == PoolType /\ HeldRight /\ HeldOnce /\ HeldUnused /\ OutRight /\ NonceOnce

-----------------------------------------------------------------------------
(* What the four steps on a pool preserve.                                 *)

\* All of a pool is new: its nonces lie above every nonce there was.
LEMMA PreComputeAll ==
    ASSUME PoolType, NEW pre \in [Places -> Entries]
    PROVE  /\ PreCompute(pre, Count) \in [Places -> Entries]
           /\ \A i \in Places : /\ PreCompute(pre, Count)[i].k = draws + i + 1
                                /\ PreCompute(pre, Count)[i].from = draws + i + 1
<1>1. \A i \in Places : i < Count
    BY PoolAssumption DEF Places
<1>3. PreCompute(pre, Count) = [i \in Places |-> [k |-> draws + i + 1, from |-> draws + i + 1]]
    BY <1>1, Zenon DEF PreCompute
<1>2. \A i \in Places : draws + i + 1 \in Nat
    BY PoolAssumption DEF PoolType, Places
<1> QED
    BY <1>3, <1>2 DEF Entries

\* A part of a pool is new: it stays well formed.
LEMMA PreComputeSome ==
    ASSUME PoolType, NEW pre \in [Places -> Entries], NEW n \in 0 .. Count - 1
    PROVE  /\ PreCompute(pre, n) \in [Places -> Entries]
           /\ \A i \in Places : PreCompute(pre, n)[i].k
                                = IF i < n THEN draws + i + 1 ELSE pre[i].k
    BY PoolAssumption DEF PoolType, PreCompute, Places, Entries

\* Nothing of the pools changes.
LEMMA PoolSame ==
    ASSUME PoolInv, UNCHANGED <<pool, draws, out>>
    PROVE  PoolInv'
    BY DEF PoolInv, PoolType, HeldRight, HeldOnce, HeldUnused, OutRight, NonceOnce, Held

\* One more entry has been used: nobody holds it and nobody has used it.
LEMMA OneMoreUsed ==
    ASSUME PoolInv, NEW u \in Used, out' = Append(out, u),
           draws' \in Nat, draws <= draws',
           u.k \in 0 .. draws', u.ok => u.k > 0 /\ u.from = u.k,
           u.k > 0 => \A m \in 1 .. Len(out) : out[m].k # u.k,
           \A c \in Ctxs : \A i \in Held(c)' :
               /\ u.k > 0 => pool'[c].pre[i].k # u.k
               /\ \A m \in 1 .. Len(out) :
                    out[m].k > 0 => out[m].k # pool'[c].pre[i].k
    PROVE  HeldUnused' /\ OutRight' /\ NonceOnce' /\ out' \in Seq(Used)
<1>1. out \in Seq(Used) /\ draws \in Nat
    BY PoolAssumption DEF PoolInv, PoolType
<1>2. /\ Len(out') = Len(out) + 1 /\ out'[Len(out) + 1] = u
      /\ \A m \in 1 .. Len(out) : out'[m] = out[m]
      /\ Len(out) \in Nat /\ out' \in Seq(Used)
    BY <1>1
<1>3. HeldUnused'
    BY <1>2 DEF HeldUnused
<1>4. OutRight'
    BY <1>1, <1>2 DEF OutRight, PoolInv
<1>5. NonceOnce'
    BY <1>2 DEF NonceOnce, PoolInv
<1> QED
    BY <1>2, <1>3, <1>4, <1>5

\* A successful init fills a pool, whatever was in it.
LEMMA FillPreserves ==
    ASSUME PoolInv, NEW c \in Ctxs, Fill(c)
    PROVE  PoolInv'
<1> DEFINE pre == PreCompute(pool[c].pre, Count)
<1>1. pool[c].pre \in [Places -> Entries] /\ PoolType
    BY DEF PoolInv, PoolType, PoolRec
<1>2. /\ pre \in [Places -> Entries]
      /\ \A i \in Places : pre[i].k = draws + i + 1 /\ pre[i].from = draws + i + 1
    BY <1>1, PreComputeAll
<1>3. /\ draws' = draws + Count /\ draws' <= MaxDraws /\ out' = out
      /\ pool' = [pool EXCEPT ![c] = [pre |-> pre, left |-> Count, init |-> "done"]]
    BY DEF Fill, Draw
<1> HIDE DEF pre
<1>4. PoolType'
    BY <1>1, <1>2, <1>3, PoolAssumption DEF PoolType, PoolRec
<1>5. /\ pool'[c] = [pre |-> pre, left |-> Count, init |-> "done"]
      /\ \A e \in Ctxs \ {c} : pool'[e] = pool[e]
    BY <1>1, <1>3 DEF PoolType
<1>6. /\ \A i \in Held(c)' : pool'[c].pre[i].k = draws + i + 1
                             /\ pool'[c].pre[i].from = draws + i + 1 /\ i \in 0 .. Count - 1
      /\ \A e \in Ctxs \ {c} : Held(e)' = Held(e)
    BY <1>2, <1>5 DEF Held, Places
<1>7. draws \in Nat /\ Count \in Nat
    BY <1>1, PoolAssumption DEF PoolType
<1>8. HeldRight'
    BY <1>3, <1>5, <1>6, <1>7 DEF HeldRight, PoolInv
<1>9. HeldOnce'
    BY <1>5, <1>6, <1>7 DEF HeldOnce, HeldRight, PoolInv
<1>10. HeldUnused'
    BY <1>3, <1>5, <1>6, <1>7 DEF HeldUnused, OutRight, PoolInv
<1>11. OutRight' /\ NonceOnce'
    BY <1>3, <1>7 DEF OutRight, NonceOnce, PoolInv
<1> QED
    BY <1>4, <1>8, <1>9, <1>10, <1>11 DEF PoolInv

\* A filling that fails leaves new nonces among those that are left, without their
\* points: only a context that is empty may still be called filled.
LEMMA FillFailsPreserves ==
    ASSUME PoolInv, NEW c \in Ctxs, NEW init \in {"none", "failed", "done"},
           FillFails(c, init), init = "done" => pool[c].left = 0
    PROVE  PoolInv'
<1>1. PoolType
    BY DEF PoolInv
<1>2. PICK n \in 0 .. Count - 1 :
        /\ draws + n <= MaxDraws /\ draws' = draws + n
        /\ pool' = [pool EXCEPT ![c].pre = PreCompute(@, n), ![c].init = init]
    BY DEF FillFails, Draw
<1> DEFINE pre == PreCompute(pool[c].pre, n)
<1> DEFINE rec == [pool[c] EXCEPT !.pre = pre, !.init = init]
<1>3. out' = out
    BY DEF FillFails
<1>4. /\ pre \in [Places -> Entries]
      /\ \A i \in Places : pre[i].k = IF i < n THEN draws + i + 1 ELSE pool[c].pre[i].k
    BY <1>1, PreComputeSome DEF PoolType, PoolRec
<1>5. pool' = [pool EXCEPT ![c] = rec]
    BY <1>2
<1> HIDE DEF pre
<1>6. rec \in PoolRec /\ rec.pre = pre /\ rec.init = init /\ rec.left = pool[c].left
    BY <1>1, <1>4 DEF PoolType, PoolRec
<1> HIDE DEF rec
<1>7. PoolType'
    <2>1. pool' \in [Ctxs -> PoolRec]
        BY <1>1, <1>5, <1>6 DEF PoolType
    <2>2. draws' \in 0 .. MaxDraws
        <3>1. draws + n <= MaxDraws /\ draws' = draws + n /\ n \in Nat
            BY <1>2, PoolAssumption
        <3> QED
            BY <1>1, <3>1, PoolAssumption DEF PoolType
    <2> QED
        BY <1>1, <1>3, <2>1, <2>2 DEF PoolType
<1>8. /\ pool'[c].pre = pre /\ pool'[c].init = init /\ pool'[c].left = pool[c].left
      /\ \A e \in Ctxs \ {c} : pool'[e] = pool[e]
      /\ \A e \in Ctxs : Held(e)' = Held(e)
    BY <1>1, <1>5, <1>6 DEF PoolType, Held
<1>9. /\ draws \in Nat /\ draws' \in Nat /\ draws' = draws + n /\ n \in Nat
      /\ Count \in Nat /\ \A i \in Places : i \in Nat
    BY <1>1, <1>2, PoolAssumption DEF PoolType, Places
<1>10. \A i \in Held(c) : /\ i \in Places /\ pool[c].pre[i].k \in 0 .. draws
                          /\ \/ i < n /\ pre[i].k = draws + i + 1
                             \/ pre[i].k = pool[c].pre[i].k
    BY <1>4 DEF Held, HeldRight, PoolInv
<1>11. init = "done" => Held(c) = {}
    BY <1>9 DEF Held
<1>12. HeldRight'
    <2>1. \A i \in Held(c)' : pool'[c].pre[i].k \in 0 .. draws'
        BY <1>8, <1>9, <1>10
    <2>2. pool'[c].init = "done" => pool'[c].left <= Count /\ Held(c)' = {}
        BY <1>8, <1>9, <1>11
    <2>3. \A e \in Ctxs \ {c} :
            /\ pool'[e].init = "done" => pool'[e].left <= Count
            /\ \A i \in Held(e)' :
                /\ pool'[e].pre[i].k \in 0 .. draws'
                /\ pool'[e].init = "done" => /\ pool'[e].pre[i].k > 0
                                             /\ pool'[e].pre[i].from = pool'[e].pre[i].k
        BY <1>8, <1>9 DEF HeldRight, PoolInv
    <2> QED
        BY <2>1, <2>2, <2>3 DEF HeldRight
<1>13. HeldOnce'
    <2>1. \A e \in Ctxs \ {c} : \A j \in Held(e) :
            pool'[e].pre[j].k = pool[e].pre[j].k /\ pool[e].pre[j].k \in 0 .. draws
        BY <1>8 DEF HeldRight, PoolInv
    <2>2. \A i, j \in Held(c)' :
            pool'[c].pre[i].k > 0 /\ pool'[c].pre[i].k = pool'[c].pre[j].k => i = j
        BY <1>8, <1>9, <1>10 DEF HeldOnce, PoolInv
    <2>3. \A e \in Ctxs \ {c} : \A i \in Held(c)', j \in Held(e)' :
            pool'[c].pre[i].k > 0 => pool'[c].pre[i].k # pool'[e].pre[j].k
        BY <1>8, <1>9, <1>10, <2>1 DEF HeldOnce, PoolInv
    <2>4. \A b, e \in Ctxs \ {c} : \A i \in Held(b)', j \in Held(e)' :
            pool'[b].pre[i].k > 0 /\ pool'[b].pre[i].k = pool'[e].pre[j].k
                => b = e /\ i = j
        BY <1>8 DEF HeldOnce, PoolInv
    <2> QED
        BY <2>2, <2>3, <2>4 DEF HeldOnce
<1>14. HeldUnused'
    <2>1. \A i \in Held(c)', m \in 1 .. Len(out) :
            out[m].k > 0 => out[m].k # pool'[c].pre[i].k
        BY <1>8, <1>9, <1>10 DEF HeldUnused, OutRight, PoolInv
    <2>2. \A e \in Ctxs \ {c} : \A i \in Held(e)', m \in 1 .. Len(out) :
            out[m].k > 0 => out[m].k # pool'[e].pre[i].k
        BY <1>8 DEF HeldUnused, PoolInv
    <2> QED
        BY <2>1, <2>2, <1>3 DEF HeldUnused
<1>15. OutRight' /\ NonceOnce'
    BY <1>3, <1>9 DEF OutRight, NonceOnce, PoolInv
<1> QED
    BY <1>7, <1>12, <1>13, <1>14, <1>15 DEF PoolInv

\* The entry taken is no longer held, and was not used before.
LEMMA TakeLeftPreserves ==
    ASSUME PoolInv, NEW c \in Ctxs, NEW used \in BOOLEAN, TakeLeft(c, used)
    PROVE  PoolInv'
<1> DEFINE i0 == pool[c].left - 1
<1> DEFINE e0 == EntryAt(pool[c].pre, i0)
<1>1. PoolType /\ pool[c] \in PoolRec
    BY DEF PoolInv, PoolType
<1>2. /\ pool[c].left > 0 /\ draws' = draws
      /\ pool' = [pool EXCEPT ![c].left = @ - 1]
      /\ out' = IF used THEN Append(out, Using(c, e0)) ELSE out
    BY DEF TakeLeft
<1>3. e0 \in Entries /\ (i0 \in Places => i0 \in Held(c) /\ e0 = pool[c].pre[i0])
    <2>1. pool[c].left \in Nat
        BY <1>1, PoolAssumption DEF PoolRec
    <2> QED
        BY <1>1, <2>1 DEF EntryAt, Unset, Entries, Held, PoolRec
<1>4. i0 \notin Places => e0.k = 0 /\ pool[c].init # "done"
    <2>1. pool[c].left \in Nat /\ pool[c].left > 0
        BY <1>1, <1>2, PoolAssumption DEF PoolRec
    <2>2. pool[c].init = "done" => i0 \in Places
        BY <2>1, PoolAssumption DEF HeldRight, PoolInv, Places
    <2> QED
        BY <2>2 DEF EntryAt, Unset
<1>5. /\ pool'[c].left = i0 /\ pool'[c].init = pool[c].init /\ pool'[c].pre = pool[c].pre
      /\ \A e \in Ctxs \ {c} : pool'[e] = pool[e]
      /\ pool' \in [Ctxs -> PoolRec]
    <2> DEFINE rec == [pool[c] EXCEPT !.left = @ - 1]
    <2>1. pool[c].left - 1 \in 0 .. Count + 1
        BY <1>1, <1>2, PoolAssumption DEF PoolRec
    <2>2. rec \in PoolRec /\ rec.left = i0 /\ rec.init = pool[c].init /\ rec.pre = pool[c].pre
        BY <1>1, <2>1 DEF PoolRec
    <2>3. pool' = [pool EXCEPT ![c] = rec]
        BY <1>2
    <2> HIDE DEF rec
    <2> QED
        BY <1>1, <2>2, <2>3 DEF PoolType
<1>6. /\ Held(c)' = Held(c) \ {i0}
      /\ \A e \in Ctxs \ {c} : Held(e)' = Held(e)
      /\ \A e \in Ctxs : pool'[e].pre = pool[e].pre /\ pool'[e].init = pool[e].init
    <2>1. pool[c].left \in Nat /\ pool[c].left > 0
        BY <1>1, <1>2, PoolAssumption DEF PoolRec
    <2> QED
        BY <1>5, <2>1, PoolAssumption DEF Held, Places
<1>7. \A e \in Ctxs : Held(e)' \subseteq Held(e)
    BY <1>6
<1>8. \A e \in Ctxs : pool'[e].init = "done" => pool'[e].left <= Count
    BY <1>1, <1>5, PoolAssumption DEF HeldRight, PoolInv, PoolRec
<1>9. HeldRight' /\ HeldOnce'
    BY <1>2, <1>6, <1>7, <1>8 DEF HeldRight, HeldOnce, PoolInv
<1> DEFINE u == Using(c, e0)
<1>10. /\ u \in Used /\ u.k = e0.k /\ u.from = e0.from
       /\ u.ok = (pool[c].init = "done")
    BY <1>3 DEF Using, Used, Entries
<1> HIDE DEF e0, i0, u
<1>11. /\ u.k \in 0 .. draws /\ (u.ok => u.k > 0 /\ u.from = u.k)
       /\ draws \in Nat
    <2>1. CASE i0 \in Places
        <3>1. draws \in Nat /\ e0.k \in 0 .. draws
            BY <2>1, <1>1, <1>3, PoolAssumption DEF HeldRight, PoolInv, PoolType
        <3>2. pool[c].init = "done" => e0.k > 0 /\ e0.from = e0.k
            BY <2>1, <1>3 DEF HeldRight, PoolInv
        <3> QED
            BY <3>1, <3>2, <1>10
    <2>2. CASE i0 \notin Places
        <3>1. draws \in Nat
            BY <1>1, PoolAssumption DEF PoolType
        <3>2. u.k = 0 /\ ~u.ok
            BY <2>2, <1>4, <1>10
        <3> QED
            BY <3>1, <3>2
    <2> QED
        BY <2>1, <2>2
<1>12. u.k > 0 => i0 \in Held(c) /\ u.k = pool[c].pre[i0].k
    BY <1>3, <1>4, <1>10
<1>13. u.k > 0 => \A m \in 1 .. Len(out) : out[m].k # u.k
    BY <1>12 DEF HeldUnused, PoolInv
<1>14. \A e \in Ctxs : \A i \in Held(e)' :
         /\ u.k > 0 => pool'[e].pre[i].k # u.k
         /\ \A m \in 1 .. Len(out) : out[m].k > 0 => out[m].k # pool'[e].pre[i].k
    BY <1>6, <1>7, <1>12 DEF HeldOnce, HeldUnused, PoolInv
<1>15. CASE used
    <2>1. out' = Append(out, u)
        BY <1>2, <1>15 DEF u
    <2>2. draws' \in Nat /\ draws <= draws' /\ u.k \in 0 .. draws'
        BY <1>2, <1>11
    <2>3. HeldUnused' /\ OutRight' /\ NonceOnce' /\ out' \in Seq(Used)
        BY <2>1, <2>2, <1>10, <1>11, <1>13, <1>14, OneMoreUsed
    <2> QED
        BY <2>3, <1>1, <1>2, <1>5, <1>9 DEF PoolInv, PoolType
<1>16. CASE ~used
    <2>1. out' = out
        BY <1>2, <1>16
    <2>2. HeldUnused' /\ OutRight' /\ NonceOnce'
        BY <2>1, <1>2, <1>6, <1>7 DEF HeldUnused, OutRight, NonceOnce, PoolInv
    <2> QED
        BY <2>1, <2>2, <1>1, <1>2, <1>5, <1>9 DEF PoolInv, PoolType
<1> QED
    BY <1>15, <1>16

\* The refill is new, and its last entry is used at once.
LEMMA TakeRefilledPreserves ==
    ASSUME PoolInv, NEW c \in Ctxs, NEW used \in BOOLEAN, TakeRefilled(c, used)
    PROVE  PoolInv'
<1> DEFINE pre == PreCompute(pool[c].pre, Count)
<1>1. PoolType /\ pool[c].pre \in [Places -> Entries] /\ pool[c] \in PoolRec
    BY DEF PoolInv, PoolType, PoolRec
<1>2. /\ pre \in [Places -> Entries]
      /\ \A i \in Places : pre[i].k = draws + i + 1 /\ pre[i].from = draws + i + 1
    BY <1>1, PreComputeAll
<1>3. /\ draws' = draws + Count /\ draws' <= MaxDraws
      /\ pool' = [pool EXCEPT ![c].pre = pre, ![c].left = Count - 1]
      /\ out' = IF used THEN Append(out, Using(c, pre[Count - 1])) ELSE out
    BY DEF TakeRefilled, Draw
<1> HIDE DEF pre
<1>4. /\ Count - 1 \in Places /\ Count - 1 \in 0 .. Count + 1 /\ Count \in Nat
      /\ draws \in Nat /\ draws' \in Nat /\ draws' = draws + Count
    BY <1>1, <1>3, PoolAssumption DEF PoolType, Places
<1>5. /\ pre[Count - 1] \in Entries
      /\ pre[Count - 1].k = draws + Count /\ pre[Count - 1].from = draws + Count
    BY <1>2, <1>4
<1>6. /\ pool' \in [Ctxs -> PoolRec]
      /\ pool'[c].pre = pre /\ pool'[c].left = Count - 1
      /\ \A e \in Ctxs \ {c} : pool'[e] = pool[e]
    <2> DEFINE rec == [pool[c] EXCEPT !.pre = pre, !.left = Count - 1]
    <2>1. rec \in PoolRec /\ rec.pre = pre /\ rec.left = Count - 1
        BY <1>1, <1>2, <1>4 DEF PoolRec
    <2>2. pool' = [pool EXCEPT ![c] = rec]
        BY <1>3
    <2> HIDE DEF rec
    <2> QED
        BY <2>1, <2>2, <1>1 DEF PoolType
<1>7. \A e \in Ctxs \ {c} : pool'[e] = pool[e] /\ Held(e)' = Held(e)
    BY <1>6 DEF Held
<1>8. \A i \in Held(c)' : /\ i \in 0 .. Count - 2
                           /\ pool'[c].pre[i].k = draws + i + 1
                           /\ pool'[c].pre[i].from = draws + i + 1
    BY <1>2, <1>4, <1>6 DEF Held, Places
<1>9. HeldRight'
    <2>1. /\ pool'[c].left <= Count
          /\ \A i \in Held(c)' : /\ pool'[c].pre[i].k \in 0 .. draws'
                                  /\ pool'[c].pre[i].k > 0
                                  /\ pool'[c].pre[i].from = pool'[c].pre[i].k
        BY <1>4, <1>6, <1>8
    <2>2. \A e \in Ctxs \ {c} :
            /\ pool'[e].init = "done" => pool'[e].left <= Count
            /\ \A i \in Held(e)' :
                /\ pool'[e].pre[i].k \in 0 .. draws'
                /\ pool'[e].init = "done" => /\ pool'[e].pre[i].k > 0
                                             /\ pool'[e].pre[i].from = pool'[e].pre[i].k
        BY <1>4, <1>7 DEF HeldRight, PoolInv
    <2> QED
        BY <2>1, <2>2 DEF HeldRight
<1>10. HeldOnce'
    BY <1>4, <1>7, <1>8 DEF HeldOnce, HeldRight, PoolInv
<1> DEFINE u == Using(c, pre[Count - 1])
<1>11. u \in Used /\ u.k = draws + Count /\ u.from = draws + Count
    BY <1>5 DEF Using, Used, Entries
<1>12. u.k \in 0 .. draws' /\ u.k > 0 /\ u.from = u.k
    BY <1>4, <1>11, PoolAssumption
<1>13. \A m \in 1 .. Len(out) : out[m].k # u.k
    BY <1>4, <1>11, PoolAssumption DEF OutRight, PoolInv
<1>14. \A e \in Ctxs : \A i \in Held(e)' :
         /\ pool'[e].pre[i].k # u.k
         /\ \A m \in 1 .. Len(out) : out[m].k > 0 => out[m].k # pool'[e].pre[i].k
    <2>1. \A i \in Held(c)' :
            /\ pool'[c].pre[i].k # u.k
            /\ \A m \in 1 .. Len(out) : out[m].k # pool'[c].pre[i].k
        BY <1>4, <1>8, <1>11 DEF OutRight, PoolInv
    <2>2. \A e \in Ctxs \ {c} : \A i \in Held(e)' :
            /\ pool'[e].pre[i].k # u.k
            /\ \A m \in 1 .. Len(out) : out[m].k > 0 => out[m].k # pool'[e].pre[i].k
        BY <1>4, <1>7, <1>11, PoolAssumption DEF HeldRight, HeldUnused, PoolInv
    <2> QED
        BY <2>1, <2>2
<1>15. CASE used
    <2> HIDE DEF u
    <2>1. out' = Append(out, u)
        BY <1>3, <1>15 DEF u
    <2>2. draws <= draws'
        BY <1>4
    <2>3. HeldUnused' /\ OutRight' /\ NonceOnce' /\ out' \in Seq(Used)
        BY <2>1, <2>2, <1>4, <1>11, <1>12, <1>13, <1>14, OneMoreUsed
    <2> QED
        BY <2>3, <1>3, <1>4, <1>6, <1>9, <1>10, PoolAssumption DEF PoolInv, PoolType
<1>16. CASE ~used
    <2>1. out' = out
        BY <1>3, <1>16
    <2>2. HeldUnused' /\ OutRight' /\ NonceOnce'
        BY <2>1, <1>4, <1>14 DEF HeldUnused, OutRight, NonceOnce, PoolInv
    <2> QED
        BY <2>1, <2>2, <1>1, <1>3, <1>4, <1>6, <1>9, <1>10, PoolAssumption
        DEF PoolInv, PoolType
<1> QED
    BY <1>15, <1>16

\* Nonces are drawn without the pool (sm2_sign_fixlen), and the last one is used.
LEMMA DrawPreserves ==
    ASSUME PoolInv, NEW n \in Nat, Draw(n), pool' = pool,
           \/ out' = out
           \/ n > 0 /\ out' = Append(out, Using("sign", [k |-> draws + n, from |-> draws + n]))
    PROVE  PoolInv'
<1>1. PoolType
    BY DEF PoolInv
<1>2. draws' = draws + n /\ draws' \in 0 .. MaxDraws /\ draws \in Nat /\ draws' \in Nat
    BY <1>1, PoolAssumption DEF PoolType, Draw
<1>3. \A e \in Ctxs : Held(e)' = Held(e)
    BY DEF Held
<1>4. HeldRight' /\ HeldOnce'
    BY <1>2, <1>3 DEF HeldRight, HeldOnce, PoolInv
<1>5. CASE out' = out
    BY <1>1, <1>2, <1>3, <1>4, <1>5
    DEF HeldUnused, OutRight, NonceOnce, PoolInv, PoolType
<1>6. CASE n > 0 /\ out' = Append(out, Using("sign", [k |-> draws + n, from |-> draws + n]))
    <2> DEFINE u == Using("sign", [k |-> draws + n, from |-> draws + n])
    <2>1. u \in Used /\ u.k = draws + n /\ u.from = draws + n
        BY <1>2 DEF Using, Used
    <2>2. u.k \in 0 .. draws' /\ u.k > 0 /\ draws <= draws'
        BY <1>2, <1>6, <2>1
    <2>3. \A m \in 1 .. Len(out) : out[m].k # u.k
        BY <1>2, <1>6, <2>1 DEF OutRight, PoolInv
    <2>4. \A e \in Ctxs : \A i \in Held(e)' :
            /\ pool'[e].pre[i].k # u.k
            /\ \A m \in 1 .. Len(out) : out[m].k > 0 => out[m].k # pool'[e].pre[i].k
        BY <1>2, <1>3, <1>6, <2>1 DEF HeldRight, HeldUnused, PoolInv
    <2> HIDE DEF u
    <2>5. out' = Append(out, u)
        BY <1>6 DEF u
    <2>6. HeldUnused' /\ OutRight' /\ NonceOnce' /\ out' \in Seq(Used)
        BY <1>2, <2>1, <2>2, <2>3, <2>4, <2>5, OneMoreUsed
    <2> QED
        BY <2>6, <1>1, <1>2, <1>4 DEF PoolInv, PoolType
<1> QED
    BY <1>5, <1>6

-----------------------------------------------------------------------------
(* The theorems.                                                           *)

LEMMA InitPool == PoolInit => PoolInv
<1> SUFFICES ASSUME PoolInit PROVE PoolInv
    OBVIOUS
<1>1. PICK left \in 0 .. Count + 1 :
        pool = [c \in Ctxs |-> [pre |-> [i \in Places |-> Unset],
                                left |-> IF c = "sign" THEN left ELSE 0,
                                init |-> "none"]]
    BY DEF PoolInit
<1>2. draws = 0 /\ out = <<>>
    BY DEF PoolInit
<1>3. PoolType
    BY <1>1, <1>2, PoolAssumption DEF PoolType, PoolRec, Entries, Unset
<1>4. \A c \in Ctxs : pool[c].init = "none" /\ \A i \in Held(c) : pool[c].pre[i].k = 0
    BY <1>1 DEF Held, Unset
<1>5. Len(out) = 0
    BY <1>2
<1> QED
    BY <1>2, <1>3, <1>4, <1>5
    DEF PoolInv, HeldRight, HeldOnce, HeldUnused, OutRight, NonceOnce

LEMMA NextPool == PoolInv /\ [PoolNext]_poolVars => PoolInv'
<1> SUFFICES ASSUME PoolInv, [PoolNext]_poolVars PROVE PoolInv'
    OBVIOUS
<1>0. /\ "sign" \in Ctxs /\ "enc" \in Ctxs
      /\ \A c \in Ctxs : pool[c].init \in {"none", "failed", "done"}
    BY DEF Ctxs, PoolInv, PoolType, PoolRec
<1>1. CASE sm2_sign_init
    BY <1>0, <1>1, FillPreserves DEF sm2_sign_init
<1>2. CASE SignInitFails
    BY <1>0, <1>2, FillFailsPreserves DEF SignInitFails
<1>3. CASE sm2_sign_reset
    BY <1>3, PoolSame DEF sm2_sign_reset
<1>4. CASE sm2_sign_finish
    BY <1>0, <1>4, TakeLeftPreserves, TakeRefilledPreserves DEF sm2_sign_finish
<1>5. CASE SignFinishFails
    BY <1>0, <1>5, FillFailsPreserves DEF SignFinishFails
<1>6. CASE sm2_sign_finish_fixlen
    <2>1. PICK n \in 1 .. Trys :
            Draw(n) /\ out' = Append(out, Using("sign", [k |-> draws + n, from |-> draws + n]))
        BY <1>6 DEF sm2_sign_finish_fixlen
    <2>2. n \in Nat /\ n > 0 /\ pool' = pool
        BY <1>6, PoolAssumption DEF sm2_sign_finish_fixlen
    <2> QED
        BY <2>1, <2>2, DrawPreserves
<1>7. CASE FixlenFails
    <2>1. PICK n \in 0 .. Trys : Draw(n)
        BY <1>7 DEF FixlenFails
    <2>2. n \in Nat /\ pool' = pool /\ out' = out
        BY <1>7, PoolAssumption DEF FixlenFails
    <2> QED
        BY <2>1, <2>2, DrawPreserves
<1>8. CASE sm2_encrypt_init
    BY <1>0, <1>8, FillPreserves DEF sm2_encrypt_init
<1>9. CASE EncryptInitFails
    BY <1>0, <1>9, FillFailsPreserves DEF EncryptInitFails
<1>10. CASE sm2_encrypt_update
    BY <1>10, PoolSame DEF sm2_encrypt_update
<1>11. CASE sm2_encrypt_reset
    BY <1>11, PoolSame DEF sm2_encrypt_reset
<1>12. CASE sm2_encrypt_finish
    BY <1>0, <1>12, TakeLeftPreserves, TakeRefilledPreserves DEF sm2_encrypt_finish
<1>13. CASE EncryptFinishEmpty
    BY <1>13, PoolSame DEF EncryptFinishEmpty
<1>14. CASE EncryptFinishFails
    BY <1>0, <1>14, FillFailsPreserves DEF EncryptFinishFails
<1>15. CASE UNCHANGED poolVars
    BY <1>15, PoolSame DEF poolVars
<1> QED
    BY <1>1, <1>2, <1>3, <1>4, <1>5, <1>6, <1>7, <1>8, <1>9, <1>10, <1>11, <1>12,
       <1>13, <1>14, <1>15
    DEF PoolNext, SignNext, EncryptNext

\* No nonce that was drawn for sm2_sign_finish, sm2_sign_finish_fixlen or
\* sm2_encrypt_finish is used twice, for pools of any size and also by callers that
\* go on after a failed init.
THEOREM NonceOnceCorrect == PoolSpec => []NonceOnce
<1>1. PoolInv => NonceOnce
    BY DEF PoolInv
<1> QED
    BY <1>1, InitPool, NextPool, PTL DEF PoolSpec

\* Every nonce that is used through a context whose last init succeeded was drawn,
\* and goes with the point computed from it, whichever refills failed before.
THEOREM PointOfNonceCorrect == PoolSpec => []PointOfNonce
<1>1. PoolInv => PointOfNonce
    BY DEF PoolInv, PoolType, OutRight, PointOfNonce
<1> QED
    BY <1>1, InitPool, NextPool, PTL DEF PoolSpec
=============================================================================
