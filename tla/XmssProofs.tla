----------------------------- MODULE XmssProofs -----------------------------
(***************************************************************************)
(* Xmss for every base, every number of digits and every height of the     *)
(* tree: a signature verifies for its own digest and index and for no      *)
(* others, and the checksum leaves no other digest within its reach.       *)
(***************************************************************************)
EXTENDS Xmss, WellFoundedInduction, TLAPS

-----------------------------------------------------------------------------
(* Numbers.  Every set of natural numbers has a least element: an          *)
(* induction looks at the least number for which its claim fails.          *)

Below == {p \in Nat \X Nat : p[1] < p[2]}

LEMMA BelowWellFounded == IsWellFoundedOn(Below, Nat)
  <1>1. IsWellFoundedOn({ss \in Nat \X Nat : ss[1] < ss[2]}, Nat)
    BY NatLessThanWellFounded DEF OpToRel
  <1> QED
    BY <1>1 DEF Below

LEMMA LeastNumber ==
  ASSUME NEW S \in SUBSET Nat, S # {}
  PROVE  \E m \in S : \A n \in S : m <= n
  <1>1. PICK m \in S : \A n \in S : <<n, m>> \notin Below
    BY BelowWellFounded, WFMin
  <1>2. ASSUME NEW n \in S PROVE m <= n
    <2>1. n \in Nat /\ m \in Nat /\ <<n, m>> \notin Below
      BY <1>1
    <2>2. <<n, m>> \in Nat \X Nat /\ <<n, m>>[1] = n /\ <<n, m>>[2] = m
      BY <2>1
    <2>3. ~(n < m)
      BY <2>1, <2>2 DEF Below
    <2> QED
      BY <2>1, <2>3
  <1> QED
    BY <1>2

LEMMA Sizes == /\ W \in Nat /\ W > 1 /\ Len1 \in Nat /\ Len1 > 0 /\ Len2 \in Nat /\ Len2 > 0
               /\ Height \in Nat /\ Height > 1 /\ Len1 + Len2 \in Nat
  BY XmssAssumption

\* A number is quotient times divisor plus remainder.
LEMMA Division ==
  ASSUME NEW u \in Nat, u > 0, NEW a \in Nat
  PROVE  /\ a \div u \in Nat /\ a % u \in Nat /\ a % u < u
         /\ a = u * (a \div u) + (a % u)
  <1>1. a % u \in 0 .. u - 1 /\ a \div u \in Int /\ a = u * (a \div u) + (a % u)
    OBVIOUS
  <1>2. a \div u >= 0
    <2> SUFFICES ASSUME a \div u <= -1 PROVE FALSE
      BY <1>1
    <2>1. u * (a \div u) <= -u
      BY <1>1
    <2> QED
      BY <1>1, <2>1
  <1> QED
    BY <1>1, <1>2

\* Division respects the order.
LEMMA DivMono ==
  ASSUME NEW u \in Nat, u > 0, NEW a \in Nat, NEW b \in Nat, a <= b
  PROVE  a \div u <= b \div u
  <1>1. PICK c \in Nat : c = a \div u
    BY Division
  <1>2. PICK d \in Nat : d = b \div u
    BY Division
  <1>3. a >= u * c /\ b < u * d + u
    <2>1. a = u * c + (a % u) /\ a % u \in Nat
      BY <1>1, Division
    <2>2. b = u * d + (b % u) /\ b % u \in Nat /\ b % u < u
      BY <1>2, Division
    <2>3. u * c \in Nat /\ u * d \in Nat
      OBVIOUS
    <2> QED
      BY <2>1, <2>2, <2>3
  <1>4. ASSUME c >= d + 1 PROVE FALSE
    <2>1. PICK e \in Nat : c = d + 1 + e
      <3>1. c - (d + 1) \in Nat /\ c = d + 1 + (c - (d + 1))
        BY <1>4
      <3> QED
        BY <3>1
    <2>2. u * c = u * d + u + u * e /\ u * e \in Nat /\ u * d \in Nat
      BY <2>1
    <2> QED
      BY <1>3, <2>2
  <1> QED
    BY <1>1, <1>2, <1>4

-----------------------------------------------------------------------------
(* The recursive functions of the model exist: there is a function that    *)
(* satisfies the equation, so CHOOSE finds one, and its values are known   *)
(* one by one.                                                             *)

\* The values a chain goes through.
Walks(f, x, start, steps, ots, chain) ==
    /\ f[0] = x
    /\ \A i \in 1 .. steps : f[i] = hash256_f(OtsAdrs(ots, chain, start + i - 1), f[i - 1])

\* The levels of an L-tree.
Climbs(f, pk, ltree, n) ==
    /\ f[0] = pk
    /\ \A i \in 1 .. n :
          f[i] = IF Len(f[i - 1]) = 1 THEN f[i - 1] ELSE LtreeLevel(f[i - 1], ltree, i - 1)

\* The nodes the verifier computes.
Ascends(f, wots, index, path, digest) ==
    /\ f[0] = build_ltree(sm3_wots_sig_to_pk(wots, digest, index), index)
    /\ \A i \in 1 .. Height :
          f[i] = IF Halves(index)[i - 1] % 2 = 1
                 THEN randomized_hash(path[i - 1], f[i - 1], TreeAdrs(i - 1, Halves(index)[i]))
                 ELSE randomized_hash(f[i - 1], path[i - 1], TreeAdrs(i - 1, Halves(index)[i]))

LEMMA ShiftsIs ==
  ASSUME NEW n
  PROVE  /\ Shifts(n)[0] = n
         /\ \A i \in 1 .. Len2 : Shifts(n)[i] = Shifts(n)[i - 1] \div W
  <1> DEFINE First == n
             Then(i, p) == p \div W
             Rec(m, f) == [i \in 0 .. m |-> IF i = 0 THEN First ELSE Then(i, f[i - 1])]
             Bad == {m \in 0 .. Len2 : ~\E f : f = Rec(m, f)}
  <1>0. Len2 \in Nat
    BY Sizes
  <1> HIDE DEF First, Then
  <1>1. Bad = {}
    <2> SUFFICES ASSUME Bad # {} PROVE FALSE
      OBVIOUS
    <2>1. Bad \in SUBSET Nat /\ \A k \in Bad : k \in 0 .. Len2
      BY <1>0
    <2>2. PICK m \in Bad : \A k \in Bad : m <= k
      BY <2>1, LeastNumber
    <2>3. m # 0
      <3>1. PICK f : f = [i \in 0 .. 0 |-> First]
        OBVIOUS
      <3>2. f = Rec(0, f)
        BY <3>1
      <3> QED
        BY <3>2
    <2>4. m \in 1 .. Len2 /\ m - 1 \in 0 .. Len2 /\ m - 1 \notin Bad
      <3> HIDE DEF Bad
      <3> QED
        BY <1>0, <2>1, <2>2, <2>3
    <2>5. PICK f : f = Rec(m - 1, f)
      BY <2>4
    <2>6. PICK g : g = [i \in 0 .. m |-> IF i = m THEN Then(m, f[m - 1]) ELSE f[i]]
      OBVIOUS
    <2>7. ASSUME NEW i \in 0 .. m
          PROVE  g[i] = IF i = 0 THEN First ELSE Then(i, g[i - 1])
      <3>1. CASE i = m
        <4>1. g[m - 1] = f[m - 1] /\ m # 0
          BY <2>3, <2>4, <2>6
        <4> QED
          BY <2>6, <3>1, <4>1
      <3>2. CASE i # m
        <4>1. i \in 0 .. m - 1 /\ (i # 0 => i - 1 \in 0 .. m /\ i - 1 # m)
          BY <2>4, <3>2
        <4>2. f[i] = IF i = 0 THEN First ELSE Then(i, f[i - 1])
          BY <2>5, <4>1
        <4>3. g[i] = f[i] /\ (i # 0 => g[i - 1] = f[i - 1])
          BY <2>6, <3>2, <4>1
        <4> QED
          BY <4>2, <4>3
      <3> QED
        BY <3>1, <3>2
    <2>8. g = Rec(m, g)
      BY <2>6, <2>7
    <2> QED
      BY <2>2, <2>8
  <1>2. Len2 \in 0 .. Len2
    BY <1>0
  <1>3. \E f : f = Rec(Len2, f)
    BY <1>1, <1>2
  <1> DEFINE fun == CHOOSE f : f = Rec(Len2, f)
  <1>4. fun = Rec(Len2, fun)
    BY <1>3
  <1>5. Shifts(n) = fun
    BY DEF Shifts, First, Then
  <1> HIDE DEF fun
  <1>6. /\ Rec(Len2, fun)[0] = First
        /\ \A i \in 1 .. Len2 : Rec(Len2, fun)[i] = Then(i, fun[i - 1])
    BY <1>0
  <1> HIDE DEF Rec
  <1>7. /\ fun[0] = First
        /\ \A i \in 1 .. Len2 : fun[i] = Then(i, fun[i - 1])
    BY <1>4, <1>6
  <1> QED
    BY <1>5, <1>7 DEF First, Then

LEMMA CsumIs ==
  ASSUME NEW digest
  PROVE  \E f : /\ Csum(digest) = f[Len1]
                /\ f[0] = 0
                /\ \A i \in 1 .. Len1 : f[i] = f[i - 1] + (W - 1 - digest[i])
  <1> DEFINE First == 0
             Then(i, p) == p + (W - 1 - digest[i])
             Rec(m, f) == [i \in 0 .. m |-> IF i = 0 THEN First ELSE Then(i, f[i - 1])]
             Bad == {m \in 0 .. Len1 : ~\E f : f = Rec(m, f)}
  <1>0. Len1 \in Nat
    BY Sizes
  <1> HIDE DEF First, Then
  <1>1. Bad = {}
    <2> SUFFICES ASSUME Bad # {} PROVE FALSE
      OBVIOUS
    <2>1. Bad \in SUBSET Nat /\ \A k \in Bad : k \in 0 .. Len1
      BY <1>0
    <2>2. PICK m \in Bad : \A k \in Bad : m <= k
      BY <2>1, LeastNumber
    <2>3. m # 0
      <3>1. PICK f : f = [i \in 0 .. 0 |-> First]
        OBVIOUS
      <3>2. f = Rec(0, f)
        BY <3>1
      <3> QED
        BY <3>2
    <2>4. m \in 1 .. Len1 /\ m - 1 \in 0 .. Len1 /\ m - 1 \notin Bad
      <3> HIDE DEF Bad
      <3> QED
        BY <1>0, <2>1, <2>2, <2>3
    <2>5. PICK f : f = Rec(m - 1, f)
      BY <2>4
    <2>6. PICK g : g = [i \in 0 .. m |-> IF i = m THEN Then(m, f[m - 1]) ELSE f[i]]
      OBVIOUS
    <2>7. ASSUME NEW i \in 0 .. m
          PROVE  g[i] = IF i = 0 THEN First ELSE Then(i, g[i - 1])
      <3>1. CASE i = m
        <4>1. g[m - 1] = f[m - 1] /\ m # 0
          BY <2>3, <2>4, <2>6
        <4> QED
          BY <2>6, <3>1, <4>1
      <3>2. CASE i # m
        <4>1. i \in 0 .. m - 1 /\ (i # 0 => i - 1 \in 0 .. m /\ i - 1 # m)
          BY <2>4, <3>2
        <4>2. f[i] = IF i = 0 THEN First ELSE Then(i, f[i - 1])
          BY <2>5, <4>1
        <4>3. g[i] = f[i] /\ (i # 0 => g[i - 1] = f[i - 1])
          BY <2>6, <3>2, <4>1
        <4> QED
          BY <4>2, <4>3
      <3> QED
        BY <3>1, <3>2
    <2>8. g = Rec(m, g)
      BY <2>6, <2>7
    <2> QED
      BY <2>2, <2>8
  <1>2. Len1 \in 0 .. Len1
    BY <1>0
  <1>3. \E f : f = Rec(Len1, f)
    BY <1>1, <1>2
  <1> DEFINE fun == CHOOSE f : f = Rec(Len1, f)
  <1>4. fun = Rec(Len1, fun)
    BY <1>3
  <1>5. Csum(digest) = fun[Len1]
    BY DEF Csum, First, Then
  <1> HIDE DEF fun
  <1>6. /\ Rec(Len1, fun)[0] = First
        /\ \A i \in 1 .. Len1 : Rec(Len1, fun)[i] = Then(i, fun[i - 1])
    BY <1>0
  <1> HIDE DEF Rec
  <1>7. /\ fun[0] = First
        /\ \A i \in 1 .. Len1 : fun[i] = Then(i, fun[i - 1])
    BY <1>4, <1>6
  <1> QED
    BY <1>5, <1>7 DEF First, Then

LEMMA ChainIs ==
  ASSUME NEW x, NEW start \in Nat, NEW steps \in Nat, NEW ots, NEW chain
  PROVE  \E f : /\ wots_chain(x, start, steps, ots, chain) = f[steps]
                /\ Walks(f, x, start, steps, ots, chain)
  <1> DEFINE First == x
             Then(i, p) == hash256_f(OtsAdrs(ots, chain, start + i - 1), p)
             Rec(m, f) == [i \in 0 .. m |-> IF i = 0 THEN First ELSE Then(i, f[i - 1])]
             Bad == {m \in 0 .. steps : ~\E f : f = Rec(m, f)}
  <1>0. steps \in Nat
    OBVIOUS
  <1> HIDE DEF First, Then
  <1>1. Bad = {}
    <2> SUFFICES ASSUME Bad # {} PROVE FALSE
      OBVIOUS
    <2>1. Bad \in SUBSET Nat /\ \A k \in Bad : k \in 0 .. steps
      BY <1>0
    <2>2. PICK m \in Bad : \A k \in Bad : m <= k
      BY <2>1, LeastNumber
    <2>3. m # 0
      <3>1. PICK f : f = [i \in 0 .. 0 |-> First]
        OBVIOUS
      <3>2. f = Rec(0, f)
        BY <3>1
      <3> QED
        BY <3>2
    <2>4. m \in 1 .. steps /\ m - 1 \in 0 .. steps /\ m - 1 \notin Bad
      <3> HIDE DEF Bad
      <3> QED
        BY <1>0, <2>1, <2>2, <2>3
    <2>5. PICK f : f = Rec(m - 1, f)
      BY <2>4
    <2>6. PICK g : g = [i \in 0 .. m |-> IF i = m THEN Then(m, f[m - 1]) ELSE f[i]]
      OBVIOUS
    <2>7. ASSUME NEW i \in 0 .. m
          PROVE  g[i] = IF i = 0 THEN First ELSE Then(i, g[i - 1])
      <3>1. CASE i = m
        <4>1. g[m - 1] = f[m - 1] /\ m # 0
          BY <2>3, <2>4, <2>6
        <4> QED
          BY <2>6, <3>1, <4>1
      <3>2. CASE i # m
        <4>1. i \in 0 .. m - 1 /\ (i # 0 => i - 1 \in 0 .. m /\ i - 1 # m)
          BY <2>4, <3>2
        <4>2. f[i] = IF i = 0 THEN First ELSE Then(i, f[i - 1])
          BY <2>5, <4>1
        <4>3. g[i] = f[i] /\ (i # 0 => g[i - 1] = f[i - 1])
          BY <2>6, <3>2, <4>1
        <4> QED
          BY <4>2, <4>3
      <3> QED
        BY <3>1, <3>2
    <2>8. g = Rec(m, g)
      BY <2>6, <2>7
    <2> QED
      BY <2>2, <2>8
  <1>2. steps \in 0 .. steps
    BY <1>0
  <1>3. \E f : f = Rec(steps, f)
    BY <1>1, <1>2
  <1> DEFINE fun == CHOOSE f : f = Rec(steps, f)
  <1>4. fun = Rec(steps, fun)
    BY <1>3
  <1>5. wots_chain(x, start, steps, ots, chain) = fun[steps]
    BY DEF wots_chain, First, Then
  <1> HIDE DEF fun
  <1>6. /\ Rec(steps, fun)[0] = First
        /\ \A i \in 1 .. steps : Rec(steps, fun)[i] = Then(i, fun[i - 1])
    BY <1>0
  <1> HIDE DEF Rec
  <1>7. /\ fun[0] = First
        /\ \A i \in 1 .. steps : fun[i] = Then(i, fun[i - 1])
    BY <1>4, <1>6
  <1>8. Walks(fun, x, start, steps, ots, chain)
    BY <1>7 DEF First, Then, Walks
  <1> QED
    BY <1>5, <1>8

LEMMA LtreeIs ==
  ASSUME NEW pk, NEW ltree, NEW n \in Nat, Len(pk) = n
  PROVE  \E f : /\ build_ltree(pk, ltree) = f[n][1]
                /\ Climbs(f, pk, ltree, n)
  <1> DEFINE First == pk
             Then(i, p) == IF Len(p) = 1 THEN p ELSE LtreeLevel(p, ltree, i - 1)
             Rec(m, f) == [i \in 0 .. m |-> IF i = 0 THEN First ELSE Then(i, f[i - 1])]
             Bad == {m \in 0 .. n : ~\E f : f = Rec(m, f)}
  <1>0. n \in Nat
    OBVIOUS
  <1> HIDE DEF First, Then
  <1>1. Bad = {}
    <2> SUFFICES ASSUME Bad # {} PROVE FALSE
      OBVIOUS
    <2>1. Bad \in SUBSET Nat /\ \A k \in Bad : k \in 0 .. n
      BY <1>0
    <2>2. PICK m \in Bad : \A k \in Bad : m <= k
      BY <2>1, LeastNumber
    <2>3. m # 0
      <3>1. PICK f : f = [i \in 0 .. 0 |-> First]
        OBVIOUS
      <3>2. f = Rec(0, f)
        BY <3>1
      <3> QED
        BY <3>2
    <2>4. m \in 1 .. n /\ m - 1 \in 0 .. n /\ m - 1 \notin Bad
      <3> HIDE DEF Bad
      <3> QED
        BY <1>0, <2>1, <2>2, <2>3
    <2>5. PICK f : f = Rec(m - 1, f)
      BY <2>4
    <2>6. PICK g : g = [i \in 0 .. m |-> IF i = m THEN Then(m, f[m - 1]) ELSE f[i]]
      OBVIOUS
    <2>7. ASSUME NEW i \in 0 .. m
          PROVE  g[i] = IF i = 0 THEN First ELSE Then(i, g[i - 1])
      <3>1. CASE i = m
        <4>1. g[m - 1] = f[m - 1] /\ m # 0
          BY <2>3, <2>4, <2>6
        <4> QED
          BY <2>6, <3>1, <4>1
      <3>2. CASE i # m
        <4>1. i \in 0 .. m - 1 /\ (i # 0 => i - 1 \in 0 .. m /\ i - 1 # m)
          BY <2>4, <3>2
        <4>2. f[i] = IF i = 0 THEN First ELSE Then(i, f[i - 1])
          BY <2>5, <4>1
        <4>3. g[i] = f[i] /\ (i # 0 => g[i - 1] = f[i - 1])
          BY <2>6, <3>2, <4>1
        <4> QED
          BY <4>2, <4>3
      <3> QED
        BY <3>1, <3>2
    <2>8. g = Rec(m, g)
      BY <2>6, <2>7
    <2> QED
      BY <2>2, <2>8
  <1>2. n \in 0 .. n
    BY <1>0
  <1>3. \E f : f = Rec(n, f)
    BY <1>1, <1>2
  <1> DEFINE fun == CHOOSE f : f = Rec(n, f)
  <1>4. fun = Rec(n, fun)
    BY <1>3
  <1>5. build_ltree(pk, ltree) = fun[n][1]
    BY DEF build_ltree, First, Then
  <1> HIDE DEF fun
  <1>6. /\ Rec(n, fun)[0] = First
        /\ \A i \in 1 .. n : Rec(n, fun)[i] = Then(i, fun[i - 1])
    BY <1>0
  <1> HIDE DEF Rec
  <1>7. /\ fun[0] = First
        /\ \A i \in 1 .. n : fun[i] = Then(i, fun[i - 1])
    BY <1>4, <1>6
  <1>8. Climbs(fun, pk, ltree, n)
    BY <1>7 DEF First, Then, Climbs
  <1> QED
    BY <1>5, <1>8

LEMMA Pow2Is ==
  /\ Pow2[0] = 1
  /\ \A i \in 1 .. Height + 1 : Pow2[i] = 2 * Pow2[i - 1]
  <1> DEFINE First == 1
             Then(i, p) == 2 * p
             Rec(m, f) == [i \in 0 .. m |-> IF i = 0 THEN First ELSE Then(i, f[i - 1])]
             Bad == {m \in 0 .. Height + 1 : ~\E f : f = Rec(m, f)}
  <1>0. Height + 1 \in Nat
    BY Sizes
  <1> HIDE DEF First, Then
  <1>1. Bad = {}
    <2> SUFFICES ASSUME Bad # {} PROVE FALSE
      OBVIOUS
    <2>1. Bad \in SUBSET Nat /\ \A k \in Bad : k \in 0 .. Height + 1
      BY <1>0
    <2>2. PICK m \in Bad : \A k \in Bad : m <= k
      BY <2>1, LeastNumber
    <2>3. m # 0
      <3>1. PICK f : f = [i \in 0 .. 0 |-> First]
        OBVIOUS
      <3>2. f = Rec(0, f)
        BY <3>1
      <3> QED
        BY <3>2
    <2>4. m \in 1 .. Height + 1 /\ m - 1 \in 0 .. Height + 1 /\ m - 1 \notin Bad
      <3> HIDE DEF Bad
      <3> QED
        BY <1>0, <2>1, <2>2, <2>3
    <2>5. PICK f : f = Rec(m - 1, f)
      BY <2>4
    <2>6. PICK g : g = [i \in 0 .. m |-> IF i = m THEN Then(m, f[m - 1]) ELSE f[i]]
      OBVIOUS
    <2>7. ASSUME NEW i \in 0 .. m
          PROVE  g[i] = IF i = 0 THEN First ELSE Then(i, g[i - 1])
      <3>1. CASE i = m
        <4>1. g[m - 1] = f[m - 1] /\ m # 0
          BY <2>3, <2>4, <2>6
        <4> QED
          BY <2>6, <3>1, <4>1
      <3>2. CASE i # m
        <4>1. i \in 0 .. m - 1 /\ (i # 0 => i - 1 \in 0 .. m /\ i - 1 # m)
          BY <2>4, <3>2
        <4>2. f[i] = IF i = 0 THEN First ELSE Then(i, f[i - 1])
          BY <2>5, <4>1
        <4>3. g[i] = f[i] /\ (i # 0 => g[i - 1] = f[i - 1])
          BY <2>6, <3>2, <4>1
        <4> QED
          BY <4>2, <4>3
      <3> QED
        BY <3>1, <3>2
    <2>8. g = Rec(m, g)
      BY <2>6, <2>7
    <2> QED
      BY <2>2, <2>8
  <1>2. Height + 1 \in 0 .. Height + 1
    BY <1>0
  <1>3. \E f : f = Rec(Height + 1, f)
    BY <1>1, <1>2
  <1> DEFINE fun == CHOOSE f : f = Rec(Height + 1, f)
  <1>4. fun = Rec(Height + 1, fun)
    BY <1>3
  <1>5. Pow2 = fun
    BY DEF Pow2, First, Then
  <1> HIDE DEF fun
  <1>6. /\ Rec(Height + 1, fun)[0] = First
        /\ \A i \in 1 .. Height + 1 : Rec(Height + 1, fun)[i] = Then(i, fun[i - 1])
    BY <1>0
  <1> HIDE DEF Rec
  <1>7. /\ fun[0] = First
        /\ \A i \in 1 .. Height + 1 : fun[i] = Then(i, fun[i - 1])
    BY <1>4, <1>6
  <1> QED
    BY <1>5, <1>7 DEF First, Then

LEMMA LevelAtIs ==
  /\ LevelAt[0] = 0
  /\ \A i \in 1 .. Height : LevelAt[i] = LevelAt[i - 1] + Pow2[Height - i + 1]
  <1> DEFINE First == 0
             Then(i, p) == p + Pow2[Height - i + 1]
             Rec(m, f) == [i \in 0 .. m |-> IF i = 0 THEN First ELSE Then(i, f[i - 1])]
             Bad == {m \in 0 .. Height : ~\E f : f = Rec(m, f)}
  <1>0. Height \in Nat
    BY Sizes
  <1> HIDE DEF First, Then
  <1>1. Bad = {}
    <2> SUFFICES ASSUME Bad # {} PROVE FALSE
      OBVIOUS
    <2>1. Bad \in SUBSET Nat /\ \A k \in Bad : k \in 0 .. Height
      BY <1>0
    <2>2. PICK m \in Bad : \A k \in Bad : m <= k
      BY <2>1, LeastNumber
    <2>3. m # 0
      <3>1. PICK f : f = [i \in 0 .. 0 |-> First]
        OBVIOUS
      <3>2. f = Rec(0, f)
        BY <3>1
      <3> QED
        BY <3>2
    <2>4. m \in 1 .. Height /\ m - 1 \in 0 .. Height /\ m - 1 \notin Bad
      <3> HIDE DEF Bad
      <3> QED
        BY <1>0, <2>1, <2>2, <2>3
    <2>5. PICK f : f = Rec(m - 1, f)
      BY <2>4
    <2>6. PICK g : g = [i \in 0 .. m |-> IF i = m THEN Then(m, f[m - 1]) ELSE f[i]]
      OBVIOUS
    <2>7. ASSUME NEW i \in 0 .. m
          PROVE  g[i] = IF i = 0 THEN First ELSE Then(i, g[i - 1])
      <3>1. CASE i = m
        <4>1. g[m - 1] = f[m - 1] /\ m # 0
          BY <2>3, <2>4, <2>6
        <4> QED
          BY <2>6, <3>1, <4>1
      <3>2. CASE i # m
        <4>1. i \in 0 .. m - 1 /\ (i # 0 => i - 1 \in 0 .. m /\ i - 1 # m)
          BY <2>4, <3>2
        <4>2. f[i] = IF i = 0 THEN First ELSE Then(i, f[i - 1])
          BY <2>5, <4>1
        <4>3. g[i] = f[i] /\ (i # 0 => g[i - 1] = f[i - 1])
          BY <2>6, <3>2, <4>1
        <4> QED
          BY <4>2, <4>3
      <3> QED
        BY <3>1, <3>2
    <2>8. g = Rec(m, g)
      BY <2>6, <2>7
    <2> QED
      BY <2>2, <2>8
  <1>2. Height \in 0 .. Height
    BY <1>0
  <1>3. \E f : f = Rec(Height, f)
    BY <1>1, <1>2
  <1> DEFINE fun == CHOOSE f : f = Rec(Height, f)
  <1>4. fun = Rec(Height, fun)
    BY <1>3
  <1>5. LevelAt = fun
    BY DEF LevelAt, First, Then
  <1> HIDE DEF fun
  <1>6. /\ Rec(Height, fun)[0] = First
        /\ \A i \in 1 .. Height : Rec(Height, fun)[i] = Then(i, fun[i - 1])
    BY <1>0
  <1> HIDE DEF Rec
  <1>7. /\ fun[0] = First
        /\ \A i \in 1 .. Height : fun[i] = Then(i, fun[i - 1])
    BY <1>4, <1>6
  <1> QED
    BY <1>5, <1>7 DEF First, Then

LEMMA LevelsIs ==
  /\ Levels[0] = [j \in 0 .. Pow2[Height] - 1 |-> Leaf(j)]
  /\ \A i \in 1 .. Height : Levels[i] = [j \in 0 .. Pow2[Height - i] - 1 |->
          randomized_hash(Levels[i - 1][2 * j], Levels[i - 1][2 * j + 1], TreeAdrs(i - 1, j))]
  <1> DEFINE First == [j \in 0 .. Pow2[Height] - 1 |-> Leaf(j)]
             Then(i, p) == [j \in 0 .. Pow2[Height - i] - 1 |->
                 randomized_hash(p[2 * j], p[2 * j + 1], TreeAdrs(i - 1, j))]
             Rec(m, f) == [i \in 0 .. m |-> IF i = 0 THEN First ELSE Then(i, f[i - 1])]
             Bad == {m \in 0 .. Height : ~\E f : f = Rec(m, f)}
  <1>0. Height \in Nat
    BY Sizes
  <1> HIDE DEF First, Then
  <1>1. Bad = {}
    <2> SUFFICES ASSUME Bad # {} PROVE FALSE
      OBVIOUS
    <2>1. Bad \in SUBSET Nat /\ \A k \in Bad : k \in 0 .. Height
      BY <1>0
    <2>2. PICK m \in Bad : \A k \in Bad : m <= k
      BY <2>1, LeastNumber
    <2>3. m # 0
      <3>1. PICK f : f = [i \in 0 .. 0 |-> First]
        OBVIOUS
      <3>2. f = Rec(0, f)
        BY <3>1
      <3> QED
        BY <3>2
    <2>4. m \in 1 .. Height /\ m - 1 \in 0 .. Height /\ m - 1 \notin Bad
      <3> HIDE DEF Bad
      <3> QED
        BY <1>0, <2>1, <2>2, <2>3
    <2>5. PICK f : f = Rec(m - 1, f)
      BY <2>4
    <2>6. PICK g : g = [i \in 0 .. m |-> IF i = m THEN Then(m, f[m - 1]) ELSE f[i]]
      OBVIOUS
    <2>7. ASSUME NEW i \in 0 .. m
          PROVE  g[i] = IF i = 0 THEN First ELSE Then(i, g[i - 1])
      <3>1. CASE i = m
        <4>1. g[m - 1] = f[m - 1] /\ m # 0
          BY <2>3, <2>4, <2>6
        <4> QED
          BY <2>6, <3>1, <4>1
      <3>2. CASE i # m
        <4>1. i \in 0 .. m - 1 /\ (i # 0 => i - 1 \in 0 .. m /\ i - 1 # m)
          BY <2>4, <3>2
        <4>2. f[i] = IF i = 0 THEN First ELSE Then(i, f[i - 1])
          BY <2>5, <4>1
        <4>3. g[i] = f[i] /\ (i # 0 => g[i - 1] = f[i - 1])
          BY <2>6, <3>2, <4>1
        <4> QED
          BY <4>2, <4>3
      <3> QED
        BY <3>1, <3>2
    <2>8. g = Rec(m, g)
      BY <2>6, <2>7
    <2> QED
      BY <2>2, <2>8
  <1>2. Height \in 0 .. Height
    BY <1>0
  <1>3. \E f : f = Rec(Height, f)
    BY <1>1, <1>2
  <1> DEFINE fun == CHOOSE f : f = Rec(Height, f)
  <1>4. fun = Rec(Height, fun)
    BY <1>3
  <1>5. Levels = fun
    BY DEF Levels, First, Then
  <1> HIDE DEF fun
  <1>6. /\ Rec(Height, fun)[0] = First
        /\ \A i \in 1 .. Height : Rec(Height, fun)[i] = Then(i, fun[i - 1])
    BY <1>0
  <1> HIDE DEF Rec
  <1>7. /\ fun[0] = First
        /\ \A i \in 1 .. Height : fun[i] = Then(i, fun[i - 1])
    BY <1>4, <1>6
  <1> QED
    BY <1>5, <1>7 DEF First, Then

LEMMA HalvesIs ==
  ASSUME NEW index
  PROVE  /\ Halves(index)[0] = index
         /\ \A i \in 1 .. Height : Halves(index)[i] = Halves(index)[i - 1] \div 2
  <1> DEFINE First == index
             Then(i, p) == p \div 2
             Rec(m, f) == [i \in 0 .. m |-> IF i = 0 THEN First ELSE Then(i, f[i - 1])]
             Bad == {m \in 0 .. Height : ~\E f : f = Rec(m, f)}
  <1>0. Height \in Nat
    BY Sizes
  <1> HIDE DEF First, Then
  <1>1. Bad = {}
    <2> SUFFICES ASSUME Bad # {} PROVE FALSE
      OBVIOUS
    <2>1. Bad \in SUBSET Nat /\ \A k \in Bad : k \in 0 .. Height
      BY <1>0
    <2>2. PICK m \in Bad : \A k \in Bad : m <= k
      BY <2>1, LeastNumber
    <2>3. m # 0
      <3>1. PICK f : f = [i \in 0 .. 0 |-> First]
        OBVIOUS
      <3>2. f = Rec(0, f)
        BY <3>1
      <3> QED
        BY <3>2
    <2>4. m \in 1 .. Height /\ m - 1 \in 0 .. Height /\ m - 1 \notin Bad
      <3> HIDE DEF Bad
      <3> QED
        BY <1>0, <2>1, <2>2, <2>3
    <2>5. PICK f : f = Rec(m - 1, f)
      BY <2>4
    <2>6. PICK g : g = [i \in 0 .. m |-> IF i = m THEN Then(m, f[m - 1]) ELSE f[i]]
      OBVIOUS
    <2>7. ASSUME NEW i \in 0 .. m
          PROVE  g[i] = IF i = 0 THEN First ELSE Then(i, g[i - 1])
      <3>1. CASE i = m
        <4>1. g[m - 1] = f[m - 1] /\ m # 0
          BY <2>3, <2>4, <2>6
        <4> QED
          BY <2>6, <3>1, <4>1
      <3>2. CASE i # m
        <4>1. i \in 0 .. m - 1 /\ (i # 0 => i - 1 \in 0 .. m /\ i - 1 # m)
          BY <2>4, <3>2
        <4>2. f[i] = IF i = 0 THEN First ELSE Then(i, f[i - 1])
          BY <2>5, <4>1
        <4>3. g[i] = f[i] /\ (i # 0 => g[i - 1] = f[i - 1])
          BY <2>6, <3>2, <4>1
        <4> QED
          BY <4>2, <4>3
      <3> QED
        BY <3>1, <3>2
    <2>8. g = Rec(m, g)
      BY <2>6, <2>7
    <2> QED
      BY <2>2, <2>8
  <1>2. Height \in 0 .. Height
    BY <1>0
  <1>3. \E f : f = Rec(Height, f)
    BY <1>1, <1>2
  <1> DEFINE fun == CHOOSE f : f = Rec(Height, f)
  <1>4. fun = Rec(Height, fun)
    BY <1>3
  <1>5. Halves(index) = fun
    BY DEF Halves, First, Then
  <1> HIDE DEF fun
  <1>6. /\ Rec(Height, fun)[0] = First
        /\ \A i \in 1 .. Height : Rec(Height, fun)[i] = Then(i, fun[i - 1])
    BY <1>0
  <1> HIDE DEF Rec
  <1>7. /\ fun[0] = First
        /\ \A i \in 1 .. Height : fun[i] = Then(i, fun[i - 1])
    BY <1>4, <1>6
  <1> QED
    BY <1>5, <1>7 DEF First, Then

LEMMA RootIs ==
  ASSUME NEW wots, NEW index, NEW path, NEW digest
  PROVE  \E f : /\ sm3_xmss_sig_to_root(wots, index, path, digest) = f[Height]
                /\ Ascends(f, wots, index, path, digest)
  <1> DEFINE First == build_ltree(sm3_wots_sig_to_pk(wots, digest, index), index)
             Then(i, p) == IF Halves(index)[i - 1] % 2 = 1
                      THEN randomized_hash(path[i - 1], p, TreeAdrs(i - 1, Halves(index)[i]))
                      ELSE randomized_hash(p, path[i - 1], TreeAdrs(i - 1, Halves(index)[i]))
             Rec(m, f) == [i \in 0 .. m |-> IF i = 0 THEN First ELSE Then(i, f[i - 1])]
             Bad == {m \in 0 .. Height : ~\E f : f = Rec(m, f)}
  <1>0. Height \in Nat
    BY Sizes
  <1> HIDE DEF First, Then
  <1>1. Bad = {}
    <2> SUFFICES ASSUME Bad # {} PROVE FALSE
      OBVIOUS
    <2>1. Bad \in SUBSET Nat /\ \A k \in Bad : k \in 0 .. Height
      BY <1>0
    <2>2. PICK m \in Bad : \A k \in Bad : m <= k
      BY <2>1, LeastNumber
    <2>3. m # 0
      <3>1. PICK f : f = [i \in 0 .. 0 |-> First]
        OBVIOUS
      <3>2. f = Rec(0, f)
        BY <3>1
      <3> QED
        BY <3>2
    <2>4. m \in 1 .. Height /\ m - 1 \in 0 .. Height /\ m - 1 \notin Bad
      <3> HIDE DEF Bad
      <3> QED
        BY <1>0, <2>1, <2>2, <2>3
    <2>5. PICK f : f = Rec(m - 1, f)
      BY <2>4
    <2>6. PICK g : g = [i \in 0 .. m |-> IF i = m THEN Then(m, f[m - 1]) ELSE f[i]]
      OBVIOUS
    <2>7. ASSUME NEW i \in 0 .. m
          PROVE  g[i] = IF i = 0 THEN First ELSE Then(i, g[i - 1])
      <3>1. CASE i = m
        <4>1. g[m - 1] = f[m - 1] /\ m # 0
          BY <2>3, <2>4, <2>6
        <4> QED
          BY <2>6, <3>1, <4>1
      <3>2. CASE i # m
        <4>1. i \in 0 .. m - 1 /\ (i # 0 => i - 1 \in 0 .. m /\ i - 1 # m)
          BY <2>4, <3>2
        <4>2. f[i] = IF i = 0 THEN First ELSE Then(i, f[i - 1])
          BY <2>5, <4>1
        <4>3. g[i] = f[i] /\ (i # 0 => g[i - 1] = f[i - 1])
          BY <2>6, <3>2, <4>1
        <4> QED
          BY <4>2, <4>3
      <3> QED
        BY <3>1, <3>2
    <2>8. g = Rec(m, g)
      BY <2>6, <2>7
    <2> QED
      BY <2>2, <2>8
  <1>2. Height \in 0 .. Height
    BY <1>0
  <1>3. \E f : f = Rec(Height, f)
    BY <1>1, <1>2
  <1> DEFINE fun == CHOOSE f : f = Rec(Height, f)
  <1>4. fun = Rec(Height, fun)
    BY <1>3
  <1>5. sm3_xmss_sig_to_root(wots, index, path, digest) = fun[Height]
    BY DEF sm3_xmss_sig_to_root, First, Then
  <1> HIDE DEF fun
  <1>6. /\ Rec(Height, fun)[0] = First
        /\ \A i \in 1 .. Height : Rec(Height, fun)[i] = Then(i, fun[i - 1])
    BY <1>0
  <1> HIDE DEF Rec
  <1>7. /\ fun[0] = First
        /\ \A i \in 1 .. Height : fun[i] = Then(i, fun[i - 1])
    BY <1>4, <1>6
  <1>8. Ascends(fun, wots, index, path, digest)
    BY <1>7 DEF First, Then, Ascends
  <1> QED
    BY <1>5, <1>8

-----------------------------------------------------------------------------
(* The checksum.                                                           *)

LEMMA ShiftsAt ==
  ASSUME NEW n \in Nat
  PROVE  /\ Shifts(n)[0] = n
         /\ \A k \in 0 .. Len2 : Shifts(n)[k] \in Nat
         /\ \A k \in 0 .. Len2 - 1 : Shifts(n)[k + 1] = Shifts(n)[k] \div W
  <1> DEFINE s == Shifts(n)
             Bad == {k \in 0 .. Len2 : s[k] \notin Nat}
  <1>1. s[0] = n /\ \A k \in 1 .. Len2 : s[k] = s[k - 1] \div W
    BY ShiftsIs
  <1> HIDE DEF s
  <1>2. s[0] = n
    BY <1>1, Sizes
  <1>3. ASSUME NEW k \in 0 .. Len2 - 1 PROVE s[k + 1] = s[k] \div W
    <2>1. k + 1 \in 1 .. Len2 /\ (k + 1) - 1 = k
      BY Sizes
    <2> QED
      BY <1>1, <2>1
  <1>4. Bad = {}
    <2> SUFFICES ASSUME Bad # {} PROVE FALSE
      OBVIOUS
    <2>1. Bad \in SUBSET Nat
      BY Sizes
    <2>2. PICK m \in Bad : \A k \in Bad : m <= k
      BY <2>1, LeastNumber
    <2>3. m # 0
      BY <1>2
    <2>4. m - 1 \in 0 .. Len2 - 1 /\ m - 1 \in 0 .. Len2 /\ (m - 1) + 1 = m /\ m - 1 \notin Bad
      BY <2>1, <2>2, <2>3, Sizes
    <2>5. s[m - 1] \in Nat
      BY <2>4
    <2>6. s[m] = s[m - 1] \div W
      BY <1>3, <2>4
    <2> QED
      BY <2>2, <2>5, <2>6, Division, Sizes
  <1> QED
    BY <1>2, <1>3, <1>4 DEF s

\* Shifting respects the order.
LEMMA ShiftsMono ==
  ASSUME NEW a \in Nat, NEW b \in Nat, a <= b, NEW k \in 0 .. Len2
  PROVE  Shifts(a)[k] <= Shifts(b)[k]
  <1> DEFINE Bad == {m \in 0 .. Len2 : ~(Shifts(a)[m] <= Shifts(b)[m])}
  <1> SUFFICES ASSUME Bad # {} PROVE FALSE
    OBVIOUS
  <1>1. Bad \in SUBSET Nat
    BY Sizes
  <1>2. PICK m \in Bad : \A i \in Bad : m <= i
    BY <1>1, LeastNumber
  <1>3. m # 0
    BY ShiftsAt
  <1>4. m - 1 \in 0 .. Len2 - 1 /\ m - 1 \in 0 .. Len2 /\ (m - 1) + 1 = m /\ m - 1 \notin Bad
    BY <1>1, <1>2, <1>3, Sizes
  <1>5. Shifts(a)[m - 1] \in Nat /\ Shifts(b)[m - 1] \in Nat /\ Shifts(a)[m - 1] <= Shifts(b)[m - 1]
    BY <1>4, ShiftsAt
  <1>6. Shifts(a)[m] = Shifts(a)[m - 1] \div W /\ Shifts(b)[m] = Shifts(b)[m - 1] \div W
    BY <1>4, ShiftsAt
  <1>7. Shifts(a)[m] <= Shifts(b)[m]
    BY <1>5, <1>6, DivMono, Sizes
  <1> QED
    BY <1>2, <1>7

\* A number whose digits are all at least those of another one is at least as large.
LEMMA DigitsOrder ==
  ASSUME NEW a \in Nat, NEW b \in Nat, Shifts(a)[Len2] = 0, Shifts(b)[Len2] = 0,
         \A k \in 0 .. Len2 - 1 : Shifts(a)[k] % W >= Shifts(b)[k] % W
  PROVE  a >= b
  <1> DEFINE Bad == {m \in 0 .. Len2 : ~(Shifts(a)[Len2 - m] >= Shifts(b)[Len2 - m])}
  <1>1. Bad = {}
    <2> SUFFICES ASSUME Bad # {} PROVE FALSE
      OBVIOUS
    <2>1. Bad \in SUBSET Nat
      BY Sizes
    <2>2. PICK m \in Bad : \A i \in Bad : m <= i
      BY <2>1, LeastNumber
    <2>3. m # 0
      BY Sizes
    <2>4. m - 1 \in 0 .. Len2 /\ m - 1 \notin Bad /\ m \in 0 .. Len2
      BY <2>1, <2>2, <2>3, Sizes
    <2>5. PICK k \in 0 .. Len2 - 1 : k = Len2 - m
      BY <2>3, <2>4, Sizes
    <2>6. Len2 - (m - 1) = k + 1 /\ k \in 0 .. Len2 /\ k + 1 \in 0 .. Len2
      BY <2>4, <2>5, Sizes
    <2>7. Shifts(a)[k + 1] >= Shifts(b)[k + 1]
      BY <2>4, <2>6
    <2>8. PICK x \in Nat : x = Shifts(a)[k]
      BY <2>6, ShiftsAt
    <2>9. PICK y \in Nat : y = Shifts(b)[k]
      BY <2>6, ShiftsAt
    <2>10. PICK q \in Nat : q = x \div W
      BY Division, Sizes
    <2>11. PICK r \in Nat : r = y \div W
      BY Division, Sizes
    <2>12. q >= r
      BY <2>7, <2>8, <2>9, <2>10, <2>11, ShiftsAt
    <2>13. x % W >= y % W
      BY <2>8, <2>9
    <2>14. x = W * q + (x % W) /\ y = W * r + (y % W) /\ x % W \in Nat /\ y % W \in Nat
      BY <2>10, <2>11, Division, Sizes
    <2>15. W * q >= W * r /\ W * q \in Nat /\ W * r \in Nat
      BY <2>12, Sizes
    <2>16. x >= y
      BY <2>13, <2>14, <2>15
    <2> QED
      BY <2>2, <2>5, <2>8, <2>9, <2>16
  <1>2. Len2 \in 0 .. Len2 /\ Len2 - Len2 = 0
    BY Sizes
  <1>3. Shifts(a)[0] >= Shifts(b)[0]
    BY <1>1, <1>2
  <1> QED
    BY <1>3, ShiftsAt

LEMMA CsumBound ==
  ASSUME NEW digest \in Digests
  PROVE  Csum(digest) \in Nat /\ Csum(digest) <= Len1 * (W - 1)
  <1>1. PICK c : /\ c[0] = 0
                 /\ \A i \in 1 .. Len1 : c[i] = c[i - 1] + (W - 1 - digest[i])
                 /\ Csum(digest) = c[Len1]
    BY CsumIs
  <1>2. PICK v \in Nat : v = W - 1
    BY Sizes
  <1> DEFINE Bad == {i \in 0 .. Len1 : ~(c[i] \in Nat /\ c[i] <= i * v)}
  <1>3. Bad = {}
    <2> SUFFICES ASSUME Bad # {} PROVE FALSE
      OBVIOUS
    <2>1. Bad \in SUBSET Nat
      BY Sizes
    <2>2. PICK m \in Bad : \A i \in Bad : m <= i
      BY <2>1, LeastNumber
    <2>3. m # 0
      <3>1. c[0] = 0 /\ 0 * v = 0
        BY <1>1, Sizes
      <3> QED
        BY <3>1, <2>2
    <2>4. m \in 1 .. Len1 /\ m - 1 \in 0 .. Len1 /\ m - 1 \notin Bad
      BY <2>1, <2>2, <2>3, Sizes
    <2>5. c[m - 1] \in Nat /\ c[m - 1] <= (m - 1) * v
      BY <2>4
    <2>6. digest[m] \in 0 .. v
      BY <1>2, <2>4 DEF Digests
    <2>7. c[m] = c[m - 1] + (v - digest[m])
      BY <1>1, <1>2, <2>4
    <2>8. m * v = (m - 1) * v + v
      BY <2>4
    <2>9. (m - 1) * v \in Nat
      BY <2>4
    <2>10. c[m] \in Nat /\ c[m] <= m * v
      BY <2>5, <2>6, <2>7, <2>8, <2>9
    <2> QED
      BY <2>2, <2>10
  <1>4. Len1 \in 0 .. Len1
    BY Sizes
  <1> QED
    BY <1>1, <1>2, <1>3, <1>4

\* A checksum fits in its digits.
LEMMA CsumFits ==
  ASSUME NEW digest \in Digests
  PROVE  Csum(digest) \in Nat /\ Shifts(Csum(digest))[Len2] = 0
  <1>1. Csum(digest) \in Nat /\ Csum(digest) <= Len1 * (W - 1)
    BY CsumBound
  <1>2. PICK b \in Nat : b = Len1 * (W - 1)
    BY Sizes
  <1>3. Len2 \in 0 .. Len2
    BY Sizes
  <1>4. Shifts(Csum(digest))[Len2] <= Shifts(b)[Len2] /\ Shifts(Csum(digest))[Len2] \in Nat
    BY <1>1, <1>2, <1>3, ShiftsMono, ShiftsAt
  <1>5. Shifts(b)[Len2] = 0
    BY <1>2, XmssAssumption
  <1> QED
    BY <1>1, <1>4, <1>5

\* The larger the digits, the smaller the checksum.
LEMMA CsumOrder ==
  ASSUME NEW d \in Digests, NEW e \in Digests, d # e, \A i \in 1 .. Len1 : d[i] >= e[i]
  PROVE  Csum(d) < Csum(e)
  <1>1. PICK a : /\ a[0] = 0
                 /\ \A i \in 1 .. Len1 : a[i] = a[i - 1] + (W - 1 - d[i])
                 /\ Csum(d) = a[Len1]
    BY CsumIs
  <1>2. PICK b : /\ b[0] = 0
                 /\ \A i \in 1 .. Len1 : b[i] = b[i - 1] + (W - 1 - e[i])
                 /\ Csum(e) = b[Len1]
    BY CsumIs
  <1>3. PICK j \in 1 .. Len1 : d[j] # e[j]
    <2>1. d = [j \in 1 .. Len1 |-> d[j]] /\ e = [j \in 1 .. Len1 |-> e[j]]
      BY DEF Digests
    <2> QED
      BY <2>1
  <1> DEFINE Holds(i) == /\ a[i] \in Int /\ b[i] \in Int /\ a[i] <= b[i]
                         /\ j <= i => a[i] < b[i]
             Bad == {i \in 0 .. Len1 : ~Holds(i)}
  <1>4. Bad = {}
    <2> SUFFICES ASSUME Bad # {} PROVE FALSE
      OBVIOUS
    <2>1. Bad \in SUBSET Nat
      BY Sizes
    <2>2. PICK m \in Bad : \A i \in Bad : m <= i
      BY <2>1, LeastNumber
    <2>3. m # 0
      <3>1. a[0] = 0 /\ b[0] = 0 /\ ~(j <= 0)
        BY <1>1, <1>2, <1>3, Sizes
      <3> QED
        BY <3>1, <2>2
    <2>4. m \in 1 .. Len1 /\ m - 1 \in 0 .. Len1 /\ m - 1 \notin Bad
      BY <2>1, <2>2, <2>3, Sizes
    <2>5. Holds(m - 1)
      BY <2>4
    <2>6. d[m] \in 0 .. W - 1 /\ e[m] \in 0 .. W - 1 /\ d[m] >= e[m]
      BY <2>4 DEF Digests
    <2>7. a[m] = a[m - 1] + (W - 1 - d[m]) /\ b[m] = b[m - 1] + (W - 1 - e[m])
      BY <1>1, <1>2, <2>4
    <2>8. j = m => d[m] > e[m]
      BY <1>3, <2>6, Sizes
    <2>9. j <= m => j = m \/ j <= m - 1
      BY <1>3, <2>4, Sizes
    <2>10. Holds(m)
      BY <2>5, <2>6, <2>7, <2>8, <2>9, Sizes
    <2> QED
      BY <2>2, <2>10
  <1>5. Len1 \in 0 .. Len1 /\ j <= Len1
    BY <1>3, Sizes
  <1> QED
    BY <1>1, <1>2, <1>4, <1>5

LEMMA DigitsAt ==
  ASSUME NEW digest \in Digests
  PROVE  /\ \A i \in 1 .. Len1 : base_w_and_checksum(digest)[i] = digest[i]
         /\ \A k \in 0 .. Len2 - 1 : /\ Len1 + Len2 - k \in Chains
                                     /\ base_w_and_checksum(digest)[Len1 + Len2 - k]
                                            = Shifts(Csum(digest))[k] % W
         /\ \A i \in Chains : base_w_and_checksum(digest)[i] \in 0 .. W - 1
  <1>1. ASSUME NEW i \in 1 .. Len1
        PROVE  base_w_and_checksum(digest)[i] = digest[i] /\ digest[i] \in 0 .. W - 1
    <2>1. i \in Chains /\ i <= Len1
      BY Sizes DEF Chains
    <2> QED
      BY <2>1 DEF base_w_and_checksum, Digests
  <1>2. ASSUME NEW k \in 0 .. Len2 - 1
        PROVE  /\ Len1 + Len2 - k \in Chains
               /\ base_w_and_checksum(digest)[Len1 + Len2 - k] = Shifts(Csum(digest))[k] % W
               /\ Shifts(Csum(digest))[k] % W \in 0 .. W - 1
    <2>1. PICK i \in Chains : i = Len1 + Len2 - k
      BY Sizes DEF Chains
    <2>2. ~(i <= Len1) /\ Len1 + Len2 - i = k /\ k \in 0 .. Len2
      BY <2>1, Sizes
    <2>3. base_w_and_checksum(digest)[i] = Shifts(Csum(digest))[Len1 + Len2 - i] % W
      BY <2>2 DEF base_w_and_checksum
    <2>4. Shifts(Csum(digest))[k] \in Nat
      BY <2>2, CsumFits, ShiftsAt
    <2>5. Shifts(Csum(digest))[k] % W \in 0 .. W - 1
      BY <2>4, Division, Sizes
    <2> QED
      BY <2>1, <2>2, <2>3, <2>5
  <1>3. ASSUME NEW i \in Chains PROVE base_w_and_checksum(digest)[i] \in 0 .. W - 1
    <2>1. CASE i <= Len1
      <3>1. i \in 1 .. Len1
        BY <2>1, Sizes DEF Chains
      <3> QED
        BY <1>1, <3>1
    <2>2. CASE ~(i <= Len1)
      <3>1. PICK k \in 0 .. Len2 - 1 : i = Len1 + Len2 - k
        <4>1. Len1 + Len2 - i \in 0 .. Len2 - 1 /\ i = Len1 + Len2 - (Len1 + Len2 - i)
          BY <2>2, Sizes DEF Chains
        <4> QED
          BY <4>1
      <3> QED
        BY <1>2, <3>1
    <2> QED
      BY <2>1, <2>2
  <1> QED
    BY <1>1, <1>2, <1>3

\* Two digests: each has a digit, of its own or of its checksum, below the other's.
LEMMA SomeDigitBelow ==
  ASSUME NEW d \in Digests, NEW e \in Digests, d # e
  PROVE  \E i \in Chains : base_w_and_checksum(e)[i] < base_w_and_checksum(d)[i]
  <1> SUFFICES ASSUME \A i \in Chains : ~(base_w_and_checksum(e)[i] < base_w_and_checksum(d)[i])
               PROVE  FALSE
    OBVIOUS
  <1>1. \A i \in Chains : base_w_and_checksum(e)[i] >= base_w_and_checksum(d)[i]
    <2> TAKE i \in Chains
    <2>1. base_w_and_checksum(e)[i] \in 0 .. W - 1 /\ base_w_and_checksum(d)[i] \in 0 .. W - 1
      BY DigitsAt
    <2> QED
      BY <2>1, Sizes
  <1>2. \A i \in 1 .. Len1 : e[i] >= d[i]
    <2> TAKE i \in 1 .. Len1
    <2>1. i \in Chains
      BY Sizes DEF Chains
    <2> QED
      BY <1>1, <2>1, DigitsAt
  <1>3. Csum(e) < Csum(d)
    BY <1>2, CsumOrder
  <1>4. \A k \in 0 .. Len2 - 1 : Shifts(Csum(e))[k] % W >= Shifts(Csum(d))[k] % W
    <2> TAKE k \in 0 .. Len2 - 1
    <2>1. Len1 + Len2 - k \in Chains
      BY DigitsAt
    <2> QED
      BY <1>1, <2>1, DigitsAt
  <1>5. Csum(e) >= Csum(d)
    BY <1>4, CsumFits, DigitsOrder
  <1> QED
    BY <1>3, <1>5, CsumFits

-----------------------------------------------------------------------------
(* Hash values: equal ones were computed alike.                            *)

LEMMA PrfInjective ==
  ASSUME NEW a, NEW b, prf_keygen(a) = prf_keygen(b)
  PROVE  a = b
  <1>1. prf_keygen(a).adrs = a /\ prf_keygen(b).adrs = b
    BY DEF prf_keygen
  <1> QED
    BY <1>1

LEMMA FInjective ==
  ASSUME NEW a, NEW x, NEW b, NEW y, hash256_f(a, x) = hash256_f(b, y)
  PROVE  a = b /\ x = y
  <1>1. hash256_f(a, x).adrs = a /\ hash256_f(b, y).adrs = b
    BY DEF hash256_f
  <1>2. hash256_f(a, x).args[1] = x /\ hash256_f(b, y).args[1] = y
    BY DEF hash256_f
  <1> QED
    BY <1>1, <1>2

LEMMA HInjective ==
  ASSUME NEW a, NEW x, NEW y, NEW b, NEW u, NEW v,
         randomized_hash(x, y, a) = randomized_hash(u, v, b)
  PROVE  a = b /\ x = u /\ y = v
  <1>1. randomized_hash(x, y, a).adrs = a /\ randomized_hash(u, v, b).adrs = b
    BY DEF randomized_hash
  <1>2. /\ randomized_hash(x, y, a).args[1] = x /\ randomized_hash(u, v, b).args[1] = u
        /\ randomized_hash(x, y, a).args[2] = y /\ randomized_hash(u, v, b).args[2] = v
    BY DEF randomized_hash
  <1> QED
    BY <1>1, <1>2

LEMMA FNotPrf ==
  ASSUME NEW a, NEW x, NEW b
  PROVE  hash256_f(a, x) # prf_keygen(b)
  <1>1. hash256_f(a, x).op = "f" /\ prf_keygen(b).op = "prf_keygen"
    BY DEF hash256_f, prf_keygen
  <1> QED
    BY <1>1

LEMMA OtsAdrsInjective ==
  ASSUME NEW a, NEW b, NEW c, NEW x, NEW y, NEW z, OtsAdrs(a, b, c) = OtsAdrs(x, y, z)
  PROVE  a = x /\ b = y /\ c = z
  BY DEF OtsAdrs

LEMMA TreeAdrsInjective ==
  ASSUME NEW a, NEW b, NEW x, NEW y, TreeAdrs(a, b) = TreeAdrs(x, y)
  PROVE  a = x /\ b = y
  BY DEF TreeAdrs

-----------------------------------------------------------------------------
(* The chains.                                                             *)

LEMMA ChainZero ==
  ASSUME NEW x, NEW start \in Nat, NEW ots, NEW chain
  PROVE  wots_chain(x, start, 0, ots, chain) = x
  BY ChainIs DEF Walks

\* One more step applies the chain function once more.
LEMMA ChainStep ==
  ASSUME NEW x, NEW start \in Nat, NEW n \in Nat, NEW ots, NEW chain
  PROVE  wots_chain(x, start, n + 1, ots, chain)
            = hash256_f(OtsAdrs(ots, chain, start + n), wots_chain(x, start, n, ots, chain))
  <1>0. PICK m1 \in Nat : m1 = n + 1
    OBVIOUS
  <1>1. PICK s : /\ wots_chain(x, start, n, ots, chain) = s[n]
                 /\ Walks(s, x, start, n, ots, chain)
    BY ChainIs
  <1>2. PICK t : /\ wots_chain(x, start, m1, ots, chain) = t[m1]
                 /\ Walks(t, x, start, m1, ots, chain)
    BY ChainIs
  <1> DEFINE Step(i, y) == hash256_f(OtsAdrs(ots, chain, start + i - 1), y)
  <1>3a. \A i \in 1 .. n : s[i] = Step(i, s[i - 1])
    BY <1>1 DEF Walks
  <1>3b. \A i \in 1 .. n + 1 : t[i] = Step(i, t[i - 1])
    BY <1>0, <1>2 DEF Walks
  <1> HIDE DEF Step
  <1> DEFINE Bad == {i \in 0 .. n : s[i] # t[i]}
  <1>3. Bad = {}
    <2> SUFFICES ASSUME Bad # {} PROVE FALSE
      OBVIOUS
    <2>1. Bad \in SUBSET Nat
      OBVIOUS
    <2>2. PICK m \in Bad : \A i \in Bad : m <= i
      BY <2>1, LeastNumber
    <2>3. m # 0
      BY <1>1, <1>2 DEF Walks
    <2>4. m \in 1 .. n /\ m \in 1 .. n + 1 /\ m - 1 \in 0 .. n /\ m - 1 \notin Bad
      BY <2>1, <2>2, <2>3
    <2>5. s[m - 1] = t[m - 1]
      BY <2>4
    <2>6. s[m] = Step(m, s[m - 1]) /\ t[m] = Step(m, t[m - 1])
      BY <1>3a, <1>3b, <2>4
    <2> QED
      BY <2>2, <2>5, <2>6
  <1>4. n \in 0 .. n /\ n + 1 \in 1 .. n + 1 /\ (n + 1) - 1 = n
    OBVIOUS
  <1>5. t[n + 1] = Step(n + 1, s[n])
    BY <1>3b, <1>3, <1>4
  <1>6. start + (n + 1) - 1 = start + n
    OBVIOUS
  <1>7. Step(n + 1, s[n]) = hash256_f(OtsAdrs(ots, chain, start + n), s[n])
    BY <1>6 DEF Step
  <1> QED
    BY <1>0, <1>1, <1>2, <1>5, <1>7

\* A chain can be left at any position and entered there again.
LEMMA ChainAppend ==
  ASSUME NEW x, NEW s \in Nat, NEW n \in Nat, NEW k \in Nat, NEW ots, NEW chain
  PROVE  wots_chain(wots_chain(x, s, n, ots, chain), s + n, k, ots, chain)
            = wots_chain(x, s, n + k, ots, chain)
  <1> DEFINE Y(i) == wots_chain(wots_chain(x, s, n, ots, chain), s + n, i, ots, chain)
             X(i) == wots_chain(x, s, n + i, ots, chain)
             Bad == {i \in 0 .. k : Y(i) # X(i)}
  <1>1. Y(0) = X(0)
    BY ChainZero
  <1>2. \A i \in Nat : Y(i + 1) = hash256_f(OtsAdrs(ots, chain, s + n + i), Y(i))
    <2> TAKE i \in Nat
    <2>1. s + n \in Nat
      OBVIOUS
    <2> QED
      BY <2>1, ChainStep
  <1>3. \A i \in Nat : X(i + 1) = hash256_f(OtsAdrs(ots, chain, s + n + i), X(i))
    <2> TAKE i \in Nat
    <2>1. n + i \in Nat /\ n + (i + 1) = (n + i) + 1 /\ s + (n + i) = s + n + i
      OBVIOUS
    <2>2. wots_chain(x, s, (n + i) + 1, ots, chain)
            = hash256_f(OtsAdrs(ots, chain, s + (n + i)), wots_chain(x, s, n + i, ots, chain))
      BY <2>1, ChainStep
    <2> QED
      BY <2>1, <2>2
  <1> HIDE DEF X, Y
  <1>4. Bad = {}
    <2> SUFFICES ASSUME Bad # {} PROVE FALSE
      OBVIOUS
    <2>1. Bad \in SUBSET Nat
      OBVIOUS
    <2>2. PICK m \in Bad : \A i \in Bad : m <= i
      BY <2>1, LeastNumber
    <2>3. m # 0
      BY <1>1
    <2>4. m - 1 \in Nat /\ (m - 1) + 1 = m /\ m - 1 \in 0 .. k /\ m - 1 \notin Bad
      BY <2>1, <2>2, <2>3
    <2>5. Y(m - 1) = X(m - 1)
      BY <2>4
    <2>6. Y(m) = X(m)
      BY <1>2, <1>3, <2>4, <2>5
    <2> QED
      BY <2>2, <2>6
  <1>5. Y(k) = X(k)
    BY <1>4
  <1> QED
    BY <1>5 DEF X, Y

\* Two chains that walk through the same positions and meet began together.
LEMMA ChainInjective ==
  ASSUME NEW x, NEW y, NEW s \in Nat, NEW k \in Nat, NEW ots, NEW chain,
         wots_chain(x, s, k, ots, chain) = wots_chain(y, s, k, ots, chain)
  PROVE  x = y
  <1> DEFINE X(i) == wots_chain(x, s, i, ots, chain)
             Y(i) == wots_chain(y, s, i, ots, chain)
             Meet == {i \in 0 .. k : X(i) = Y(i)}
  <1>1. X(0) = x /\ Y(0) = y
    BY ChainZero
  <1>2. \A i \in Nat : /\ X(i + 1) = hash256_f(OtsAdrs(ots, chain, s + i), X(i))
                       /\ Y(i + 1) = hash256_f(OtsAdrs(ots, chain, s + i), Y(i))
    BY ChainStep
  <1>3. X(k) = Y(k)
    OBVIOUS
  <1> HIDE DEF X, Y
  <1>4. Meet # {} /\ Meet \in SUBSET Nat
    BY <1>3
  <1>5. PICK m \in Meet : \A i \in Meet : m <= i
    BY <1>4, LeastNumber
  <1>6. m = 0
    <2> SUFFICES ASSUME m # 0 PROVE FALSE
      OBVIOUS
    <2>1. m - 1 \in Nat /\ (m - 1) + 1 = m /\ m - 1 \in 0 .. k /\ m - 1 \notin Meet
      BY <1>4, <1>5
    <2>2. X(m - 1) = Y(m - 1)
      BY <1>2, <1>5, <2>1, FInjective
    <2> QED
      BY <2>1, <2>2
  <1> QED
    BY <1>1, <1>5, <1>6

\* The chains of two one-time keys have no value in common, and no chain has
\* the same value at two positions.
LEMMA KeyChainsApart ==
  ASSUME NEW i, NEW j, NEW c, NEW a \in Nat, NEW b \in Nat,
         wots_chain(prf_keygen(OtsAdrs(i, c, 0)), 0, a, i, c)
            = wots_chain(prf_keygen(OtsAdrs(j, c, 0)), 0, b, j, c)
  PROVE  i = j /\ a = b
  <1> DEFINE X(n) == wots_chain(prf_keygen(OtsAdrs(i, c, 0)), 0, n, i, c)
             Y(n) == wots_chain(prf_keygen(OtsAdrs(j, c, 0)), 0, n, j, c)
  <1>1. X(0) = prf_keygen(OtsAdrs(i, c, 0)) /\ Y(0) = prf_keygen(OtsAdrs(j, c, 0))
    BY ChainZero
  <1>2. \A n \in Nat : /\ X(n + 1) = hash256_f(OtsAdrs(i, c, n), X(n))
                       /\ Y(n + 1) = hash256_f(OtsAdrs(j, c, n), Y(n))
    <2> TAKE n \in Nat
    <2>1. 0 \in Nat /\ 0 + n = n
      OBVIOUS
    <2>2. /\ X(n + 1) = hash256_f(OtsAdrs(i, c, 0 + n), X(n))
          /\ Y(n + 1) = hash256_f(OtsAdrs(j, c, 0 + n), Y(n))
      BY <2>1, ChainStep
    <2> QED
      BY <2>1, <2>2
  <1>3. X(a) = Y(b)
    OBVIOUS
  <1> HIDE DEF X, Y
  <1>4. ASSUME a # 0, b # 0 PROVE i = j /\ a = b
    <2>1. a - 1 \in Nat /\ b - 1 \in Nat /\ (a - 1) + 1 = a /\ (b - 1) + 1 = b
      BY <1>4
    <2>2. hash256_f(OtsAdrs(i, c, a - 1), X(a - 1)) = hash256_f(OtsAdrs(j, c, b - 1), Y(b - 1))
      BY <1>2, <1>3, <2>1
    <2>3. i = j /\ a - 1 = b - 1
      BY <2>2, FInjective, OtsAdrsInjective
    <2> QED
      BY <2>1, <2>3
  <1>5. ASSUME a = 0, b = 0 PROVE i = j /\ a = b
    BY <1>1, <1>3, <1>5, PrfInjective, OtsAdrsInjective
  <1>6. ASSUME a = 0, b # 0 PROVE FALSE
    <2>1. b - 1 \in Nat /\ (b - 1) + 1 = b
      BY <1>6
    <2> QED
      BY <1>1, <1>2, <1>3, <1>6, <2>1, FNotPrf
  <1>7. ASSUME a # 0, b = 0 PROVE FALSE
    <2>1. a - 1 \in Nat /\ (a - 1) + 1 = a
      BY <1>7
    <2> QED
      BY <1>1, <1>2, <1>3, <1>7, <2>1, FNotPrf
  <1> QED
    BY <1>4, <1>5, <1>6, <1>7

\* A one-time signature leads back to the public key for its own digest and key.
LEMMA WotsAccepts ==
  ASSUME NEW i, NEW d \in Digests
  PROVE  sm3_wots_sig_to_pk(sm3_wots_do_sign(sm3_wots_derive_sk(i), i, d), d, i)
            = sm3_wots_derive_pk(sm3_wots_derive_sk(i), i)
  <1> DEFINE msg == base_w_and_checksum(d)
             K(c) == prf_keygen(OtsAdrs(i, c, 0))
             wots == sm3_wots_do_sign(sm3_wots_derive_sk(i), i, d)
  <1>1. \A c \in Chains : msg[c] \in 0 .. W - 1
    BY DigitsAt
  <1>2. \A c \in Chains : wots[c] = wots_chain(K(c), 0, msg[c], i, c)
    BY DEF sm3_wots_do_sign, sm3_wots_derive_sk
  <1>3. \A c \in Chains : wots_chain(wots[c], msg[c], W - 1 - msg[c], i, c)
                             = wots_chain(K(c), 0, W - 1, i, c)
    <2> TAKE c \in Chains
    <2>1. PICK a \in Nat : a = msg[c] /\ a <= W - 1
      BY <1>1, Sizes
    <2>2. PICK k \in Nat : k = W - 1 - a /\ a + k = W - 1 /\ 0 + a = a /\ 0 \in Nat
      BY <2>1, Sizes
    <2>3. wots_chain(wots_chain(K(c), 0, a, i, c), 0 + a, k, i, c)
            = wots_chain(K(c), 0, a + k, i, c)
      BY <2>2, ChainAppend
    <2> QED
      BY <1>2, <2>1, <2>2, <2>3
  <1>4. sm3_wots_sig_to_pk(wots, d, i)
            = [c \in Chains |-> wots_chain(wots[c], msg[c], W - 1 - msg[c], i, c)]
    BY DEF sm3_wots_sig_to_pk
  <1>5. sm3_wots_derive_pk(sm3_wots_derive_sk(i), i)
            = [c \in Chains |-> wots_chain(K(c), 0, W - 1, i, c)]
    BY DEF sm3_wots_derive_pk, sm3_wots_derive_sk
  <1> QED
    BY <1>3, <1>4, <1>5

\* And for no other digest or key.
LEMMA WotsRejects ==
  ASSUME NEW i, NEW j, NEW d \in Digests, NEW e \in Digests,
         sm3_wots_sig_to_pk(sm3_wots_do_sign(sm3_wots_derive_sk(i), i, d), e, j)
            = sm3_wots_derive_pk(sm3_wots_derive_sk(j), j)
  PROVE  i = j /\ d = e
  <1> DEFINE D == base_w_and_checksum(d)
             E == base_w_and_checksum(e)
             K(o, c) == prf_keygen(OtsAdrs(o, c, 0))
             wots == sm3_wots_do_sign(sm3_wots_derive_sk(i), i, d)
  <1>1. \A c \in Chains : D[c] \in 0 .. W - 1 /\ E[c] \in 0 .. W - 1
    BY DigitsAt
  <1>2. \A c \in Chains : wots[c] = wots_chain(K(i, c), 0, D[c], i, c)
    BY DEF sm3_wots_do_sign, sm3_wots_derive_sk
  <1>3. sm3_wots_sig_to_pk(wots, e, j)
            = [c \in Chains |-> wots_chain(wots[c], E[c], W - 1 - E[c], j, c)]
    BY DEF sm3_wots_sig_to_pk
  <1>4. sm3_wots_derive_pk(sm3_wots_derive_sk(j), j)
            = [c \in Chains |-> wots_chain(K(j, c), 0, W - 1, j, c)]
    BY DEF sm3_wots_derive_pk, sm3_wots_derive_sk
  <1>5. \A c \in Chains : wots_chain(wots[c], E[c], W - 1 - E[c], j, c)
                             = wots_chain(K(j, c), 0, W - 1, j, c)
    <2> DEFINE p == [c \in Chains |-> wots_chain(wots[c], E[c], W - 1 - E[c], j, c)]
               q == [c \in Chains |-> wots_chain(K(j, c), 0, W - 1, j, c)]
    <2>1. p = q
      BY <1>3, <1>4
    <2> TAKE c \in Chains
    <2>2. p[c] = wots_chain(wots[c], E[c], W - 1 - E[c], j, c)
      OBVIOUS
    <2>3. q[c] = wots_chain(K(j, c), 0, W - 1, j, c)
      OBVIOUS
    <2> QED
      BY <2>1, <2>2, <2>3
  <1>6. ASSUME NEW c \in Chains PROVE i = j /\ D[c] = E[c]
    <2>1. PICK a \in Nat : a = E[c] /\ a <= W - 1
      BY <1>1, Sizes
    <2>2. PICK k \in Nat : k = W - 1 - a /\ a + k = W - 1 /\ 0 + a = a /\ 0 \in Nat
      BY <2>1, Sizes
    <2>3. PICK b \in Nat : b = D[c]
      BY <1>1, Sizes
    <2>4. wots_chain(wots_chain(K(j, c), 0, a, j, c), 0 + a, k, j, c)
            = wots_chain(K(j, c), 0, a + k, j, c)
      BY <2>2, ChainAppend
    <2>5. wots_chain(wots[c], a, k, j, c)
            = wots_chain(wots_chain(K(j, c), 0, a, j, c), a, k, j, c)
      BY <1>5, <2>1, <2>2, <2>4
    <2>6. wots[c] = wots_chain(K(j, c), 0, a, j, c)
      BY <2>5, ChainInjective
    <2>7. wots_chain(K(i, c), 0, b, i, c) = wots_chain(K(j, c), 0, a, j, c)
      BY <1>2, <2>3, <2>6
    <2>8. i = j /\ b = a
      BY <2>7, KeyChainsApart
    <2> QED
      BY <2>1, <2>3, <2>8
  <1>7. 1 \in Chains
    BY Sizes DEF Chains
  <1>8. \A c \in 1 .. Len1 : d[c] = e[c]
    <2> TAKE c \in 1 .. Len1
    <2>1. c \in Chains
      BY Sizes DEF Chains
    <2> QED
      BY <1>6, <2>1, DigitsAt
  <1>9. d = [c \in 1 .. Len1 |-> d[c]] /\ e = [c \in 1 .. Len1 |-> e[c]]
    BY DEF Digests
  <1> QED
    BY <1>6, <1>7, <1>8, <1>9

-----------------------------------------------------------------------------
(* The L-tree.                                                             *)

\* A row of n nodes.
Row(p, n) == \E S : p \in [1 .. n -> S]

LEMMA RowLen ==
  ASSUME NEW n \in Nat, NEW p, Row(p, n)
  PROVE  Len(p) = n
  <1>1. PICK S : p \in [1 .. n -> S]
    BY DEF Row
  <1>2. p \in Seq(S) /\ DOMAIN p = 1 .. n
    BY <1>1
  <1>3. PICK k \in Nat : k = Len(p) /\ DOMAIN p = 1 .. k
    BY <1>2
  <1>4. 1 .. n = 1 .. k
    BY <1>2, <1>3
  <1>5. n > 0 => n \in 1 .. k
    BY <1>4
  <1>6. k > 0 => k \in 1 .. n
    BY <1>4
  <1> QED
    BY <1>3, <1>5, <1>6

LEMMA RowEqual ==
  ASSUME NEW n \in Nat, NEW p, NEW q, Row(p, n), Row(q, n), \A i \in 1 .. n : p[i] = q[i]
  PROVE  p = q
  <1>1. PICK S : p \in [1 .. n -> S]
    BY DEF Row
  <1>2. PICK T : q \in [1 .. n -> T]
    BY DEF Row
  <1> QED
    BY <1>1, <1>2

\* Half a number, rounded up.
LEMMA HalfUp ==
  ASSUME NEW n \in Nat
  PROVE  /\ (n + 1) \div 2 \in Nat
         /\ n > 0 => (n + 1) \div 2 > 0
         /\ n > 1 => (n + 1) \div 2 <= n - 1
         /\ \A i \in Nat : 2 * i <= n => i <= (n + 1) \div 2
         /\ \A i \in Nat : 2 * i = n + 1 => i = (n + 1) \div 2
  OBVIOUS

LEMMA LevelRow ==
  ASSUME NEW n \in Nat, NEW p, Row(p, n), NEW ltree, NEW height
  PROVE  /\ Row(LtreeLevel(p, ltree, height), (n + 1) \div 2)
         /\ \A i \in 1 .. (n + 1) \div 2 :
               LtreeLevel(p, ltree, height)[i]
                  = IF 2 * i <= n
                    THEN randomized_hash(p[2 * i - 1], p[2 * i], LtreeAdrs(ltree, height, i - 1))
                    ELSE p[n]
  <1>1. Len(p) = n
    BY RowLen
  <1>2. PICK k \in Nat : k = (n + 1) \div 2
    BY HalfUp
  <1> DEFINE N(i) == IF 2 * i <= n
                     THEN randomized_hash(p[2 * i - 1], p[2 * i], LtreeAdrs(ltree, height, i - 1))
                     ELSE p[n]
             lev == LtreeLevel(p, ltree, height)
  <1>3. lev = [i \in 1 .. k |-> N(i)]
    BY <1>1, <1>2 DEF LtreeLevel
  <1> HIDE DEF N, lev
  <1>4. lev \in [1 .. k -> {N(i) : i \in 1 .. k}]
    BY <1>3
  <1>5. Row(lev, k)
    BY <1>4 DEF Row
  <1>6. \A i \in 1 .. k : lev[i] = N(i)
    BY <1>3
  <1> QED
    BY <1>2, <1>5, <1>6 DEF N, lev

LEMMA LevelInjective ==
  ASSUME NEW n \in Nat, NEW p, NEW q, Row(p, n), Row(q, n), NEW ltree, NEW height,
         LtreeLevel(p, ltree, height) = LtreeLevel(q, ltree, height)
  PROVE  p = q
  <1> DEFINE a == LtreeLevel(p, ltree, height)
             adrs(i) == LtreeAdrs(ltree, height, i - 1)
  <1>1. PICK k \in Nat : k = (n + 1) \div 2
    BY HalfUp
  <1>2. \A i \in 1 .. k :
            a[i] = IF 2 * i <= n THEN randomized_hash(p[2 * i - 1], p[2 * i], adrs(i)) ELSE p[n]
    BY <1>1, LevelRow
  <1>3. \A i \in 1 .. k :
            a[i] = IF 2 * i <= n THEN randomized_hash(q[2 * i - 1], q[2 * i], adrs(i)) ELSE q[n]
    BY <1>1, LevelRow
  <1> HIDE DEF a, adrs
  <1>4. ASSUME NEW i \in 1 .. k, 2 * i <= n
        PROVE  p[2 * i - 1] = q[2 * i - 1] /\ p[2 * i] = q[2 * i]
    <2>1. randomized_hash(p[2 * i - 1], p[2 * i], adrs(i))
            = randomized_hash(q[2 * i - 1], q[2 * i], adrs(i))
      BY <1>2, <1>3, <1>4
    <2> QED
      BY <2>1, HInjective
  <1>5. ASSUME NEW j \in 1 .. n PROVE p[j] = q[j]
    <2>1. CASE j % 2 = 0
      <3>1. PICK i \in Nat : j = 2 * i
        BY <2>1, Division
      <3>2. i \in 1 .. k /\ 2 * i <= n
        BY <1>1, <3>1, HalfUp
      <3> QED
        BY <1>4, <3>1, <3>2
    <2>2. CASE j % 2 = 1 /\ j < n
      <3>1. PICK i \in Nat : j = 2 * i - 1
        <4>1. j \div 2 \in Nat /\ j = 2 * (j \div 2) + 1
          BY <2>2, Division
        <4>2. j = 2 * ((j \div 2) + 1) - 1 /\ (j \div 2) + 1 \in Nat
          BY <4>1
        <4> QED
          BY <4>2
      <3>2. 2 * i <= n /\ i > 0
        BY <2>2, <3>1
      <3>3. i \in 1 .. k
        BY <1>1, <3>2, HalfUp
      <3> QED
        BY <1>4, <3>1, <3>2, <3>3
    <2>3. CASE j % 2 = 1 /\ j = n
      <3>1. PICK i \in Nat : j = 2 * i - 1
        <4>1. j \div 2 \in Nat /\ j = 2 * (j \div 2) + 1
          BY <2>3, Division
        <4>2. j = 2 * ((j \div 2) + 1) - 1 /\ (j \div 2) + 1 \in Nat
          BY <4>1
        <4> QED
          BY <4>2
      <3>2. 2 * i = n + 1 /\ i > 0 /\ ~(2 * i <= n)
        BY <2>3, <3>1
      <3>3. i \in 1 .. k
        BY <1>1, <3>2, HalfUp
      <3> QED
        BY <1>2, <1>3, <2>3, <3>2, <3>3
    <2>4. j % 2 = 0 \/ j % 2 = 1
      OBVIOUS
    <2>5. j < n \/ j = n
      OBVIOUS
    <2> QED
      BY <2>1, <2>2, <2>3, <2>4, <2>5
  <1> QED
    BY <1>5, RowEqual

\* Equal roots have equal leaves under them.
LEMMA LtreeInjective ==
  ASSUME NEW n \in Nat, n > 0, NEW p, NEW q, Row(p, n), Row(q, n), NEW ltree,
         build_ltree(p, ltree) = build_ltree(q, ltree)
  PROVE  p = q
  <1>1. Len(p) = n /\ Len(q) = n
    BY RowLen
  <1>2. PICK f : build_ltree(p, ltree) = f[n][1] /\ Climbs(f, p, ltree, n)
    BY <1>1, LtreeIs
  <1>3. PICK g : build_ltree(q, ltree) = g[n][1] /\ Climbs(g, q, ltree, n)
    BY <1>1, LtreeIs
  <1> DEFINE Fits(h, k) == /\ k > 0 /\ (k = 1 \/ k <= n - h)
                           /\ Row(f[h], k) /\ Row(g[h], k)
             Bad == {h \in 0 .. n : ~\E k \in Nat : Fits(h, k)}
  <1>4. f[0] = p /\ g[0] = q
    BY <1>2, <1>3 DEF Climbs
  <1>5. ASSUME NEW h \in 1 .. n, NEW k \in Nat, Row(f[h - 1], k), Row(g[h - 1], k)
        PROVE  /\ k = 1 => f[h] = f[h - 1] /\ g[h] = g[h - 1]
               /\ k # 1 => /\ f[h] = LtreeLevel(f[h - 1], ltree, h - 1)
                           /\ g[h] = LtreeLevel(g[h - 1], ltree, h - 1)
    <2>1. Len(f[h - 1]) = k /\ Len(g[h - 1]) = k
      BY <1>5, RowLen
    <2>2. f[h] = IF Len(f[h - 1]) = 1 THEN f[h - 1] ELSE LtreeLevel(f[h - 1], ltree, h - 1)
      BY <1>2 DEF Climbs
    <2>3. g[h] = IF Len(g[h - 1]) = 1 THEN g[h - 1] ELSE LtreeLevel(g[h - 1], ltree, h - 1)
      BY <1>3 DEF Climbs
    <2> QED
      BY <2>1, <2>2, <2>3
  <1>6. Bad = {}
    <2> SUFFICES ASSUME Bad # {} PROVE FALSE
      OBVIOUS
    <2>1. Bad \in SUBSET Nat
      OBVIOUS
    <2>2. PICK m \in Bad : \A h \in Bad : m <= h
      BY <2>1, LeastNumber
    <2>3. m # 0
      <3>1. Fits(0, n)
        BY <1>4
      <3> QED
        BY <2>2, <3>1
    <2>4. m \in 1 .. n /\ m - 1 \in 0 .. n /\ m - 1 \notin Bad
      BY <2>1, <2>2, <2>3
    <2>5. PICK k \in Nat : Fits(m - 1, k)
      BY <2>4
    <2>6. CASE k = 1
      <3>1. Fits(m, 1)
        BY <1>5, <2>4, <2>5, <2>6
      <3> QED
        BY <2>2, <3>1
    <2>7. CASE k # 1
      <3>1. PICK j \in Nat : j = (k + 1) \div 2
        BY HalfUp
      <3>2. j > 0 /\ j <= k - 1
        BY <2>5, <2>7, <3>1, HalfUp
      <3>3. k <= n - (m - 1)
        BY <2>5, <2>7
      <3>4. j <= n - m
        BY <2>4, <3>2, <3>3
      <3>5. /\ f[m] = LtreeLevel(f[m - 1], ltree, m - 1)
            /\ g[m] = LtreeLevel(g[m - 1], ltree, m - 1)
        BY <1>5, <2>4, <2>5, <2>7
      <3>6. Row(f[m], j) /\ Row(g[m], j)
        BY <2>5, <3>1, <3>5, LevelRow
      <3>7. Fits(m, j)
        BY <3>2, <3>4, <3>6
      <3> QED
        BY <2>2, <3>7
    <2> QED
      BY <2>6, <2>7
  <1>7. f[n] = g[n]
    <2>1. PICK k \in Nat : Fits(n, k)
      BY <1>6
    <2>2. k = 1
      BY <2>1
    <2>3. \A i \in 1 .. 1 : f[n][i] = g[n][i]
      <3>1. f[n][1] = g[n][1]
        BY <1>2, <1>3
      <3>2. \A i \in 1 .. 1 : i = 1
        OBVIOUS
      <3> QED
        BY <3>1, <3>2
    <2> QED
      BY <2>1, <2>2, <2>3, RowEqual
  <1> DEFINE Meet == {h \in 0 .. n : f[h] = g[h]}
  <1>8. Meet # {} /\ Meet \in SUBSET Nat
    BY <1>7
  <1>9. PICK m \in Meet : \A h \in Meet : m <= h
    BY <1>8, LeastNumber
  <1>10. m = 0
    <2> SUFFICES ASSUME m # 0 PROVE FALSE
      OBVIOUS
    <2>1. m \in 1 .. n /\ m - 1 \in 0 .. n /\ m - 1 \notin Meet
      BY <1>8, <1>9
    <2>2. PICK k \in Nat : Fits(m - 1, k)
      BY <1>6, <2>1
    <2>3. Row(f[m - 1], k) /\ Row(g[m - 1], k)
      BY <2>2
    <2>4. f[m - 1] = g[m - 1]
      <3>1. CASE k = 1
        BY <1>5, <1>9, <2>1, <2>3, <3>1
      <3>2. CASE k # 1
        <4>1. LtreeLevel(f[m - 1], ltree, m - 1) = LtreeLevel(g[m - 1], ltree, m - 1)
          BY <1>5, <1>9, <2>1, <2>3, <3>2
        <4> QED
          BY <2>3, <4>1, LevelInjective
      <3> QED
        BY <3>1, <3>2
    <2> QED
      BY <2>1, <2>4
  <1> QED
    BY <1>4, <1>9, <1>10


-----------------------------------------------------------------------------
(* The hash tree.                                                          *)

LEMMA Pow2At ==
  /\ Pow2[0] = 1
  /\ \A k \in 0 .. Height : Pow2[k + 1] = 2 * Pow2[k]
  /\ \A k \in 0 .. Height + 1 : Pow2[k] \in Nat /\ Pow2[k] > 0
  <1> DEFINE Bad == {k \in 0 .. Height + 1 : ~(Pow2[k] \in Nat /\ Pow2[k] > 0)}
  <1>1. Pow2[0] = 1 /\ \A k \in 1 .. Height + 1 : Pow2[k] = 2 * Pow2[k - 1]
    BY Pow2Is
  <1>2. ASSUME NEW k \in 0 .. Height PROVE Pow2[k + 1] = 2 * Pow2[k]
    <2>1. k + 1 \in 1 .. Height + 1 /\ (k + 1) - 1 = k
      BY Sizes
    <2> QED
      BY <1>1, <2>1
  <1>3. Bad = {}
    <2> SUFFICES ASSUME Bad # {} PROVE FALSE
      OBVIOUS
    <2>1. Bad \in SUBSET Nat
      BY Sizes
    <2>2. PICK m \in Bad : \A k \in Bad : m <= k
      BY <2>1, LeastNumber
    <2>3. m # 0
      BY <1>1
    <2>4. m - 1 \in 0 .. Height + 1 /\ m - 1 \notin Bad /\ m \in 1 .. Height + 1
      BY <2>1, <2>2, <2>3, Sizes
    <2>5. PICK x \in Nat : x = Pow2[m - 1] /\ x > 0
      BY <2>4
    <2>6. Pow2[m] = 2 * x
      BY <1>1, <2>4, <2>5
    <2> QED
      BY <2>2, <2>5, <2>6
  <1> QED
    BY <1>1, <1>2, <1>3

LEMMA Pow2Mono ==
  ASSUME NEW a \in 0 .. Height + 1, NEW b \in 0 .. Height + 1, a <= b
  PROVE  Pow2[a] <= Pow2[b]
  <1> DEFINE Bad == {m \in 0 .. Height + 1 : a + m <= Height + 1 /\ ~(Pow2[a] <= Pow2[a + m])}
  <1>1. Bad = {}
    <2> SUFFICES ASSUME Bad # {} PROVE FALSE
      OBVIOUS
    <2>1. Bad \in SUBSET Nat
      BY Sizes
    <2>2. PICK m \in Bad : \A k \in Bad : m <= k
      BY <2>1, LeastNumber
    <2>3. m # 0
      BY Pow2At, Sizes
    <2>4. /\ m - 1 \in 0 .. Height + 1 /\ m - 1 \notin Bad /\ a + (m - 1) <= Height + 1
          /\ a + (m - 1) \in 0 .. Height /\ (a + (m - 1)) + 1 = a + m
          /\ a + (m - 1) \in 0 .. Height + 1
      BY <2>1, <2>2, <2>3, Sizes
    <2>5. PICK x \in Nat : x = Pow2[a + (m - 1)]
      BY <2>4, Pow2At
    <2>6. Pow2[a] <= x
      BY <2>4, <2>5
    <2>7. Pow2[a + m] = 2 * x
      BY <2>4, <2>5, Pow2At
    <2>8. Pow2[a] \in Nat
      BY Pow2At
    <2> QED
      BY <2>2, <2>6, <2>7, <2>8
  <1>2. b - a \in 0 .. Height + 1 /\ a + (b - a) = b /\ b <= Height + 1
    BY Sizes
  <1> QED
    BY <1>1, <1>2

\* A level begins where the ones below it end.
LEMMA LevelAtPow ==
  ASSUME NEW h \in 0 .. Height
  PROVE  LevelAt[h] = Pow2[Height + 1] - Pow2[Height - h + 1]
  <1> DEFINE Bad == {k \in 0 .. Height : LevelAt[k] # Pow2[Height + 1] - Pow2[Height - k + 1]}
  <1>1. PICK top \in Nat : top = Pow2[Height + 1]
    BY Pow2At, Sizes
  <1> SUFFICES ASSUME Bad # {} PROVE FALSE
    OBVIOUS
  <1>2. Bad \in SUBSET Nat
    BY Sizes
  <1>3. PICK m \in Bad : \A k \in Bad : m <= k
    BY <1>2, LeastNumber
  <1>4. m # 0
    <2>1. LevelAt[0] = 0 /\ Height - 0 + 1 = Height + 1
      BY LevelAtIs, Sizes
    <2>2. top - top = 0
      OBVIOUS
    <2> QED
      BY <1>1, <1>3, <2>1, <2>2
  <1>5. m \in 1 .. Height /\ m - 1 \in 0 .. Height /\ m - 1 \notin Bad
    BY <1>2, <1>3, <1>4, Sizes
  <1>6. PICK k \in 0 .. Height : k = Height - m + 1
    BY <1>5, Sizes
  <1>7. Height - (m - 1) + 1 = k + 1 /\ k \in 0 .. Height + 1
    BY <1>5, <1>6, Sizes
  <1>8. PICK x \in Nat : x = Pow2[k]
    BY <1>7, Pow2At
  <1>9. Pow2[k + 1] = 2 * x
    BY <1>8, Pow2At
  <1>10. LevelAt[m - 1] = top - 2 * x
    BY <1>1, <1>5, <1>7, <1>9
  <1>11. LevelAt[m] = LevelAt[m - 1] + x
    BY <1>5, <1>6, <1>8, LevelAtIs
  <1>12. LevelAt[m] = top - x
    BY <1>10, <1>11
  <1> QED
    BY <1>1, <1>3, <1>6, <1>8, <1>12

\* The nodes of a level.
LEMMA LevelsAt ==
  ASSUME NEW h \in 0 .. Height
  PROVE  /\ DOMAIN Levels[h] = 0 .. Pow2[Height - h] - 1
         /\ h = 0 => \A j \in 0 .. Pow2[Height] - 1 : Levels[0][j] = Leaf(j)
         /\ h > 0 => \A j \in 0 .. Pow2[Height - h] - 1 :
                        Levels[h][j] = randomized_hash(Levels[h - 1][2 * j], Levels[h - 1][2 * j + 1],
                                                       TreeAdrs(h - 1, j))
  <1>1. CASE h = 0
    <2>1. Levels[0] = [j \in 0 .. Pow2[Height] - 1 |-> Leaf(j)] /\ Height - 0 = Height
      BY LevelsIs, Sizes
    <2>2. /\ DOMAIN [j \in 0 .. Pow2[Height] - 1 |-> Leaf(j)] = 0 .. Pow2[Height] - 1
          /\ \A j \in 0 .. Pow2[Height] - 1 : [i \in 0 .. Pow2[Height] - 1 |-> Leaf(i)][j] = Leaf(j)
      OBVIOUS
    <2> QED
      BY <1>1, <2>1, <2>2
  <1>2. CASE h # 0
    <2>1. h \in 1 .. Height
      BY <1>2, Sizes
    <2> DEFINE low == Levels[h - 1]
               lev == [j \in 0 .. Pow2[Height - h] - 1 |->
                          randomized_hash(low[2 * j], low[2 * j + 1], TreeAdrs(h - 1, j))]
    <2>2. Levels[h] = lev
      BY <2>1, LevelsIs
    <2> HIDE DEF low
    <2>3. /\ DOMAIN lev = 0 .. Pow2[Height - h] - 1
          /\ \A j \in 0 .. Pow2[Height - h] - 1 :
                lev[j] = randomized_hash(low[2 * j], low[2 * j + 1], TreeAdrs(h - 1, j))
      OBVIOUS
    <2> HIDE DEF lev
    <2> QED
      BY <1>2, <2>2, <2>3 DEF low
  <1> QED
    BY <1>1, <1>2

\* Levels do not overlap in the array.
LEMMA LevelsApart ==
  ASSUME NEW l \in 0 .. Height, NEW h \in 0 .. Height, l < h, NEW p \in Int,
         p - LevelAt[l] \in DOMAIN Levels[l], p - LevelAt[h] \in DOMAIN Levels[h]
  PROVE  FALSE
  <1>1. PICK top \in Nat : top = Pow2[Height + 1]
    BY Pow2At, Sizes
  <1>2. PICK k \in 0 .. Height : k = Height - l
    BY Sizes
  <1>3. PICK g \in 0 .. Height : g = Height - h /\ g + 1 <= k
    BY <1>2, Sizes
  <1>4. Height - l + 1 = k + 1 /\ Height - h + 1 = g + 1 /\ k \in 0 .. Height + 1
        /\ g + 1 \in 0 .. Height + 1 /\ g \in 0 .. Height + 1
    BY <1>2, <1>3, Sizes
  <1>5. PICK x \in Nat : x = Pow2[k]
    BY <1>4, Pow2At
  <1>6. PICK y \in Nat : y = Pow2[g]
    BY <1>4, Pow2At
  <1>7. Pow2[k + 1] = 2 * x /\ Pow2[g + 1] = 2 * y
    BY <1>5, <1>6, Pow2At
  <1>8. 2 * y <= x
    BY <1>3, <1>4, <1>5, <1>7, Pow2Mono
  <1>9. LevelAt[l] = top - 2 * x /\ LevelAt[h] = top - 2 * y
    BY <1>1, <1>4, <1>7, LevelAtPow
  <1>10. p - LevelAt[l] \in 0 .. x - 1 /\ p - LevelAt[h] \in 0 .. y - 1
    BY <1>2, <1>3, <1>5, <1>6, LevelsAt
  <1>11. p <= top - 2 * x + x - 1
    BY <1>9, <1>10
  <1>12. p >= top - 2 * y
    BY <1>9, <1>10
  <1> QED
    BY <1>8, <1>11, <1>12

LEMMA TreeNode ==
  ASSUME NEW h \in 0 .. Height, NEW j \in 0 .. Pow2[Height - h] - 1
  PROVE  LevelAt[h] + j \in DOMAIN Tree /\ Tree[LevelAt[h] + j] = Levels[h][j]
  <1>1. PICK top \in Nat : top = Pow2[Height + 1]
    BY Pow2At, Sizes
  <1>2. PICK g \in 0 .. Height : g = Height - h
    BY Sizes
  <1>3. Height - h + 1 = g + 1 /\ g \in 0 .. Height + 1 /\ g + 1 \in 0 .. Height + 1
        /\ g + 1 <= Height + 1 /\ Height + 1 \in 0 .. Height + 1
    BY <1>2, Sizes
  <1>4. PICK x \in Nat : x = Pow2[g] /\ x > 0
    BY <1>3, Pow2At
  <1>5. Pow2[g + 1] = 2 * x
    BY <1>4, Pow2At
  <1>6. 2 * x <= top
    BY <1>1, <1>3, <1>5, Pow2Mono
  <1>7. LevelAt[h] = top - 2 * x
    BY <1>1, <1>3, <1>5, LevelAtPow
  <1>8. j \in 0 .. x - 1
    BY <1>2, <1>4
  <1>9. PICK p \in 0 .. top - 2 : p = LevelAt[h] + j
    BY <1>4, <1>6, <1>7, <1>8
  <1>10. p - LevelAt[h] = j /\ p \in Int
    BY <1>7, <1>8, <1>9
  <1>11. p - LevelAt[h] \in DOMAIN Levels[h]
    BY <1>10, LevelsAt
  <1> DEFINE l == CHOOSE m \in 0 .. Height : p - LevelAt[m] \in DOMAIN Levels[m]
  <1>12. l \in 0 .. Height /\ p - LevelAt[l] \in DOMAIN Levels[l]
    BY <1>11
  <1>13. DOMAIN Tree = 0 .. top - 2 /\ Tree[p] = Levels[l][p - LevelAt[l]]
    BY <1>1, <1>9 DEF Tree
  <1> HIDE DEF l
  <1>14. l = h
    <2>1. ~(l < h)
      BY <1>10, <1>11, <1>12, LevelsApart
    <2>2. ~(h < l)
      BY <1>10, <1>11, <1>12, LevelsApart
    <2> QED
      BY <1>12, <2>1, <2>2, Sizes
  <1> QED
    BY <1>9, <1>10, <1>13, <1>14

LEMMA RootNode == Root = Levels[Height][0]
  <1>1. Height \in 0 .. Height /\ Height - Height = 0 /\ Height - Height + 1 = 1
        /\ 0 + 1 = 1 /\ 0 \in 0 .. Height /\ Height + 1 \in 0 .. Height + 1
    BY Sizes
  <1>2. Pow2[0] = 1 /\ Pow2[1] = 2 /\ Pow2[Height + 1] \in Nat
    BY <1>1, Pow2At
  <1>3. LevelAt[Height] = Pow2[Height + 1] - 2
    BY <1>1, <1>2, LevelAtPow
  <1>4. 0 \in 0 .. Pow2[Height - Height] - 1
    BY <1>1, <1>2
  <1>5. LevelAt[Height] + 0 = Pow2[Height + 1] - 2
    BY <1>2, <1>3
  <1> QED
    BY <1>1, <1>4, <1>5, TreeNode DEF Root

LEMMA HalvesAt ==
  ASSUME NEW index \in Nat
  PROVE  /\ Halves(index)[0] = index
         /\ \A h \in 0 .. Height : Halves(index)[h] \in Nat
         /\ \A h \in 1 .. Height : Halves(index)[h] = Halves(index)[h - 1] \div 2
  <1> DEFINE s == Halves(index)
             Bad == {k \in 0 .. Height : s[k] \notin Nat}
  <1>1. s[0] = index /\ \A k \in 1 .. Height : s[k] = s[k - 1] \div 2
    BY HalvesIs
  <1> HIDE DEF s
  <1>2. Bad = {}
    <2> SUFFICES ASSUME Bad # {} PROVE FALSE
      OBVIOUS
    <2>1. Bad \in SUBSET Nat
      BY Sizes
    <2>2. PICK m \in Bad : \A k \in Bad : m <= k
      BY <2>1, LeastNumber
    <2>3. m # 0
      BY <1>1
    <2>4. m \in 1 .. Height /\ m - 1 \in 0 .. Height /\ m - 1 \notin Bad
      BY <2>1, <2>2, <2>3, Sizes
    <2>5. s[m - 1] \in Nat
      BY <2>4
    <2>6. s[m] = s[m - 1] \div 2
      BY <1>1, <2>4
    <2> QED
      BY <2>2, <2>5, <2>6
  <1> QED
    BY <1>1, <1>2 DEF s

\* The path of an index of the tree stays in the tree.
LEMMA HalvesWithin ==
  ASSUME NEW index \in Nat, index < Pow2[Height], NEW h \in 0 .. Height
  PROVE  Halves(index)[h] \in 0 .. Pow2[Height - h] - 1
  <1> DEFINE s == Halves(index)
             Bad == {k \in 0 .. Height : ~(s[k] < Pow2[Height - k])}
  <1>1. /\ s[0] = index /\ \A k \in 0 .. Height : s[k] \in Nat
        /\ \A k \in 1 .. Height : s[k] = s[k - 1] \div 2
    BY HalvesAt
  <1> HIDE DEF s
  <1>2. Bad = {}
    <2> SUFFICES ASSUME Bad # {} PROVE FALSE
      OBVIOUS
    <2>1. Bad \in SUBSET Nat
      BY Sizes
    <2>2. PICK m \in Bad : \A k \in Bad : m <= k
      BY <2>1, LeastNumber
    <2>3. m # 0
      <3>1. Height - 0 = Height
        BY Sizes
      <3> QED
        BY <1>1, <2>2, <3>1
    <2>4. m \in 1 .. Height /\ m - 1 \in 0 .. Height /\ m - 1 \notin Bad
      BY <2>1, <2>2, <2>3, Sizes
    <2>5. PICK g \in 0 .. Height : g = Height - m /\ Height - (m - 1) = g + 1
      BY <2>4, Sizes
    <2>6. g \in 0 .. Height + 1
      BY Sizes
    <2>7. PICK x \in Nat : x = Pow2[g]
      BY <2>6, Pow2At
    <2>8. Pow2[g + 1] = 2 * x
      BY <2>7, Pow2At
    <2>9. PICK a \in Nat : a = s[m - 1]
      BY <1>1, <2>4
    <2>10. a < 2 * x
      BY <2>4, <2>5, <2>8, <2>9
    <2>11. a \div 2 < x
      BY <2>10
    <2>12. s[m] = a \div 2
      BY <1>1, <2>4, <2>9
    <2> QED
      BY <2>2, <2>5, <2>7, <2>11, <2>12
  <1>3. Height - h \in 0 .. Height + 1
    BY Sizes
  <1>4. s[h] \in Nat /\ s[h] < Pow2[Height - h] /\ Pow2[Height - h] \in Nat
    BY <1>1, <1>2, <1>3, Pow2At
  <1>5. s[h] \in 0 .. Pow2[Height - h] - 1
    BY <1>4
  <1> QED
    BY <1>5 DEF s

\* A path that ends at the root began at an index of the tree.
LEMMA HalvesToRoot ==
  ASSUME NEW index \in Nat, Halves(index)[Height] = 0
  PROVE  index < Pow2[Height]
  <1> DEFINE s == Halves(index)
             Bad == {k \in 0 .. Height : ~(s[Height - k] < Pow2[k])}
  <1>1. /\ s[0] = index /\ \A k \in 0 .. Height : s[k] \in Nat
        /\ \A k \in 1 .. Height : s[k] = s[k - 1] \div 2
        /\ s[Height] = 0
    BY HalvesAt
  <1> HIDE DEF s
  <1>2. Bad = {}
    <2> SUFFICES ASSUME Bad # {} PROVE FALSE
      OBVIOUS
    <2>1. Bad \in SUBSET Nat
      BY Sizes
    <2>2. PICK m \in Bad : \A k \in Bad : m <= k
      BY <2>1, LeastNumber
    <2>3. m # 0
      <3>1. Height - 0 = Height
        BY Sizes
      <3> QED
        BY <1>1, <2>2, <3>1, Pow2At
    <2>4. m \in 1 .. Height /\ m - 1 \in 0 .. Height /\ m - 1 \notin Bad /\ (m - 1) + 1 = m
      BY <2>1, <2>2, <2>3, Sizes
    <2>5. PICK g \in 1 .. Height : g = Height - (m - 1) /\ Height - m = g - 1
      BY <2>4, Sizes
    <2>6. m - 1 \in 0 .. Height + 1
      BY <2>4, Sizes
    <2>7. PICK x \in Nat : x = Pow2[m - 1]
      BY <2>6, Pow2At
    <2>8. Pow2[m] = 2 * x
      BY <2>4, <2>7, Pow2At
    <2>9. PICK a \in Nat : a = s[g - 1]
      <3>1. g - 1 \in 0 .. Height
        BY <2>5, Sizes
      <3> QED
        BY <1>1, <3>1
    <2>10. s[g] = a \div 2
      BY <1>1, <2>9
    <2>11. a \div 2 < x
      BY <2>4, <2>5, <2>7, <2>10
    <2>12. a < 2 * x
      BY <2>11
    <2> QED
      BY <2>2, <2>5, <2>8, <2>9, <2>12
  <1>3. Height \in 0 .. Height /\ Height - Height = 0
    BY Sizes
  <1> QED
    BY <1>1, <1>2, <1>3


-----------------------------------------------------------------------------
(* The authentication path.                                                *)

\* Up from the right leaf, with the siblings the signer put in the path, the
\* verifier computes the nodes of the tree.
LEMMA PathAccepts ==
  ASSUME NEW i \in Nat, i < Pow2[Height], NEW wots, NEW d,
         build_ltree(sm3_wots_sig_to_pk(wots, d, i), i) = Leaf(i)
  PROVE  sm3_xmss_sig_to_root(wots, i, build_auth_path(i), d) = Root
  <1> DEFINE path == build_auth_path(i)
             s == Halves(i)
  <1>1. PICK f : /\ sm3_xmss_sig_to_root(wots, i, path, d) = f[Height]
                 /\ Ascends(f, wots, i, path, d)
    BY RootIs
  <1>2. /\ s[0] = i /\ \A h \in 1 .. Height : s[h] = s[h - 1] \div 2
        /\ \A h \in 0 .. Height : s[h] \in 0 .. Pow2[Height - h] - 1
    BY HalvesAt, HalvesWithin
  <1>3. \A h \in 0 .. Height - 1 : path[h] = TreeAt(LevelAt[h] + Sibling(s[h]))
    BY DEF build_auth_path
  <1>4. /\ f[0] = Leaf(i)
        /\ \A h \in 1 .. Height :
              f[h] = IF s[h - 1] % 2 = 1
                     THEN randomized_hash(path[h - 1], f[h - 1], TreeAdrs(h - 1, s[h]))
                     ELSE randomized_hash(f[h - 1], path[h - 1], TreeAdrs(h - 1, s[h]))
    BY <1>1 DEF Ascends
  <1> HIDE DEF path, s
  <1> DEFINE Bad == {h \in 0 .. Height : f[h] # Levels[h][s[h]]}
  <1>5. Bad = {}
    <2> SUFFICES ASSUME Bad # {} PROVE FALSE
      OBVIOUS
    <2>1. Bad \in SUBSET Nat
      BY Sizes
    <2>2. PICK m \in Bad : \A h \in Bad : m <= h
      BY <2>1, LeastNumber
    <2>3. m # 0
      <3>1. 0 \in 0 .. Height /\ Height - 0 = Height
        BY Sizes
      <3>2. i \in 0 .. Pow2[Height] - 1
        BY <1>2, <3>1
      <3>3. Levels[0][i] = Leaf(i)
        BY <3>1, <3>2, LevelsAt
      <3> QED
        BY <1>2, <1>4, <2>2, <3>3
    <2>4. /\ m \in 1 .. Height /\ m - 1 \in 0 .. Height /\ m - 1 \in 0 .. Height - 1
          /\ m - 1 \notin Bad /\ m \in 0 .. Height /\ m > 0
      BY <2>1, <2>2, <2>3, Sizes
    <2>5. f[m - 1] = Levels[m - 1][s[m - 1]]
      BY <2>4
    <2>6. PICK g \in 0 .. Height : g = Height - m /\ Height - (m - 1) = g + 1
      BY <2>4, Sizes
    <2>7. g \in 0 .. Height + 1
      BY Sizes
    <2>8. PICK x \in Nat : x = Pow2[g] /\ Pow2[g + 1] = 2 * x
      BY <2>7, Pow2At
    <2>9. PICK a \in Nat : a = s[m - 1] /\ a \in 0 .. 2 * x - 1
      BY <1>2, <2>4, <2>6, <2>8
    <2>10. PICK b \in Nat : b = s[m] /\ b = a \div 2 /\ b \in 0 .. x - 1
      BY <1>2, <2>4, <2>6, <2>8, <2>9
    <2>11. Levels[m][b] = randomized_hash(Levels[m - 1][2 * b], Levels[m - 1][2 * b + 1],
                                          TreeAdrs(m - 1, b))
      BY <2>4, <2>6, <2>8, <2>10, LevelsAt
    <2>12. path[m - 1] = TreeAt(LevelAt[m - 1] + Sibling(a))
      BY <1>3, <2>4, <2>9
    <2>13. \A j \in 0 .. 2 * x - 1 : TreeAt(LevelAt[m - 1] + j) = Levels[m - 1][j]
      <3> TAKE j \in 0 .. 2 * x - 1
      <3>1. j \in 0 .. Pow2[Height - (m - 1)] - 1
        BY <2>6, <2>8
      <3>2. LevelAt[m - 1] + j \in DOMAIN Tree /\ Tree[LevelAt[m - 1] + j] = Levels[m - 1][j]
        BY <2>4, <3>1, TreeNode
      <3> QED
        BY <3>2 DEF TreeAt
    <2>14. CASE a % 2 = 1
      <3>1. a = 2 * b + 1 /\ Sibling(a) = 2 * b /\ 2 * b \in 0 .. 2 * x - 1
        BY <2>9, <2>10, <2>14 DEF Sibling
      <3>2. path[m - 1] = Levels[m - 1][2 * b] /\ f[m - 1] = Levels[m - 1][2 * b + 1]
        BY <2>5, <2>9, <2>12, <2>13, <3>1
      <3>3. f[m] = randomized_hash(path[m - 1], f[m - 1], TreeAdrs(m - 1, b))
        BY <1>4, <2>4, <2>9, <2>10, <2>14
      <3> QED
        BY <2>2, <2>10, <2>11, <3>2, <3>3
    <2>15. CASE a % 2 = 0
      <3>1. a = 2 * b /\ Sibling(a) = 2 * b + 1 /\ 2 * b + 1 \in 0 .. 2 * x - 1
        <4>1. a = 2 * b
          BY <2>10, <2>15
        <4>2. Sibling(a) = a + 1
          BY <2>15 DEF Sibling
        <4>3. 2 * b + 1 \in 0 .. 2 * x - 1
          BY <2>10
        <4> QED
          BY <4>1, <4>2, <4>3
      <3>2. path[m - 1] = Levels[m - 1][2 * b + 1] /\ f[m - 1] = Levels[m - 1][2 * b]
        BY <2>5, <2>9, <2>12, <2>13, <3>1
      <3>3. f[m] = randomized_hash(f[m - 1], path[m - 1], TreeAdrs(m - 1, b))
        <4>1. ~(s[m - 1] % 2 = 1)
          BY <2>9, <2>15
        <4> QED
          BY <1>4, <2>4, <2>10, <4>1
      <3> QED
        BY <2>2, <2>10, <2>11, <3>2, <3>3
    <2>16. a % 2 = 0 \/ a % 2 = 1
      OBVIOUS
    <2> QED
      BY <2>14, <2>15, <2>16
  <1>6. Height \in 0 .. Height /\ Height - Height = 0
    BY Sizes
  <1>7. s[Height] \in 0 .. 1 - 1
    BY <1>2, <1>6, Pow2At
  <1>8. s[Height] = 0
    BY <1>7
  <1> QED
    BY <1>1, <1>5, <1>6, <1>8, RootNode DEF path

\* Whatever the path, only the leaf of the index itself leads to the root, and
\* no index past the tree does.
LEMMA PathRejects ==
  ASSUME NEW j \in Nat, NEW wots, NEW path, NEW e,
         sm3_xmss_sig_to_root(wots, j, path, e) = Root
  PROVE  /\ j < Pow2[Height]
         /\ build_ltree(sm3_wots_sig_to_pk(wots, e, j), j) = Leaf(j)
  <1> DEFINE s == Halves(j)
             leaf == build_ltree(sm3_wots_sig_to_pk(wots, e, j), j)
  <1>1. PICK f : /\ sm3_xmss_sig_to_root(wots, j, path, e) = f[Height]
                 /\ Ascends(f, wots, j, path, e)
    BY RootIs
  <1>2. /\ f[0] = leaf
        /\ \A h \in 1 .. Height :
              f[h] = IF s[h - 1] % 2 = 1
                     THEN randomized_hash(path[h - 1], f[h - 1], TreeAdrs(h - 1, s[h]))
                     ELSE randomized_hash(f[h - 1], path[h - 1], TreeAdrs(h - 1, s[h]))
    BY <1>1 DEF Ascends
  <1>3. f[Height] = Levels[Height][0]
    BY <1>1, RootNode
  <1>4. Height \in 1 .. Height /\ Height \in 0 .. Height /\ Height - Height = 0 /\ Height > 0
    BY Sizes
  <1>5. s[Height] = 0
    <2>1. 0 \in 0 .. Pow2[Height - Height] - 1
      BY <1>4, Pow2At
    <2>2. Levels[Height][0] = randomized_hash(Levels[Height - 1][2 * 0], Levels[Height - 1][2 * 0 + 1],
                                              TreeAdrs(Height - 1, 0))
      BY <1>4, <2>1, LevelsAt
    <2> HIDE DEF s
    <2>3. \E u, v : f[Height] = randomized_hash(u, v, TreeAdrs(Height - 1, s[Height]))
      BY <1>2, <1>4
    <2> QED
      BY <1>3, <2>2, <2>3, HInjective, TreeAdrsInjective
  <1>6. j < Pow2[Height]
    BY <1>5, HalvesToRoot
  <1>7. /\ s[0] = j /\ \A h \in 1 .. Height : s[h] = s[h - 1] \div 2
        /\ \A h \in 0 .. Height : s[h] \in 0 .. Pow2[Height - h] - 1
    BY <1>6, HalvesAt, HalvesWithin
  <1> HIDE DEF s, leaf
  <1> DEFINE Meet == {h \in 0 .. Height : f[h] = Levels[h][s[h]]}
  <1>8. Meet # {} /\ Meet \in SUBSET Nat
    BY <1>3, <1>4, <1>5, Sizes
  <1>9. PICK m \in Meet : \A h \in Meet : m <= h
    BY <1>8, LeastNumber
  <1>10. m = 0
    <2> SUFFICES ASSUME m # 0 PROVE FALSE
      OBVIOUS
    <2>1. /\ m \in 1 .. Height /\ m - 1 \in 0 .. Height /\ m - 1 \notin Meet
          /\ m \in 0 .. Height /\ m > 0
      BY <1>8, <1>9, Sizes
    <2>2. PICK a \in Nat : a = s[m - 1]
      <3>1. Height - (m - 1) \in 0 .. Height + 1
        BY <2>1, Sizes
      <3>2. Pow2[Height - (m - 1)] \in Nat
        BY <3>1, Pow2At
      <3> QED
        BY <1>7, <2>1, <3>2
    <2>3. PICK b \in Nat : b = s[m] /\ b = a \div 2
      BY <1>7, <2>1, <2>2
    <2>4. Levels[m][b] = randomized_hash(Levels[m - 1][2 * b], Levels[m - 1][2 * b + 1],
                                         TreeAdrs(m - 1, b))
      BY <1>7, <2>1, <2>3, LevelsAt
    <2>5. f[m] = Levels[m][b]
      BY <1>9, <2>3
    <2>6. CASE a % 2 = 1
      <3>1. f[m] = randomized_hash(path[m - 1], f[m - 1], TreeAdrs(m - 1, b))
        BY <1>2, <2>1, <2>2, <2>3, <2>6
      <3>2. f[m - 1] = Levels[m - 1][2 * b + 1]
        BY <2>4, <2>5, <3>1, HInjective
      <3>3. a = 2 * b + 1
        BY <2>3, <2>6
      <3> QED
        BY <2>1, <2>2, <3>2, <3>3
    <2>7. CASE a % 2 = 0
      <3>1. f[m] = randomized_hash(f[m - 1], path[m - 1], TreeAdrs(m - 1, b))
        <4>1. ~(s[m - 1] % 2 = 1)
          BY <2>2, <2>7
        <4> QED
          BY <1>2, <2>1, <2>3, <4>1
      <3>2. f[m - 1] = Levels[m - 1][2 * b]
        BY <2>4, <2>5, <3>1, HInjective
      <3>3. a = 2 * b
        BY <2>3, <2>7
      <3> QED
        BY <2>1, <2>2, <3>2, <3>3
    <2>8. a % 2 = 0 \/ a % 2 = 1
      OBVIOUS
    <2> QED
      BY <2>6, <2>7, <2>8
  <1>11. leaf = Leaf(j)
    <2>1. 0 \in 0 .. Height /\ Height - 0 = Height
      BY Sizes
    <2>2. j \in 0 .. Pow2[Height] - 1
      BY <1>7, <2>1
    <2>3. Levels[0][j] = Leaf(j)
      BY <2>1, <2>2, LevelsAt
    <2> QED
      BY <1>2, <1>7, <1>9, <1>10, <2>3
  <1> QED
    BY <1>6, <1>11 DEF leaf

\* A signature made with an index of the tree leads to the root for its own
\* index and digest, and for no others.
LEMMA RootExact ==
  ASSUME NEW i \in Nat, i < Pow2[Height], NEW j \in Nat, NEW d \in Digests, NEW e \in Digests
  PROVE  sm3_xmss_sig_to_root(sm3_wots_do_sign(sm3_wots_derive_sk(i), i, d), j, build_auth_path(i), e)
            = Root
         <=> j = i /\ e = d
  <1> DEFINE wots == sm3_wots_do_sign(sm3_wots_derive_sk(i), i, d)
  <1>1. ASSUME j = i, e = d
        PROVE  sm3_xmss_sig_to_root(wots, i, build_auth_path(i), d) = Root
    <2>1. build_ltree(sm3_wots_sig_to_pk(wots, d, i), i) = Leaf(i)
      BY WotsAccepts DEF Leaf
    <2> QED
      BY <2>1, PathAccepts
  <1>2. ASSUME sm3_xmss_sig_to_root(wots, j, build_auth_path(i), e) = Root
        PROVE  j = i /\ e = d
    <2> DEFINE p == sm3_wots_sig_to_pk(wots, e, j)
               q == sm3_wots_derive_pk(sm3_wots_derive_sk(j), j)
    <2>1. build_ltree(p, j) = build_ltree(q, j)
      BY <1>2, PathRejects DEF Leaf
    <2>2. PICK n \in Nat : n = Len1 + Len2 /\ n > 0 /\ Chains = 1 .. n
      BY Sizes DEF Chains
    <2>3. Row(p, n)
      <3> DEFINE N(c) == wots_chain(wots[c], base_w_and_checksum(e)[c],
                                    W - 1 - base_w_and_checksum(e)[c], j, c)
      <3>1. p = [c \in 1 .. n |-> N(c)]
        BY <2>2 DEF sm3_wots_sig_to_pk
      <3> HIDE DEF N, p
      <3>2. p \in [1 .. n -> {N(c) : c \in 1 .. n}]
        BY <3>1
      <3> QED
        BY <3>2 DEF Row
    <2>4. Row(q, n)
      <3> DEFINE N(c) == wots_chain(sm3_wots_derive_sk(j)[c], 0, W - 1, j, c)
      <3>1. q = [c \in 1 .. n |-> N(c)]
        BY <2>2 DEF sm3_wots_derive_pk
      <3> HIDE DEF N, q
      <3>2. q \in [1 .. n -> {N(c) : c \in 1 .. n}]
        BY <3>1
      <3> QED
        BY <3>2 DEF Row
    <2>5. p = q
      <3> HIDE DEF p, q
      <3> QED
        BY <2>1, <2>2, <2>3, <2>4, LtreeInjective
    <2> QED
      BY <2>5, WotsRejects
  <1> QED
    BY <1>1, <1>2

-----------------------------------------------------------------------------
(* The life of a key.                                                      *)

\* What a signature and a verdict are, whichever key they were made with.
SignedInv ==
    /\ key \in [index : -1 .. Pow2[Height]]
    /\ file \in -1 .. Pow2[Height]
    /\ sig # None =>
          /\ sig.index \in 0 .. Pow2[Height] /\ sig.digest \in Digests
          /\ sig.wots = sm3_wots_do_sign(sm3_wots_derive_sk(sig.index), sig.index, sig.digest)
          /\ sig.path = build_auth_path(sig.index)
    /\ verdict # None =>
          /\ sig # None
          /\ verdict.index \in 0 .. Pow2[Height] /\ verdict.digest \in Digests
          /\ verdict.ok = (sm3_xmss_sig_to_root(sig.wots, verdict.index, sig.path, verdict.digest)
                              = Root)

LEMMA SignedInit == Init => SignedInv
  <1>1. Height \in 0 .. Height + 1 /\ -1 \in Int
    BY Sizes
  <1>2. Pow2[Height] \in Nat /\ Pow2[Height] > 0
    BY <1>1, Pow2At
  <1> QED
    BY <1>2 DEF Init, SignedInv, None

LEMMA SignedStep == SignedInv /\ [Next]_vars => SignedInv'
  <1> SUFFICES ASSUME SignedInv, [Next]_vars PROVE SignedInv'
    OBVIOUS
  <1>1. PICK top \in Nat : top = Pow2[Height] /\ top > 0
    <2>1. Height \in 0 .. Height + 1
      BY Sizes
    <2> QED
      BY <2>1, Pow2At
  <1>2. key # None => key.index \in 0 .. top
    <2>1. key = [index |-> key.index] /\ key.index \in -1 .. top
      BY <1>1 DEF SignedInv
    <2> QED
      BY <2>1 DEF None
  <1>3. CASE sm3_xmss_key_generate
    BY <1>1, <1>3 DEF SignedInv, sm3_xmss_key_generate
  <1>4. CASE sm3_xmss_sign
    <2>1. PICK digest \in Digests :
            sig' = [index |-> key.index, digest |-> digest,
                    wots |-> sm3_wots_do_sign(sm3_wots_derive_sk(key.index), key.index, digest),
                    path |-> build_auth_path(key.index)]
      BY <1>4 DEF sm3_xmss_sign
    <2>2. key # None /\ verdict' = None /\ UNCHANGED <<key, file>>
      BY <1>4 DEF sm3_xmss_sign
    <2>3. /\ sig'.index = key.index /\ sig'.digest = digest
          /\ sig'.wots = sm3_wots_do_sign(sm3_wots_derive_sk(key.index), key.index, digest)
          /\ sig'.path = build_auth_path(key.index)
      BY <2>1
    <2>4. sig'.index \in 0 .. top
      BY <1>2, <2>2, <2>3
    <2> QED
      BY <1>1, <2>2, <2>3, <2>4 DEF SignedInv
  <1>5. CASE NextIndex
    BY <1>1, <1>2, <1>5 DEF SignedInv, NextIndex
  <1>6. CASE sm3_xmss_key_to_bytes
    BY <1>1, <1>2, <1>6 DEF SignedInv, sm3_xmss_key_to_bytes
  <1>7. CASE sm3_xmss_key_cleanup
    BY <1>1, <1>7 DEF SignedInv, sm3_xmss_key_cleanup, None
  <1>8. CASE sm3_xmss_key_from_bytes
    BY <1>1, <1>8 DEF SignedInv, sm3_xmss_key_from_bytes
  <1>9. CASE sm3_xmss_verify
    <2>1. PICK index \in 0 .. Pow2[Height], digest \in Digests :
            verdict' = [index |-> index, digest |-> digest,
                        ok |-> sm3_xmss_sig_to_root(sig.wots, index, sig.path, digest) = Root]
      BY <1>9 DEF sm3_xmss_verify
    <2>2. sig # None /\ UNCHANGED <<key, file, sig>>
      BY <1>9 DEF sm3_xmss_verify
    <2>3. /\ verdict'.index = index /\ verdict'.digest = digest
          /\ verdict'.ok = (sm3_xmss_sig_to_root(sig.wots, index, sig.path, digest) = Root)
      BY <2>1
    <2> QED
      BY <2>2, <2>3 DEF SignedInv
  <1>10. CASE UNCHANGED vars
    BY <1>10 DEF SignedInv, vars
  <1> QED
    BY <1>3, <1>4, <1>5, <1>6, <1>7, <1>8, <1>9, <1>10 DEF Next

LEMMA Signed == Spec => []SignedInv
  BY SignedInit, SignedStep, PTL DEF Spec

\* The key, the key file, the signature and the verdict keep their types for
\* every base, number of digits and height, the index past the last one-time
\* key included.
THEOREM TypeCorrect == Spec => []TypeOK
  <1>1. SignedInv => TypeOK
    <2> SUFFICES ASSUME SignedInv PROVE TypeOK
      OBVIOUS
    <2>1. key.index \in -1 .. Pow2[Height] /\ file \in -1 .. Pow2[Height]
      BY DEF SignedInv
    <2>2. sig # None => sig.digest \in Digests /\ DOMAIN sig.wots = Chains
      BY DEF SignedInv, sm3_wots_do_sign
    <2>3. verdict # None => verdict.ok \in BOOLEAN
      BY DEF SignedInv
    <2> QED
      BY <2>1, <2>2, <2>3 DEF TypeOK
  <1> QED
    BY <1>1, Signed, PTL

\* sm3_xmss_verify accepts a signature made with an index of the tree for its
\* own digest and index, and for no others: for every base, every number of
\* digits and every height.
THEOREM VerifiesExactlyCorrect == Spec => []VerifiesExactly
  <1>1. SignedInv => VerifiesExactly
    <2> SUFFICES ASSUME SignedInv, verdict # None, sig.index < Pow2[Height]
                 PROVE  verdict.ok = (verdict.index = sig.index /\ verdict.digest = sig.digest)
      BY DEF VerifiesExactly
    <2>1. /\ sig # None /\ sig.digest \in Digests /\ verdict.digest \in Digests
          /\ sig.index \in 0 .. Pow2[Height] /\ verdict.index \in 0 .. Pow2[Height]
      BY DEF SignedInv
    <2>2. sig.index \in Nat /\ verdict.index \in Nat
      <3>1. Height \in 0 .. Height + 1
        BY Sizes
      <3>2. Pow2[Height] \in Nat
        BY <3>1, Pow2At
      <3> QED
        BY <2>1, <3>2
    <2>3. /\ sig.wots = sm3_wots_do_sign(sm3_wots_derive_sk(sig.index), sig.index, sig.digest)
          /\ sig.path = build_auth_path(sig.index)
          /\ verdict.ok = (sm3_xmss_sig_to_root(sig.wots, verdict.index, sig.path, verdict.digest)
                              = Root)
      BY <2>1 DEF SignedInv
    <2>4. sm3_xmss_sig_to_root(sig.wots, verdict.index, sig.path, verdict.digest) = Root
            <=> verdict.index = sig.index /\ verdict.digest = sig.digest
      BY <2>1, <2>2, <2>3, RootExact
    <2> QED
      BY <2>3, <2>4
  <1> QED
    BY <1>1, Signed, PTL

\* base_w_and_checksum makes every other digest need a value earlier in some
\* chain than the one the signature discloses, whatever the base and the number
\* of digits, as long as the largest checksum fits in its digits.
THEOREM OtherDigestNeedsEarlierCorrect == Spec => []OtherDigestNeedsEarlier
  <1>1. SignedInv => OtherDigestNeedsEarlier
    <2> SUFFICES ASSUME SignedInv, sig # None, NEW digest \in Digests \ {sig.digest}
                 PROVE  \E i \in Chains :
                            base_w_and_checksum(digest)[i] < base_w_and_checksum(sig.digest)[i]
      BY DEF OtherDigestNeedsEarlier
    <2>1. sig.digest \in Digests
      BY DEF SignedInv
    <2> QED
      BY <2>1, SomeDigitBelow
  <1> QED
    BY <1>1, Signed, PTL


=============================================================================
