------------------------------ MODULE Sm2Sign ------------------------------
(***************************************************************************)
(* The arithmetic of SM2 signatures (src/src/sm2_sign.c): sm2_do_sign with *)
(* its retries, the two halves of the fast path of SM2_SIGN_CTX, and both  *)
(* verifications.                                                          *)
(*                                                                         *)
(* The curve is a cyclic group of prime order N: the point [k]G is k, the  *)
(* point at infinity 0, and a curve is the function that gives the         *)
(* x-coordinate of a point, the same for k and -k.  All else is arithmetic *)
(* on words below Word (2^256) as the code has it, Montgomery factors      *)
(* included.                                                               *)
(***************************************************************************)
EXTENDS Integers

CONSTANTS
    N,     \* sm2_z256_order()
    Word   \* 2^256

\* A word is reduced by at most one subtraction.
ASSUME Sm2Assumption ==
    /\ N \in Nat /\ N > 3 /\ \A a \in 2 .. N - 1 : N % a # 0
    /\ Word \in Nat /\ N < Word /\ Word < 2 * N

VARIABLES
    curve,  \* the x-coordinate of every point
    d,      \* private_key
    sig     \* the last signature: who made it, from which nonce and digest

vars == <<curve, d, sig>>

-----------------------------------------------------------------------------
(* Words and residues.                                                     *)

Reduce(a) == IF a >= N THEN a - N ELSE a

modn_add(a, b) == (a + b) % N
modn_sub(a, b) == (a - b) % N
modn_inv(a) == CHOOSE b \in 1 .. N - 1 : (a * b) % N = 1

\* The Montgomery factor 2^256 mod n.
R == Word % N
modn_to_mont(a) == (a * R) % N
modn_mont_mul(a, b) == (a * b * modn_inv(R)) % N
modn_mont_inv(a) == (modn_inv(a) * R * R) % N

\* Points.
point_mul_generator(k) == k % N
point_mul(k, point) == (k * point) % N
point_add(p, q) == (p + q) % N
point_get_x(p) == IF p = 0 THEN 0 ELSE curve[p]

-----------------------------------------------------------------------------
(* Signing.                                                                *)

\* r = e + x (mod n), for the nonce k.
RFor(e, k) == modn_add(Reduce(e), Reduce(point_get_x(point_mul_generator(k))))

\* s = (1 + d)^-1 (k - r d)
SFor(r, k) ==
    LET d_inv == modn_mont_inv(modn_to_mont(modn_add(d, 1)))
        t     == modn_mont_mul(modn_to_mont(r), d)
    IN modn_mont_mul(d_inv, modn_sub(k, t))

\* Mutant: only r = 0 makes sm2_do_sign take another nonce.
MustRetryR(r, s, k) == r = 0

\* What makes sm2_do_sign take another nonce.
MustRetry(r, s, k) == r = 0 \/ (r + k) % Word = N \/ s = 0

sm2_do_sign(e, k) ==
    LET r == RFor(e, k)
        s == SFor(r, k)
    IN [by |-> "do_sign", k |-> k, e |-> e, r |-> r, s |-> s]

\* d' = (d + 1)^-1
sm2_fast_sign_compute_key == modn_inv(modn_add(d, 1))

\* What is kept for a nonce: k and x mod n.
sm2_fast_sign_pre_compute(k) ==
    [k |-> k, x1_modn |-> Reduce(point_get_x(point_mul_generator(k)))]

\* Mutant: the last subtraction is forgotten.
FastSignNoSub(pre_comp, e) ==
    LET r == modn_add(Reduce(e), pre_comp.x1_modn)
        s == modn_mont_mul(modn_to_mont(modn_add(pre_comp.k, r)), sm2_fast_sign_compute_key)
    IN [by |-> "fast_sign", k |-> pre_comp.k, e |-> e, r |-> r, s |-> s]

\* s = (k + r) d' - r, without a look at r and s.
sm2_fast_sign(pre_comp, e) ==
    LET r == modn_add(Reduce(e), pre_comp.x1_modn)
        s == modn_mont_mul(modn_to_mont(modn_add(pre_comp.k, r)), sm2_fast_sign_compute_key)
    IN [by |-> "fast_sign", k |-> pre_comp.k, e |-> e, r |-> r, s |-> modn_sub(s, r)]

-----------------------------------------------------------------------------
(* Verification, with the table of the public key or without.              *)

InRange(a) == a # 0 /\ a < N

sm2_do_verify(r, s, e) ==
    LET t == modn_add(r, s)
        q == point_add(point_mul_generator(s), point_mul(t, point_mul_generator(d)))
    IN /\ InRange(r) /\ InRange(s) /\ t # 0
       /\ modn_add(Reduce(e), Reduce(point_get_x(q))) = r

-----------------------------------------------------------------------------
\* Mirror images have one x-coordinate, other points have different ones.
Curves ==
    LET half == 1 .. (N - 1) \div 2
    IN {[k \in 1 .. N - 1 |-> x[IF k \in half THEN k ELSE N - k]] :
            x \in {y \in [half -> 0 .. Word - 1] :
                      \A i, j \in half : y[i] = y[j] => i = j}}

None == [by |-> "nobody"]

\* sm2_key_generate: d in [1, n-2]
Init ==
    /\ curve \in Curves
    /\ d \in 1 .. N - 2
    /\ sig = None

\* The loop ends at a nonce that needs no retry.
Sign ==
    /\ sig = None
    /\ \E e \in 0 .. Word - 1, k \in 1 .. N - 1 :
        /\ sig' = sm2_do_sign(e, k)
        /\ ~MustRetry(sig'.r, sig'.s, k)
    /\ UNCHANGED <<curve, d>>

FastSign ==
    /\ sig = None
    /\ \E e \in 0 .. Word - 1, k \in 1 .. N - 1 :
        sig' = sm2_fast_sign(sm2_fast_sign_pre_compute(k), e)
    /\ UNCHANGED <<curve, d>>

\* The signature is out; the next one has nothing to do with it.
Signed == sig # None /\ sig' = None /\ UNCHANGED <<curve, d>>

Next == Sign \/ FastSign \/ Signed

Spec == Init /\ [][Next]_vars

-----------------------------------------------------------------------------
(* Properties.                                                             *)

TypeOK ==
    /\ curve \in [1 .. N - 1 -> 0 .. Word - 1]
    /\ d \in 1 .. N - 2
    /\ sig # None => sig.r \in 0 .. N - 1 /\ sig.s \in 0 .. N - 1

\* What sm2_do_sign puts out is accepted for its digest and for the ones
\* congruent to it, and for no other digest, digests and x-coordinates above n
\* included.
SignatureVerifies ==
    sig.by = "do_sign" =>
        \A e \in 0 .. Word - 1 :
            sm2_do_verify(sig.r, sig.s, e) <=> Reduce(e) = Reduce(sig.e)

\* The fast path gives what sm2_do_sign gives for the same nonce, wherever
\* sm2_do_sign would use that nonce.
FastAgrees ==
    sig.by = "fast_sign" =>
        LET slow == sm2_do_sign(sig.e, sig.k)
        IN ~MustRetry(slow.r, slow.s, sig.k) => <<sig.r, sig.s>> = <<slow.r, slow.s>>

\* What the fast path puts out is accepted.  (Not so where sm2_do_sign retries.)
FastVerifies == sig.by = "fast_sign" => sm2_do_verify(sig.r, sig.s, sig.e)
=============================================================================
