-------------------------------- MODULE Xmss --------------------------------
(***************************************************************************)
(* XMSS signatures (src/src/sm3_xmss.c): WOTS+ chains with a checksum, the *)
(* L-tree that compresses a WOTS+ public key, the hash tree over all of    *)
(* them, the authentication path, and the life of a key whose index says   *)
(* which one-time key is next.                                             *)
(*                                                                         *)
(* A hash value is the term that was hashed, together with the address its *)
(* key and its bitmasks are derived from: two values are equal only if     *)
(* they were computed alike.                                               *)
(***************************************************************************)
EXTENDS Integers, Sequences

CONSTANTS
    W,       \* w, 16
    Len1,    \* digits of a digest, 64
    Len2,    \* digits of the checksum, 3
    Height   \* of the hash tree: 10, 16 or 20

\* What is left of n when 0, 1, ... Len2 digits are shifted out of it.
Shifts(n) == LET rest[k \in 0 .. Len2] == IF k = 0 THEN n ELSE rest[k - 1] \div W
             IN rest

\* The largest checksum fits in its digits (base_w_and_checksum).
ASSUME XmssAssumption ==
    /\ W \in Nat \ {0, 1} /\ Len1 \in Nat \ {0} /\ Len2 \in Nat \ {0}
    /\ Height \in Nat \ {0, 1}
    /\ Shifts(Len1 * (W - 1))[Len2] = 0

VARIABLES
    key,      \* SM3_XMSS_KEY: whether it is there, and its index
    file,     \* the index in the key file sm3_xmss_key_to_bytes has filled
    sig,      \* the last SM3_XMSS_SIGNATURE, and the digest it was made for
    verdict   \* the last answer of sm3_xmss_verify_finish, and what was asked

vars == <<key, file, sig, verdict>>

Chains == 1 .. Len1 + Len2
Digests == [1 .. Len1 -> 0 .. W - 1]

-----------------------------------------------------------------------------
(* Addresses and hashes.                                                   *)

\* adrs_set_type and the words that follow it.
OtsAdrs(ots, chain, hash) == <<0, ots, chain, hash>>
LtreeAdrs(ltree, height, index) == <<1, ltree, height, index>>
TreeAdrs(height, index) == <<2, 0, height, index>>

prf_keygen(adrs) == [op |-> "prf_keygen", adrs |-> adrs, args |-> <<>>]
hash256_f(adrs, x) == [op |-> "f", adrs |-> adrs, args |-> <<x>>]
randomized_hash(left, right, adrs) == [op |-> "h", adrs |-> adrs, args |-> <<left, right>>]

-----------------------------------------------------------------------------
(* WOTS+.                                                                  *)

\* Mutant: the checksum grows with the digits.
CsumUp(digest) ==
    LET csum[i \in 0 .. Len1] == IF i = 0 THEN 0 ELSE csum[i - 1] + digest[i]
    IN csum[Len1]

\* The sum over the digits of what they lack to w - 1.
Csum(digest) ==
    LET csum[i \in 0 .. Len1] == IF i = 0 THEN 0 ELSE csum[i - 1] + (W - 1 - digest[i])
    IN csum[Len1]

\* The digits of the digest, then the ones of the checksum, highest first.
base_w_and_checksum(digest) ==
    [i \in Chains |->
        IF i <= Len1 THEN digest[i]
        ELSE Shifts(Csum(digest))[Len1 + Len2 - i] % W]

\* Mutant: the hash address starts again at 0 wherever the chain is entered.
WotsChainFromZero(x, start, steps, ots, chain) ==
    LET state[i \in 0 .. steps] ==
            IF i = 0 THEN x
            ELSE hash256_f(OtsAdrs(ots, chain, i - 1), state[i - 1])
    IN state[steps]

\* steps applications of the chain function, from position start on.
wots_chain(x, start, steps, ots, chain) ==
    LET state[i \in 0 .. steps] ==
            IF i = 0 THEN x
            ELSE hash256_f(OtsAdrs(ots, chain, start + i - 1), state[i - 1])
    IN state[steps]

sm3_wots_derive_sk(ots) == [i \in Chains |-> prf_keygen(OtsAdrs(ots, i, 0))]

sm3_wots_derive_pk(sk, ots) == [i \in Chains |-> wots_chain(sk[i], 0, W - 1, ots, i)]

sm3_wots_do_sign(sk, ots, digest) ==
    [i \in Chains |-> wots_chain(sk[i], 0, base_w_and_checksum(digest)[i], ots, i)]

sm3_wots_sig_to_pk(wots, digest, ots) ==
    LET msg == base_w_and_checksum(digest)
    IN [i \in Chains |-> wots_chain(wots[i], msg[i], W - 1 - msg[i], ots, i)]

-----------------------------------------------------------------------------
(* Trees.                                                                  *)

\* One level of the L-tree: neighbours are hashed, the odd one out moves up.
LtreeLevel(pk, ltree, height) ==
    [i \in 1 .. (Len(pk) + 1) \div 2 |->
        IF 2 * i <= Len(pk)
        THEN randomized_hash(pk[2 * i - 1], pk[2 * i], LtreeAdrs(ltree, height, i - 1))
        ELSE pk[Len(pk)]]

\* Levels until one node is left.
build_ltree(pk, ltree) ==
    LET level[h \in 0 .. Len(pk)] ==
            IF h = 0 THEN pk
            ELSE IF Len(level[h - 1]) = 1 THEN level[h - 1]
            ELSE LtreeLevel(level[h - 1], ltree, h - 1)
    IN level[Len(pk)][1]

\* 1 << k
Pow2[k \in 0 .. Height + 1] == IF k = 0 THEN 1 ELSE 2 * Pow2[k - 1]

\* Where level h of the hash tree begins in the array.
LevelAt[h \in 0 .. Height] ==
    IF h = 0 THEN 0 ELSE LevelAt[h - 1] + Pow2[Height - h + 1]

\* sm3_xmss_derive_root: the leaves, then the levels above them, in one array.
Leaf(i) == build_ltree(sm3_wots_derive_pk(sm3_wots_derive_sk(i), i), i)

Levels[h \in 0 .. Height] ==
    IF h = 0 THEN [i \in 0 .. Pow2[Height] - 1 |-> Leaf(i)]
    ELSE [i \in 0 .. Pow2[Height - h] - 1 |->
             randomized_hash(Levels[h - 1][2 * i], Levels[h - 1][2 * i + 1],
                             TreeAdrs(h - 1, i))]

Tree ==
    [p \in 0 .. Pow2[Height + 1] - 2 |->
        LET h == CHOOSE l \in 0 .. Height : p - LevelAt[l] \in DOMAIN Levels[l]
        IN Levels[h][p - LevelAt[h]]]

Root == Tree[Pow2[Height + 1] - 2]

\* What lies at place p, past the end of the array something else.
TreeAt(p) == IF p \in DOMAIN Tree THEN Tree[p] ELSE [op |-> "other", adrs |-> <<>>, args |-> <<>>]

\* index ^ 1
Sibling(i) == IF i % 2 = 0 THEN i + 1 ELSE i - 1

\* index >> 0, 1, ... Height
Halves(index) == LET half[h \in 0 .. Height] == IF h = 0 THEN index ELSE half[h - 1] \div 2
                 IN half

\* The sibling on every level.
build_auth_path(index) ==
    [h \in 0 .. Height - 1 |-> TreeAt(LevelAt[h] + Sibling(Halves(index)[h]))]

sm3_xmss_sig_to_root(wots, index, path, digest) ==
    LET leaf == build_ltree(sm3_wots_sig_to_pk(wots, digest, index), index)
        node[h \in 0 .. Height] ==
            IF h = 0 THEN leaf
            ELSE LET adrs == TreeAdrs(h - 1, Halves(index)[h])
                 IN IF Halves(index)[h - 1] % 2 = 1
                    THEN randomized_hash(path[h - 1], node[h - 1], adrs)
                    ELSE randomized_hash(node[h - 1], path[h - 1], adrs)
    IN node[Height]

-----------------------------------------------------------------------------
(* The life of a key.                                                      *)

None == [index |-> -1]

Init ==
    /\ key = None /\ file = -1
    /\ sig = None /\ verdict = None

sm3_xmss_key_generate ==
    /\ key = None
    /\ key' = [index |-> 0]
    /\ UNCHANGED <<file, sig, verdict>>

\* sm3_xmss_sign_init, _update and _finish: the index is not looked at, the tree
\* is read at whatever place it gives.  H_msg of index and message is any digest.
sm3_xmss_sign ==
    /\ key # None
    /\ \E digest \in Digests :
        sig' = [index |-> key.index, digest |-> digest,
                wots |-> sm3_wots_do_sign(sm3_wots_derive_sk(key.index), key.index, digest),
                path |-> build_auth_path(key.index)]
    /\ verdict' = None
    /\ UNCHANGED <<key, file>>

\* The caller moves on to the next one-time key, as tests/sm3_xmsstest.c does.
NextIndex ==
    /\ key # None
    /\ sig # None /\ sig.index = key.index
    /\ key.index < Pow2[Height]
    /\ key' = [index |-> key.index + 1]
    /\ UNCHANGED <<file, sig, verdict>>

sm3_xmss_key_to_bytes ==
    /\ key # None /\ file # key.index
    /\ file' = key.index
    /\ UNCHANGED <<key, sig, verdict>>

\* The process ends; a later one reads the key file.
sm3_xmss_key_cleanup ==
    /\ key # None
    /\ key' = None
    /\ UNCHANGED <<file, sig, verdict>>

KeyReadable == file < Pow2[Height]

sm3_xmss_key_from_bytes ==
    /\ key = None /\ file # -1
    /\ KeyReadable
    /\ key' = [index |-> file]
    /\ UNCHANGED <<file, sig, verdict>>

\* The signature is checked for some message, with the index it carries or with
\* another one put in its place.  H_msg covers index and message, so that every
\* index comes with any digest.  One verdict per signature is enough, since none
\* depends on another.
sm3_xmss_verify ==
    /\ sig # None /\ verdict = None
    /\ \E index \in 0 .. Pow2[Height], digest \in Digests :
        verdict' = [index |-> index, digest |-> digest,
                    ok |-> sm3_xmss_sig_to_root(sig.wots, index, sig.path, digest) = Root]
    /\ UNCHANGED <<key, file, sig>>

Next == \/ sm3_xmss_key_generate
        \/ sm3_xmss_sign
        \/ NextIndex
        \/ sm3_xmss_key_to_bytes
        \/ sm3_xmss_key_cleanup
        \/ sm3_xmss_key_from_bytes
        \/ sm3_xmss_verify

Spec == Init /\ [][Next]_vars

-----------------------------------------------------------------------------
(* Properties.                                                             *)

TypeOK ==
    /\ key.index \in -1 .. Pow2[Height]
    /\ file \in -1 .. Pow2[Height]
    /\ sig # None => sig.digest \in Digests /\ DOMAIN sig.wots = Chains
    /\ verdict # None => verdict.ok \in BOOLEAN

\* A signature made with an index of the tree verifies for its own digest and
\* index, and for no others: the verifier walks the chains, the L-tree and the
\* path with the addresses the signer used.
VerifiesExactly ==
    verdict # None /\ sig.index < Pow2[Height] =>
        verdict.ok = (verdict.index = sig.index /\ verdict.digest = sig.digest)

\* The checksum makes every other digest need a value earlier in some chain than
\* the one the signature discloses.
OtherDigestNeedsEarlier ==
    sig # None => \A digest \in Digests \ {sig.digest} :
        \E i \in Chains : base_w_and_checksum(digest)[i] < base_w_and_checksum(sig.digest)[i]

\* No signature is made with an index outside the tree, the indices that
\* sm3_xmss_key_from_bytes refuses.  (Not so after the last one-time key.)
SignsWithinTree == sig # None => sig.index < Pow2[Height]
=============================================================================
