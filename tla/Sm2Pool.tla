------------------------------ MODULE Sm2Pool ------------------------------
(***************************************************************************)
(* The nonces that SM2_SIGN_CTX (src/src/sm2_sign.c) and SM2_ENC_CTX       *)
(* (src/src/sm2_enc.c) compute in advance: filled at init, taken from the  *)
(* top by each finish, filled again when none is left, from a random       *)
(* number generator that may fail in the middle.                           *)
(*                                                                         *)
(* A nonce is the number of the draw it came from (no two draws give the   *)
(* same); what is computed from it, x1_modn or C1, is the draw it was      *)
(* computed from.  The callers of sm2_encrypt_init stop if it fails; some  *)
(* of sm2_sign_init do not look at its result and go on (tls.c, tls12.c,   *)
(* tls13.c), with what happened to be in a context on their stack.         *)
(***************************************************************************)
EXTENDS Integers, Sequences

CONSTANTS
    Count,     \* SM2_SIGN_PRE_COMP_COUNT, SM2_ENC_PRE_COMP_NUM
    BufSize,   \* SM2_MAX_PLAINTEXT_SIZE
    Trys,      \* trys of sm2_sign_fixlen
    MaxDraws   \* bound: draws from the random number generator

ASSUME PoolAssumption == /\ Count \in Nat \ {0} /\ BufSize \in Nat \ {0}
                         /\ Trys \in Nat \ {0} /\ MaxDraws \in Nat

VARIABLES
    pool,   \* of either context: pre_comp, how many are left, and how the last
            \* init ended: "none" so far, "failed" or "done"
    hash,   \* sm3_ctx: "open", or "closed" by sm3_finish
    size,   \* buf_size of SM2_ENC_CTX
    draws,  \* draws so far
    out,    \* the entries that signatures and ciphertexts were made from, and
            \* whether the last init of their context had succeeded
    ret     \* how the last call ended: "ok", "failed" for want of random
            \* numbers, "refused" or "zero"

poolVars == <<pool, hash, size, draws, out, ret>>

Ctxs == {"sign", "enc"}
Places == 0 .. Count - 1
Entries == [k : Nat, from : Nat]
Used == [k : Nat, from : Nat, ok : BOOLEAN]

\* What a context holds that was never filled.
Unset == [k |-> 0, from |-> 0]

-----------------------------------------------------------------------------
(* The pool.                                                               *)

\* The n draws of a call, all of which have a new nonce.
Draw(n) == draws + n <= MaxDraws /\ draws' = draws + n

\* Mutant: a point is computed as soon as its nonce is drawn, from the last one.
PreComputeLate(pre, n) ==
    [i \in Places |-> IF i < n THEN [k |-> draws + i + 1, from |-> draws + i] ELSE pre[i]]

\* sm2_fast_sign_pre_compute, sm2_encrypt_pre_compute after n draws: only when
\* all nonces are there are their points computed.
PreCompute(pre, n) ==
    [i \in Places |->
        [k    |-> IF i < n THEN draws + i + 1 ELSE pre[i].k,
         from |-> IF n = Count THEN draws + i + 1 ELSE pre[i].from]]

Fill(c) ==
    /\ Draw(Count)
    /\ pool' = [pool EXCEPT ![c] = [pre |-> PreCompute(@.pre, Count), left |-> Count,
                                    init |-> "done"]]
    /\ out' = out /\ ret' = "ok"

\* A draw fails: the nonces before it stay in the context, and the number of
\* those that are left is what it was.
FillFails(c, init) ==
    /\ \E n \in 0 .. Count - 1 :
        /\ Draw(n)
        /\ pool' = [pool EXCEPT ![c].pre = PreCompute(@, n), ![c].init = init]
    /\ out' = out /\ ret' = "failed"

\* pre_comp[i], which a number of entries that nobody set may put past the array.
EntryAt(pre, i) == IF i \in Places THEN pre[i] ELSE Unset

\* The signature or ciphertext made from an entry.
Using(c, entry) == [k |-> entry.k, from |-> entry.from, ok |-> pool[c].init = "done"]

\* Take the last entry, and let it be used or not.
TakeLeft(c, used) ==
    /\ pool[c].left > 0
    /\ pool' = [pool EXCEPT ![c].left = @ - 1]
    /\ out' = IF used THEN Append(out, Using(c, EntryAt(pool[c].pre, pool[c].left - 1)))
                      ELSE out
    /\ UNCHANGED draws

\* Mutant: the entry that follows a refill is not counted off.
TakeRefilledKept(c, used) ==
    LET pre == PreCompute(pool[c].pre, Count)
    IN /\ pool[c].left = 0
       /\ Draw(Count)
       /\ pool' = [pool EXCEPT ![c].pre = pre, ![c].left = Count]
       /\ out' = IF used THEN Append(out, Using(c, pre[Count - 1])) ELSE out

\* Refill first.
TakeRefilled(c, used) ==
    LET pre == PreCompute(pool[c].pre, Count)
    IN /\ pool[c].left = 0
       /\ Draw(Count)
       /\ pool' = [pool EXCEPT ![c].pre = pre, ![c].left = Count - 1]
       /\ out' = IF used THEN Append(out, Using(c, pre[Count - 1])) ELSE out

-----------------------------------------------------------------------------
(* SM2_SIGN_CTX.                                                           *)

sm2_sign_init == Fill("sign") /\ hash' = "open" /\ UNCHANGED size
SignInitFails == FillFails("sign", "failed") /\ hash' = "open" /\ UNCHANGED size

\* No caller uses a context it has not passed to init; whether init succeeded is
\* not looked at here.
Begun == pool["sign"].init # "none"

\* After it updates are hashed again; the pool is left alone.
sm2_sign_reset ==
    /\ Begun
    /\ hash' = "open" /\ ret' = "ok"
    /\ UNCHANGED <<pool, size, draws, out>>

sm2_sign_finish ==
    /\ Begun
    /\ TakeLeft("sign", TRUE) \/ TakeRefilled("sign", TRUE)
    /\ hash' = "closed" /\ ret' = "ok"
    /\ UNCHANGED size

SignFinishFails ==
    /\ Begun /\ pool["sign"].left = 0
    /\ FillFails("sign", pool["sign"].init)
    /\ hash' = "closed"
    /\ UNCHANGED size

\* The nonces of sm2_do_sign, one for every try, until the length fits.
sm2_sign_finish_fixlen ==
    /\ Begun
    /\ \E n \in 1 .. Trys :
        /\ Draw(n)
        /\ out' = Append(out, Using("sign", [k |-> draws + n, from |-> draws + n]))
    /\ hash' = "closed" /\ ret' = "ok"
    /\ UNCHANGED <<pool, size>>

FixlenFails ==
    /\ Begun
    /\ \E n \in 0 .. Trys : Draw(n)
    /\ hash' = "closed" /\ ret' = "failed"
    /\ UNCHANGED <<pool, size, out>>

-----------------------------------------------------------------------------
(* SM2_ENC_CTX.                                                            *)

\* The callers, tools/sm2encrypt.c and the test, go on only after a success.
Ready == pool["enc"].init = "done"

sm2_encrypt_init == Fill("enc") /\ size' = 0 /\ UNCHANGED hash
EncryptInitFails == FillFails("enc", "failed") /\ UNCHANGED <<hash, size>>

UpdateFits(n) == n <= BufSize - size

sm2_encrypt_update ==
    /\ Ready
    /\ \E n \in 0 .. BufSize + 1 :
        /\ size' = IF UpdateFits(n) THEN size + n ELSE size
        /\ ret' = IF UpdateFits(n) THEN "ok" ELSE "refused"
    /\ UNCHANGED <<pool, hash, draws, out>>

sm2_encrypt_reset ==
    /\ Ready
    /\ size' = 0 /\ ret' = "ok"
    /\ UNCHANGED <<pool, hash, draws, out>>

\* The nonce is spent even if the key stream t it gives is all zero; the call
\* then returns -1.
sm2_encrypt_finish ==
    /\ Ready /\ size > 0
    /\ \E used \in BOOLEAN :
        /\ TakeLeft("enc", used) \/ TakeRefilled("enc", used)
        /\ ret' = IF used THEN "ok" ELSE "zero"
    /\ UNCHANGED <<hash, size>>

EncryptFinishEmpty ==
    /\ Ready /\ size = 0
    /\ ret' = "refused"
    /\ UNCHANGED <<pool, hash, size, draws, out>>

EncryptFinishFails ==
    /\ Ready /\ size > 0 /\ pool["enc"].left = 0
    /\ FillFails("enc", pool["enc"].init)
    /\ UNCHANGED <<hash, size>>

-----------------------------------------------------------------------------
\* A context on the caller's stack holds anything, a number of entries beyond the
\* array (one stands for all) included; of SM2_ENC_CTX nobody sees it.
PoolInit ==
    /\ \E left \in 0 .. Count + 1 :
        pool = [c \in Ctxs |-> [pre |-> [i \in Places |-> Unset],
                                left |-> IF c = "sign" THEN left ELSE 0,
                                init |-> "none"]]
    /\ hash = "closed" /\ size = 0 /\ draws = 0 /\ out = <<>> /\ ret = "ok"

SignNext == \/ sm2_sign_init \/ SignInitFails
            \/ sm2_sign_reset
            \/ sm2_sign_finish \/ SignFinishFails
            \/ sm2_sign_finish_fixlen \/ FixlenFails

EncryptNext == \/ sm2_encrypt_init \/ EncryptInitFails
               \/ sm2_encrypt_update
               \/ sm2_encrypt_reset
               \/ sm2_encrypt_finish \/ EncryptFinishEmpty \/ EncryptFinishFails

PoolNext == SignNext \/ EncryptNext

PoolSpec == PoolInit /\ [][PoolNext]_poolVars

-----------------------------------------------------------------------------
(* Properties.                                                             *)

PoolTypeOK ==
    /\ pool \in [Ctxs -> [pre : [Places -> Entries], left : 0 .. Count + 1,
                       init : {"none", "failed", "done"}]]
    /\ hash \in {"open", "closed"} /\ size \in 0 .. BufSize
    /\ draws \in 0 .. MaxDraws /\ out \in Seq(Used)
    /\ ret \in {"ok", "failed", "refused", "zero"}

\* No nonce that was drawn makes two signatures or ciphertexts, however init,
\* reset, refill and their failures follow one another in the two contexts, and
\* even if the caller goes on after a failed sm2_sign_init.
NonceOnce == \A i, j \in 1 .. Len(out) :
    out[i].k > 0 /\ out[i].k = out[j].k => i = j

\* Through a context whose init has succeeded a signature or ciphertext is made
\* from a nonce that was drawn and from the point of that very nonce, failed
\* refills notwithstanding.
PointOfNonce == \A i \in 1 .. Len(out) :
    out[i].ok => out[i].k > 0 /\ out[i].from = out[i].k

\* The same for every signature that sm2_sign_finish makes.  (Not so: it does not
\* notice that sm2_sign_init has failed, and its callers in the handshakes do not
\* look.)
UncheckedInitIsSafe == \A i \in 1 .. Len(out) : out[i].k > 0 /\ out[i].from = out[i].k

\* sm2_encrypt_finish does not give up because t is all zero.  (Not so: it
\* treats the 0 that asks for a retry with the next nonce as an error.)
RetriesOnZero == ret # "zero"
=============================================================================
