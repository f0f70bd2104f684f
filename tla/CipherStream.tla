---------------------------- MODULE CipherStream ----------------------------
(***************************************************************************)
(* The streaming contexts of SM4 (src/src/sm4_ecb.c, sm4_cbc.c, sm4_ctr.c, *)
(* sm4_cfb.c, sm4_ofb.c, sm4_xts.c, sm4_gcm.c, sm4_cbc_sm3_hmac.c,         *)
(* sm4_ctr_sm3_hmac.c): init, update for each piece of the input, finish,  *)
(* driven by a caller that writes what each call puts out.                 *)
(*                                                                         *)
(* A byte is its position in the input and the list of what was done to    *)
(* it: <<k, j>> is the cipher with the k-th chaining value (IV, counter or *)
(* tweak) at place j of a block.  Buffers are sequences of bytes, pointers *)
(* are offsets into the caller's memory, so that a call with out = in      *)
(* reads what it has itself written.                                       *)
(***************************************************************************)
EXTENDS Integers, Sequences

CONSTANTS
    Modes,     \* the contexts a run looks at
    B,         \* SM4_BLOCK_SIZE, and GHASH_SIZE
    Sbytes,    \* sbytes of CFB
    DataUnit,  \* data_unit_size of XTS
    GcmTag,    \* taglen of GCM
    HmacTag,   \* SM3_HMAC_SIZE
    CtrMod,    \* bound: 2^32, the period of the 32-bit counter
    MaxLen,    \* bound: bytes of input
    ToolModes, \* the contexts that are looked at in the tools as well
    Piece      \* the tool's buffer, or bound: bytes per update otherwise

EcbModes == {"ecb", "xts", "xts_dec"}
PartModes == {"ctr", "ctr32", "cfb", "cfb_dec", "ofb"}
MacModes == {"gcm_enc", "cbc_hmac_enc", "ctr_hmac_enc"}
TagModes == {"gcm_dec", "cbc_hmac_dec", "ctr_hmac_dec"}
AllModes == EcbModes \cup PartModes \cup MacModes \cup TagModes
            \cup {"cbc_enc", "cbc_dec"}

ASSUME StreamAssumption ==
    /\ Modes \subseteq AllModes
    /\ {B, Sbytes, DataUnit, GcmTag, HmacTag, CtrMod, Piece} \subseteq Nat \ {0}
    /\ Sbytes <= B /\ B <= DataUnit /\ GcmTag <= B /\ CtrMod > 1
    /\ MaxLen \in Nat /\ ToolModes \subseteq Modes

VARIABLES
    mode,    \* which context
    tool,    \* the caller is one of the tools
    input,   \* len, whether it is authentic, and the padding it holds
    fed,     \* bytes of the input handed over
    ctx,     \* SM4_*_CTX
    outlen,  \* the caller's variable
    out,     \* what the caller has written
    status   \* "running", "finished" or "failed"

vars == <<mode, tool, input, fed, ctx, outlen, out, status>>

-----------------------------------------------------------------------------
(* Bytes, buffers, blocks.                                                 *)

Byte(n) == [byte |-> n, by |-> <<>>]
Other(n) == [i \in 1 .. n |-> Byte(-1)]     \* whatever the memory holds
Pad(n) == [i \in 1 .. n |-> Byte(0)]        \* PKCS #7 padding
Tag(n) == [i \in 1 .. n |-> Byte(-2)]       \* a MAC

\* The tag length, the unit of a mode and whether it keeps the last block.
TagLen(m) == IF m \in {"gcm_enc", "gcm_dec"} THEN GcmTag ELSE HmacTag
Unit(m) == IF m \in {"cfb", "cfb_dec"} THEN Sbytes
           ELSE IF m \in {"xts", "xts_dec"} THEN DataUnit ELSE B
Hold(m) == IF m \in {"cbc_dec", "cbc_hmac_dec"} THEN 1 ELSE 0

\* The chaining value n blocks after k: the counter of GCM and of ctr32 has 32
\* bits, and GCM starts it at 2.
After(k, n) == IF mode \in {"ctr32", "gcm_enc", "gcm_dec"} THEN (k + n) % CtrMod
                                                           ELSE k + n
FirstChain(m) == IF m \in {"gcm_enc", "gcm_dec"} THEN 2 % CtrMod ELSE 0

\* One block, through the cipher with chaining value k.
Crypt(bytes, k) ==
    [j \in 1 .. Len(bytes) |->
        [byte |-> bytes[j].byte, by |-> Append(bytes[j].by, <<k, j>>)]]

Write(mem, at, bytes) ==
    [i \in 1 .. Len(mem) |->
        IF i \in at + 1 .. at + Len(bytes) THEN bytes[i - at] ELSE mem[i]]

\* n blocks of u bytes, one after the other, from p to q.
CryptBlocks(u, k, mem, p, n, q) ==
    LET after[j \in 0 .. n] ==
            IF j = 0 THEN mem
            ELSE Write(after[j - 1], q + (j - 1) * u,
                       Crypt(SubSeq(after[j - 1], p + (j - 1) * u + 1, p + j * u),
                             After(k, j - 1)))
    IN after[n]

-----------------------------------------------------------------------------
(* Update.                                                                 *)

\* Fill the block that is left from the last call and put it out, then the
\* whole blocks, then keep the rest.  With keep = 1 a call that just fills the
\* block keeps it, with hold = 1 a last whole block is kept.
UpdateWith(u, keep, hold, c, mem, p, len, q) ==
    LET nb   == Len(c.block)
        skip == IF nb > 0 THEN u - nb ELSE 0
        one  == IF nb > 0 THEN 1 ELSE 0
        mem1 == IF nb > 0
                THEN Write(mem, q, Crypt(c.block \o SubSeq(mem, p + 1, p + skip), c.iv))
                ELSE mem
        n    == IF len > skip THEN (len - skip - hold) \div u ELSE 0
        mem2 == CryptBlocks(u, After(c.iv, one), mem1, p + skip, n, q + one * u)
    IN IF nb > 0 /\ len < skip + keep
       THEN [ctx |-> [c EXCEPT !.block = @ \o SubSeq(mem, p + 1, p + len)],
             mem |-> mem, outlen |-> 0]
       ELSE [ctx |-> [c EXCEPT !.block = SubSeq(mem2, p + skip + n * u + 1, p + len),
                               !.iv = After(@, one + n)],
             mem |-> mem2, outlen |-> (one + n) * u]

\* Mutant: a context that must keep the last block lets it go when whole blocks
\* end the input.
UpdateBlocksEager(u, hold, c, mem, p, len, q) == UpdateWith(u, hold, 0, c, mem, p, len, q)

\* Decryption with padding keeps the last block, encryption does not.
UpdateBlocks(u, hold, c, mem, p, len, q) == UpdateWith(u, hold, hold, c, mem, p, len, q)

\* The same for bytes that lie in the context and not in the caller's memory.
UpdateFrom(hold, c, bytes, mem, q) ==
    LET r == UpdateBlocks(B, hold, c, mem \o bytes, Len(mem), Len(bytes), q)
    IN [r EXCEPT !.mem = SubSeq(@, 1, Len(mem))]

\* Encrypt, then MAC what was put out.
UpdateMac(c, mem, len, q) ==
    LET r == UpdateBlocks(B, 0, c, mem, 0, len, q)
    IN [r EXCEPT !.ctx.maced = @ \o SubSeq(r.mem, q + 1, q + r.outlen),
                 !.ctx.encedlen = @ + len]

\* Keep the last t bytes, which may be the tag; MAC and decrypt the ones before
\* them.  When there are no more than t, *outlen is left as it was (-1).
UpdateTag(t, hold, c, mem, len, q) ==
    LET fill == t - Len(c.mac)
        mac  == c.mac \o SubSeq(mem, 1, fill)
        some == len - fill
        few  == UpdateFrom(hold, c, SubSeq(mac, 1, some), mem, q)
        mac2 == UpdateFrom(hold, c, mac, mem, q)
        rest == some - t
        many == UpdateBlocks(B, hold, mac2.ctx, mac2.mem, fill, rest, q + mac2.outlen)
    IN CASE fill > 0 /\ len <= fill ->
              [ctx |-> [c EXCEPT !.mac = @ \o SubSeq(mem, 1, len)], mem |-> mem,
               outlen |-> -1]
         [] some \in 0 .. t /\ (fill = 0 \/ len > fill) ->
              [few EXCEPT !.ctx.maced = @ \o SubSeq(mac, 1, some),
                          !.ctx.mac = SubSeq(mac, some + 1, t)
                                        \o SubSeq(few.mem, fill + 1, fill + some),
                          !.ctx.encedlen = @ + some]
         [] some > t ->
              [many EXCEPT !.ctx.maced = @ \o mac \o SubSeq(mac2.mem, fill + 1, fill + rest),
                           !.ctx.mac = SubSeq(many.mem, fill + rest + 1, fill + rest + t),
                           !.ctx.encedlen = @ + rest,
                           !.outlen = mac2.outlen + @]

\* Mutant: the size is not rounded up.
OutSizeDown(len) == B * (len \div B)

\* What a call with out = NULL answers.
OutSize(len) == B * ((len + B - 1) \div B)

\* Mutant: the counter's whole period is allowed for.
MaxPlaintextPeriod == CtrMod * B

\* SM4_GCM_MAX_PLAINTEXT_SIZE.
MaxPlaintext == (CtrMod - 2) * B

\* The check at the head of both updates of GCM.
TooLong(len) == mode \in {"gcm_enc", "gcm_dec"} /\ len > MaxPlaintext - ctx.encedlen

-----------------------------------------------------------------------------
(* The caller: a tool reads its input into one buffer, a careful caller    *)
(* has a buffer of its own for the output and sets outlen to 0.            *)

Sizes == IF tool THEN IF input.len - fed > Piece THEN {Piece} ELSE {input.len - fed} \ {0}
                 ELSE {n \in 0 .. Piece : fed + n <= input.len}

Buffer(n) == [i \in 1 .. n |-> Byte(fed + i)] \o Other(Piece + 2 * DataUnit)
OutAt(n) == IF tool THEN 0 ELSE n

\* What the caller takes for the length of the output.
Written(n, r) == IF r.outlen # -1 THEN r.outlen ELSE IF tool THEN outlen ELSE 0

Feed(n, r) ==
    /\ status = "running"
    /\ ~TooLong(n)
    /\ fed' = fed + n
    /\ ctx' = r.ctx
    /\ outlen' = Written(n, r)
    /\ out' = out \o SubSeq(r.mem, OutAt(n) + 1, OutAt(n) + outlen')
    /\ UNCHANGED <<mode, tool, input, status>>

BlockUpdate(m) == mode = m /\ \E n \in Sizes :
    Feed(n, UpdateBlocks(Unit(m), Hold(m), ctx, Buffer(n), 0, n, OutAt(n)))
MacUpdate(m) == mode = m /\ \E n \in Sizes :
    Feed(n, UpdateMac(ctx, Buffer(n), n, OutAt(n)))
TagUpdate(m) == mode = m /\ \E n \in Sizes :
    Feed(n, UpdateTag(TagLen(m), Hold(m), ctx, Buffer(n), n, OutAt(n)))

sm4_ecb_encrypt_update == BlockUpdate("ecb")
sm4_xts_encrypt_update == BlockUpdate("xts")
sm4_xts_decrypt_update == BlockUpdate("xts_dec")
sm4_cbc_encrypt_update == BlockUpdate("cbc_enc")
sm4_cbc_decrypt_update == BlockUpdate("cbc_dec")
sm4_ctr_encrypt_update == BlockUpdate("ctr")
sm4_ctr32_encrypt_update == BlockUpdate("ctr32")
sm4_cfb_encrypt_update == BlockUpdate("cfb")
sm4_cfb_decrypt_update == BlockUpdate("cfb_dec")
sm4_ofb_encrypt_update == BlockUpdate("ofb")
sm4_gcm_encrypt_update == MacUpdate("gcm_enc")
sm4_cbc_sm3_hmac_encrypt_update == MacUpdate("cbc_hmac_enc")
sm4_ctr_sm3_hmac_encrypt_update == MacUpdate("ctr_hmac_enc")
sm4_gcm_decrypt_update == TagUpdate("gcm_dec")
sm4_cbc_sm3_hmac_decrypt_update == TagUpdate("cbc_hmac_dec")
sm4_ctr_sm3_hmac_decrypt_update == TagUpdate("ctr_hmac_dec")

\* sm4_gcm_encrypt_update and sm4_gcm_decrypt_update refuse what would exceed
\* SM4_GCM_MAX_PLAINTEXT_SIZE.
Refused ==
    /\ status = "running"
    /\ \E n \in Sizes : TooLong(n)
    /\ status' = "failed"
    /\ UNCHANGED <<mode, tool, input, fed, ctx, outlen, out>>

-----------------------------------------------------------------------------
(* Finish.                                                                 *)

\* The padding found in the block that was kept: the one of the input if that
\* block is its last one, else any.
Paddings ==
    LET n == IF mode = "cbc_dec" THEN input.len ELSE input.len - HmacTag
    IN IF ctx.block = [i \in 1 .. B |-> Byte(n - B + i)] THEN {input.pad}
                                                        ELSE 0 .. B

\* Mutant: input of whole blocks gets no padding.
CbcEncryptFinishNoPad ==
    IF ctx.block = <<>> THEN {<<>>}
    ELSE {Crypt(ctx.block \o Pad(B - Len(ctx.block)), ctx.iv)}

\* What the last call may put out; none if it fails.
EcbFinish == IF ctx.block = <<>> THEN {<<>>} ELSE {}
PartFinish == {Crypt(ctx.block, ctx.iv)}
CbcEncryptFinish == {Crypt(ctx.block \o Pad(B - Len(ctx.block)), ctx.iv)}
CbcDecryptFinish ==
    IF Len(ctx.block) = B
    THEN {SubSeq(Crypt(ctx.block, ctx.iv), 1, B - p) : p \in Paddings \ {0}}
    ELSE {}

LastBytes == CASE mode \in EcbModes -> EcbFinish
               [] mode \in {"cbc_enc", "cbc_hmac_enc"} -> CbcEncryptFinish
               [] mode \in {"cbc_dec", "cbc_hmac_dec"} -> CbcDecryptFinish
               [] OTHER -> PartFinish

\* The bytes kept are the tag of the bytes that went through the MAC.
Verified ==
    LET n == input.len - TagLen(mode)
    IN /\ Len(ctx.mac) = TagLen(mode)
       /\ input.authentic
       /\ ctx.maced = [i \in 1 .. n |-> Byte(i)]
       /\ ctx.mac = [i \in 1 .. TagLen(mode) |-> Byte(n + i)]

Finished(bytes, maced) ==
    /\ out' = out \o bytes
    /\ outlen' = Len(bytes)
    /\ ctx' = [ctx EXCEPT !.maced = maced]
    /\ status' = "finished"
    /\ UNCHANGED <<mode, tool, input, fed>>

Ready == status = "running" /\ fed = input.len

BlockFinish ==
    /\ Ready /\ mode \notin MacModes \cup TagModes
    /\ \E bytes \in LastBytes : Finished(bytes, ctx.maced)

MacFinish ==
    /\ Ready /\ mode \in MacModes
    /\ \E bytes \in LastBytes :
        Finished(bytes \o Tag(TagLen(mode)), ctx.maced \o bytes)

TagFinish ==
    /\ Ready /\ mode \in TagModes /\ Verified
    /\ \E bytes \in LastBytes : Finished(bytes, ctx.maced)

FinishFails ==
    /\ Ready
    /\ \/ LastBytes = {}
       \/ mode \in {"cbc_dec", "cbc_hmac_dec"} /\ 0 \in Paddings
       \/ mode \in TagModes /\ ~Verified
    /\ status' = "failed"
    /\ UNCHANGED <<mode, tool, input, fed, ctx, outlen, out>>

-----------------------------------------------------------------------------
\* The inputs of a mode: an authentic ciphertext has the length and the
\* padding that encryption gives it.
Inputs(m) ==
    {i \in [len : 0 .. MaxLen, authentic : BOOLEAN, pad : 0 .. B] :
        /\ m \notin {"cbc_dec", "cbc_hmac_dec"} => i.pad = 0
        /\ m \notin TagModes => i.authentic
        /\ m \in TagModes /\ i.authentic => i.len >= TagLen(m)
        /\ m = "cbc_hmac_dec" /\ i.authentic =>
            i.pad # 0 /\ i.len > HmacTag /\ (i.len - HmacTag) % B = 0
        /\ m = "gcm_dec" /\ i.authentic => i.len - GcmTag <= MaxPlaintext}

\* The outlen of a tool is not initialized.
Init ==
    /\ mode \in Modes
    /\ tool \in BOOLEAN /\ (tool => mode \in ToolModes)
    /\ input \in Inputs(mode)
    /\ fed = 0
    /\ ctx = [block |-> <<>>, iv |-> FirstChain(mode), mac |-> <<>>, maced |-> <<>>,
              encedlen |-> 0]
    /\ outlen \in (IF tool THEN 0 .. Piece ELSE {0})
    /\ out = <<>>
    /\ status = "running"

Update == \/ sm4_ecb_encrypt_update
          \/ sm4_xts_encrypt_update
          \/ sm4_xts_decrypt_update
          \/ sm4_cbc_encrypt_update
          \/ sm4_cbc_decrypt_update
          \/ sm4_ctr_encrypt_update
          \/ sm4_ctr32_encrypt_update
          \/ sm4_cfb_encrypt_update
          \/ sm4_cfb_decrypt_update
          \/ sm4_ofb_encrypt_update
          \/ sm4_gcm_encrypt_update
          \/ sm4_cbc_sm3_hmac_encrypt_update
          \/ sm4_ctr_sm3_hmac_encrypt_update
          \/ sm4_gcm_decrypt_update
          \/ sm4_cbc_sm3_hmac_decrypt_update
          \/ sm4_ctr_sm3_hmac_decrypt_update

Finish == BlockFinish \/ MacFinish \/ TagFinish \/ FinishFails

\* The caller has returned.
Returned == status # "running" /\ UNCHANGED vars

Next == Update \/ Refused \/ Finish \/ Returned

Spec == Init /\ [][Next]_vars

-----------------------------------------------------------------------------
(* The one-shot functions.                                                 *)

\* The first n bytes of the input, in blocks.
Whole(n) ==
    LET u == Unit(mode)
    IN [i \in 1 .. n |->
            [byte |-> i,
             by |-> <<<<After(FirstChain(mode), (i - 1) \div u), ((i - 1) % u) + 1>>>>]]

\* sm4_cbc_padding_encrypt and sm4_cbc_padding_decrypt.
Padded(n) ==
    LET all == Whole(B * (n \div B + 1))
    IN [i \in 1 .. Len(all) |-> IF i <= n THEN all[i] ELSE [all[i] EXCEPT !.byte = 0]]
Unpadded(n) == IF n > 0 /\ n % B = 0 /\ input.pad # 0 THEN {Whole(n - input.pad)} ELSE {}

\* What the one-shot function of the mode gives for the whole input; none if
\* it fails.
OneShot ==
    LET n == input.len
        t == TagLen(mode)
    IN CASE mode \in EcbModes -> IF n % Unit(mode) = 0 THEN {Whole(n)} ELSE {}
         [] mode \in PartModes -> {Whole(n)}
         [] mode = "cbc_enc" -> {Padded(n)}
         [] mode = "cbc_dec" -> Unpadded(n)
         [] mode = "gcm_enc" -> IF n <= MaxPlaintext THEN {Whole(n) \o Tag(t)} ELSE {}
         [] mode = "ctr_hmac_enc" -> {Whole(n) \o Tag(t)}
         [] mode = "cbc_hmac_enc" -> {Padded(n) \o Tag(t)}
         [] mode \in TagModes ->
              IF ~input.authentic \/ (mode = "gcm_dec" /\ n - t > MaxPlaintext) THEN {}
              ELSE IF mode = "cbc_hmac_dec" THEN Unpadded(n - t) ELSE {Whole(n - t)}

-----------------------------------------------------------------------------
(* Properties.                                                             *)

TypeOK ==
    /\ mode \in Modes /\ tool \in BOOLEAN /\ input \in Inputs(mode) /\ fed \in 0 .. input.len
    /\ Len(ctx.block) < Unit(mode) + Hold(mode)
    /\ ctx.iv \in Nat /\ ctx.encedlen \in 0 .. MaxLen
    /\ mode \in TagModes => Len(ctx.mac) \in 0 .. TagLen(mode)
    /\ outlen \in Nat /\ status \in {"running", "finished", "failed"}

\* However the input is cut into pieces, the calls put out exactly what the
\* one-shot function does, the MAC covers exactly the ciphertext, and the last
\* call fails only where the one-shot function does.
StreamIsOneShot ==
    /\ status = "finished" => out \in OneShot
    /\ status = "finished" /\ mode \in MacModes =>
        ctx.maced = SubSeq(out, 1, Len(out) - TagLen(mode))
    /\ status = "failed" => OneShot = {}

\* Before the last call, what is out is the beginning of the result, less than
\* a block behind the input (a whole block where the last one is kept for its
\* padding), and no byte that may belong to the tag has been put out.
NeverAhead ==
    LET t == IF mode \in TagModes THEN TagLen(mode) ELSE 0
        kept == fed - Len(out)
    IN status = "running" =>
        /\ out = Whole(Len(out))
        /\ kept < t + Unit(mode) + Hold(mode)
        /\ kept >= (IF fed < t THEN fed ELSE t)
        /\ Hold(mode) = 1 /\ fed > t => kept > t

\* The size update answers when it is asked without a buffer is enough for
\* what the same call puts out (of the modes that work in SM4 blocks).
OutFits == [][Unit(mode) = B => Len(out') - Len(out) <= OutSize(fed' - fed)
              \/ status' # "running"]_vars

\* GCM encryption never uses a counter for two blocks, nor the counter whose
\* block masks the tag.
CounterFresh ==
    mode = "gcm_enc" =>
        \A i, j \in 1 .. Len(out) :
            /\ out[i].byte = i => out[i].by[1][1] # 1
            /\ out[i].byte = i /\ out[j].byte = j /\ out[i].by = out[j].by => i = j

\* A tool puts out what the one-shot function does, whatever the length of its
\* input.  (Not so for decryption in place.)
ToolIsOneShot == tool /\ status = "finished" => out \in OneShot

\* A tool does not fail on what it should decrypt.  (Not so for GCM.)
ToolDecrypts == tool /\ status = "failed" => OneShot = {}

\* GCM decryption keeps to SM4_GCM_MAX_PLAINTEXT_SIZE.  (Not so.)
DecryptWithinLimit == mode = "gcm_dec" => Len(out) <= MaxPlaintext
=============================================================================
