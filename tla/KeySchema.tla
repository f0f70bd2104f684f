------------------------------ MODULE KeySchema ------------------------------
(***************************************************************************)
(* The ASN.1 types in which keys, signatures and ciphertexts are kept:     *)
(* sm2_key.c, pkcs8.c, sm9_key.c and the DER functions of the SM2 and SM9  *)
(* schemes, in the vocabulary of module Asn1Schema.                        *)
(***************************************************************************)
EXTENDS Asn1Schema

-----------------------------------------------------------------------------
(* sm2_key.c, sm2_sign.c, sm2_enc.c, sm2_elgamal.c *)

sm2_public_key == Leaf(BIT_STRING_TAG, {"P1", "P2"})
sm2_public_key_algor ==
    LET c == <<Node(OID_TAG, "ecPublicKey", <<>>), Node(OID_TAG, "sm2p256v1", <<>>)>>
    IN Alg([a \in {"sm2p256v1"} |-> c], [d \in {c} |-> "sm2p256v1"])
sm2_public_key_info ==
    Sequence(<<Req(Typ("sm2_public_key_algor")), Req(Typ("sm2_public_key"))>>)

sm2_curve == Leaf(OID_TAG, {"sm2p256v1"})
sm2_private_key ==
    [Sequence(<<Req(Version({"1"})), Req(Prim(OCTET_STRING_TAG, {"d1", "d2"})),
             Req(Expl(0, "sm2_curve")), Req(Expl(1, "sm2_public_key"))>>)
        EXCEPT !.prt = <<Req(Num), Req(Octets(OCTET_STRING_TAG)),
                         Expl(0, "ec_named_curve"), Expl(1, "sm2_public_key")>>]
(* sm2_private_key_from_der computes the public key from the private one   *)
(* and compares: P1 is the public key of d1 and P2 that of d2.             *)
sm2_public_key_equ(v) ==
    <<v.kids[2].prim, v.kids[4].prim>> \in {<<"d1", "P1">>, <<"d2", "P2">>}

(* Attributes are read and never written.                                  *)
sm2_private_key_info ==
    [Sequence(<<Req(Version({"0"})), Req(Typ("sm2_public_key_algor")),
             Req(InOctetsEnd("sm2_private_key")), Raw(Explicit(0), "")>>)
        EXCEPT !.enc[4] = Never, !.prt[1] = Req(Num)]

(* A signature and the point of a ciphertext are kept in 32 bytes whether  *)
(* the integer was written with 32 (full) or with fewer (short).           *)
sm2_signature ==
    Sequence(<<Req(Prim(INTEGER_TAG, {"full", "short"})), Req(Prim(INTEGER_TAG, {"full", "short"}))>>)
sm2_ciphertext ==
    Sequence(<<Req(Prim(INTEGER_TAG, {"full", "short"})), Req(Prim(INTEGER_TAG, {"full", "short"})),
            Req(Prim(OCTET_STRING_TAG, {"hash"})), Req(Prim(OCTET_STRING_TAG, {"", "data"}))>>)
sm2_elgamal_ciphertext ==
    Sequence(<<Req(Prim(OCTET_STRING_TAG, {"P1"})), Req(Prim(OCTET_STRING_TAG, {"P1"}))>>)

-----------------------------------------------------------------------------
(* pkcs8.c *)

pbkdf2_prf ==
    LET c == <<Node(OID_TAG, "hmac-sm3", <<>>)>>
    IN Alg([a \in {"hmac-sm3"} |-> c], [d \in {c} |-> "hmac-sm3"])
(* An empty salt and an iteration count of 0 are written but not read.     *)
pbkdf2_params ==
    [Sequence(<<Req(Prim(OCTET_STRING_TAG, {"", "salt"})), Req(Num), Num, Typ("pbkdf2_prf")>>)
        EXCEPT !.dec[1] = Req(Prim(OCTET_STRING_TAG, {"salt"})),
               !.dec[2] = Req(Prim(INTEGER_TAG, {"1"}))]
pbkdf2_algor == Sequence(<<Req(Oid({"pbkdf2"})), Req(Typ("pbkdf2_params"))>>)
pbes2_enc_algor ==
    [Sequence(<<Req(Oid({"sm4-cbc"})), Req(Prim(OCTET_STRING_TAG, {"iv"}))>>)
        EXCEPT !.prt[1] = Req(Oid({"sm4-cbc", "aes128-cbc"}))]
pbes2_params == Sequence(<<Req(Typ("pbkdf2_algor")), Req(Typ("pbes2_enc_algor"))>>)
pbes2_algor == Sequence(<<Req(Oid({"pbes2"})), Req(Typ("pbes2_params"))>>)
pkcs8_enced_private_key_info ==
    Sequence(<<Req(Typ("pbes2_algor")), Req(Prim(OCTET_STRING_TAG, {"sealed"}))>>)

(* x_info_encrypt_to_der and x_info_decrypt_from_der: the key information  *)
(* of type sub, encrypted with a key that salt and password give.  The     *)
(* parameters the writer chooses are fixed, and the reader accepts no      *)
(* other cipher and no other key length.                                   *)
Sealed(sub) == Sequence(<<Req(Typ("pbes2_algor")), Req(Field("sealed", OCTET_STRING_TAG, {}, sub))>>)
sm2_private_key_info_encrypt == Sealed("sm2_private_key_info")

(* pem_write and pem_read with the label of each kind of key.              *)
Pem(label, of) == [Struct(0, <<>>) EXCEPT !.k = "pem", !.enc = label, !.of = of]
sm2_private_key_info_pem == Pem("PRIVATE KEY", "sm2_private_key_info")
sm2_private_key_pem == Pem("EC PRIVATE KEY", "sm2_private_key")
sm2_public_key_info_pem == Pem("PUBLIC KEY", "sm2_public_key_info")
sm2_private_key_info_encrypt_pem == Pem("ENCRYPTED PRIVATE KEY", "sm2_private_key_info_encrypt")

-----------------------------------------------------------------------------
(* sm9_key.c, sm9_sign.c, sm9_enc.c *)

(* A master secret is written as an INTEGER, so without leading zeros, and *)
(* read only if 32 bytes are left.                                         *)
sm9_sign_master_key ==
    [Sequence(<<Req(Prim(INTEGER_TAG, {"full", "short"})), Req(BitOctets(BIT_STRING_TAG))>>)
        EXCEPT !.dec[1] = Req(Prim(INTEGER_TAG, {"full"}))]
sm9_enc_master_key ==
    [Sequence(<<Req(Prim(INTEGER_TAG, {"full", "short"})), Req(BitOctets(BIT_STRING_TAG))>>)
        EXCEPT !.dec[1] = Req(Prim(INTEGER_TAG, {"full"}))]
sm9_sign_master_public_key == Sequence(<<Req(BitOctets(BIT_STRING_TAG))>>)
sm9_enc_master_public_key == Sequence(<<Req(BitOctets(BIT_STRING_TAG))>>)
sm9_sign_key == Sequence(<<Req(BitOctets(BIT_STRING_TAG)), Req(BitOctets(BIT_STRING_TAG))>>)
sm9_enc_key == Sequence(<<Req(BitOctets(BIT_STRING_TAG)), Req(BitOctets(BIT_STRING_TAG))>>)

sm9_oids == {"sm9", "sm9sign", "sm9encrypt"}
sm9_algor == Sequence(<<Req(Oid(sm9_oids)), Oid(sm9_oids)>>)
(* alg and params tell the four kinds of key apart: a master key has both, *)
(* the key of a user only the first.                                       *)
Sm9Algor(oids) == Sequence([i \in DOMAIN oids |-> Req(Oid({oids[i]}))])
sm9_sign_master_algor == Sm9Algor(<<"sm9", "sm9sign">>)
sm9_sign_algor == Sm9Algor(<<"sm9sign">>)
sm9_enc_master_algor == Sm9Algor(<<"sm9", "sm9encrypt">>)
sm9_enc_algor == Sm9Algor(<<"sm9encrypt">>)
Sm9Info(algor, sub) == Sequence(<<Req(Version({"0"})), Req(Typ(algor)), Req(InOctetsEnd(sub))>>)
sm9_sign_master_key_info == Sm9Info("sm9_sign_master_algor", "sm9_sign_master_key")
sm9_sign_key_info == Sm9Info("sm9_sign_algor", "sm9_sign_key")
sm9_enc_master_key_info == Sm9Info("sm9_enc_master_algor", "sm9_enc_master_key")
sm9_enc_key_info == Sm9Info("sm9_enc_algor", "sm9_enc_key")
sm9_sign_master_key_pem == Pem("ENCRYPTED SM9 SIGN MASTER KEY", "sm9_sign_master_key_sealed")
sm9_sign_key_pem == Pem("ENCRYPTED SM9 SIGN PRIVATE KEY", "sm9_sign_key_sealed")
sm9_enc_master_key_pem == Pem("ENCRYPTED SM9 ENC MASTER KEY", "sm9_enc_master_key_sealed")
sm9_enc_key_pem == Pem("ENCRYPTED SM9 ENC PRIVATE KEY", "sm9_enc_key_sealed")
sm9_sign_master_public_key_pem == Pem("SM9 SIGN MASTER PUBLIC KEY", "sm9_sign_master_public_key")
sm9_enc_master_public_key_pem == Pem("SM9 ENC MASTER PUBLIC KEY", "sm9_enc_master_public_key")
sm9_sign_master_key_sealed == Sealed("sm9_sign_master_key_info")
sm9_sign_key_sealed == Sealed("sm9_sign_key_info")
sm9_enc_master_key_sealed == Sealed("sm9_enc_master_key_info")
sm9_enc_key_sealed == Sealed("sm9_enc_key_info")

sm9_signature == Sequence(<<Req(Prim(OCTET_STRING_TAG, {"hash"})), Req(BitOctets(BIT_STRING_TAG))>>)
sm9_ciphertext ==
    [Sequence(<<Req(Version({"0"})), Req(BitOctets(BIT_STRING_TAG)),
             Req(Prim(OCTET_STRING_TAG, {"hash"})), Req(Prim(OCTET_STRING_TAG, {"", "data"}))>>)
        EXCEPT !.prt[1] = Req(Num)]

-----------------------------------------------------------------------------
KeyTypes ==
    [sm2_public_key |-> sm2_public_key,
     sm2_public_key_algor |-> sm2_public_key_algor,
     sm2_public_key_info |-> sm2_public_key_info, sm2_curve |-> sm2_curve,
     sm2_private_key |-> sm2_private_key,
     sm2_private_key_info |-> sm2_private_key_info,
     sm2_signature |-> sm2_signature, sm2_ciphertext |-> sm2_ciphertext,
     sm2_elgamal_ciphertext |-> sm2_elgamal_ciphertext,
     pbkdf2_prf |-> pbkdf2_prf, pbkdf2_params |-> pbkdf2_params,
     pbkdf2_algor |-> pbkdf2_algor, pbes2_enc_algor |-> pbes2_enc_algor,
     pbes2_params |-> pbes2_params, pbes2_algor |-> pbes2_algor,
     pkcs8_enced_private_key_info |-> pkcs8_enced_private_key_info,
     sm2_private_key_info_encrypt |-> sm2_private_key_info_encrypt,
     sm2_private_key_info_pem |-> sm2_private_key_info_pem,
     sm2_private_key_pem |-> sm2_private_key_pem,
     sm2_public_key_info_pem |-> sm2_public_key_info_pem,
     sm2_private_key_info_encrypt_pem |-> sm2_private_key_info_encrypt_pem,
     sm9_sign_master_key |-> sm9_sign_master_key,
     sm9_enc_master_key |-> sm9_enc_master_key,
     sm9_sign_master_public_key |-> sm9_sign_master_public_key,
     sm9_enc_master_public_key |-> sm9_enc_master_public_key,
     sm9_sign_key |-> sm9_sign_key, sm9_enc_key |-> sm9_enc_key,
     sm9_algor |-> sm9_algor,
     sm9_sign_master_algor |-> sm9_sign_master_algor,
     sm9_sign_algor |-> sm9_sign_algor,
     sm9_enc_master_algor |-> sm9_enc_master_algor,
     sm9_enc_algor |-> sm9_enc_algor,
     sm9_sign_master_key_info |-> sm9_sign_master_key_info,
     sm9_sign_key_info |-> sm9_sign_key_info,
     sm9_enc_master_key_info |-> sm9_enc_master_key_info,
     sm9_enc_key_info |-> sm9_enc_key_info,
     sm9_sign_master_key_pem |-> sm9_sign_master_key_pem,
     sm9_sign_key_pem |-> sm9_sign_key_pem,
     sm9_enc_master_key_pem |-> sm9_enc_master_key_pem,
     sm9_enc_key_pem |-> sm9_enc_key_pem,
     sm9_sign_master_public_key_pem |-> sm9_sign_master_public_key_pem,
     sm9_enc_master_public_key_pem |-> sm9_enc_master_public_key_pem,
     sm9_sign_master_key_sealed |-> sm9_sign_master_key_sealed,
     sm9_sign_key_sealed |-> sm9_sign_key_sealed,
     sm9_enc_master_key_sealed |-> sm9_enc_master_key_sealed,
     sm9_enc_key_sealed |-> sm9_enc_key_sealed,
     sm9_signature |-> sm9_signature, sm9_ciphertext |-> sm9_ciphertext]
=============================================================================
