------------------------------ MODULE KeyTools ------------------------------
(***************************************************************************)
(* The tools of the SM2, SM9 and XMSS keys (src/tools/sm2*.c, sm9*.c and   *)
(* sm3xmss_*.c), as programs of module Calls.                              *)
(***************************************************************************)
EXTENDS Calls

sm2keygen_main ==
    Tool("sm2keygen",
      <<Usage, Value("-pass"), File("-out", "outfp"),
        File("-pubout", "puboutfp"), Help, Bad,
        Require({"-pass"}), Fill("sm2_key_generate", {}, {"key"}),
        Call("sm2_private_key_info_encrypt_to_pem", {"key", "-pass"}),
        Call("sm2_public_key_info_to_pem", {"key"})>>,
      {"outfp", "puboutfp"}, {"key"})

(* Mutant: the password is not asked for.                                  *)
Sm2PrivateKeyNoPass ==
    <<Require({"-key"}),
      Fill("sm2_private_key_info_decrypt_from_pem", {"keyfp", "-pass"}, {"key"})>>

(* "'-key' option required", "'-pass' option required", then the key.      *)
Sm2PrivateKey ==
    <<Require({"-key"}), Require({"-pass"}),
      Fill("sm2_private_key_info_decrypt_from_pem", {"keyfp", "-pass"}, {"key"})>>

(* The public key comes from one of two files.                             *)
Sm2PublicKeyOptions ==
    <<File("-pubkey", "pubkeyfp"), Except({"-pubkey"}, File("-cert", "certfp"))>>

Sm2PublicKey ==
    IfGiven({"-pubkey"},
      <<Call("sm2_public_key_info_from_pem", {"pubkeyfp"})>>,
      IfGiven({"-cert"},
        <<Call("x509_cert_from_pem", {"certfp"}),
          Call("x509_cert_get_subject_public_key", {})>>,
        <<Stop>>))

sm2sign_main ==
    Tool("sm2sign",
      <<Usage, File("-key", "keyfp"), Value("-pass"), Settings({"-id"}),
        File("-in", "infp"), File("-out", "outfp"), Help, Bad>>
      \o Sm2PrivateKey
      \o <<Fill("sm2_sign_init", {"key"}, {"sign_ctx"})>>
      \o Loop(<<Call("sm2_sign_update", {"sign_ctx"})>>)
      \o <<Call("sm2_sign_finish", {"sign_ctx"}), Call("fwrite", {})>>,
      {"keyfp", "infp", "outfp"}, {"key", "sign_ctx"})

sm2verify_main ==
    Tool("sm2verify",
      <<Usage>> \o Sm2PublicKeyOptions
      \o <<Settings({"-id"}), File("-in", "infp"), File("-sig", "sigfp"),
           Help, Bad,
           Require({"-sig"}), Call("fread", {"sigfp"})>>
      \o Sm2PublicKey
      \o <<Call("sm2_verify_init", {})>>
      \o Loop(<<Call("sm2_verify_update", {})>>)
      \o <<Call("sm2_verify_finish", {})>>,
      {"infp", "pubkeyfp", "certfp", "sigfp"}, {})

sm2encrypt_main ==
    Tool("sm2encrypt",
      <<Usage>> \o Sm2PublicKeyOptions
      \o <<File("-in", "infp"), File("-out", "outfp"), Help, Bad>>
      \o Sm2PublicKey
      \o <<Fill("fread", {}, {"inbuf"}), Call("inlen > SM2_MAX_PLAINTEXT_SIZE", {}),
           Fill("sm2_encrypt_init", {}, {"ctx"}),
           Quit(Call("sm2_encrypt_update", {"ctx", "inbuf"})),
           Call("sm2_encrypt_finish", {"ctx"}), Call("fwrite", {})>>,
      {"infp", "outfp", "pubkeyfp", "certfp"}, {"ctx", "inbuf"})

sm2decrypt_main ==
    Tool("sm2decrypt",
      <<Usage, File("-key", "keyfp"), Value("-pass"), File("-in", "infp"),
        File("-out", "outfp"), Help, Bad>>
      \o Sm2PrivateKey
      \o <<Call("fread", {}), Fill("sm2_decrypt_init", {}, {"ctx"}),
           Call("sm2_decrypt_update", {"ctx"}),
           Fill("sm2_decrypt_finish", {"ctx", "key"}, {"outbuf"}),
           Call("fwrite", {"outbuf"})>>,
      {"keyfp", "infp", "outfp"}, {"key", "ctx", "outbuf"})

-----------------------------------------------------------------------------
(* SM9.  "-help" and a bad option return at once.                          *)

(* The algorithm decides which of two chains runs; with no -alg, sm9keygen *)
(* ends at "default".                                                      *)
ByAlgorithm(sign, enc) == IfGiven({"-alg"}, Either(sign, enc), <<Stop>>)

(* sm9setup and sm9keygen return 1 whatever happened.                      *)
sm9setup_main ==
    Unset(Tool("sm9setup",
      <<Usage, Parse("-alg", "sm9_oid_from_name"), Value("-pass"),
        File("-out", "outfp"), File("-pubout", "puboutfp"), Quit(Help),
        Quit(Bad),
        Quit(Require({"-alg"})), Quit(Require({"-pass"}))>>
      \o ByAlgorithm(
           <<Fill("sm9_sign_master_key_generate", {}, {"sign_msk"}),
             Call("sm9_sign_master_key_info_encrypt_to_pem", {"sign_msk", "-pass"}),
             Call("sm9_sign_master_public_key_to_pem", {"sign_msk"})>>,
           <<Fill("sm9_enc_master_key_generate", {}, {"enc_msk"}),
             Call("sm9_enc_master_key_info_encrypt_to_pem", {"enc_msk", "-pass"}),
             Call("sm9_enc_master_public_key_to_pem", {"enc_msk"})>>),
      {"outfp", "puboutfp"}, {"sign_msk", "enc_msk"}))

sm9keygen_main ==
    Unset(Tool("sm9keygen",
      <<Usage, Parse("-alg", "sm9_oid_from_name"), File("-in", "infp"),
        Value("-inpass"), Value("-id"), File("-out", "outfp"),
        Value("-outpass"), Quit(Help), Quit(Bad),
        Require({"-id"}), Require({"-inpass", "-outpass"})>>
      \o ByAlgorithm(
           <<Fill("sm9_sign_master_key_info_decrypt_from_pem", {"-inpass"},
                  {"sign_msk"}),
             Fill("sm9_sign_master_key_extract_key", {"sign_msk", "-id"},
                  {"sign_key"}),
             Call("sm9_sign_key_info_encrypt_to_pem", {"sign_key", "-outpass"})>>,
           <<Fill("sm9_enc_master_key_info_decrypt_from_pem", {"-inpass"},
                  {"enc_msk"}),
             Fill("sm9_enc_master_key_extract_key", {"enc_msk", "-id"},
                  {"enc_key"}),
             Call("sm9_enc_key_info_encrypt_to_pem", {"enc_key", "-outpass"})>>),
      {"infp", "outfp"}, {"sign_msk", "enc_msk", "sign_key", "enc_key"}))

sm9sign_main ==
    Tool("sm9sign",
      <<Usage, File("-in", "infp"), File("-key", "keyfp"), Value("-pass"),
        File("-out", "outfp"), Quit(Help), Quit(Bad),
        Require({"-key", "-pass"}),
        Quit(Fill("sm9_sign_key_info_decrypt_from_pem", {"keyfp", "-pass"},
                  {"key"})),
        Fill("sm9_sign_init", {}, {"ctx"})>>
      \o Loop(<<Call("sm9_sign_update", {"ctx"})>>)
      \o <<Call("sm9_sign_finish", {"ctx", "key"}), Call("fwrite", {})>>,
      {"infp", "outfp"}, {"key", "ctx"})

(* "ret" is the result of sm9_verify_finish: 1 for a signature that is     *)
(* right, which is the tool's status for a failure; 0 for one that is      *)
(* wrong, which is its status for success; -1 for an error.                *)
sm9verify_main ==
    Unset(Tool("sm9verify",
      <<Usage, File("-in", "infp"), File("-pubmaster", "mpkfp"), Value("-id"),
        File("-sig", "sigfp"), Quit(Help), Quit(Bad),
        Require({"-pubmaster", "-id", "-sig"}),
        Call("sm9_sign_master_public_key_from_pem", {"mpkfp"}),
        Call("fread", {"sigfp"}), Call("sm9_verify_init", {})>>
      \o Loop(<<Call("sm9_verify_update", {})>>)
      \o Either(<<Call("sm9_verify_finish", {"-id"})>>, <<Reject, Ok, Stop>>),
      {"infp", "mpkfp", "sigfp"}, {}))

sm9encrypt_main ==
    Tool("sm9encrypt",
      <<Usage, File("-pubmaster", "mpkfp"), Value("-id"), File("-in", "infp"),
        File("-out", "outfp"), Quit(Help), Quit(Bad),
        Require({"mpkfp", "-id"}),
        Quit(Call("sm9_enc_master_public_key_from_pem", {"mpkfp"})),
        Call("fread", {}), Call("sm9_encrypt", {"-id"}), Call("fwrite", {})>>,
      {"infp", "outfp", "mpkfp"}, {})

sm9decrypt_main ==
    Tool("sm9decrypt",
      <<Usage, File("-key", "keyfp"), Value("-pass"), Value("-id"),
        File("-in", "infp"), File("-out", "outfp"), Quit(Help), Quit(Bad),
        Require({"-key", "-pass", "-id"}),
        Fill("sm9_enc_key_info_decrypt_from_pem", {"keyfp", "-pass"}, {"key"}),
        Call("fread", {}), Fill("sm9_decrypt", {"key", "-id"}, {"outbuf"}),
        Call("fwrite", {"outbuf"})>>,
      {"keyfp", "infp", "outfp"}, {"key", "outbuf"})

-----------------------------------------------------------------------------
(* XMSS.                                                                   *)

(* When the key does not encode, that is printed and the buffer written.   *)
(* The tree inside the key is never freed.                                 *)
sm3xmss_keygen_main ==
    Tool("sm3xmss_keygen",
      <<Usage, Parse("-oid", "strcmp"), File("-out", "outfp"),
        File("-pubout", "puboutfp"), Help, Bad,
        Require({"-oid"}),
        Quit([Fill("sm3_xmss_key_generate", {}, {"key"}) EXCEPT !.gets = {"tree"}]),
        Call("sm3_xmss_key_to_bytes", {"key"}), Make("malloc", {}, {"out"}),
        Ignore(Fill("sm3_xmss_key_to_bytes", {"key", "out"}, {"bytes of out"})),
        Call("sm3_xmss_public_key_to_bytes", {"key"}),
        Make("malloc", {}, {"pubout"}),
        Call("sm3_xmss_public_key_to_bytes", {"key", "pubout"}),
        Call("fwrite", {"out", "bytes of out"}), Call("fwrite", {"pubout"})>>,
      {"out", "pubout", "outfp", "puboutfp"}, {"key", "bytes of out"})

(* The key is decoded from no bytes, before it is read.                    *)
sm3xmss_sign_main ==
    Tool("sm3xmss_sign",
      <<Usage, File("-key", "keyfp"), File("-in", "infp"),
        File("-out", "outfp"), Help, Bad,
        Require({"-key"}), Fails("sm3_xmss_key_from_bytes"),
        Fill("fread", {"keyfp"}, {"key"}),
        Fill("sm3_xmss_sign_init", {"key"}, {"sign_ctx"})>>
      \o Loop(<<Call("sm3_xmss_sign_update", {"sign_ctx"})>>)
      \o <<Call("sm3_xmss_sign_finish", {"sign_ctx", "key"}),
           Make("malloc", {}, {"sigbuf"}),
           Call("sm3_xmss_sign_finish", {"sign_ctx", "key", "sigbuf"}),
           Call("fwrite", {"sigbuf"})>>,
      {"sigbuf", "keyfp", "infp", "outfp"}, {"key", "sign_ctx"})

KeyPrograms ==
    {sm2keygen_main, sm2sign_main, sm2verify_main, sm2encrypt_main,
     sm2decrypt_main, sm9setup_main, sm9keygen_main, sm9sign_main,
     sm9verify_main, sm9encrypt_main, sm9decrypt_main, sm3xmss_keygen_main,
     sm3xmss_sign_main}
=============================================================================
