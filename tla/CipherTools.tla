---------------------------- MODULE CipherTools ----------------------------
(***************************************************************************)
(* The tools that digest, authenticate and encrypt a stream: src/tools/    *)
(* sm3*.c, sm4*.c, zuc.c, ghash.c and rand.c, as programs of module Calls. *)
(* What the SM4 tools do with the bytes is the subject of CipherStream.    *)
(***************************************************************************)
EXTENDS Calls

Hex(o, k) == Key(o, "hex_to_bytes", k)
Files == <<File("-in", "infp"), File("-out", "outfp"), Help, Bad>>
Direction == Settings({"-encrypt", "-decrypt"})
ChoseDirection == Call("enc < 0", {})

(* Every piece of the input goes through the context and is written, then  *)
(* what the context still held back.                                       *)
Pump(init, need, update, finish) ==
    <<Fill(init, need, {"ctx"})>>
    \o Loop(<<Fill(update, {"ctx"}, {"buf"}), Call("fwrite", {"buf"})>>)
    \o <<Fill(finish, {"ctx"}, {"buf"}), Call("fwrite", {"buf"})>>

StreamKeys == {"key", "iv", "ctx", "buf"}

sm4_ecb_main ==
    Tool("sm4_ecb",
      <<Usage, Direction, Hex("-key", "key")>> \o Files
      \o <<ChoseDirection, Require({"-key"})>>
      \o Pump("sm4_ecb_init", {"key"}, "sm4_ecb_update", "sm4_ecb_finish"),
      {"infp", "outfp"}, {"key", "ctx", "buf"})

(* A mode with a key and an IV, both required.                             *)
KeyAndIv == <<Hex("-key", "key"), Hex("-iv", "iv")>>
RequireKeyAndIv == <<Require({"-key"}), Require({"-iv"})>>

sm4_cbc_main ==
    Tool("sm4_cbc",
      <<Usage, Direction>> \o KeyAndIv \o Files
      \o <<ChoseDirection>> \o RequireKeyAndIv
      \o Pump("sm4_cbc_init", {"key", "iv"}, "sm4_cbc_update", "sm4_cbc_finish"),
      {"infp", "outfp"}, StreamKeys)

sm4_cfb_main ==
    Tool("sm4_cfb",
      <<Usage, Direction, Settings({"-sbytes"})>> \o KeyAndIv \o Files
      \o <<ChoseDirection>> \o RequireKeyAndIv
      \o Pump("sm4_cfb_init", {"key", "iv"}, "sm4_cfb_update", "sm4_cfb_finish"),
      {"infp", "outfp"}, StreamKeys)

(* The two directions of OFB and CTR are the same, and neither is asked    *)
(* for.                                                                    *)
sm4_ofb_main ==
    Tool("sm4_ofb",
      <<Usage, Direction>> \o KeyAndIv \o Files \o RequireKeyAndIv
      \o Pump("sm4_ofb_encrypt_init", {"key", "iv"}, "sm4_ofb_encrypt_update",
              "sm4_ofb_encrypt_finish"),
      {"infp", "outfp"}, StreamKeys)

sm4_ctr_main ==
    Tool("sm4_ctr",
      <<Usage, Direction>> \o KeyAndIv \o Files \o RequireKeyAndIv
      \o Pump("sm4_ctr_encrypt_init", {"key", "iv"}, "sm4_ctr_encrypt_update",
              "sm4_ctr_encrypt_finish"),
      {"infp", "outfp"}, StreamKeys)

(* XTS allocates a buffer for a data unit; it is freed, not erased.        *)
sm4_xts_main ==
    Tool("sm4_xts",
      <<Usage, Direction, Settings({"-data_unit_size"})>> \o KeyAndIv \o Files
      \o <<ChoseDirection>> \o RequireKeyAndIv
      \o <<Fill("sm4_xts_init", {"key", "iv"}, {"ctx"}),
           Make("malloc", {}, {"buf"})>>
      \o Loop(<<Call("sm4_xts_update", {"ctx", "buf"}), Call("fwrite", {"buf"})>>)
      \o <<Call("sm4_xts_finish", {"ctx", "buf"}), Call("fwrite", {"buf"})>>,
      {"infp", "outfp", "buf"}, {"key", "iv", "ctx"})

(* "-aad" keeps the argument, "-aad_hex" decodes it into a new buffer.     *)
AadOptions ==
    <<Load("-aad_hex", "malloc", "aad_buf")>>
    \o Given({"-aad_hex"}, <<Call("hex_to_bytes", {"aad_buf"})>>)

AeadOptions ==
    <<Usage, Direction>> \o KeyAndIv \o AadOptions
    \o <<Settings({"-aad", "-taglen"})>> \o Files
    \o <<ChoseDirection>> \o RequireKeyAndIv

sm4_gcm_main ==
    Tool("sm4_gcm",
      AeadOptions
      \o Pump("sm4_gcm_init", {"key", "iv"}, "sm4_gcm_update", "sm4_gcm_finish"),
      {"infp", "outfp"}, StreamKeys)

sm4_cbc_sm3_hmac_main ==
    Tool("sm4_cbc_sm3_hmac",
      AeadOptions
      \o Pump("sm4_cbc_sm3_hmac_init", {"key", "iv"},
              "sm4_cbc_sm3_hmac_update", "sm4_cbc_sm3_hmac_finish"),
      {"infp", "outfp"}, StreamKeys)

sm4_ctr_sm3_hmac_main ==
    Tool("sm4_ctr_sm3_hmac",
      AeadOptions
      \o Pump("sm4_ctr_sm3_hmac_init", {"key", "iv"},
              "sm4_ctr_sm3_hmac_update", "sm4_ctr_sm3_hmac_finish"),
      {"infp", "outfp"}, StreamKeys)

(* CCM needs the whole input: a buffer that doubles until it fits.         *)
read_content ==
    Function("read_content", {}, {}, {"buffer"},
      <<Quit(Make("malloc", {}, {"buffer"}))>>
      \o Loop(<<Undo(Call("MAX_BUFFER_SIZE", {}), {"buffer"}),
                Undo(Call("realloc", {"buffer"}), {"buffer"}),
                Undo(Call("ferror", {}), {"buffer"})>>)
      \o <<Hand({"buffer"})>>)

CcmCrypt ==
    <<Act("sm4_set_encrypt_key", {"key"}, {"sm4_key"}),
      [Do(read_content) EXCEPT !.gets = {"inbuf"}]>>
    \o May(<<Call("inlen < taglen", {})>>)
    \o <<Make("malloc", {}, {"outbuf"}),
         Call("sm4_ccm_crypt", {"sm4_key", "iv", "inbuf", "outbuf"}),
         Call("fwrite", {"outbuf"})>>

sm4_ccm_main ==
    Tool("sm4_ccm", AeadOptions \o CcmCrypt,
      {"infp", "outfp", "inbuf", "outbuf"}, {"key", "iv", "sm4_key"})

(* The same inside the tool of all modes; its caller has key and iv.       *)
sm4_ccm_crypt ==
    WithEnd("sm4_ccm_crypt", {"key", "iv"}, {}, {},
      <<Quit(Call("keylen", {})), Quit(Call("ivlen", {})),
        Quit(Call("taglen", {})), Quit(Call("enc < 0", {}))>>
      \o CcmCrypt,
      {"inbuf", "outbuf"}, {"sm4_key"})

(* The tool of all modes.  The length of the IV is looked at in every mode *)
(* but XTS.  CTR ends early.  CCM does not: it goes on to the switches,    *)
(* which have no case for it, and to the tests of rv, which nothing has    *)
(* set.                                                                    *)
sm4_main ==
    LET modes == {"-ecb", "-cbc", "-cfb", "-ofb", "-ctr", "-ccm", "-gcm", "-xts",
                  "-cbc_sm3_hmac", "-ctr_sm3_hmac"}
        ctr == <<Require({"-iv"})>>
               \o Pump("sm4_ctr_encrypt_init", {"key", "iv"},
                       "sm4_ctr_encrypt_update", "sm4_ctr_encrypt_finish")
        ecb == Given({"-iv"}, <<Stop>>)
               \o Pump("sm4_ecb_init", {"key"}, "sm4_ecb_update",
                       "sm4_ecb_finish")
        xts == Pump("sm4_xts_init", {"key", "iv"}, "sm4_xts_update",
                    "sm4_xts_finish")
        ccm == <<Require({"-iv"}), Call("sm4_ccm_crypt", {"key", "iv"}),
                 Call("rv != 1", {"rv"}), Call("rv != 1", {"rv"}),
                 Call("fwrite", {"buf"})>>
        others == <<Require({"-iv"})>>
                  \o Pump("init", {"key", "iv"}, "update", "finish")
    IN
    Tool("sm4",
      <<Usage, Settings(modes \cup {"-taglen", "-xts_data_unit_size", "-aad"}),
        Direction>>
      \o KeyAndIv \o AadOptions \o Files
      \o <<Call("mode", {}), Require({"-key"}), Call("keylen", {}),
           Call("aad", {})>>
      \o Either(ctr, <<ChoseDirection>>
                     \o Either(Either(ecb, xts), Either(ccm, others))),
      {"infp", "outfp", "aad_buf"}, StreamKeys)

zuc_main ==
    Tool("zuc",
      <<Usage>> \o KeyAndIv \o Files \o RequireKeyAndIv
      \o Pump("zuc_encrypt_init", {"key", "iv"}, "zuc_encrypt_update",
              "zuc_encrypt_finish"),
      {"infp", "outfp"}, StreamKeys)

-----------------------------------------------------------------------------
(* Digests and MACs of a string or of a file, printed or written.          *)

Input == File("-in", "infp")
DigestOptions(in) ==
    <<Settings({"-hex", "-bin"}), Value("-in_str"), in, File("-out", "outfp"),
      Help, Bad>>

Digest(update, u) ==
    IfGiven({"-in_str"}, <<Call(update, u)>>, Loop(<<Call(update, u)>>))

WriteDigest == May(<<Call("fwrite", {})>>)

sm3_main ==
    Tool("sm3",
      <<File("-pubkey", "pubkeyfp"), Value("-id"),
        Except({"-id"}, Parse("-id_hex", "hex_to_bytes"))>>
      \o DigestOptions(Except({"-in_str"}, Input))
      \o Given({"-id"}, <<Require({"-pubkey"})>>)
      \o Given({"-id_hex"}, <<Require({"-pubkey"})>>)
      \o <<Call("sm3_digest_init", {})>>
      \o Given({"-pubkey"},
           <<Call("sm2_public_key_info_from_pem", {"pubkeyfp"}),
             Act("sm2_compute_z", {}, {}), Call("sm3_digest_update", {})>>)
      \o Digest("sm3_digest_update", {})
      \o <<Call("sm3_digest_finish", {})>> \o WriteDigest,
      {"pubkeyfp", "infp", "outfp"}, {})

sm3hmac_main ==
    Tool("sm3hmac",
      <<Usage, Hex("-key", "key")>> \o DigestOptions(Input)
      \o <<Require({"-key"}), Fill("sm3_digest_init", {"key"}, {"ctx"})>>
      \o Digest("sm3_digest_update", {"ctx"})
      \o <<Call("sm3_digest_finish", {"ctx"})>> \o WriteDigest,
      {"infp", "outfp"}, {"key", "ctx"})

(* sm4_cbc_mac_* return nothing.                                           *)
sm4_cbc_mac_main ==
    Tool("sm4_cbc_mac",
      <<Usage, Hex("-key", "key")>> \o DigestOptions(Input)
      \o <<Require({"-key"}), Act("sm4_cbc_mac_init", {"key"}, {"ctx"})>>
      \o Loop(<<Act("sm4_cbc_mac_update", {"ctx"}, {})>>)
      \o <<Act("sm4_cbc_mac_finish", {"ctx"}, {})>> \o WriteDigest,
      {"infp", "outfp"}, {"key", "ctx"})

(* Nothing asks whether "-h" was given, and nothing frees aad_buf.         *)
ghash_main ==
    Tool("ghash",
      <<Parse("-h", "hex_to_bytes")>> \o AadOptions
      \o DigestOptions(Except({"-in_str"}, Input))
      \o <<Act("ghash_init", {"-h"}, {})>>
      \o Loop(<<Act("ghash_update", {}, {})>>)
      \o <<Act("ghash_finish", {}, {})>> \o WriteDigest,
      {"infp", "outfp"}, {})

sm3_pbkdf2_main ==
    Tool("sm3_pbkdf2",
      <<Usage, Value("-pass"), Hex("-salt", "salt"), Parse("-iter", "iter"),
        Parse("-outlen", "outlen"), Settings({"-hex", "-bin"}),
        File("-out", "outfp"), Help, Bad,
        Require({"-pass"}), Require({"-salt"}), Require({"-iter"}),
        Require({"-outlen"}),
        Fill("sm3_pbkdf2", {"-pass", "salt", "-iter"}, {"outbuf"})>>
      \o May(<<Call("fwrite", {"outbuf"})>>),
      {"outfp"}, {"outbuf", "salt"})

(* The build has neither RDRAND nor RDSEED: asked for one, the tool says so *)
(* and goes on with what the buffer holds.                                 *)
rand_main ==
    Tool("rand",
      <<Usage, Settings({"-hex"}), Value("-rdrand"),
        Parse("-outlen", "outlen"), File("-out", "outfp"), Help, Bad,
        Require({"-outlen"})>>
      \o Loop(IfGiven({"-rdrand"}, <<Reject>>,
                      <<Fill("rand_bytes", {}, {"buf"})>>)
              \o <<Call("fwrite", {"buf"})>>),
      {"outfp"}, {"buf"})

CipherPrograms ==
    {sm4_ecb_main, sm4_cbc_main, sm4_cfb_main, sm4_ofb_main, sm4_ctr_main,
     sm4_xts_main, sm4_gcm_main, sm4_cbc_sm3_hmac_main, sm4_ctr_sm3_hmac_main,
     read_content, sm4_ccm_main, sm4_ccm_crypt, sm4_main, zuc_main, sm3_main,
     sm3hmac_main, sm4_cbc_mac_main, ghash_main, sm3_pbkdf2_main, rand_main}
=============================================================================
