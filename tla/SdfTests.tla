------------------------------ MODULE SdfTests ------------------------------
(***************************************************************************)
(* gmssl sdftest (src/tools/sdftest.c): checks and timings of a vendor's   *)
(* SDF library, each with a device and a session of its own, as programs   *)
(* of module Calls.                                                        *)
(***************************************************************************)
EXTENDS SdfPrograms

Check(what) == Call(what, {})
Quitting(s) == [i \in DOMAIN s |-> Quit(s[i])]

(* A check returns at once when a call fails; the calls at its end are not *)
(* looked at.                                                              *)
TestOf(name, steps, close) ==
    Function(name, {"library"}, {}, {},
      Quitting(<<Do(SDF_OpenDevice), Do(SDF_OpenSession)>> \o steps) \o close)

Closed == <<Drop({"session"}), Drop({"device"})>>
Destroyed == <<Drop({"key"})>> \o Closed

test_SDF_GetDeviceInfo ==
    TestOf("test_SDF_GetDeviceInfo",
      <<Do(SDF_GetDeviceInfo), Do(SDF_CloseSession), Do(SDF_CloseDevice)>>, <<>>)

test_SDF_GenerateRandom ==
    Function("test_SDF_GenerateRandom", {"library"}, {}, {},
      Quitting(<<Do(SDF_OpenDevice), Do(SDF_OpenSession)>>)
      \o Loop(Quitting(<<Do(SDF_GenerateRandom), Check("zeros")>>)) \o Closed)

WellFormedKey ==
    <<Check("bits != 256"), Check("memcmp"), Check("sm2_z256_point_from_bytes")>>

test_SDF_ExportSignPublicKey_ECC ==
    TestOf("test_SDF_ExportSignPublicKey_ECC",
      <<Do(SDF_ExportSignPublicKey_ECC)>> \o WellFormedKey, Closed)
test_SDF_ExportEncPublicKey_ECC ==
    TestOf("test_SDF_ExportEncPublicKey_ECC",
      <<Do(SDF_ExportEncPublicKey_ECC)>> \o WellFormedKey, Closed)

(* The device's new private key is copied out and compared with the public *)
(* one.                                                                    *)
test_SDF_GenerateKeyPair_ECC ==
    TestOf("test_SDF_GenerateKeyPair_ECC",
      <<[Do(SDF_GenerateKeyPair_ECC) EXCEPT !.fills = {"eccPrivateKey"}]>>
      \o WellFormedKey
      \o <<Check("memcmp"), Fill("sm2_key_set_private_key", {"eccPrivateKey"},
                                 {"sm2_key"}),
           Check("sm2_z256_point_equ")>>,
      Closed)

(* A good signature verifies; with either part changed it must not.        *)
Refused(p) == [Do(p) EXCEPT !.call = "accepted"]

test_SDF_ExternalVerify_ECC ==
    TestOf("test_SDF_ExternalVerify_ECC",
      <<Do(SDF_ExternalVerify_ECC), Refused(SDF_ExternalVerify_ECC),
        Refused(SDF_ExternalVerify_ECC)>>, Closed)

test_SDF_ExternalEncrypt_ECC ==
    TestOf("test_SDF_ExternalEncrypt_ECC",
      <<Fill("sm2_key_generate", {}, {"sm2_key"}),
        Check("sm2_z256_point_to_bytes"), Check("rand_bytes"),
        Do(SDF_ExternalEncrypt_ECC), Check("memcmp"),
        Check("L > SM2_MAX_PLAINTEXT_SIZE"), Check("sm2_do_decrypt"),
        Check("plaintext_len"), Check("memcmp")>>, Closed)

test_SDF_GenerateKeyWithEPK_ECC ==
    TestOf("test_SDF_GenerateKeyWithEPK_ECC",
      <<Do(SDF_GenerateKeyWithEPK_ECC), Check("hKeyHandle == NULL"),
        Do(SDF_DestroyKey)>>, Closed)

test_SDF_GenerateKeyWithKEK ==
    TestOf("test_SDF_GenerateKeyWithKEK",
      <<Do(SDF_GenerateKeyWithKEK), Check("hKeyHandle == NULL"),
        Check("uiKeyLength"), Drop({"key"}), Do(SDF_ImportKeyWithKEK),
        Check("hKeyHandle == NULL")>>, Destroyed)

HashTest(name) ==
    TestOf(name,
      <<Do(SDF_HashInit), Do(SDF_HashUpdate), Do(SDF_HashFinal),
        Check("uiHashLength != 32"), Check("memcmp")>>, Closed)
test_SDF_Hash == HashTest("test_SDF_Hash")
test_SDF_Hash_Z == HashTest("test_SDF_Hash_Z")

(* This one closes everything wherever it fails.                           *)
test_SDF_GenerateKeyWithIPK_ECC ==
    LET open == {"session", "device"} IN
    Function("test_SDF_GenerateKeyWithIPK_ECC", {"library"}, {}, {},
      <<Quit(Do(SDF_OpenDevice)), Undo(Do(SDF_OpenSession), {"device"}),
        Undo(Do(SDF_GenerateKeyWithIPK_ECC), open),
        Undo(Do(SDF_Encrypt), open \cup {"key"}),
        Undo(Do(SDF_DestroyKey), open \cup {"key"}),
        Undo(Do(SDF_GetPrivateKeyAccessRight), open),
        Undo(Do(SDF_ImportKeyWithISK_ECC), open \cup {"right"}),
        Undo(Do(SDF_Decrypt), open \cup {"right", "key"}),
        Undo(Check("uiDecDataLength"), open \cup {"right", "key"}),
        Undo(Check("memcmp"), open \cup {"right", "key"}),
        Drop({"right", "key"})>> \o Closed)

(* A software key is wrapped for the device and imported, then data is     *)
(* encrypted on both sides.                                                *)
ImportSoftwareKey ==
    <<[Do(SDF_InternalEncrypt_ECC) EXCEPT !.fills = {"pucKey"}],
      Do(SDF_GetPrivateKeyAccessRight), Do(SDF_ImportKeyWithISK_ECC)>>

test_SDF_Encrypt_SM4_CBC ==
    TestOf("test_SDF_Encrypt_SM4_CBC",
      ImportSoftwareKey \o <<Do(SDF_Encrypt), Check("memcmp")>>,
      <<Drop({"right"})>> \o Destroyed)

BothWays ==
    <<Do(SDF_Encrypt), Check("uiEncDataLength"), Check("memcmp"),
      Do(SDF_Decrypt), Check("uiEncDataLength"), Check("memcmp")>>
ModeTest(name) ==
    TestOf(name,
      ImportSoftwareKey \o <<Do(SDF_ReleasePrivateKeyAccessRight)>> \o BothWays
      \o <<Do(SDF_DestroyKey), Do(SDF_CloseSession), Do(SDF_CloseDevice)>>, <<>>)
test_SDF_Encrypt_SM4_ECB == ModeTest("test_SDF_Encrypt_SM4_ECB")
test_SDF_Encrypt_SM4_CFB == ModeTest("test_SDF_Encrypt_SM4_CFB")
test_SDF_Encrypt_SM4_OFB == ModeTest("test_SDF_Encrypt_SM4_OFB")

test_SDF_Encrypt ==
    TestOf("test_SDF_Encrypt",
      <<Do(SDF_GenerateKeyWithKEK), Do(SDF_Encrypt), Do(SDF_Decrypt),
        Check("uiDecDataLength"), Check("memcmp")>>, Destroyed)

(* A MAC of another length is reported and accepted.                       *)
test_SDF_CalculateMAC ==
    TestOf("test_SDF_CalculateMAC",
      <<Do(SDF_GenerateKeyWithKEK), Do(SDF_CalculateMAC)>>,
      <<Ignore(Check("uiMACLength != 32"))>> \o Destroyed)

test_SDF_InternalSign_ECC ==
    TestOf("test_SDF_InternalSign_ECC",
      <<Do(SDF_GetPrivateKeyAccessRight), Do(SDF_InternalSign_ECC),
        Do(SDF_ReleasePrivateKeyAccessRight), Do(SDF_InternalVerify_ECC)>>,
      Closed)

test_SDF_InternalEncrypt_ECC ==
    TestOf("test_SDF_InternalEncrypt_ECC",
      <<Do(SDF_InternalEncrypt_ECC), Do(SDF_GetPrivateKeyAccessRight),
        Do(SDF_InternalDecrypt_ECC), Do(SDF_ReleasePrivateKeyAccessRight),
        Check("uiDecDataLength"), Check("memcmp")>>, Closed)

-----------------------------------------------------------------------------
(* A timing prepares with the calls p, has then x besides the session,     *)
(* repeats f and looks at its result in the first rounds only.  It closes  *)
(* everything wherever it fails.                                           *)
SpeedOf(name, prepare, x, f, finish) ==
    Function(name, {"library"}, {}, {},
      <<Quit(Do(SDF_OpenDevice)), Undo(Do(SDF_OpenSession), {"device"})>>
      \o prepare
      \o Loop(<<Undo(Do(f), {"session", "device"} \cup x)>>)
      \o Loop(<<Ignore(Do(f))>>)
      \o finish \o Closed)

Prepare(p) == Undo(Do(p), {"session", "device"})
PrepareKey == <<Prepare(SDF_GenerateKeyWithKEK)>>
GetRight == Prepare(SDF_GetPrivateKeyAccessRight)

speed_SDF_Encrypt_SM4_CBC ==
    SpeedOf("speed_SDF_Encrypt_SM4_CBC", PrepareKey, {"key"}, SDF_Encrypt,
            <<Drop({"key"})>>)
speed_SDF_Decrypt_SM4_CBC ==
    SpeedOf("speed_SDF_Decrypt_SM4_CBC", PrepareKey, {"key"}, SDF_Decrypt,
            <<Drop({"key"})>>)
speed_SDF_Hash ==
    SpeedOf("speed_SDF_Hash", <<Prepare(SDF_HashInit)>>, {}, SDF_HashUpdate,
            <<Ignore(Do(SDF_HashFinal))>>)
speed_SDF_GenerateKeyPair_ECC ==
    SpeedOf("speed_SDF_GenerateKeyPair_ECC", <<>>, {}, SDF_GenerateKeyPair_ECC,
            <<>>)
speed_SDF_InternalSign_ECC ==
    SpeedOf("speed_SDF_InternalSign_ECC", <<GetRight>>, {"right"},
            SDF_InternalSign_ECC, <<Drop({"right"})>>)
speed_SDF_InternalVerify_ECC ==
    SpeedOf("speed_SDF_InternalVerify_ECC",
            <<GetRight, Undo(Do(SDF_InternalSign_ECC),
                             {"right", "session", "device"}),
              Drop({"right"})>>,
            {}, SDF_InternalVerify_ECC, <<>>)
speed_SDF_InternalEncrypt_ECC ==
    SpeedOf("speed_SDF_InternalEncrypt_ECC", <<>>, {}, SDF_InternalEncrypt_ECC,
            <<>>)
speed_SDF_InternalDecrypt_ECC ==
    SpeedOf("speed_SDF_InternalDecrypt_ECC",
            <<Prepare(SDF_InternalEncrypt_ECC), GetRight>>, {"right"},
            SDF_InternalDecrypt_ECC, <<Drop({"right"})>>)

(* The library stays loaded on every way out.                              *)
sdftest_main ==
    Tool("sdftest",
      <<Usage, Value("-lib"), Settings({"-kek", "-key"}), Value("-pass"), Help,
        Bad, Require({"-lib"}), Require({"-pass"})>>
      \o Quitting(
           <<Do(SDF_LoadLibrary), Do(test_SDF_GenerateRandom),
             Do(test_SDF_Hash), Do(test_SDF_Hash_Z),
             Do(test_SDF_GenerateKeyWithKEK), Do(test_SDF_CalculateMAC),
             Do(test_SDF_Encrypt), Do(test_SDF_Encrypt_SM4_CBC),
             Do(test_SDF_Encrypt_SM4_ECB), Do(test_SDF_Encrypt_SM4_CFB),
             Do(test_SDF_Encrypt_SM4_OFB), Do(test_SDF_GenerateKeyPair_ECC),
             Do(test_SDF_ExportSignPublicKey_ECC),
             Do(test_SDF_ExportEncPublicKey_ECC),
             Do(test_SDF_GenerateKeyWithEPK_ECC),
             Do(test_SDF_GenerateKeyWithIPK_ECC),
             Do(test_SDF_ExternalVerify_ECC), Do(test_SDF_ExternalEncrypt_ECC),
             Do(test_SDF_InternalSign_ECC), Do(test_SDF_InternalEncrypt_ECC),
             Do(speed_SDF_Hash), Do(speed_SDF_Encrypt_SM4_CBC),
             Do(speed_SDF_Decrypt_SM4_CBC), Do(speed_SDF_GenerateKeyPair_ECC),
             Do(speed_SDF_InternalSign_ECC), Do(speed_SDF_InternalVerify_ECC),
             Do(speed_SDF_InternalEncrypt_ECC),
             Do(speed_SDF_InternalDecrypt_ECC)>>),
      {}, {})

(* The checks that return with what they opened, and the other programs.   *)
HastyTests ==
    {test_SDF_GetDeviceInfo, test_SDF_GenerateRandom,
     test_SDF_ExportSignPublicKey_ECC, test_SDF_ExportEncPublicKey_ECC,
     test_SDF_GenerateKeyPair_ECC, test_SDF_ExternalVerify_ECC,
     test_SDF_ExternalEncrypt_ECC, test_SDF_GenerateKeyWithEPK_ECC,
     test_SDF_GenerateKeyWithKEK, test_SDF_Hash, test_SDF_Hash_Z,
     test_SDF_Encrypt_SM4_CBC, test_SDF_Encrypt_SM4_ECB,
     test_SDF_Encrypt_SM4_CFB, test_SDF_Encrypt_SM4_OFB, test_SDF_Encrypt,
     test_SDF_CalculateMAC, test_SDF_InternalSign_ECC,
     test_SDF_InternalEncrypt_ECC}
SpeedTests ==
    {speed_SDF_Encrypt_SM4_CBC, speed_SDF_Decrypt_SM4_CBC, speed_SDF_Hash,
     speed_SDF_GenerateKeyPair_ECC, speed_SDF_InternalSign_ECC,
     speed_SDF_InternalVerify_ECC, speed_SDF_InternalEncrypt_ECC,
     speed_SDF_InternalDecrypt_ECC}
SdfTestPrograms ==
    HastyTests \cup SpeedTests
    \cup {test_SDF_GenerateKeyWithIPK_ECC, sdftest_main}
=============================================================================
