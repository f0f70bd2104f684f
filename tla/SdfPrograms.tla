----------------------------- MODULE SdfPrograms -----------------------------
(***************************************************************************)
(* The SDF device layer: the functions that pass a call on to the vendor's *)
(* library (src/src/sdf/sdf_lib.c), the functions of src/src/sdf/sdf.c     *)
(* built from them, and the sdf tools built from those, as programs of     *)
(* module Calls.  Each level calls the one below by what it promises.      *)
(*                                                                         *)
(* "library" is the loaded vendor library, "device" and "session" are open *)
(* handles, "key" is a key inside the device, "right" the permission to    *)
(* use a private key of the device, "agreement" a half finished key        *)
(* agreement.  The device is external: closing a session ends the rights   *)
(* obtained and the keys made in it.                                       *)
(***************************************************************************)
EXTENDS Calls

InSession(name) == Forward(name, {"session"}, {}, {})
MakesKey(name) == Forward(name, {"session"}, {}, {"key"})

(* SDF_METHOD_free, under the end label, closes dso as soon as the         *)
(* structure is there, loaded or not.                                      *)
SDF_METHOD_load_library ==
    WithEnd("SDF_METHOD_load_library", {}, {}, {"sdf", "dso"},
      <<Make("malloc", {}, {"sdf"}), [Sure EXCEPT !.drops = {"dso"}],
        Make("dylib_load_library", {}, {"dso"}), Hand({"sdf", "dso"})>>,
      {"sdf", "dso"}, {})

(* The library loaded before, if any, is freed first.                      *)
SDF_LoadLibrary ==
    Function("SDF_LoadLibrary", {}, {}, {"library"},
      <<Quit(Make("SDF_METHOD_load_library", {}, {"library"})),
        Hand({"library"})>>)

SDF_UnloadLibrary ==
    Function("SDF_UnloadLibrary", {"library"}, {"library"}, {},
      <<Drop({"library"})>>)

SDF_OpenDevice == Forward("SDF_OpenDevice", {}, {}, {"device"})
SDF_CloseDevice == Forward("SDF_CloseDevice", {"device"}, {"device"}, {})
SDF_OpenSession == Forward("SDF_OpenSession", {"device"}, {}, {"session"})
SDF_CloseSession == Forward("SDF_CloseSession", {"session"}, {"session"}, {})
SDF_GetDeviceInfo == InSession("SDF_GetDeviceInfo")
SDF_GenerateRandom == InSession("SDF_GenerateRandom")
SDF_GetPrivateKeyAccessRight ==
    Forward("SDF_GetPrivateKeyAccessRight", {"session"}, {}, {"right"})
SDF_ReleasePrivateKeyAccessRight ==
    Forward("SDF_ReleasePrivateKeyAccessRight", {"session", "right"},
            {"right"}, {})
SDF_ExportSignPublicKey_RSA == InSession("SDF_ExportSignPublicKey_RSA")
SDF_ExportEncPublicKey_RSA == InSession("SDF_ExportEncPublicKey_RSA")
SDF_GenerateKeyPair_RSA == InSession("SDF_GenerateKeyPair_RSA")
SDF_GenerateKeyWithIPK_RSA == MakesKey("SDF_GenerateKeyWithIPK_RSA")
SDF_GenerateKeyWithEPK_RSA == MakesKey("SDF_GenerateKeyWithEPK_RSA")
SDF_ImportKeyWithISK_RSA == MakesKey("SDF_ImportKeyWithISK_RSA")
SDF_ExchangeDigitEnvelopeBaseOnRSA ==
    InSession("SDF_ExchangeDigitEnvelopeBaseOnRSA")
SDF_ExportSignPublicKey_ECC == InSession("SDF_ExportSignPublicKey_ECC")
SDF_ExportEncPublicKey_ECC == InSession("SDF_ExportEncPublicKey_ECC")
SDF_GenerateKeyPair_ECC == Converting("SDF_GenerateKeyPair_ECC", {"session"}, {})
SDF_GenerateKeyWithIPK_ECC == MakesKey("SDF_GenerateKeyWithIPK_ECC")
SDF_GenerateKeyWithEPK_ECC ==
    Converting("SDF_GenerateKeyWithEPK_ECC", {"session"}, {"key"})
SDF_ImportKeyWithISK_ECC == MakesKey("SDF_ImportKeyWithISK_ECC")
SDF_GenerateAgreementDataWithECC ==
    Forward("SDF_GenerateAgreementDataWithECC", {"session"}, {}, {"agreement"})
SDF_GenerateKeyWithECC ==
    Forward("SDF_GenerateKeyWithECC", {"session", "agreement"}, {"agreement"},
            {"key"})
SDF_GenerateAgreementDataAndKeyWithECC ==
    MakesKey("SDF_GenerateAgreementDataAndKeyWithECC")
SDF_ExchangeDigitEnvelopeBaseOnECC ==
    Converting("SDF_ExchangeDigitEnvelopeBaseOnECC", {"session"}, {})
SDF_GenerateKeyWithKEK ==
    Converting("SDF_GenerateKeyWithKEK", {"session"}, {"key"})
SDF_ImportKeyWithKEK == Converting("SDF_ImportKeyWithKEK", {"session"}, {"key"})
SDF_DestroyKey == Forward("SDF_DestroyKey", {"session", "key"}, {"key"}, {})
SDF_ExternalPublicKeyOperation_RSA ==
    InSession("SDF_ExternalPublicKeyOperation_RSA")
SDF_InternalPublicKeyOperation_RSA ==
    InSession("SDF_InternalPublicKeyOperation_RSA")
SDF_InternalPrivateKeyOperation_RSA ==
    InSession("SDF_InternalPrivateKeyOperation_RSA")
SDF_ExternalVerify_ECC == Converting("SDF_ExternalVerify_ECC", {"session"}, {})
SDF_InternalSign_ECC ==
    Forward("SDF_InternalSign_ECC", {"session", "right"}, {}, {})
SDF_InternalVerify_ECC == InSession("SDF_InternalVerify_ECC")
SDF_ExternalEncrypt_ECC == Converting("SDF_ExternalEncrypt_ECC", {"session"}, {})

(* A vendor with a ciphertext layout of its own gets a second buffer,      *)
(* translated after encrypting or before decrypting.                       *)
SDF_InternalEncrypt_ECC ==
    WithEnd("SDF_InternalEncrypt_ECC", {"library", "session"}, {}, {},
      <<Quit(Call("not supported", {"library"}))>>
      \o May(<<Quit(Make("SDF_NewECCCipher", {}, {"buf"}))>>)
      \o May(<<Call("pkey_std2vendor", {})>>)
      \o <<Call("InternalEncrypt_ECC", {"session"})>>
      \o Given({"buf"}, <<Call("decode_ecccipher", {"buf"})>>),
      {"buf"}, {})

SDF_InternalDecrypt_ECC ==
    WithEnd("SDF_InternalDecrypt_ECC", {"library", "session", "right"}, {}, {},
      <<Quit(Call("not supported", {"library"}))>> \o Convert
      \o May(<<Quit(Make("SDF_NewECCCipher", {}, {"buf"})),
               Call("encode_ecccipher", {"buf"})>>)
      \o <<Call("InternalDecrypt_ECC", {"session"})>>,
      {"buf"}, {})

SDF_Encrypt == Converting("SDF_Encrypt", {"session", "key"}, {})
SDF_Decrypt == Converting("SDF_Decrypt", {"session", "key"}, {})
SDF_CalculateMAC == Converting("SDF_CalculateMAC", {"session", "key"}, {})
SDF_HashInit == Converting("SDF_HashInit", {"session"}, {})
SDF_HashUpdate == InSession("SDF_HashUpdate")
SDF_HashFinal == InSession("SDF_HashFinal")
SDF_CreateFile == InSession("SDF_CreateFile")
SDF_ReadFile == InSession("SDF_ReadFile")
SDF_WriteFile == InSession("SDF_WriteFile")
SDF_DeleteFile == InSession("SDF_DeleteFile")

SdfLibrary ==
    {SDF_METHOD_load_library, SDF_LoadLibrary, SDF_UnloadLibrary,
     SDF_OpenDevice, SDF_CloseDevice, SDF_OpenSession, SDF_CloseSession,
     SDF_GetDeviceInfo, SDF_GenerateRandom, SDF_GetPrivateKeyAccessRight,
     SDF_ReleasePrivateKeyAccessRight, SDF_ExportSignPublicKey_RSA,
     SDF_ExportEncPublicKey_RSA, SDF_GenerateKeyPair_RSA,
     SDF_GenerateKeyWithIPK_RSA, SDF_GenerateKeyWithEPK_RSA,
     SDF_ImportKeyWithISK_RSA, SDF_ExchangeDigitEnvelopeBaseOnRSA,
     SDF_ExportSignPublicKey_ECC, SDF_ExportEncPublicKey_ECC,
     SDF_GenerateKeyPair_ECC, SDF_GenerateKeyWithIPK_ECC,
     SDF_GenerateKeyWithEPK_ECC, SDF_ImportKeyWithISK_ECC,
     SDF_GenerateAgreementDataWithECC, SDF_GenerateKeyWithECC,
     SDF_GenerateAgreementDataAndKeyWithECC,
     SDF_ExchangeDigitEnvelopeBaseOnECC, SDF_GenerateKeyWithKEK,
     SDF_ImportKeyWithKEK, SDF_DestroyKey, SDF_ExternalPublicKeyOperation_RSA,
     SDF_InternalPublicKeyOperation_RSA, SDF_InternalPrivateKeyOperation_RSA,
     SDF_ExternalVerify_ECC, SDF_InternalSign_ECC, SDF_InternalVerify_ECC,
     SDF_ExternalEncrypt_ECC, SDF_InternalEncrypt_ECC, SDF_InternalDecrypt_ECC,
     SDF_Encrypt, SDF_Decrypt, SDF_CalculateMAC, SDF_HashInit, SDF_HashUpdate,
     SDF_HashFinal, SDF_CreateFile, SDF_ReadFile, SDF_WriteFile,
     SDF_DeleteFile}

-----------------------------------------------------------------------------
(* src/src/sdf/sdf.c.  Arguments is the test of the arguments every        *)
(* function begins with; a call without a buffer, which only asks for a    *)
(* length, is left out.                                                    *)
Arguments == Quit(Call("arguments", {}))

sdf_load_library ==
    Function("sdf_load_library", {}, {}, {"library"},
      <<Quit(Do(SDF_LoadLibrary)), Hand({"library"})>>)

sdf_open_device ==
    Function("sdf_open_device", {"library"}, {}, {"device"},
      <<Quit(Do(SDF_OpenDevice)), Undo(Do(SDF_OpenSession), {"device"}),
        Undo(Do(SDF_GetDeviceInfo), {"session", "device"}),
        Drop({"session"}), Hand({"device"})>>)

sdf_print_device_info ==
    Function("sdf_print_device_info", {"library", "device"}, {}, {},
      <<Quit(Do(SDF_OpenSession)), Undo(Do(SDF_GetDeviceInfo), {"session"}),
        Drop({"session"})>>)

(* A digest context is a session.                                          *)
sdf_digest_init ==
    Function("sdf_digest_init", {"library", "device"}, {}, {"session"},
      <<Arguments, Quit(Do(SDF_OpenSession)),
        Undo(Do(SDF_HashInit), {"session"}), Hand({"session"})>>)
sdf_digest_update ==
    Function("sdf_digest_update", {"library", "session"}, {}, {},
      <<Arguments, Quit(Do(SDF_HashUpdate))>>)
sdf_digest_finish ==
    Function("sdf_digest_finish", {"library", "session"}, {}, {},
      <<Arguments, Quit(Do(SDF_HashFinal)), Quit(Call("dgstlen != 32", {}))>>)
sdf_digest_reset ==
    Function("sdf_digest_reset", {"library", "session"}, {}, {},
      <<Arguments, Quit(Do(SDF_HashInit))>>)
sdf_digest_cleanup ==
    Function("sdf_digest_cleanup", {"library", "session"}, {"session"}, {},
      <<Quit(Do(SDF_CloseSession))>>)

KeyInUse == {"library", "session", "key"}

(* Whole blocks go through the device, which must return as many bytes.    *)
sdf_cbc_encrypt_blocks ==
    Function("sdf_cbc_encrypt_blocks", KeyInUse, {}, {},
      <<Quit(Do(SDF_Encrypt)), Quit(Call("outlen != inlen", {}))>>)
sdf_cbc_decrypt_blocks ==
    Function("sdf_cbc_decrypt_blocks", KeyInUse, {}, {},
      <<Quit(Do(SDF_Decrypt)), Quit(Call("outlen != inlen", {}))>>)
sdf_cbc_padding_encrypt ==
    Function("sdf_cbc_padding_encrypt", KeyInUse, {}, {},
      May(<<Quit(Do(sdf_cbc_encrypt_blocks))>>)
      \o <<Quit(Do(sdf_cbc_encrypt_blocks))>>)
sdf_cbc_padding_decrypt ==
    Function("sdf_cbc_padding_decrypt", KeyInUse, {}, {},
      <<Quit(Call("inlen", {}))>> \o May(<<Quit(Do(sdf_cbc_decrypt_blocks))>>)
      \o <<Quit(Do(sdf_cbc_decrypt_blocks)), Quit(Call("padding", {}))>>)
sdf_cbc_encrypt_init ==
    Function("sdf_cbc_encrypt_init", KeyInUse, {}, {}, <<Arguments>>)
sdf_cbc_encrypt_update ==
    Function("sdf_cbc_encrypt_update", KeyInUse, {}, {},
      <<Arguments>> \o May(<<Quit(Do(sdf_cbc_encrypt_blocks))>>)
      \o May(<<Quit(Do(sdf_cbc_encrypt_blocks))>>))
sdf_cbc_encrypt_finish ==
    Function("sdf_cbc_encrypt_finish", KeyInUse, {}, {},
      <<Arguments, Quit(Do(sdf_cbc_padding_encrypt))>>)
sdf_cbc_decrypt_init ==
    Function("sdf_cbc_decrypt_init", KeyInUse, {}, {}, <<Arguments>>)
sdf_cbc_decrypt_update ==
    Function("sdf_cbc_decrypt_update", KeyInUse, {}, {},
      <<Arguments>> \o May(<<Quit(Do(sdf_cbc_decrypt_blocks))>>)
      \o May(<<Quit(Do(sdf_cbc_decrypt_blocks))>>))
sdf_cbc_decrypt_finish ==
    Function("sdf_cbc_decrypt_finish", KeyInUse, {}, {},
      <<Arguments, Quit(Call("block_nbytes", {})),
        Quit(Do(sdf_cbc_padding_decrypt))>>)

(* A key of the device together with the session it lives in.              *)
sdf_generate_key ==
    Function("sdf_generate_key", {"library", "device"}, {}, {"session", "key"},
      <<Arguments, Quit(Do(SDF_OpenSession)),
        Undo(Do(SDF_GenerateKeyWithEPK_ECC), {"session"}),
        Undo(Call("ECCCipher_to_SM2_CIPHERTEXT", {}), {"key", "session"}),
        Undo(Call("sm2_ciphertext_to_der", {}), {"key", "session"}),
        Hand({"session", "key"})>>)

sdf_destroy_key ==
    Function("sdf_destroy_key", KeyInUse, {"session", "key"}, {},
      <<Quit(Do(SDF_DestroyKey)), Forget({"session"})>>)

sdf_import_key ==
    Function("sdf_import_key", {"library", "device"}, {}, {"session", "key"},
      <<Arguments, Quit(Call("sm2_ciphertext_from_der", {})),
        Quit(Do(SDF_OpenSession)),
        Undo(Do(SDF_GetPrivateKeyAccessRight), {"session"}),
        Undo(Do(SDF_ImportKeyWithISK_ECC), {"session", "right"}),
        Undo(Do(SDF_ReleasePrivateKeyAccessRight), {"session", "right", "key"}),
        Hand({"session", "key"})>>)

ExportPublicKey(name, f) ==
    Function(name, {"library", "device"}, {}, {},
      <<Arguments, Quit(Do(SDF_OpenSession)), Undo(Do(f), {"session"}),
        Drop({"session"}), Quit(Call("ECCrefPublicKey_to_SM2_Z256_POINT", {}))>>)

sdf_export_sign_public_key ==
    ExportPublicKey("sdf_export_sign_public_key", SDF_ExportSignPublicKey_ECC)
sdf_export_encrypt_public_key ==
    ExportPublicKey("sdf_export_encrypt_public_key", SDF_ExportEncPublicKey_ECC)

(* The private key is an index, used in a session with the right to it.    *)
PrivateKey == {"library", "session", "right"}

sdf_load_private_key ==
    Function("sdf_load_private_key", {"library", "device"}, {},
      {"session", "right"},
      <<Arguments, Quit(Do(SDF_OpenSession)),
        Undo(Do(SDF_GetPrivateKeyAccessRight), {"session"}),
        Hand({"session", "right"})>>)
sdf_sign ==
    Function("sdf_sign", PrivateKey, {}, {},
      <<Arguments, Quit(Do(SDF_InternalSign_ECC)),
        Quit(Call("ECCSignature_to_SM2_SIGNATURE", {})),
        Quit(Call("sm2_signature_to_der", {}))>>)
sdf_decrypt ==
    Function("sdf_decrypt", PrivateKey, {}, {},
      <<Arguments, Quit(Call("sm2_ciphertext_from_der", {})),
        Quit(Do(SDF_InternalDecrypt_ECC))>>)
sdf_sign_init ==
    Function("sdf_sign_init", PrivateKey, {}, {},
      <<Arguments, Quit(Do(SDF_ExportSignPublicKey_ECC)),
        Quit(Call("ECCrefPublicKey_to_SM2_Z256_POINT", {})),
        Quit(Call("idlen", {}))>>)
sdf_sign_finish ==
    Function("sdf_sign_finish", PrivateKey, {}, {},
      <<Arguments, Quit(Do(sdf_sign))>>)
sdf_release_key ==
    Function("sdf_release_key", PrivateKey, {"session", "right"}, {},
      <<Ignore(Do(SDF_ReleasePrivateKeyAccessRight)),
        [Quit(Do(SDF_CloseSession)) EXCEPT !.drops = {"session", "right"}]>>)
sdf_close_device ==
    Function("sdf_close_device", {"library", "device"}, {"device"}, {},
      <<Quit(Do(SDF_CloseDevice))>>)

SdfFunctions ==
    {sdf_load_library, sdf_open_device, sdf_print_device_info, sdf_digest_init,
     sdf_digest_update, sdf_digest_finish, sdf_digest_reset,
     sdf_digest_cleanup, sdf_cbc_encrypt_blocks, sdf_cbc_decrypt_blocks,
     sdf_cbc_padding_encrypt, sdf_cbc_padding_decrypt, sdf_cbc_encrypt_init,
     sdf_cbc_encrypt_update, sdf_cbc_encrypt_finish, sdf_cbc_decrypt_init,
     sdf_cbc_decrypt_update, sdf_cbc_decrypt_finish, sdf_generate_key,
     sdf_destroy_key, sdf_import_key, sdf_export_sign_public_key,
     sdf_export_encrypt_public_key, sdf_load_private_key, sdf_sign,
     sdf_decrypt, sdf_sign_init, sdf_sign_finish, sdf_release_key,
     sdf_close_device}

-----------------------------------------------------------------------------
(* The tools.  Each loads the library -lib names and opens its device.     *)
OpenDevice == <<Do(sdf_load_library), Do(sdf_open_device)>>

sdfinfo_main ==
    Tool("sdfinfo",
      <<Usage, Value("-lib"), Help, Bad, Require({"-lib"})>> \o OpenDevice
      \o <<Ignore(Do(sdf_print_device_info)), Drop({"device"})>>,
      {"library"}, {})

sdfdigest_main ==
    Tool("sdfdigest",
      <<Value("-lib"), Settings({"-hex", "-bin"}), File("-pubkey", "pubkeyfp"),
        Settings({"-id", "-id_hex"}), Value("-in_str"),
        Except({"-in_str"}, File("-in", "infp")), File("-out", "outfp"),
        Help, Bad, Require({"-lib"}), Call("-id without -pubkey", {})>>
      \o OpenDevice
      \o <<Do(sdf_digest_init)>>
      \o Given({"-pubkey"},
           <<Call("sm2_public_key_info_from_pem", {"pubkeyfp"}),
             Do(sdf_digest_update)>>)
      \o Loop(<<Do(sdf_digest_update)>>)
      \o <<Do(sdf_digest_finish), Call("fwrite", {})>>,
      {"session", "pubkeyfp", "infp", "outfp"}, {})

sdfexport_main ==
    Tool("sdfexport",
      <<Usage, Value("-lib"), Value("-sign"),
        Except({"-sign"}, Value("-encrypt")), Parse("-key", "index < 0"),
        File("-out", "outfp"), Help, Bad, Require({"-lib"}),
        Call("no public key asked for", {}), Require({"-key"})>>
      \o OpenDevice
      \o IfGiven({"-sign"}, <<Do(sdf_export_sign_public_key)>>,
                 <<Do(sdf_export_encrypt_public_key)>>)
      \o <<Call("sm2_public_key_info_to_pem", {}), Drop({"device"})>>,
      {"library"}, {})

(* The device is closed where a call fails, or after the signature.  The   *)
(* session of the key is not closed.                                       *)
sdfsign_main ==
    Tool("sdfsign",
      <<Usage, Value("-lib"), Parse("-key", "key_index < 0"), Value("-pass"),
        File("-in", "infp"), File("-out", "outfp"), Help, Bad,
        Require({"-lib"}), Require({"-key"}), Require({"-pass"})>>
      \o OpenDevice
      \o <<Closing(Do(sdf_load_private_key), {"device"}),
           Closing(Do(sdf_sign_init), {"device"})>>
      \o Loop(<<Closing(Call("sdf_sign_update", {}), {"device"})>>)
      \o <<Closing(Do(sdf_sign_finish), {"device"}), Drop({"device"}),
           Call("fwrite", {})>>,
      {"library", "infp", "outfp"}, {})

(* "text" is output that is still to be written.  The end labels call      *)
(* sdf_destroy_key, which leaves the session open.                         *)
Produce(s) == [s EXCEPT !.gets = {"text"}]
Write == Closing(Release("fwrite", {}, {"text"}), {"text"})

sdfencrypt_main ==
    Tool("sdfencrypt",
      <<Usage, Value("-lib"), File("-pubkey", "pubkeyfp"),
        Except({"-pubkey"}, File("-cert", "certfp")), File("-in", "infp"),
        File("-out", "outfp"), Help, Bad, Require({"-lib"})>>
      \o OpenDevice
      \o IfGiven({"-pubkey"},
           <<Call("sm2_public_key_info_from_pem", {"pubkeyfp"})>>,
           <<Require({"-cert"}), Call("x509_cert_from_pem", {"certfp"}),
             Call("x509_cert_get_subject_public_key", {})>>)
      \o <<Do(sdf_generate_key), Call("fwrite", {}),
           Ignore(Call("rand_bytes", {})), Call("fwrite", {}),
           Do(sdf_cbc_encrypt_init)>>
      \o Loop(<<Produce(Do(sdf_cbc_encrypt_update)), Write>>)
      \o <<Produce(Do(sdf_cbc_encrypt_finish)), Write>>,
      {"key", "device", "library", "infp", "outfp"}, {})

sdfdecrypt_main ==
    Tool("sdfdecrypt",
      <<Usage, Value("-lib"), Parse("-key", "key_index < 0"), Value("-pass"),
        File("-in", "infp"), File("-out", "outfp"), Help, Bad,
        Require({"-lib"})>>
      \o OpenDevice
      \o <<Require({"-key"}), Require({"-pass"}), Call("fread", {}),
           Call("sm2_ciphertext_from_der", {})>>
      \o May(<<Call("fread", {})>>)
      \o <<Quit(Do(sdf_import_key)), Do(sdf_cbc_decrypt_init)>>
      \o May(<<Produce(Do(sdf_cbc_decrypt_update))>>)
      \o Loop(<<Produce(Do(sdf_cbc_decrypt_update)), Write>>)
      \o <<Produce(Do(sdf_cbc_decrypt_finish)), Write>>,
      {"key", "device", "library", "infp", "outfp"}, {})

SdfTools ==
    {sdfinfo_main, sdfdigest_main, sdfexport_main, sdfsign_main,
     sdfencrypt_main, sdfdecrypt_main}
=============================================================================
