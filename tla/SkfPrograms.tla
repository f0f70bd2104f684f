----------------------------- MODULE SkfPrograms -----------------------------
(***************************************************************************)
(* The SKF device layer: the functions that pass a call on to the vendor's *)
(* library (src/src/skf/skf_lib.c), the functions built from them          *)
(* (skf_ext.c and skf.c), and the tool skfutil, as programs of module      *)
(* Calls.                                                                  *)
(*                                                                         *)
(* "device" is a connected device, "lock" its lock, "app" and "container"  *)
(* are open, "key", "hash", "mac" and "agreement" are handles of things    *)
(* inside it.  The device is external: disconnecting ends the lock.        *)
(***************************************************************************)
EXTENDS Calls

OfDevice(name) == Forward(name, {"device"}, {}, {})
OfApp(name) == Forward(name, {"app"}, {}, {})
OfContainer(name) == Forward(name, {"container"}, {}, {})
OfKey(name) == Forward(name, {"key"}, {}, {})
OfHash(name) == Forward(name, {"hash"}, {}, {})
OfMac(name) == Forward(name, {"mac"}, {}, {})
Plain(name) == Forward(name, {}, {}, {})

(* A vendor that is not known is refused after the library was loaded,     *)
(* which stays.                                                            *)
SKF_LoadLibrary ==
    Function("SKF_LoadLibrary", {}, {}, {"library"},
      <<Quit(Make("SKF_METHOD_load_library", {}, {"library"}))>>
      \o May(<<Quit(Call("unknown vendor", {}))>>) \o <<Hand({"library"})>>)
SKF_UnloadLibrary ==
    Function("SKF_UnloadLibrary", {"library"}, {"library"}, {},
      <<Drop({"library"})>>)

SKF_WaitForDevEvent == Plain("SKF_WaitForDevEvent")
SKF_CancelWaitForDevEvent == Plain("SKF_CancelWaitForDevEvent")
SKF_EnumDev == Plain("SKF_EnumDev")
SKF_ConnectDev == Forward("SKF_ConnectDev", {}, {}, {"device"})
SKF_DisConnectDev == Forward("SKF_DisConnectDev", {"device"}, {"device"}, {})
SKF_GetDevState == Plain("SKF_GetDevState")
SKF_SetLabel == OfDevice("SKF_SetLabel")
SKF_GetDevInfo == OfDevice("SKF_GetDevInfo")
SKF_LockDev == Forward("SKF_LockDev", {"device"}, {}, {"lock"})
SKF_UnlockDev == Forward("SKF_UnlockDev", {"device", "lock"}, {"lock"}, {})
SKF_Transmit == OfDevice("SKF_Transmit")
SKF_ChangeDevAuthKey == OfDevice("SKF_ChangeDevAuthKey")
SKF_DevAuth == OfDevice("SKF_DevAuth")
SKF_ChangePIN == OfApp("SKF_ChangePIN")
SKF_GetPINInfo == OfApp("SKF_GetPINInfo")
SKF_VerifyPIN == OfApp("SKF_VerifyPIN")
SKF_UnblockPIN == OfApp("SKF_UnblockPIN")
SKF_ClearSecureState == OfApp("SKF_ClearSecureState")
SKF_CreateApplication == Forward("SKF_CreateApplication", {"device"}, {}, {"app"})
SKF_EnumApplication == OfDevice("SKF_EnumApplication")
SKF_DeleteApplication == OfDevice("SKF_DeleteApplication")
SKF_OpenApplication == Forward("SKF_OpenApplication", {"device"}, {}, {"app"})
SKF_CloseApplication == Forward("SKF_CloseApplication", {"app"}, {"app"}, {})
SKF_CreateFile == OfApp("SKF_CreateFile")
SKF_DeleteFile == OfApp("SKF_DeleteFile")
SKF_EnumFiles == OfApp("SKF_EnumFiles")
SKF_GetFileInfo == OfApp("SKF_GetFileInfo")
SKF_ReadFile == OfApp("SKF_ReadFile")
SKF_WriteFile == OfApp("SKF_WriteFile")
SKF_CreateContainer == Forward("SKF_CreateContainer", {"app"}, {}, {"container"})
SKF_DeleteContainer == OfApp("SKF_DeleteContainer")
SKF_EnumContainer == OfApp("SKF_EnumContainer")
SKF_OpenContainer == Forward("SKF_OpenContainer", {"app"}, {}, {"container"})
SKF_CloseContainer ==
    Forward("SKF_CloseContainer", {"container"}, {"container"}, {})
SKF_GetContainerType == OfContainer("SKF_GetContainerType")
SKF_ImportCertificate == OfContainer("SKF_ImportCertificate")
SKF_ExportCertificate == OfContainer("SKF_ExportCertificate")
SKF_ExportPublicKey == OfContainer("SKF_ExportPublicKey")
SKF_GenRandom == OfDevice("SKF_GenRandom")
SKF_GenExtRSAKey == OfDevice("SKF_GenExtRSAKey")
SKF_GenRSAKeyPair == OfContainer("SKF_GenRSAKeyPair")
SKF_ImportRSAKeyPair == Converting("SKF_ImportRSAKeyPair", {"container"}, {})
SKF_RSASignData == OfContainer("SKF_RSASignData")
SKF_RSAVerify == OfDevice("SKF_RSAVerify")
SKF_RSAExportSessionKey ==
    Converting("SKF_RSAExportSessionKey", {"container"}, {"key"})
SKF_ExtRSAPubKeyOperation == OfDevice("SKF_ExtRSAPubKeyOperation")
SKF_ExtRSAPriKeyOperation == OfDevice("SKF_ExtRSAPriKeyOperation")
SKF_GenECCKeyPair == Converting("SKF_GenECCKeyPair", {"container"}, {})
SKF_ImportECCKeyPair == OfContainer("SKF_ImportECCKeyPair")
SKF_ECCSignData == OfContainer("SKF_ECCSignData")
SKF_ECCVerify == OfDevice("SKF_ECCVerify")
SKF_ECCExportSessionKey ==
    Converting("SKF_ECCExportSessionKey", {"container"}, {"key"})
SKF_ECCDecrypt == OfContainer("SKF_ECCDecrypt")
SKF_ExtECCEncrypt == OfDevice("SKF_ExtECCEncrypt")
SKF_ExtECCDecrypt == OfDevice("SKF_ExtECCDecrypt")
SKF_ExtECCSign == OfDevice("SKF_ExtECCSign")
SKF_ExtECCVerify == OfDevice("SKF_ExtECCVerify")
SKF_GenerateAgreementDataWithECC ==
    Converting("SKF_GenerateAgreementDataWithECC", {"container"}, {"agreement"})
SKF_GenerateAgreementDataAndKeyWithECC ==
    Converting("SKF_GenerateAgreementDataAndKeyWithECC", {"container"}, {"key"})
SKF_GenerateKeyWithECC ==
    Forward("SKF_GenerateKeyWithECC", {"agreement"}, {}, {"key"})
SKF_ImportSessionKey == Converting("SKF_ImportSessionKey", {"container"}, {"key"})
SKF_SetSymmKey == Converting("SKF_SetSymmKey", {"device"}, {"key"})
SKF_EncryptInit == OfKey("SKF_EncryptInit")
SKF_Encrypt == OfKey("SKF_Encrypt")
SKF_EncryptUpdate == OfKey("SKF_EncryptUpdate")
SKF_EncryptFinal == OfKey("SKF_EncryptFinal")
SKF_DecryptInit == OfKey("SKF_DecryptInit")
SKF_Decrypt == OfKey("SKF_Decrypt")
SKF_DecryptUpdate == OfKey("SKF_DecryptUpdate")
SKF_DecryptFinal == OfKey("SKF_DecryptFinal")
SKF_DigestInit == Converting("SKF_DigestInit", {"device"}, {"hash"})
SKF_Digest == OfHash("SKF_Digest")
SKF_DigestUpdate == OfHash("SKF_DigestUpdate")
SKF_DigestFinal == OfHash("SKF_DigestFinal")
SKF_MacInit == Forward("SKF_MacInit", {"key"}, {}, {"mac"})
SKF_Mac == OfMac("SKF_Mac")
SKF_MacUpdate == OfMac("SKF_MacUpdate")
SKF_MacFinal == OfMac("SKF_MacFinal")
SKF_CloseHandle == Forward("SKF_CloseHandle", {"key"}, {"key"}, {})

SkfLibrary ==
    {SKF_LoadLibrary, SKF_UnloadLibrary, SKF_WaitForDevEvent,
     SKF_CancelWaitForDevEvent, SKF_EnumDev, SKF_ConnectDev, SKF_DisConnectDev,
     SKF_GetDevState, SKF_SetLabel, SKF_GetDevInfo, SKF_LockDev, SKF_UnlockDev,
     SKF_Transmit, SKF_ChangeDevAuthKey, SKF_DevAuth, SKF_ChangePIN,
     SKF_GetPINInfo, SKF_VerifyPIN, SKF_UnblockPIN, SKF_ClearSecureState,
     SKF_CreateApplication, SKF_EnumApplication, SKF_DeleteApplication,
     SKF_OpenApplication, SKF_CloseApplication, SKF_CreateFile, SKF_DeleteFile,
     SKF_EnumFiles, SKF_GetFileInfo, SKF_ReadFile, SKF_WriteFile,
     SKF_CreateContainer, SKF_DeleteContainer, SKF_EnumContainer,
     SKF_OpenContainer, SKF_CloseContainer, SKF_GetContainerType,
     SKF_ImportCertificate, SKF_ExportCertificate, SKF_ExportPublicKey,
     SKF_GenRandom, SKF_GenExtRSAKey, SKF_GenRSAKeyPair, SKF_ImportRSAKeyPair,
     SKF_RSASignData, SKF_RSAVerify, SKF_RSAExportSessionKey,
     SKF_ExtRSAPubKeyOperation, SKF_ExtRSAPriKeyOperation, SKF_GenECCKeyPair,
     SKF_ImportECCKeyPair, SKF_ECCSignData, SKF_ECCVerify,
     SKF_ECCExportSessionKey, SKF_ECCDecrypt, SKF_ExtECCEncrypt,
     SKF_ExtECCDecrypt, SKF_ExtECCSign, SKF_ExtECCVerify,
     SKF_GenerateAgreementDataWithECC, SKF_GenerateAgreementDataAndKeyWithECC,
     SKF_GenerateKeyWithECC, SKF_ImportSessionKey, SKF_SetSymmKey,
     SKF_EncryptInit, SKF_Encrypt, SKF_EncryptUpdate, SKF_EncryptFinal,
     SKF_DecryptInit, SKF_Decrypt, SKF_DecryptUpdate, SKF_DecryptFinal,
     SKF_DigestInit, SKF_Digest, SKF_DigestUpdate, SKF_DigestFinal, SKF_MacInit,
     SKF_Mac, SKF_MacUpdate, SKF_MacFinal, SKF_CloseHandle}

-----------------------------------------------------------------------------
(* Connect, lock and authenticate.  rv is assigned again by the calls      *)
(* under the end label, and it is what the function returns: a failure may *)
(* be reported as success, and a device that is handed out as a failure.   *)
SKF_OpenDevice ==
    Masking(WithEnd("SKF_OpenDevice", {"library"}, {}, {"device", "lock"},
      <<Do(SKF_ConnectDev), Do(SKF_GetDevInfo), Do(SKF_LockDev),
        Do(SKF_GenRandom), Do(SKF_SetSymmKey), Do(SKF_EncryptInit),
        Do(SKF_Encrypt), Do(SKF_DevAuth), Hand({"device", "lock"})>>,
      {"key", "device", "lock"}, {}),
      <<Do(SKF_CloseHandle), [Do(SKF_DisConnectDev) EXCEPT !.drops = {"device", "lock"}]>>)

skf_load_library ==
    Function("skf_load_library", {}, {}, {"library"},
      <<Quit(Do(SKF_LoadLibrary)), Hand({"library"})>>)

(* SKF_OpenDevice does what it says, says that it failed and has opened    *)
(* the device, or says that it has opened one and has failed.  The device  *)
(* it has locked, if there is one, is locked once more.                    *)
skf_open_device ==
    Function("skf_open_device", {"library"}, {}, {"device", "lock"},
      Either(<<Quit(Do(SKF_OpenDevice))>>,
             Either(<<Set({"device", "lock"}), Quit(Fails("SKF_OpenDevice"))>>,
                    <<Ignore(Fails("SKF_OpenDevice"))>>))
      \o <<Quit(Do(SKF_LockDev)), Hand({"device", "lock"})>>)
skf_close_device ==
    Function("skf_close_device", {"library", "device", "lock"},
      {"device", "lock"}, {},
      <<Quit(Do(SKF_UnlockDev)), Quit(Do(SKF_DisConnectDev))>>)

OnDevice(name, f) ==
    Function(name, {"library", "device"}, {}, {}, <<Quit(Do(f))>>)
skf_rand_bytes == OnDevice("skf_rand_bytes", SKF_GenRandom)
skf_set_label == OnDevice("skf_set_label", SKF_SetLabel)
skf_change_authkey == OnDevice("skf_change_authkey", SKF_ChangeDevAuthKey)
skf_delete_app == OnDevice("skf_delete_app", SKF_DeleteApplication)

skf_open_app ==
    WithEnd("skf_open_app", {"library", "device"}, {}, {"app"},
      <<Quit(Do(SKF_OpenApplication)), Do(SKF_VerifyPIN), Hand({"app"})>>,
      {"app"}, {})

skf_load_sign_key ==
    WithEnd("skf_load_sign_key", {"library", "device"}, {}, {"app", "container"},
      <<Quit(Do(skf_open_app)), Do(SKF_OpenContainer), Do(SKF_GetContainerType),
        Call("containerType", {}), Do(SKF_ExportPublicKey),
        Call("ulBlobLen", {}), Call("SKF_ECCPUBLICKEYBLOB_to_SM2_KEY", {}),
        Hand({"app", "container"})>>,
      {"app", "container"}, {})

skf_sign ==
    Function("skf_sign", {"library", "container"}, {}, {},
      <<Quit(Do(SKF_ECCSignData)),
        Quit(Call("SKF_ECCSIGNATUREBLOB_to_SM2_SIGNATURE", {})),
        Quit(Call("sm2_signature_to_der", {}))>>)

skf_release_key ==
    Function("skf_release_key", {"library", "app", "container"},
      {"app", "container"}, {},
      <<Quit(Do(SKF_ClearSecureState)), Quit(Do(SKF_CloseApplication)),
        Quit(Do(SKF_CloseContainer))>>)

(* The name list is fetched twice, for its length and for the names; an    *)
(* empty list is answered with 0.                                          *)
skf_list_devices ==
    WithEnd("skf_list_devices", {"library"}, {}, {},
      <<Quit(Do(SKF_EnumDev)), Quit(Call("empty", {})),
        Quit(Make("malloc", {}, {"nameList"})), Do(SKF_EnumDev)>>,
      {"nameList"}, {})

skf_print_device_info ==
    WithEnd("skf_print_device_info", {"library"}, {}, {},
      <<Do(SKF_GetDevState), Call("SKF_GetDevStateName", {}),
        Do(SKF_ConnectDev), Do(SKF_GetDevInfo)>>,
      {"device"}, {})

skf_list_apps ==
    WithEnd("skf_list_apps", {"library", "device"}, {}, {},
      <<Quit(Do(SKF_EnumApplication)), Quit(Call("empty", {})),
        Quit(Make("malloc", {}, {"nameList"})), Do(SKF_EnumApplication)>>
      \o Loop(<<Do(SKF_OpenApplication), Do(SKF_GetPINInfo), Do(SKF_GetPINInfo),
                Do(SKF_CloseApplication), Forget({"app"})>>),
      {"app"}, {})

skf_create_app ==
    Function("skf_create_app", {"library", "device"}, {}, {},
      <<Quit(Do(SKF_CreateApplication)), Quit(Do(SKF_CloseApplication))>>)

(* One call in an application that is opened for it.                       *)
InOpened(name, f) ==
    WithEnd(name, {"library", "device"}, {}, {},
      <<Do(SKF_OpenApplication), Do(f)>>, {"app"}, {})
skf_change_app_admin_pin == InOpened("skf_change_app_admin_pin", SKF_ChangePIN)
skf_change_app_user_pin == InOpened("skf_change_app_user_pin", SKF_ChangePIN)
skf_unblock_user_pin == InOpened("skf_unblock_user_pin", SKF_UnblockPIN)

(* Several, with the PIN verified first.                                   *)
InApp(name, steps, c) ==
    WithEnd(name, {"library", "device"}, {}, {},
      <<Quit(Do(skf_open_app))>> \o steps, {"app"} \cup c, {})

skf_list_objects ==
    InApp("skf_list_objects",
      <<Do(SKF_EnumFiles), Call("empty", {}), Make("malloc", {}, {"nameList"}),
        Do(SKF_EnumFiles)>> \o Loop(<<Do(SKF_GetFileInfo)>>),
      {"nameList"})
skf_import_object ==
    InApp("skf_import_object", <<Do(SKF_CreateFile), Do(SKF_WriteFile)>>, {})
skf_export_object ==
    InApp("skf_export_object",
      <<Do(SKF_GetFileInfo), Call("FileSize > SKF_MAX_FILE_SIZE", {}),
        Do(SKF_ReadFile), Call("ulen != FileSize", {})>>, {})
skf_delete_object == InApp("skf_delete_object", <<Do(SKF_DeleteFile)>>, {})

skf_list_containers ==
    InApp("skf_list_containers",
      <<Do(SKF_EnumContainer), Call("empty", {}),
        Make("malloc", {}, {"nameList"}), Do(SKF_EnumContainer)>>
      \o Loop(<<Do(SKF_OpenContainer), Do(SKF_GetContainerType),
                Call("SKF_GetContainerTypeName", {}), Do(SKF_CloseContainer),
                Forget({"container"})>>),
      {"container"})
skf_create_container ==
    InApp("skf_create_container",
      <<Do(SKF_CreateContainer), Do(SKF_GenECCKeyPair)>>, {"container"})

(* ret is set, and 1 returned.                                             *)
skf_delete_container ==
    Always(InApp("skf_delete_container", <<Do(SKF_DeleteContainer)>>, {}))

(* hContainer is NULL: neither function opens the container.               *)
skf_import_sign_cert ==
    InApp("skf_import_sign_cert",
      <<Do(SKF_GetContainerType), Call("containerType", {}),
        Do(SKF_ImportCertificate)>>, {"container"})
skf_export_sign_cert ==
    InApp("skf_export_sign_cert",
      <<Do(SKF_GetContainerType), Call("containerType", {}),
        Do(SKF_ExportCertificate)>>, {"container"})

(* key_opened is set for -sign only; the signature is not written.  The    *)
(* device is taken to be open when skf_open_device says so.                *)
skfutil_main ==
    Tool("skfutil",
      <<Usage, Value("-lib"), Value("-dev"), Value("-devinfo"),
        Key("-authkey", "strlen", "authkey"), Value("-exportpubkey"),
        Value("-sign"), Value("-app"), Value("-container"), Value("-pass"),
        File("-in", "infp"), File("-out", "outfp"), HelpFails, Bad,
        Require({"-lib"}), Do(skf_load_library)>>
      \o Lacking({"-devinfo", "-exportpubkey", "-sign"}, <<Stop>>)
      \o <<Require({"-dev"})>>
      \o IfGiven({"-devinfo"}, <<Ignore(Do(skf_print_device_info))>>,
           <<[Do(skf_open_device) EXCEPT !.uses = @ \cup {"authkey"}],
             Require({"-app"}), Require({"-container"}), Require({"-pass"})>>
           \o IfGiven({"-exportpubkey"},
                <<Make("skf_load_sign_key", {"device"},
                       {"exported app", "exported container"}),
                  Call("sm2_public_key_info_to_pem", {})>>,
                <<Do(skf_load_sign_key),
                  [Do(skf_sign) EXCEPT !.gets = {"sig"}]>>)),
      {"app", "container", "device", "lock", "library", "infp", "outfp"}, {})

SkfFunctions ==
    {SKF_OpenDevice, skf_load_library, skf_open_device, skf_close_device,
     skf_rand_bytes, skf_set_label, skf_change_authkey, skf_delete_app,
     skf_open_app, skf_load_sign_key, skf_sign, skf_release_key,
     skf_list_devices, skf_print_device_info, skf_list_apps, skf_create_app,
     skf_change_app_admin_pin, skf_change_app_user_pin, skf_unblock_user_pin,
     skf_list_objects, skf_import_object, skf_export_object,
     skf_delete_object, skf_list_containers, skf_create_container,
     skf_delete_container, skf_import_sign_cert, skf_export_sign_cert,
     skfutil_main}
=============================================================================
