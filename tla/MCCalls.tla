------------------------------ MODULE MCCalls ------------------------------
(***************************************************************************)
(* Every program of the device layer, the TLS context and the command line *)
(* tools, with what has to hold when one of them ends.  The rules are the  *)
(* ones the code itself follows nearly everywhere; each place where it     *)
(* does not is named in a table beside the rule, and no other place may    *)
(* come to join it.                                                        *)
(***************************************************************************)
EXTENDS PkiTools, KeyTools, CipherTools, TlsTools, SdfTests, SkfPrograms, TLC

AllPrograms ==
    PkiPrograms \cup KeyPrograms \cup CipherPrograms \cup TlsPrograms
    \cup SdfLibrary \cup SdfFunctions \cup SdfTools \cup SdfTestPrograms
    \cup SkfLibrary \cup SkfFunctions

(* The entry of a program in a table, nothing if it has none.              *)
In(table, n) == IF n \in DOMAIN table THEN table[n] ELSE {}
Entry(S, x) == [n \in {p.name : p \in S} |-> x]
Over == phase = "over"

-----------------------------------------------------------------------------
(* Open when the program ends, though nobody was given it.                 *)
Kept ==
    \* one or more failures return past the end label
    [certgen |-> {"keyfp", "outfp"},
     reqsign |-> {"cacert", "infp", "keyfp", "outfp"},
     crlgen |-> {"cacert", "keyfp", "outbuf", "outfp", "revoked_certs"},
     sm2encrypt |-> {"certfp", "infp", "outfp", "pubkeyfp"},
     sm3xmss_keygen |-> {"outfp", "puboutfp", "tree"},
     tls_ctx_set_certificate_and_key |-> {"certs", "keyfp"},
     sdfdecrypt |-> {"device", "infp", "library", "outfp", "session", "text"},
     skf_create_app |-> {"app"},
     SKF_LoadLibrary |-> {"library"},
     \* -help or a bad option does, after files were opened
     sm9setup |-> {"outfp", "puboutfp"},
     sm9keygen |-> {"infp", "outfp"},
     sm9sign |-> {"infp", "keyfp", "outfp"},
     sm9verify |-> {"infp", "mpkfp", "sigfp"},
     sm9encrypt |-> {"infp", "mpkfp", "outfp"},
     sm9decrypt |-> {"infp", "keyfp", "outfp"},
     \* the end label forgets it
     cmssign |-> {"certfp"}, cmsdecrypt |-> {"certfp"},
     crlget |-> {"crl"}, ghash |-> {"aad_buf"}, sm4_gcm |-> {"aad_buf"},
     sm4_ccm |-> {"aad_buf"}, sm4_cbc_sm3_hmac |-> {"aad_buf"},
     sm4_ctr_sm3_hmac |-> {"aad_buf"},
     sdfdigest |-> {"device", "library"}, sdfencrypt |-> {"certfp", "pubkeyfp", "session"},
     sdfexport |-> {"device", "outfp"}, sdfsign |-> {"right", "session"},
     sdftest |-> {"library"},
     skfutil |-> {"exported app", "exported container", "sig"},
     skf_list_apps |-> {"nameList"}, skf_list_containers |-> {"nameList"},
     tlcp_server |-> {"conn_sock", "ctx", "sock"},
     tls12_server |-> {"conn_sock", "ctx", "sock"},
     tls13_server |-> {"conn_sock", "ctx", "sock"},
     \* a variable that still names it is overwritten
     sdf_destroy_key |-> {"session"}, skf_open_device |-> {"device", "lock"},
     \* a call under the end label fails, after the device was handed out or not
     SKF_OpenDevice |-> {"device", "key", "lock"}]
    @@ Entry(HastyTests, {"device", "session", "key", "right"})

\* A function or tool that ends has given back what it opened, on each of its
\* error paths: its caller is left with what the caller had, less what it
\* passed on for good and, only on success, with what it asked for.
GivesBack ==
    Over =>
      LET mine == IF report THEN program.needs \ program.takes
                            ELSE program.needs
      IN  /\ (held \ mine) \cup lost \subseteq In(Kept, program.name)
          /\ report => program.needs \ program.takes \subseteq held
          /\ report /\ failed = {} /\ given \cap {"-help"} = {} =>
               out = program.gives
          /\ ~report => out \subseteq In(Kept, program.name)

(* Key material in a variable when the program ends.                       *)
Exposed ==
    [certgen |-> {"sm2_key"}, reqsign |-> {"sm2_key"}, crlgen |-> {"sign_key"},
     cmssign |-> {"key"}, cmsencrypt |-> {"key"}, cmsdecrypt |-> {"key"},
     sm2encrypt |-> {"ctx", "inbuf"}, sm3xmss_keygen |-> {"key"},
     sm9sign |-> {"key"}, skfutil |-> {"authkey"},
     tls_ctx_set_certificate_and_key |-> {"key"},
     tlcp_server |-> {"conn", "kenckey", "signkey"},
     tls12_server |-> {"conn", "signkey"}, tls13_server |-> {"conn", "signkey"},
     test_SDF_GenerateKeyPair_ECC |-> {"eccPrivateKey", "sm2_key"},
     test_SDF_ExternalEncrypt_ECC |-> {"sm2_key"}]
    @@ Entry({test_SDF_Encrypt_SM4_CBC, test_SDF_Encrypt_SM4_ECB,
              test_SDF_Encrypt_SM4_CFB, test_SDF_Encrypt_SM4_OFB}, {"pucKey"})

\* No key, context or plaintext the code sets out to erase survives in memory,
\* whichever call failed and however much of it had been filled in by then.
SecretsErased == Over => secret \subseteq In(Exposed, program.name)

(* Used though it is not there: never set, not filled, or closed before.   *)
Unfounded ==
    [SDF_METHOD_load_library |-> {"dso"}, ghash |-> {"-h"}, rand |-> {"buf"},
     crlgen |-> {"argv[argc]"}, skf_open_device |-> {"device"},
     skf_import_sign_cert |-> {"container"},
     skf_export_sign_cert |-> {"container"}, skfutil |-> {"authkey"},
     sm3xmss_keygen |-> {"bytes of out"}, sm4 |-> {"buf", "iv", "rv"},
     tlcp_client |-> {"ctx"}, tls12_client |-> {"ctx"}, tls13_client |-> {"ctx"}]

\* A call gets what it needs: no option is used that was not given, no handle
\* that was never opened or is closed already, no key that was not filled in,
\* and nothing is closed twice.
UsesWhatItHas == misused \subseteq In(Unfounded, program.name)

(* Failures a program that reports success may have met.                   *)
Unreported ==
    [SKF_OpenDevice |-> {"SKF_DevAuth", "SKF_Encrypt", "SKF_EncryptInit",
        "SKF_GenRandom", "SKF_GetDevInfo", "SKF_LockDev", "SKF_SetSymmKey",
        "SKF_CloseHandle"},
     skf_open_device |-> {"SKF_OpenDevice"},
     skf_delete_container |-> {"SKF_DeleteContainer"},
     skfutil |-> {"skf_print_device_info"},
     sdf_release_key |-> {"SDF_ReleasePrivateKeyAccessRight"},
     sdfinfo |-> {"sdf_print_device_info"}, sdfencrypt |-> {"rand_bytes"},
     cmsverify |-> {"asn1_length_is_zero", "asn1_octet_string_from_der",
                    "fwrite", "missing"},
     crlget |-> {"fwrite"}, rand |-> {"rejected"},
     sm3xmss_keygen |-> {"sm3_xmss_key_to_bytes"},
     sm9verify |-> {"rejected", "missing"},
     tlcp_client |-> {"bad option", "tls_shutdown"},
     test_SDF_CalculateMAC |-> {"uiMACLength != 32"}]
    @@ [n \in {p.name : p \in SpeedTests} |-> {p.name : p \in SdfLibrary}]

(* The TLS clients return 0 and sm9setup and sm9keygen 1 whatever happens; *)
(* sm9verify returns 1 for a signature that is right.                      *)
AlwaysSucceeds == {"tls12_client", "tls13_client"}
AlwaysFails == {"sm9setup", "sm9keygen", "sm9verify"}
HelpIsFailure ==
    {"certparse", "certrevoke", "crlget", "crlparse", "reqparse", "skfutil"}

\* The status is honest: success means that no call failed, failure that one
\* did.
HonestStatus ==
    Over =>
      /\ report => \/ failed \subseteq In(Unreported, program.name)
                   \/ program.name \in AlwaysSucceeds
      /\ ~report => \/ failed # {}
                    \/ program.name \in AlwaysFails
                    \/ "-help" \in given /\ program.name \in HelpIsFailure
=============================================================================
