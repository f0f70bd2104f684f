------------------------------ MODULE PkiTools ------------------------------
(***************************************************************************)
(* The tools that make, read and check certificates, requests, CRLs and    *)
(* CMS messages (src/tools/cert*.c, req*.c, crl*.c and cms*.c), as programs *)
(* of module Calls.                                                        *)
(***************************************************************************)
EXTENDS Calls

(* Certificates, requests and files read whole (src/src/x509_new.c and     *)
(* file.c): a buffer as large as the file needs is filled and handed on.   *)
NewFromFile(name, read) ==
    WithEnd(name, {}, {}, {"buf"},
      <<Make("fopen", {}, {"fp"}), Call("file_size", {"fp"}),
        Make("malloc", {}, {"buf"}), Call(read, {"buf", "fp"}), Hand({"buf"})>>,
      {"fp", "buf"}, {})

x509_cert_new_from_file ==
    NewFromFile("x509_cert_new_from_file", "x509_cert_from_pem")
x509_certs_new_from_file ==
    NewFromFile("x509_certs_new_from_file", "x509_certs_from_pem")
file_read_all == NewFromFile("file_read_all", "fread")

x509_req_new_from_pem ==
    Function("x509_req_new_from_pem", {"fp"}, {}, {"req"},
      <<Quit(Call("file_size", {"fp"})), Quit(Make("malloc", {}, {"req"})),
        Undo(Call("x509_req_from_pem", {"req", "fp"}), {"req"}),
        Hand({"req"})>>)

x509_req_new_from_file ==
    Function("x509_req_new_from_file", {}, {}, {"req"},
      <<Quit(Make("fopen", {}, {"fp"})),
        Undo(Do(x509_req_new_from_pem), {"fp"}), Drop({"fp"}), Hand({"req"})>>)

(* One HTTP request.  Without a buffer, or with one that is too small, the *)
(* answer is the length the server announces and the status 0.             *)
http_get ==
    WithEnd("http_get", {}, {}, {},
      <<Quit(Call("http_parse_uri", {})), Quit(Call("snprintf", {})),
        Quit(Call("gethostbyname", {})), Quit(Make("socket", {}, {"sock"})),
        Call("connect", {"sock"}), Call("send", {"sock"}),
        Call("recv", {"sock"}), Call("http_parse_response", {}),
        Call("buflen < contentlen", {})>>
      \o May(<<Call("socket_recv_all", {"sock"})>>),
      {"sock"}, {})

(* The list is asked for twice, for its length and for its bytes; what is  *)
(* handed on points into the buffer.                                       *)
x509_crl_new_from_uri ==
    WithEnd("x509_crl_new_from_uri", {}, {}, {"buf"},
      <<Quit(Make("malloc", {}, {"uristr"})), Call("http_get", {"uristr"}),
        Call("!buflen", {}), Make("malloc", {}, {"buf"}),
        Call("http_get", {"uristr", "buf"}),
        Call("x509_crl_from_der", {"buf"}), Hand({"buf"})>>,
      {"uristr", "buf"}, {})

x509_crl_new_from_cert ==
    Function("x509_crl_new_from_cert", {}, {}, {"buf"},
      <<Quit(Call("x509_cert_get_exts", {})),
        Quit(Call("x509_exts_get_ext_by_oid", {})),
        Quit(Call("x509_uri_as_distribution_points_from_der", {})),
        Quit(Call("!uri", {})), Quit(Do(x509_crl_new_from_uri)),
        Hand({"buf"})>>)

(* The status is ret, which the search of the list sets first: 0 when the  *)
(* certificate is not in it.                                               *)
x509_cert_check_crl ==
    WithEnd("x509_cert_check_crl", {}, {}, {},
      <<Quit(Make("x509_crl_new_from_cert", {}, {"crl"})),
        Call("x509_crl_check", {"crl"}),
        Call("x509_cert_get_issuer_and_serial_number", {}),
        Call("x509_crl_get_issuer", {"crl"}), Call("x509_name_equ", {}),
        Call("x509_crl_verify_by_ca_cert", {"crl"}),
        Call("x509_crl_find_revoked_cert_by_serial_number", {"crl"}),
        Call("revoked", {})>>,
      {"crl"}, {})

-----------------------------------------------------------------------------
Sm2Id == Settings({"-sm2_id", "-sm2_id_hex"})

(* "'-key' option required", "'-pass' option required", then the key.      *)
DecryptKey(k) ==
    <<Require({"keyfp"}), Require({"-pass"}),
      Fill("sm2_private_key_info_decrypt_from_pem", {"keyfp", "-pass"}, {k})>>

(* The X.509 extensions certgen and reqsign add when an option asks for    *)
(* them.                                                                   *)
ExtensionOptions ==
    Settings({"-gen_authority_key_id", "-gen_subject_key_id", "-key_usage",
              "-subject_dns_name", "-issuer_dns_name", "-ca",
              "-path_len_constraint", "-ext_key_usage", "-crl_http_uri",
              "-crl_ldap_uri", "-inhibit_any_policy", "-ca_issuers_uri",
              "-ocsp_uri"})

AddExtensions ==
    May(<<Call("x509_exts_add_default_authority_key_identifier", {"sm2_key"})>>)
    \o May(<<Call("x509_exts_add_subject_key_identifier_ex", {"sm2_key"})>>)
    \o May(<<Call("x509_exts_add_key_usage", {})>>)
    \o May(<<Call("x509_exts_add_subject_alt_name", {})>>)
    \o May(<<Call("x509_exts_add_issuer_alt_name", {})>>)
    \o May(<<Call("x509_exts_add_basic_constraints", {})>>)
    \o May(<<Call("x509_exts_add_ext_key_usage", {})>>)
    \o May(<<Quit(Call("x509_exts_add_crl_distribution_points", {}))>>)
    \o May(<<Call("x509_exts_add_inhibit_any_policy", {})>>)
    \o May(<<Call("x509_exts_add_authority_info_access", {})>>)

(* The length, a buffer of that length, the certificate, its PEM form.     *)
SignCertificate ==
    <<Call("x509_cert_sign_to_der", {"sm2_key"}), Make("malloc", {}, {"cert"}),
      Call("x509_cert_sign_to_der", {"sm2_key", "cert"}),
      Call("x509_cert_to_pem", {"cert"})>>

certgen_main ==
    Tool("certgen",
      <<Usage, Settings({"-C", "-ST", "-L", "-O", "-OU", "-serial_len"}),
        Value("-CN"), Parse("-days", "days <= 0"), File("-key", "keyfp"),
        Value("-pass"), Sm2Id, ExtensionOptions, File("-out", "outfp"),
        Help, Bad,
        Require({"-CN"}), Require({"-days"})>>
      \o DecryptKey("sm2_key")
      \o <<Call("rand_bytes", {}), Call("x509_name_set", {"-CN"}),
           Call("x509_validity_add_days", {"-days"})>>
      \o AddExtensions \o SignCertificate,
      {"cert", "keyfp", "outfp"}, {"sm2_key"})

reqsign_main ==
    Tool("reqsign",
      <<Usage, File("-in", "infp"), Settings({"-req_sm2_id", "-serial_len"}),
        Parse("-days", "days <= 0"),
        Load("-cacert", "x509_cert_new_from_file", "cacert"),
        File("-key", "keyfp"), Value("-pass"), Sm2Id, ExtensionOptions,
        File("-out", "outfp"), Help, Bad,
        Require({"-days"}), Require({"cacert"}), Require({"keyfp"}),
        Require({"-pass"}), Call("x509_req_from_pem", {}),
        Call("x509_req_verify", {}), Call("x509_req_get_details", {}),
        Call("x509_cert_get_subject", {"cacert"}),
        Call("x509_cert_get_subject_public_key", {"cacert"}),
        Fill("sm2_private_key_info_decrypt_from_pem", {"keyfp", "-pass"},
             {"sm2_key"}),
        Call("sm2_public_key_equ", {"sm2_key"}), Call("rand_bytes", {}),
        Call("x509_validity_add_days", {"-days"})>>
      \o AddExtensions \o SignCertificate,
      {"cert", "keyfp", "infp", "outfp"}, {"sm2_key"})

reqgen_main ==
    Tool("reqgen",
      <<Usage, Settings({"-C", "-ST", "-L", "-O", "-OU"}), Value("-CN"),
        File("-key", "keyfp"), Value("-pass"), Sm2Id, File("-out", "outfp"),
        Help, Bad,
        Require({"-CN"})>>
      \o DecryptKey("sm2_key")
      \o <<Call("x509_name_set", {"-CN"}),
           Call("x509_req_sign_to_der", {"sm2_key"}),
           Call("x509_req_to_pem", {})>>,
      {"keyfp", "outfp"}, {"sm2_key"})

reqparse_main ==
    Tool("reqparse",
      <<File("-in", "infp"), File("-out", "outfp"), HelpFails, Bad,
        Call("x509_req_from_pem", {}), Act("x509_req_print", {}, {}),
        Call("x509_req_to_pem", {})>>,
      {"infp", "outfp"}, {})

(* Certificates are read until there are no more.                          *)
certparse_main ==
    Tool("certparse",
      <<File("-in", "infp"), File("-out", "outfp"), HelpFails, Bad>>
      \o Loop(<<Call("x509_cert_from_pem", {}), Act("x509_cert_print", {}, {}),
                Call("x509_cert_to_pem", {})>>)
      \o <<Call("x509_cert_from_pem", {})>>,
      {"infp", "outfp"}, {})

certrevoke_main ==
    Tool("certrevoke",
      <<Load("-in", "x509_cert_new_from_file", "cert"), File("-out", "outfp"),
        Settings({"-reason", "-invalid_date"}), HelpFails, Bad,
        Require({"cert"}), Require({"-out"}),
        Call("x509_cert_revoke_to_der", {"cert"}),
        Make("malloc", {}, {"outbuf"}),
        Call("x509_cert_revoke_to_der", {"cert", "outbuf"}),
        Call("fwrite", {"outbuf", "outfp"})>>,
      {"cert", "outfp", "outbuf"}, {})

(* The certificate or, with -double_certs, both are verified with the next *)
(* one and looked up in their CRL; only the first time round, the flags are *)
(* then set to 0.                                                          *)
VerifyByNext ==
    <<Call("x509_cert_verify_by_ca_cert", {})>>
    \o Given({"-check_crl"}, <<Call("x509_cert_check_crl", {})>>)
    \o Given({"-double_certs"}, <<Call("x509_cert_verify_by_ca_cert", {})>>)
    \o Given({"-double_certs", "-check_crl"},
             <<Call("x509_cert_check_crl", {})>>)
    \o <<Call("x509_cert_get_issuer_and_serial_number", {}),
         Call("x509_cert_get_subject", {})>>

certverify_main ==
    Tool("certverify",
      <<Usage, File("-in", "infp"), Value("-double_certs"),
        Value("-check_crl"), File("-cacert", "cacertfp"), Sm2Id, Help, Bad,
        Require({"-in"}), Require({"-cacert"}),
        Call("x509_cert_from_pem", {"infp"}),
        Call("x509_cert_get_issuer_and_serial_number", {}),
        Call("x509_cert_get_subject", {})>>
      \o Given({"-double_certs"},
           <<Call("x509_cert_from_pem", {"infp"}),
             Call("x509_cert_get_issuer_and_serial_number", {}),
             Call("x509_cert_get_subject", {}), Call("x509_name_equ", {})>>)
      \o Loop(<<Call("x509_cert_from_pem", {"infp"})>> \o VerifyByNext
              \o <<Forget({"-double_certs", "-check_crl"})>>)
      \o <<Call("x509_cert_from_pem", {"infp"}),
           Call("x509_cert_from_pem_by_subject", {"cacertfp"})>>
      \o VerifyByNext,
      {"infp", "cacertfp"}, {})

(* "-ca_issuers_uri" does not count its value, so that the loop over the   *)
(* options goes on past the last of them.                                  *)
crlgen_main ==
    Tool("crlgen",
      <<Load("-in", "file_read_all", "revoked_certs"), File("-out", "outfp"),
        Load("-cacert", "x509_cert_new_from_file", "cacert"),
        File("-key", "keyfp"), Value("-pass"), Sm2Id,
        Settings({"-next_update", "-gen_authority_key_id", "-crl_num",
                  "-delta_crl_indicator", "-http_uri", "-ldap_uri",
                  "-ocsp_uri"}),
        Value("-ca_issuers_uri"), Help, Bad>>
      \o Given({"-ca_issuers_uri"}, <<Quit([Fails("strcmp") EXCEPT !.uses = {"argv[argc]"}])>>)
      \o <<Require({"revoked_certs"})>>
      \o Loop(<<Call("x509_revoked_cert_from_der", {"revoked_certs"})>>)
      \o <<Require({"cacert"})>> \o DecryptKey("sign_key")
      \o <<Call("x509_cert_get_subject", {"cacert"})>>
      \o May(<<Call("x509_crl_exts_add_default_authority_key_identifier",
                    {"sign_key"})>>)
      \o <<Call("x509_crl_exts_add_crl_number", {}),
           Call("x509_crl_exts_add_delta_crl_indicator", {})>>
      \o May(<<Call("x509_crl_exts_add_authority_info_acess", {})>>)
      \o May(<<Call("x509_crl_exts_add_freshest_crl", {})>>)
      \o <<Call("x509_crl_sign_to_der", {"revoked_certs", "sign_key"}),
           Make("malloc", {}, {"outbuf"}),
           Call("x509_crl_sign_to_der", {"revoked_certs", "sign_key", "outbuf"}),
           Quit(Call("fwrite", {"outbuf"}))>>,
      {"revoked_certs", "keyfp", "cacert", "outfp", "outbuf"}, {})

crlget_main ==
    Tool("crlget",
      <<Load("-cert", "x509_cert_new_from_file", "cert"),
        File("-out", "outfp"), HelpFails, Bad,
        Require({"cert"}),
        Make("x509_crl_new_from_cert", {"cert"}, {"crl"}),
        Ignore(Call("fwrite", {"crl"}))>>,
      {"cert", "outfp"}, {})

crlparse_main ==
    Tool("crlparse",
      <<Usage, File("-in", "infp"), File("-out", "outfp"), HelpFails, Bad,
        Require({"-in"}), Call("file_size", {"infp"}),
        Make("malloc", {}, {"in"}), Call("fread", {"in", "infp"}),
        Call("x509_crl_from_der", {"in"}), Call("asn1_length_is_zero", {}),
        Act("x509_crl_print", {"in"}, {})>>,
      {"infp", "outfp", "in"}, {})

crlverify_main ==
    Tool("crlverify",
      <<Usage, Load("-in", "file_read_all", "crl"),
        Load("-cacert", "x509_cert_new_from_file", "cacert"), Sm2Id, Help, Bad,
        Require({"crl"}), Require({"cacert"}), Call("x509_crl_check", {"crl"}),
        Call("x509_crl_verify_by_ca_cert", {"crl", "cacert"})>>,
      {"crl", "cacert"}, {})

-----------------------------------------------------------------------------
(* CMS.                                                                    *)

CmsKeyAndCert ==
    <<Usage, File("-key", "keyfp"), Value("-pass"), File("-cert", "certfp"),
      File("-in", "infp"), File("-out", "outfp"), Help, Bad,
      Require({"-key"}), Require({"-pass"}), Require({"-cert"}),
      Require({"-in"}),
      Fill("sm2_private_key_info_decrypt_from_pem", {"keyfp", "-pass"}, {"key"}),
      Call("x509_cert_from_pem", {"certfp"})>>

cmssign_main ==
    Tool("cmssign",
      CmsKeyAndCert
      \o <<Call("x509_cert_get_subject_public_key", {}),
           Call("sm2_public_key_equ", {"key"}), Call("file_size", {"infp"}),
           Make("malloc", {}, {"in"}), Call("fread", {"in", "infp"}),
           Make("malloc", {}, {"cms"}), Call("cms_sign", {"cms", "in", "key"}),
           Call("cms_to_pem", {"cms"})>>,
      {"infp", "outfp", "keyfp", "cms", "in"}, {})

cmsdecrypt_main ==
    Tool("cmsdecrypt",
      CmsKeyAndCert
      \o <<Call("file_size", {"infp"}), Make("malloc", {}, {"cms"}),
           Call("cms_from_pem", {"cms", "infp"}),
           Make("malloc", {}, {"content"}),
           Call("cms_deenvelop", {"cms", "key", "content"}),
           Call("content_type != OID_cms_data", {}),
           Call("fwrite", {"content"})>>,
      {"infp", "outfp", "keyfp", "cms", "content"}, {})

(* get_files_size opens every file an option names and closes it again.    *)
get_files_size ==
    Function("get_files_size", {}, {}, {},
      Loop(<<Quit(Call("bad option", {})), Quit(Make("fopen", {}, {"fp"})),
             Undo(Call("file_size", {"fp"}), {"fp"}), Drop({"fp"})>>))

(* "-rcptcert" may be repeated; the files of both options are read where   *)
(* they are named.                                                         *)
ReadRecipient ==
    <<Make("fopen", {}, {"certfp"}),
      Closing(Call("x509_cert_from_pem", {"rcpt_certs", "certfp"}), {"certfp"}),
      Drop({"certfp"})>>

cmsencrypt_main ==
    Tool("cmsencrypt",
      <<Usage, Do(get_files_size), Call("rcpt_certs_len <= 0", {}),
        Make("malloc", {}, {"rcpt_certs"}), Do(get_files_size),
        Call("inlen <= 0", {}), Make("malloc", {}, {"inbuf"})>>
      \o Loop(ReadRecipient)
      \o <<File("-in", "infp")>>
      \o Given({"-in"}, <<Call("fread", {"inbuf", "infp"})>>)
      \o <<File("-out", "outfp"), Help, Bad,
           Fill("rand_bytes", {}, {"key"}), Call("rand_bytes", {}),
           Call("cms_envelop", {"rcpt_certs", "key", "inbuf"}),
           Make("malloc", {}, {"cms"}),
           Call("cms_envelop", {"rcpt_certs", "key", "inbuf", "cms"}),
           Call("cms_to_pem", {"cms"})>>,
      {"infp", "outfp", "rcpt_certs", "inbuf", "cms"}, {})

cmsparse_main ==
    Tool("cmsparse",
      <<Usage, File("-in", "infp"), Help, Bad,
        Require({"-in"}), Call("file_size", {"infp"}),
        Make("malloc", {}, {"cms"}), Call("cms_from_pem", {"cms", "infp"}),
        Act("cms_print", {"cms"}, {})>>,
      {"infp", "cms"}, {})

(* The status is the verdict; what goes wrong after it leaves it as it is. *)
cmsverify_main ==
    Unset(Tool("cmsverify",
      <<Usage, File("-in", "infp"), File("-out", "outfp"), Help, Bad,
        Require({"-in"}), Call("file_size", {"infp"}),
        Make("malloc", {}, {"cms"}), Call("cms_from_pem", {"cms", "infp"}),
        Call("cms_verify", {"cms"})>>
      \o Either(<<Ok>>, <<Reject>>)
      \o Given({"-out"},
           Either(<<Call("asn1_octet_string_from_der", {"cms"}),
                    Call("asn1_length_is_zero", {}), Call("fwrite", {"outfp"})>>,
                  <<Stop>>)),
      {"infp", "outfp", "cms"}, {}))

PkiPrograms ==
    {x509_cert_new_from_file, x509_certs_new_from_file, file_read_all,
     x509_req_new_from_pem, x509_req_new_from_file, http_get,
     x509_crl_new_from_uri, x509_crl_new_from_cert, x509_cert_check_crl,
     certgen_main, reqsign_main, reqgen_main, reqparse_main, certparse_main,
     certrevoke_main, certverify_main, crlgen_main, crlget_main,
     crlparse_main, crlverify_main, cmssign_main, cmsdecrypt_main,
     get_files_size, cmsencrypt_main, cmsparse_main, cmsverify_main}
=============================================================================
