------------------------------ MODULE TlsTools ------------------------------
(***************************************************************************)
(* The TLS clients and servers of src/tools, and the functions of          *)
(* src/src/tls.c that load certificates and keys into a TLS_CTX, as        *)
(* programs of module Calls.  "ctx" is an initialised TLS_CTX with the     *)
(* certificates it owns, "signkey" and "kenckey" its private keys, "conn"  *)
(* the keys of a connection.  The handshakes and the data phase are the    *)
(* subject of TlcpHandshake, TlsHandshake and TlsConn.                     *)
(***************************************************************************)
EXTENDS Calls

(* The certificates are handed to ctx at the end only.  Three checks of    *)
(* the leaf certificate return past the end label.                         *)
tls_ctx_set_certificate_and_key ==
    WithEnd("tls_ctx_set_certificate_and_key", {"ctx"}, {}, {"certs"},
      <<Quit(Call("ctx->certs", {"ctx"})),
        Make("x509_certs_new_from_file", {}, {"certs"}),
        Make("fopen", {}, {"keyfp"}),
        Fill("sm2_private_key_info_decrypt_from_pem", {"keyfp"}, {"key"}),
        Quit(Call("x509_certs_get_cert_by_index", {"certs"})),
        Quit(Call("x509_cert_get_subject_public_key", {"certs"})),
        Quit(Call("sm2_public_key_equ", {"key"})),
        Hand({"certs"})>>,
      {"certs", "keyfp"}, {"key"})

(* A key file, and whether the key fits the certificate it is for.         *)
LoadKey(fp, k) ==
    <<Make("fopen", {}, {fp}),
      Fill("sm2_private_key_info_decrypt_from_pem", {fp}, {k}),
      Call("x509_certs_get_cert_by_index", {"certs"}),
      Call("x509_cert_get_subject_public_key", {"certs"}),
      Call("sm2_public_key_equ", {k})>>

tls_ctx_set_tlcp_server_certificate_and_keys ==
    WithEnd("tls_ctx_set_tlcp_server_certificate_and_keys",
      {"ctx"}, {}, {"certs"},
      <<Quit(Call("ctx->certs", {"ctx"})),
        Quit(Make("x509_certs_new_from_file", {}, {"certs"}))>>
      \o LoadKey("signkeyfp", "signkey") \o LoadKey("kenckeyfp", "kenckey")
      \o <<Hand({"certs"})>>,
      {"certs", "signkeyfp", "kenckeyfp"}, {"signkey", "kenckey"})

-----------------------------------------------------------------------------
InitContext ==
    <<Set({"ctx"}), Call("tls_ctx_set_cipher_suites", {"ctx"})>>
Trust ==
    Given({"-cacert"}, <<Call("tls_ctx_set_ca_certificates", {"ctx"})>>)
Identify == Fill("tls_ctx_set_certificate_and_key", {"ctx"}, {"signkey"})
Handshake(s) ==
    <<Fill("tls_init", {"ctx"}, {"conn"}), Call("tls_set_socket", {s}),
      Fill("tls_do_handshake", {s}, {"conn"})>>

ClientOptions ==
    <<Value("-host"), Value("-cacert"), Value("-cert"), Value("-key"),
      Value("-pass")>>

(* An option without its value is reported and the client returns 0.       *)
BadValue == Claim(Maybe(Bad))

(* With -get, one request is sent and the answer read until nothing comes  *)
(* for some time, which is the only way to return 0.  Without it, lines of *)
(* the input are sent and what arrives is printed until something fails or *)
(* the server closes; the status is never set.  The end label frees what   *)
(* is in ctx, set or not.                                                  *)
tlcp_client_main ==
    NoValue({"ctx"}, Unset(Tool("tlcp_client",
      <<Usage>> \o ClientOptions
      \o <<Value("-get"), Value("-outcerts"), Help, BadValue, Quit(Bad),
           Quit(Require({"-host"})), Quit(Call("tls_socket_lib_init", {})),
           Make("tls_socket_create", {}, {"sock"}), Call("gethostbyname", {}),
           Call("tls_socket_connect", {"sock"})>>
      \o InitContext \o Trust
      \o Given({"-cert"}, <<Require({"-key"}), Require({"-pass"}), Identify>>)
      \o Handshake("sock")
      \o Given({"-outcerts"},
           <<Make("fopen", {}, {"outcertsfp"}),
             Closing(Call("x509_certs_to_pem", {"outcertsfp"}), {"outcertsfp"}),
             Drop({"outcertsfp"})>>)
      \o IfGiven({"-get"},
           <<Call("tls_send", {"conn"}), Call("setsockopt", {"sock"})>>
           \o Loop(<<Act("tls_recv", {"conn"}, {})>>)
           \o <<Call("tls_recv", {"conn"}),
                Ignore(Call("tls_shutdown", {"conn"})), Ok>>,
           Loop(May(<<Call("tls_send", {"conn"})>>)
                \o <<Call("select", {})>>
                \o May(<<Call("tls_recv", {"conn"})>>))
           \o <<Call("tls_recv", {"conn"}), Stop>>),
      {"sock", "ctx"}, {"signkey", "conn"})))

(* The two other clients clear ctx once the host name is resolved, stop at *)
(* the end of their input with tls_shutdown, and return 0 whatever         *)
(* happened.                                                               *)
LineClient(name, send, recv) ==
    NoValue({"ctx"}, Always(Tool(name,
      <<Usage>> \o ClientOptions
      \o <<Quit(Help), BadValue, Quit(Bad), Quit(Require({"-host"})),
           Quit(Call("tls_socket_lib_init", {})), Call("gethostbyname", {}),
           Set({"ctx"}), Make("tls_socket_create", {}, {"sock"}),
           Call("tls_socket_connect", {"sock"}),
           Call("tls_ctx_set_cipher_suites", {"ctx"})>>
      \o Trust \o Given({"-cert"}, <<Identify>>) \o Handshake("sock")
      \o Loop(<<Call(send, {"conn"}), Call("select", {})>>
              \o Loop(<<Call(recv, {"conn"})>>)
              \o May(<<Call(send, {"conn"})>>))
      \o <<Ignore(Call("tls_shutdown", {"conn"}))>>,
      {"sock", "ctx"}, {"signkey", "conn"})))

tls12_client_main == LineClient("tls12_client", "tls_send", "tls_recv")
tls13_client_main == LineClient("tls13_client", "tls13_send", "tls13_recv")

(* A server echoes what it receives, one client after the other.  When a   *)
(* client has gone it waits for the next without closing the socket of the *)
(* last one; the end label gives nothing back.                             *)
Serve(send) ==
    <<Call("tls_socket_bind", {"sock"}), Act("tls_socket_listen", {"sock"}, {})>>
    \o Forever(
         <<Make("tls_socket_accept", {"sock"}, {"conn_sock"}),
           Quit(Fill("tls_init", {"ctx"}, {"conn"})),
           Quit(Call("tls_set_socket", {"conn_sock"})),
           Quit(Fill("tls_do_handshake", {"conn_sock"}, {"conn"}))>>
         \o Loop(<<Act("tls_recv", {"conn"}, {}),
                   Closing(Call(send, {"conn"}), {"conn_sock"})>>)
         \o <<Act("tls_recv", {"conn"}, {}), Wipe({"conn"})>>)

ServerContext(f, k) ==
    <<Set({"ctx"}), Quit(Call("tls_ctx_set_cipher_suites", {"ctx"})),
      Quit(Fill(f, {"ctx"}, k))>>
    \o Given({"-cacert"}, <<Quit(Call("tls_ctx_set_ca_certificates", {"ctx"}))>>)

tlcp_server_main ==
    Tool("tlcp_server",
      <<Usage, Value("-cert"), Value("-key"), Value("-pass"), Value("-ex_key"),
        Value("-ex_pass"), Value("-cacert"), Quit(Help), Quit(Bad),
        Quit(Require({"-cert"})), Quit(Require({"-key"})),
        Quit(Require({"-pass"})), Quit(Require({"-ex_key"})),
        Quit(Require({"-ex_pass"}))>>
      \o ServerContext("tls_ctx_set_tlcp_server_certificate_and_keys",
                       {"signkey", "kenckey"})
      \o <<Quit(Call("tls_socket_lib_init", {})),
           Quit(Make("tls_socket_create", {}, {"sock"}))>>
      \o Serve("tls_send"),
      {}, {})

EchoServer(name, send) ==
    Tool(name,
      <<Usage, Value("-cert"), Value("-key"), Value("-pass"), Value("-cacert"),
        Quit(Help), Quit(Bad), Quit(Require({"-cert"})),
        Quit(Require({"-key"})), Quit(Require({"-pass"})),
        Quit(Call("tls_socket_lib_init", {}))>>
      \o ServerContext("tls_ctx_set_certificate_and_key", {"signkey"})
      \o <<Make("tls_socket_create", {}, {"sock"})>>
      \o Serve(send),
      {}, {})

tls12_server_main == EchoServer("tls12_server", "tls_send")
tls13_server_main == EchoServer("tls13_server", "tls13_send")

TlsPrograms ==
    {tls_ctx_set_certificate_and_key,
     tls_ctx_set_tlcp_server_certificate_and_keys,
     tlcp_client_main, tls12_client_main, tls13_client_main,
     tlcp_server_main, tls12_server_main, tls13_server_main}
=============================================================================
