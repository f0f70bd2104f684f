--------------------------- MODULE MCTlsHandshake ---------------------------
(* The instance of TlsHandshake that TLC checks.                           *)
EXTENDS TlsHandshake

\* Every certificate that makes a difference, for both protocols; the limit on
\* the names of the authorities exists in TLS 1.2 only.
MCConfigs ==
    {c \in [protocol : {"tls12", "tls13"},
            clientCert : {"none", "good", "untrusted", "unlisted"},
            serverCA : {"none", "fits", "too_long"},
            serverCerts : {"good", "untrusted"},
            timeouts : BOOLEAN] :
        /\ c.protocol = "tls13" => c.clientCert # "unlisted" /\ c.serverCA # "too_long"
        /\ c.timeouts => c.serverCerts = "good"}
=============================================================================
