---------------------------- MODULE MCX509Chain ----------------------------
(* The instance of X509Chain that TLC checks.                              *)
EXTENDS X509Chain

Ext(oid, critical, val) == [oid |-> oid, critical |-> critical, val |-> val]
KU(bits) == Ext("key_usage", TRUE, bits)
EKU(oids) == Ext("ext_key_usage", FALSE, oids)
BC(ca, len) == Ext("basic_constraints", TRUE, [ca |-> ca, len |-> len])
CDP == Ext("crl_distribution_points", FALSE, "uri")

Cert(subject, issuer, key, by, exts) ==
    [form |-> "good", subject |-> subject, issuer |-> issuer, serial |-> subject,
     key |-> key, by |-> by, from |-> 0, to |-> 2, exts |-> exts]

\* An entity E, a CA A whose certificate may have another key, a CA B.
EntityExts == {<<>>, <<CDP>>, <<KU({"digitalSignature"}), EKU({"serverAuth"})>>,
    <<KU({"keyEncipherment"}), CDP>>, <<EKU({"clientAuth"}), BC(-1, -1)>>,
    <<EKU({"any"})>>, <<BC(1, 0)>>}
CaExts == {<<BC(1, 0), KU({"keyCertSign"})>>, <<BC(1, 1)>>, <<BC(1, -1)>>,
    <<BC(1, 0), BC(1, -1)>>, <<KU({"keyCertSign"})>>, <<BC(1, 0), KU({"cRLSign"})>>}

Signers == {<<"A", "kA">>, <<"A", "kB">>, <<"B", "kB">>}
Entities == {Cert("E", i[1], "kE", i[2], x) : i \in Signers, x \in EntityExts}
Cas == {Cert("A", i[1], k, i[2], x) : i \in Signers, k \in {"kA", "kA2"}, x \in CaExts}
       \cup {Cert("B", i[1], "kB", i[2], x) : i \in Signers, x \in CaExts}
Flaws(c) == {[c EXCEPT !.form = "flawed"], [c EXCEPT !.to = 0], [c EXCEPT !.from = 2],
             [c EXCEPT !.to = 9], [c EXCEPT !.to = -1],
             [c EXCEPT !.exts = Append(@, Ext("unknown", TRUE, ""))],
             [c EXCEPT !.exts = Append(@, Ext("unknown", FALSE, ""))]}
RootA == Cert("A", "A", "kA", "kA", <<BC(1, -1)>>)
RootB == Cert("B", "B", "kB", "kB", <<BC(1, 1)>>)

MCEntityCerts == Entities \cup Flaws(Cert("E", "A", "kE", "kA", <<>>))
MCCaCerts == Cas \cup Flaws(Cert("A", "B", "kA", "kB", <<BC(1, 0)>>))
MCRootLists ==
    {<<>>, <<RootA>>, <<RootB>>, <<[RootA EXCEPT !.to = 0]>>,
     <<[RootA EXCEPT !.key = "kA2"], RootA>>, <<RootB, [RootA EXCEPT !.exts = <<BC(1, 0)>>]>>}
GoodCrl == [form |-> "good", issuer |-> "A", by |-> "kA",
            this_update |-> 0, next_update |-> 2, revoked |-> {}]
MCCrls ==
    {GoodCrl, [GoodCrl EXCEPT !.next_update = -1], [GoodCrl EXCEPT !.revoked = {"E"}],
     [GoodCrl EXCEPT !.issuer = "B"], [GoodCrl EXCEPT !.by = "kB"],
     [GoodCrl EXCEPT !.this_update = 2], [GoodCrl EXCEPT !.next_update = 1],
     [GoodCrl EXCEPT !.form = "critical"], [GoodCrl EXCEPT !.form = "unavailable"]}

Library(call, type, depth) ==
    [call |-> call, type |-> type, depth |-> depth, double_certs |-> FALSE, check_crl |-> FALSE]
MCVerifiers ==
    {Library("x509_certs_verify", "client_auth", 1),
     Library("x509_certs_verify", "server_auth", 2),
     Library("x509_certs_verify_tlcp", "server_auth", 2)}
    \cup [call : {"certverify"}, type : {"none"}, depth : {0}, double_certs : BOOLEAN, check_crl : BOOLEAN]
=============================================================================
