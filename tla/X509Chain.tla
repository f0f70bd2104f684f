------------------------------ MODULE X509Chain ------------------------------
(***************************************************************************)
(* The verification of a chain of certificates up to a trusted one         *)
(* (src/src/x509_cer.c): x509_certs_verify, with which TLS verifies its    *)
(* peers and a TLCP server its client, x509_certs_verify_tlcp, which takes *)
(* a signing and an encryption certificate, and the certverify command     *)
(* with its look into a CRL (tools/certverify.c).                          *)
(*                                                                         *)
(* A certificate is what a verifier can tell of it: names, its key and the *)
(* key it was signed with, its dates, its extensions in their order, and   *)
(* its form: "good", or not version 3, without a serial number, with an    *)
(* empty name, or with two different signature algorithms.  The message or *)
(* file that is verified is read one certificate at a time.                *)
(***************************************************************************)
EXTENDS Integers, Sequences

CONSTANTS
    EntityCerts, \* certificates that may be presented for an entity
    CaCerts,     \* and as those of CAs
    RootLists,   \* the trusted certificates, in the order they are stored
    Crls,        \* what the distribution point of a certificate may answer
    Verifiers,   \* who verifies: the call, the type of its entity, verify_depth
                 \* and the options -double_certs and -check_crl
    Now,         \* the time of the verification
    MaxValidity, \* X509_VALIDITY_MAX_SECONDS
    MaxCas       \* bound: CA certificates in a message

ASSUME ChainAssumption ==
    MaxCas \in Nat /\ Now \in Int /\ MaxValidity \in Nat

\* Only the command has options.
ASSUME VerifiersAssumption ==
    \A v \in Verifiers :
        /\ v.double_certs \in BOOLEAN /\ v.check_crl \in BOOLEAN
        /\ v.call # "certverify" => ~v.double_certs /\ ~v.check_crl

VARIABLES
    verifier,     \* the call that is made
    roots,        \* rootcerts, or the file of -cacert
    phase,        \* what is read next, or the result
    rest,         \* whether there is "more" to read, the "end" or "junk"
    path,         \* the certificates read: the entity's and those of CAs
    kenc,         \* the encryption certificate, if there is one
    root,         \* the trusted certificate that was found
    cert,         \* the certificate whose issuer comes next
    path_len,     \* the local variable: CA certificates so far
    double_certs, \* the encryption certificate is still to be verified
    check_crl,    \* the revocation is still to be looked up
    crl           \* the CRLs that were used, for the two certificates

vars == <<verifier, roots, phase, rest, path, kenc, root, cert, path_len,
          double_certs, check_crl, crl>>

NoCert == [form |-> "none"]
NoCrl == [form |-> "none"]

ASSUME CertsAssumption == NoCert \notin EntityCerts

\* Certificates are stored one after the other.
ASSUME RootsAssumption ==
    \A list \in RootLists : Len(list) \in Nat /\ DOMAIN list = 1 .. Len(list)

-----------------------------------------------------------------------------
(* One certificate.                                                        *)

SignTypes == {"server_auth", "client_auth"}
EncipherTypes == {"server_key_encipher", "client_key_encipher"}

x509_key_usage_check(bits, type) ==
    /\ bits # {}
    /\ \/ /\ type \in SignTypes /\ "digitalSignature" \in bits
          /\ bits \cap {"keyCertSign", "cRLSign"} = {}
       \/ /\ type \in EncipherTypes /\ "keyEncipherment" \in bits
          /\ bits \cap {"keyCertSign", "cRLSign"} = {}
       \/ type = "ca" /\ "keyCertSign" \in bits
       \/ type = "crl_sign" /\ "cRLSign" \in bits

\* ca is -1 if it is not there, as is the length of the path.
x509_basic_constraints_check(ca, len, type) ==
    IF type \in SignTypes \cup EncipherTypes THEN ca < 1 /\ len = -1 ELSE ca = 1

\* anyExtendedKeyUsage gives 0, which the caller refuses.
x509_ext_key_usage_check(oids, type) ==
    \/ type \in {"server_auth", "server_key_encipher"} /\ "serverAuth" \in oids
    \/ type \in {"client_auth", "client_key_encipher"} /\ "clientAuth" \in oids

NeverCritical == {"authority_key_identifier", "subject_key_identifier",
                  "issuer_alt_name", "subject_directory_attributes"}
Known == {"certificate_policies", "subject_alt_name", "name_constraints",
          "policy_constraints", "crl_distribution_points", "inhibit_any_policy",
          "freshest_crl"}

x509_ext_check(e, type) ==
    CASE e.oid = "key_usage" -> x509_key_usage_check(e.val, type)
      [] e.oid = "basic_constraints" ->
            x509_basic_constraints_check(e.val.ca, e.val.len, type)
      [] e.oid = "ext_key_usage" -> x509_ext_key_usage_check(e.val, type)
      [] e.oid = "policy_mappings" -> e.critical
      [] e.oid \in Known -> TRUE
      [] OTHER -> ~e.critical   \* NeverCritical ones and unknown ones

x509_exts_check(exts, type) ==
    \A i \in DOMAIN exts : x509_ext_check(exts[i], type)

\* *path_len_constraint: the last BasicConstraints tells, -1 without one.
Constraint(c) ==
    LET I == {i \in DOMAIN c.exts : c.exts[i].oid = "basic_constraints"}
    IN  IF I = {} THEN -1
        ELSE c.exts[CHOOSE i \in I : \A j \in I : j <= i].val.len

x509_validity_check(from, to) ==
    from <= to /\ to - from <= MaxValidity /\ from <= Now /\ Now <= to

x509_cert_check(c, type) ==
    /\ c.form = "good"
    /\ x509_validity_check(c.from, c.to)
    /\ x509_exts_check(c.exts, type)

\* The issuer's name and its signature.
x509_cert_verify_by_ca_cert(c, ca) == c.issuer = ca.subject /\ c.by = ca.key

\* The place of the first certificate with this subject.
x509_certs_get_cert_by_subject(list, name) ==
    {i \in DOMAIN list : /\ list[i].subject = name
                         /\ \A j \in 1 .. i - 1 : list[j].subject # name}

-----------------------------------------------------------------------------
(* Revocation, of certificate c with the CRL a.                            *)

\* The address in the first extension of that kind.  Without one the function
\* returns 0, which its caller takes for an error.
HasPoint(c) ==
    \E i \in DOMAIN c.exts :
        /\ c.exts[i].oid = "crl_distribution_points" /\ c.exts[i].val = "uri"
        /\ \A j \in 1 .. i - 1 : c.exts[j].oid # "crl_distribution_points"
x509_crl_new_from_cert(c, a) == HasPoint(c) /\ a.form # "unavailable"

\* A CRL is "good" or of another form: without a version, with two signature
\* algorithms, or with an extension that is critical.  next_update is what
\* x509_tbs_crl_from_der hands out: the date of the list, -1 if it has none and
\* ends there, else whatever the variable of the caller held.
x509_crl_check(a) ==
    /\ a.form = "good"
    /\ a.this_update <= Now
    /\ a.next_update >= 0 => Now < a.next_update

x509_crl_verify_by_ca_cert(a, ca) == a.issuer = ca.subject /\ a.by = ca.key

x509_cert_check_crl(c, ca, a) ==
    /\ x509_crl_new_from_cert(c, a)
    /\ x509_crl_check(a)
    /\ a.issuer = c.issuer
    /\ x509_crl_verify_by_ca_cert(a, ca)
    /\ c.serial \notin a.revoked

-----------------------------------------------------------------------------
(* The three verifiers.                                                    *)

Tool == verifier.call = "certverify"
Tlcp == verifier.call = "x509_certs_verify_tlcp"
Paired == Tlcp \/ verifier.double_certs

Init ==
    /\ verifier \in Verifiers /\ roots \in RootLists
    /\ phase = "entity" /\ rest = "more"
    /\ path = <<>> /\ kenc = NoCert /\ root = NoCert /\ cert = NoCert
    /\ path_len = 0
    /\ double_certs = Paired /\ check_crl = verifier.check_crl
    /\ crl = [entity |-> NoCrl, kenc |-> NoCrl]

\* The command looks at nothing but names and signatures.
EntityFits(c) == Tool \/ x509_cert_check(c, verifier.type)

ReadEntity ==
    /\ phase = "entity" /\ rest = "more"
    /\ \E c \in EntityCerts :
        /\ path' = <<c>> /\ cert' = c
        /\ phase' = IF ~EntityFits(c) THEN "refused"
                    ELSE IF Paired THEN "kenc" ELSE "chain"
    /\ UNCHANGED <<verifier, roots, rest, kenc, root, path_len, double_certs,
                   check_crl, crl>>

\* Both certificates of a pair have one subject and one issuer, says the
\* command; x509_certs_verify_tlcp checks what each is for.
KencFits(c) ==
    IF Tool THEN c.subject = cert.subject /\ c.issuer = cert.issuer
    ELSE x509_cert_check(c, "server_key_encipher")

ReadKenc ==
    /\ phase = "kenc" /\ rest = "more"
    /\ \E c \in EntityCerts :
        /\ kenc' = c
        /\ phase' = IF KencFits(c) THEN "chain" ELSE "refused"
    /\ UNCHANGED <<verifier, roots, rest, path, root, cert, path_len,
                   double_certs, check_crl, crl>>

\* Mutant: who issued the encryption certificate is not asked.
IssuesNoKenc(ca) ==
    /\ x509_cert_check(ca, "ca")
    /\ Constraint(ca) >= 0 => path_len <= Constraint(ca)
    /\ path_len <= verifier.depth
    /\ x509_cert_verify_by_ca_cert(cert, ca)

\* Mutant: path_len++ comes before the comparisons, not after.
IssuesCountedFirst(ca) ==
    /\ x509_cert_check(ca, "ca")
    /\ Constraint(ca) >= 0 => path_len + 1 <= Constraint(ca)
    /\ path_len + 1 <= verifier.depth
    /\ Tlcp /\ path_len = 0 => x509_cert_verify_by_ca_cert(kenc, ca)
    /\ x509_cert_verify_by_ca_cert(cert, ca)

\* The CA certificate ca, an intermediate or a trusted one, for the library.
Issues(ca) ==
    /\ x509_cert_check(ca, "ca")
    /\ Constraint(ca) >= 0 => path_len <= Constraint(ca)
    /\ path_len <= verifier.depth
    /\ Tlcp /\ path_len = 0 => x509_cert_verify_by_ca_cert(kenc, ca)
    /\ x509_cert_verify_by_ca_cert(cert, ca)

\* An intermediate one: the first has to have a path length of 0.
IssuesInChain(ca) == Issues(ca) /\ (path_len = 0 => Constraint(ca) = 0)

\* The same for the command, with the CRLs a and b of the two certificates.
\* Only the entity's certificates are looked up.
EntityIssued(ca) == x509_cert_verify_by_ca_cert(cert, ca)
EntityHolds(ca, a) == EntityIssued(ca) /\ (check_crl => x509_cert_check_crl(cert, ca, a))
KencIssued(ca, a) == EntityHolds(ca, a) /\ x509_cert_verify_by_ca_cert(kenc, ca)
IssuesForTool(ca, a, b) ==
    /\ EntityHolds(ca, a)
    /\ double_certs => /\ KencIssued(ca, a)
                       /\ check_crl => x509_cert_check_crl(kenc, ca, b)

\* What is looked up for c, once it is known to be needed.
Answers(needed, c) == IF needed /\ check_crl /\ HasPoint(c) THEN Crls ELSE {NoCrl}

\* Verify with ca, an intermediate or a trusted certificate, and go on to next.
VerifyBy(ca, inChain, next) ==
    IF Tool
    THEN \E a \in Answers(EntityIssued(ca), cert) :
         \E b \in Answers(double_certs /\ KencIssued(ca, a), kenc) :
            /\ crl' = IF check_crl THEN [entity |-> a, kenc |-> b] ELSE crl
            /\ phase' = IF IssuesForTool(ca, a, b) THEN next ELSE "refused"
    ELSE /\ phase' = IF (IF inChain THEN IssuesInChain(ca) ELSE Issues(ca))
                     THEN next ELSE "refused"
         /\ UNCHANGED crl

\* The next certificate of a CA is read, and verifies the one before it.
ReadCa ==
    /\ phase = "chain" /\ rest = "more" /\ Len(path) <= MaxCas
    /\ \E ca \in CaCerts :
        /\ VerifyBy(ca, TRUE, "chain")
        /\ path' = Append(path, ca) /\ cert' = ca
    /\ path_len' = path_len + 1
    /\ double_certs' = FALSE /\ check_crl' = FALSE
    /\ UNCHANGED <<verifier, roots, rest, kenc, root>>

\* All is read; the issuer of the last one is looked for among the trusted.
FindRoot ==
    /\ phase = "chain" /\ rest = "end"
    /\ LET found == x509_certs_get_cert_by_subject(roots, cert.issuer)
       IN  \/ found = {} /\ phase' = "refused" /\ UNCHANGED <<root, crl>>
           \/ \E i \in found :
                /\ root' = roots[i]
                /\ VerifyBy(roots[i], FALSE, "accepted")
    /\ UNCHANGED <<verifier, roots, rest, path, kenc, cert, path_len,
                   double_certs, check_crl>>

\* The message or file ends here, or goes on with something else.
Ends ==
    /\ phase = "chain" /\ rest = "more"
    /\ rest' = "end"
    /\ UNCHANGED <<verifier, roots, phase, path, kenc, root, cert, path_len,
                   double_certs, check_crl, crl>>

Unreadable ==
    /\ rest = "more"
    /\ \/ phase \in {"entity", "kenc"} /\ rest' \in {"end", "junk"}
       \/ phase = "chain" /\ rest' = "junk"
    /\ phase' = "refused"
    /\ UNCHANGED <<verifier, roots, path, kenc, root, cert, path_len,
                   double_certs, check_crl, crl>>

Next == ReadEntity \/ ReadKenc \/ ReadCa \/ Ends \/ FindRoot \/ Unreadable

Spec == Init /\ [][Next]_vars

-----------------------------------------------------------------------------
(* Properties.                                                             *)

Issued(ca, c) == c.issuer = ca.subject /\ c.by = ca.key

\* The CRL a that c points to is one its issuer ca has made for this time, and
\* c is not in it.
NotRevoked(c, ca, a) ==
    /\ \E i \in DOMAIN c.exts :
        c.exts[i].oid = "crl_distribution_points" /\ c.exts[i].val = "uri"
    /\ a.form = "good" /\ a.issuer = ca.subject /\ a.by = ca.key
    /\ a.this_update <= Now /\ (a.next_update >= 0 => Now < a.next_update)
    /\ c.serial \notin a.revoked

\* p is a path from the entity's certificate over those of CAs: each was issued
\* by the next,
Linked(p) == \A i \in 2 .. Len(p) : Issued(p[i], p[i - 1])

\* each is in order and may be used for what it is used for, no CA has more CAs
\* below it than its certificate and the verifier allow,
Allowed(p) ==
    ~Tool => /\ x509_cert_check(p[1], verifier.type)
             /\ \A i \in 2 .. Len(p) :
                    /\ x509_cert_check(p[i], "ca")
                    /\ Constraint(p[i]) >= 0 => i - 2 <= Constraint(p[i])
                    /\ i - 2 <= verifier.depth

\* an encryption certificate fits the entity's own,
PairFits(p) ==
    Paired /\ kenc # NoCert =>
        IF Tool THEN kenc.subject = p[1].subject /\ kenc.issuer = p[1].issuer
        ELSE x509_cert_check(kenc, "server_key_encipher")

\* and the first CA has issued both and, by the lists used, revoked neither.
FirstVouches(p, used) ==
    Len(p) >= 2 =>
        /\ Paired => kenc # NoCert /\ Issued(p[2], kenc)
        /\ verifier.check_crl =>
            /\ NotRevoked(p[1], p[2], used.entity)
            /\ Paired => NotRevoked(kenc, p[2], used.kenc)

Proper(p) == Linked(p) /\ Allowed(p) /\ PairFits(p) /\ FirstVouches(p, crl)

\* A chain that is accepted is a proper path that ends at a trusted
\* certificate, wherever the first CA is found, in the message or among the
\* trusted ones, and it was all of what was presented.
AcceptsOnlyPaths ==
    phase = "accepted" =>
        /\ rest = "end"
        /\ \E i \in DOMAIN roots : root = roots[i]
        /\ Proper(Append(path, root))

\* The library wants a first intermediate CA that may have no CA below it.
FirstIsLast(p) == ~Tool /\ Len(p) >= 2 => Constraint(p[2]) = 0

\* A trusted certificate behind another one of the same name is not found: after
\* a CA has changed its key, the order of the two decides.
Shadowed(i) == \E j \in 1 .. i - 1 : roots[j].subject = roots[i].subject

\* What is refused was no certificate, or not enough of them, or is no part of a
\* proper path, or no trusted certificate completes it that is not shadowed.
RefusesForAReason ==
    phase = "refused" =>
        \/ rest = "junk"
        \/ rest = "more" /\ ~(Proper(path) /\ FirstIsLast(path))
        \/ rest = "end" /\ (path = <<>> \/ (Paired /\ kenc = NoCert))
        \/ rest = "end" /\ \A i \in DOMAIN roots :
                Shadowed(i) \/ ~Proper(Append(path, roots[i]))

\* Not so: a CA's certificate says that it is one.  x509_exts_check does not
\* notice that BasicConstraints is missing, and only the first intermediate one
\* cannot do without.
CasAreCas ==
    phase = "accepted" /\ ~Tool =>
        \A i \in 2 .. Len(path) + 1 :
            \E k \in DOMAIN Append(path, root)[i].exts :
                Append(path, root)[i].exts[k].oid = "basic_constraints"

\* Not so: "If the entity certificate has CRLDistributionPoints extension,
\* Download and check" (tools/certverify.c:33).  An entity that a trusted
\* certificate vouches for and that has no such extension is refused.
NoPointNoCheck ==
    phase = "refused" /\ Tool /\ ~Paired /\ rest = "end" /\ Len(path) = 1 =>
        \A i \in DOMAIN roots :
            Shadowed(i) \/ ~Issued(roots[i], cert) \/ HasPoint(cert)
=============================================================================
