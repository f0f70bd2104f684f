------------------------------ MODULE CrlSchema ------------------------------
(***************************************************************************)
(* The ASN.1 types of x509_crl.c and x509_req.c, in the vocabulary of      *)
(* module Asn1Schema.                                                      *)
(***************************************************************************)
EXTENDS Asn1Schema

x509_crl_reason == Leaf(ENUMERATED_TAG, {"keyCompromise", "superseded"})
asn1_generalized_time == Leaf(GENERALIZED_TIME_TAG, {"1999", "2049", "2050"})
x509_cert_issuer == Sequence(<<Rest("x509_general_name")>>)

(* Unlike the identifiers of other extensions an unknown one is an error.  *)
x509_crl_entry_ext_ids == {"CRLReasons", "InvalidityDate", "CertificateIssuer"}
x509_crl_entry_values ==
    [CRLReasons |-> "x509_crl_reason", InvalidityDate |-> "asn1_generalized_time",
     CertificateIssuer |-> "x509_cert_issuer"]
x509_crl_entry_ext ==
    [Sequence(<<Req(Oid(x509_crl_entry_ext_ids)), Bool,
             Req(OpenOctets({}, "x509_crl_entry_values"))>>)
        EXCEPT !.omit = {3}, !.pend = FALSE]

(* What x509_crl_entry_exts_to_der writes before the value, and what       *)
(* x509_crl_entry_ext_critical_check accepts there: only the issuer may,   *)
(* and must, be critical.                                                  *)
x509_crl_entry_ext_critical_check(oid, critical) ==
    LET id == Node(OID_TAG, oid, <<>>)
        bool(b) == Node(BOOLEAN_TAG, b, <<>>)
    IN IF critical THEN [key |-> <<id, bool("true")>>, keys |-> {<<id, bool("true")>>},
                         field |-> InOctets(x509_crl_entry_values[oid])]
       ELSE [key |-> <<id>>, keys |-> {<<id>>, <<id, bool("false")>>},
             field |-> InOctets(x509_crl_entry_values[oid])]
x509_crl_entry_exts ==
    [Keyed("x509_crl_entry_ext",
           <<x509_crl_entry_ext_critical_check("CRLReasons", FALSE),
             x509_crl_entry_ext_critical_check("InvalidityDate", FALSE),
             x509_crl_entry_ext_critical_check("CertificateIssuer", TRUE)>>)
        EXCEPT !.omit = {1, 2, 3}, !.filled = TRUE]

(* The date is written as GeneralizedTime and read as either; the function *)
(* that takes the extensions apart does not let them be absent.            *)
x509_revoked_cert ==
    [Sequence(<<Req(BigInt), Req(Typ("asn1_generalized_time")),
             Raw(SEQUENCE_TAG, "x509_crl_entry_exts")>>)
        EXCEPT !.dec[2] = Req(Typ("x509_time")), !.prt[2] = Req(Typ("x509_time"))]
x509_revoked_cert_ex ==
    [Sequence(<<Req(BigInt), Req(Typ("asn1_generalized_time")), Typ("x509_crl_entry_exts")>>)
        EXCEPT !.dec[2] = Req(Typ("x509_time")), !.prt[2] = Req(Typ("x509_time")),
               !.dec[3] = Req(Typ("x509_crl_entry_exts"))]
x509_revoked_certs == List(SEQUENCE_TAG, "x509_revoked_cert")

(* A URI is written; the alternative and its content are read, and must be *)
(* there.  The second alternative is printed only with another tag than    *)
(* the one it is read with.                                                *)
x509_distribution_point_name ==
    Choice([t \in {Explicit(0), Explicit(1)} |-> t], [t \in {Explicit(0), Explicit(1)} |-> t],
           [t \in {Explicit(0)} |-> "x509_general_names"], -1)
x509_issuing_distribution_point ==
    [Sequence(<<Expl(0, "x509_uri_as_distribution_point_name"),
             Prim(Implicit(1), {"true", "false"}), Prim(Implicit(2), {"true", "false"}),
             Bits(Implicit(3)),
             Prim(Implicit(4), {"true", "false"}), Prim(Implicit(5), {"true", "false"})>>)
        EXCEPT !.dec[1] = Req(Expl(0, "x509_distribution_point_name")),
               !.prt[1] = Expl(0, "x509_distribution_point_name"),
               !.omit = 1 .. 6]

x509_crl_ext_ids == {"AuthorityKeyIdentifier", "IssuerAltName", "CRLNumber",
    "DeltaCRLIndicator", "IssuingDistributionPoint", "FreshestCRL",
    "AuthorityInformationAccess"}
x509_crl_ext_values ==
    [AuthorityKeyIdentifier |-> "x509_authority_key_identifier",
     IssuerAltName |-> "x509_general_names", CRLNumber |-> "asn1_int",
     DeltaCRLIndicator |-> "asn1_int",
     IssuingDistributionPoint |-> "x509_issuing_distribution_point",
     FreshestCRL |-> "x509_uri_as_distribution_points",
     AuthorityInformationAccess |-> "x509_authority_info_access"]
x509_crl_ext ==
    [Sequence(<<Req(Oid(x509_crl_ext_ids)), Bool,
             Req(OpenOctets({"end", "one"}, "x509_crl_ext_values"))>>)
        EXCEPT !.dec[1] = Req(Oid(x509_crl_ext_ids \cup {"undef"})),
               !.prt[1] = Req(Oid(x509_crl_ext_ids \cup {"undef"})),
               !.omit = {3}, !.pend = FALSE]
x509_crl_exts == List(SEQUENCE_TAG, "x509_crl_ext")

(* As if the print function had another tag for the extensions.            *)
BugPrintExtsTag ==
    [Sequence(<<Version({"v1", "v2"}), Req(Typ("x509_signature_algor")),
            Req(Raw(SEQUENCE_TAG, "x509_name")), Req(Typ("x509_time")), Typ("x509_time"),
            Raw(SEQUENCE_TAG, "x509_revoked_certs"), Expl(0, "x509_crl_exts")>>)
        EXCEPT !.prt[7] = Expl(1, "x509_crl_exts")]
x509_tbs_crl ==
    Sequence(<<Version({"v1", "v2"}), Req(Typ("x509_signature_algor")),
            Req(Raw(SEQUENCE_TAG, "x509_name")), Req(Typ("x509_time")), Typ("x509_time"),
            Raw(SEQUENCE_TAG, "x509_revoked_certs"), Expl(0, "x509_crl_exts")>>)
(* What x509_tbs_crl_from_der asks in addition: a version that is there    *)
(* is v2, and revoked certificates and extensions need one.                *)
x509_tbs_crl_versions(v) ==
    /\ v.kids[1].prim # "v1"
    /\ (v.kids[6] # Absent \/ v.kids[7] # Absent) => v.kids[1].prim = "v2"
x509_crl ==
    Sequence(<<Req(Typ("x509_tbs_crl")), Req(Typ("x509_signature_algor")),
            Req(BitOctets(BIT_STRING_TAG))>>)

(* Attributes have to be written and may be missing when read.             *)
x509_request_info ==
    [Sequence(<<Req(Version({"v1"})), Req(Raw(SEQUENCE_TAG, "x509_name")),
             Req(Typ("sm2_public_key_info")), Req(Raw(Explicit(0), "x509_attributes"))>>)
        EXCEPT !.dec[4] = Raw(Explicit(0), "x509_attributes"),
               !.prt[4] = Raw(Explicit(0), "x509_attributes")]
x509_request ==
    Sequence(<<Req(Typ("x509_request_info")), Req(Typ("x509_signature_algor")),
            Req(BitOctets(BIT_STRING_TAG))>>)

-----------------------------------------------------------------------------
CrlTypes ==
    [x509_crl_reason |-> x509_crl_reason,
     asn1_generalized_time |-> asn1_generalized_time,
     x509_cert_issuer |-> x509_cert_issuer,
     x509_crl_entry_ext |-> x509_crl_entry_ext,
     x509_crl_entry_exts |-> x509_crl_entry_exts,
     x509_revoked_cert |-> x509_revoked_cert,
     x509_revoked_cert_ex |-> x509_revoked_cert_ex,
     x509_revoked_certs |-> x509_revoked_certs,
     x509_distribution_point_name |-> x509_distribution_point_name,
     x509_issuing_distribution_point |-> x509_issuing_distribution_point,
     x509_crl_ext |-> x509_crl_ext, x509_crl_exts |-> x509_crl_exts,
     x509_tbs_crl |-> x509_tbs_crl, x509_crl |-> x509_crl,
     x509_request_info |-> x509_request_info, x509_request |-> x509_request]
=============================================================================
