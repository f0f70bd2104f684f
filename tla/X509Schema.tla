----------------------------- MODULE X509Schema -----------------------------
(***************************************************************************)
(* The ASN.1 types of x509_alg.c, x509_ext.c and x509_cer.c, each as the   *)
(* calls of its three functions.  A type bears the name of its functions   *)
(* without _to_der, _from_der and _print.                                  *)
(***************************************************************************)
EXTENDS Asn1Schema

-----------------------------------------------------------------------------
(* x509_alg.c *)

Only(oid) == <<Node(OID_TAG, oid, <<>>)>>
With(oid, params) == <<Node(OID_TAG, oid, <<>>), params>>

x509_digest_algors == {"sm3", "sha256"}
x509_digest_algor ==
    Alg([a \in x509_digest_algors |-> Only(a)],
        [c \in {Only(a) : a \in x509_digest_algors} |-> c[1].prim])

(* flags of the table: NULL parameters are written for some algorithms and *)
(* are read, or missed without complaint, for all of them.                 *)
x509_sign_algors == {"sm2sign-with-sm3", "rsasign-with-sm3", "ecdsa-with-sha256"}
x509_sign_null == {"rsasign-with-sm3"}
x509_signature_algor ==
    Alg([a \in x509_sign_algors |->
            IF a \in x509_sign_null THEN With(a, Null) ELSE Only(a)],
        [c \in {Only(a) : a \in x509_sign_algors}
               \cup {With(a, Null) : a \in x509_sign_algors} |-> c[1].prim])

x509_encryption_algor ==
    Sequence(<<Req(Oid({"sm4-cbc", "aes128-cbc"})), Req(Prim(OCTET_STRING_TAG, {"iv"}))>>)

(* Only sm2encrypt is written; the other identifiers are read with any     *)
(* parameters.                                                             *)
x509_public_key_encryption_algor ==
    Alg([a \in {"sm2encrypt"} |-> Only(a)],
        [c \in {Only("sm2encrypt"), Only("rsaesOAEP"), With("rsaesOAEP", Null)}
            |-> c[1].prim])

ec_named_curves == {"sm2p256v1", "prime256v1"}
ec_named_curve == Leaf(OID_TAG, ec_named_curves)

x509_public_key_algor ==
    Alg([a \in ec_named_curves \cup {"rsaEncryption"} |->
            IF a = "rsaEncryption" THEN With(a, Null)
            ELSE With("ecPublicKey", Node(OID_TAG, a, <<>>))],
        [c \in {With("ecPublicKey", Node(OID_TAG, a, <<>>)) : a \in ec_named_curves}
               \cup {Only("rsaEncryption"), With("rsaEncryption", Null)} |->
            IF c[1].prim = "rsaEncryption" THEN c[1].prim ELSE c[2].prim])

-----------------------------------------------------------------------------
(* x509_ext.c *)

(* An identifier that is not in x509_ext_ids is read (as OID_undef) and    *)
(* cannot be written.  x509_ext_print looks at the value by its identifier *)
(* and not at what follows the extension.                                  *)
x509_ext_ids == {"AuthorityKeyIdentifier", "SubjectKeyIdentifier", "KeyUsage",
    "CertificatePolicies", "PolicyMappings", "SubjectAltName", "IssuerAltName",
    "SubjectDirectoryAttributes", "BasicConstraints", "NameConstraints",
    "PolicyConstraints", "ExtKeyUsage", "CRLDistributionPoints",
    "InhibitAnyPolicy", "FreshestCRL", "CRLReasons", "InvalidityDate",
    "CertificateIssuer", "NetscapeCertType", "NetscapeCertComment", "AuthorityInformationAccess",
    "CT-PrecertificateSCTs"}
x509_ext ==
    [Sequence(<<Req(Oid(x509_ext_ids)), Bool, Req(OpenOctets({"end"}, "x509_ext_values"))>>)
        EXCEPT !.dec[1] = Req(Oid(x509_ext_ids \cup {"undef"})),
               !.prt[1] = Req(Oid(x509_ext_ids \cup {"undef"})),
               !.omit = {3}, !.pend = FALSE]
x509_extensions == List(SEQUENCE_TAG, "x509_ext")

(* The type of the value of an extension, for the functions               *)
(* x509_exts_add_... that write it and for x509_ext_print.                 *)
x509_ext_values ==
    [AuthorityKeyIdentifier |-> "x509_authority_key_identifier",
     SubjectKeyIdentifier |-> "asn1_octet_string",
     KeyUsage |-> "x509_key_usage",
     CertificatePolicies |-> "x509_certificate_policies",
     PolicyMappings |-> "x509_policy_mappings",
     SubjectAltName |-> "x509_general_names", IssuerAltName |-> "x509_general_names",
     SubjectDirectoryAttributes |-> "x509_attributes",
     BasicConstraints |-> "x509_basic_constraints",
     NameConstraints |-> "x509_name_constraints",
     PolicyConstraints |-> "x509_policy_constraints",
     ExtKeyUsage |-> "x509_ext_key_usage",
     CRLDistributionPoints |-> "x509_uri_as_distribution_points",
     InhibitAnyPolicy |-> "asn1_int",
     FreshestCRL |-> "x509_uri_as_distribution_points",
     CRLReasons |-> "asn1_sequence", InvalidityDate |-> "asn1_sequence",
     CertificateIssuer |-> "asn1_sequence", NetscapeCertType |-> "x509_key_usage",
     NetscapeCertComment |-> "asn1_ia5_string",
     AuthorityInformationAccess |-> "x509_authority_info_access"]
asn1_octet_string == Leaf(OCTET_STRING_TAG, {"octets"})
asn1_ia5_string == Leaf(IA5_TAG, {"text"})
asn1_sequence == [Struct(SEQUENCE_TAG, <<Raw(SEQUENCE_TAG, "")>>) EXCEPT !.k = "leaf"]
x509_key_usage == Leaf(BIT_STRING_TAG, {"bits"})

x509_other_name ==
    [Sequence(<<Req(Oid({"type"})), Req(NonEmpty(Explicit(0), ""))>>) EXCEPT !.omit = {1, 2}]

x509_edi_party_name ==
    [Sequence(<<Expl(0, "x509_directory_name"), Req(Expl(1, "x509_directory_name"))>>)
        EXCEPT !.omit = {1, 2}]

(* Every alternative is written with the tag of a primitive content; four  *)
(* of them are read, and printed, only as constructed.                     *)
x509_general_name ==
    [Choice([c \in 0 .. 8 |-> Implicit(c)],
           [t \in {Explicit(c) : c \in {0, 3, 4, 5}} \cup {Implicit(c) : c \in {1, 2, 6, 7, 8}}
               |-> IF t >= Explicit(0) THEN t - Explicit(0) ELSE t - Implicit(0)],
           [c \in 0 .. 8 |-> CASE c = 0 -> "x509_other_name"
                               [] c = 3 -> "bytes"
                               [] c = 4 -> "x509_name"
                               [] c = 5 -> "x509_edi_party_name"
                               [] OTHER -> ""], -1) EXCEPT !.inner = TRUE]
x509_general_names == List(SEQUENCE_TAG, "x509_general_name")

x509_authority_key_identifier ==
    [Sequence(<<Octets(Implicit(0)), NonEmpty(Explicit(1), "x509_general_names"),
             Prim(Implicit(2), {"serial"})>>) EXCEPT !.omit = {1, 2, 3}]

(* x509_display_text_check refuses an empty text, an absent one too.       *)
x509_display_texts == {IA5_TAG, VISIBLE_TAG, UTF8_TAG, BMP_TAG}
x509_display_text ==
    [Choice([t \in x509_display_texts |-> t], [t \in x509_display_texts |-> t],
            [t \in x509_display_texts |-> ""], 0) EXCEPT !.absent = -1]

asn1_int == Leaf(INTEGER_TAG, {"0", "1"})
asn1_sequence_of_int == List(SEQUENCE_TAG, "asn1_int")
x509_notice_reference ==
    [Sequence(<<Req(Typ("x509_display_text")), Req(Typ("asn1_sequence_of_int"))>>)
        EXCEPT !.omit = {1, 2}, !.unset = TRUE]
x509_user_notice ==
    [Sequence(<<Typ("x509_notice_reference"), Typ("x509_display_text")>>)
        EXCEPT !.omit = {1, 2}]

(* x509_policy_qualifier_info_print looks at the qualifier by its          *)
(* identifier and not at what follows it.                                  *)
x509_policy_qualifier_info ==
    [Sequence(<<Req(Oid({"cps", "unotice"})), Req(AnyElem("qualifier"))>>)
        EXCEPT !.prt[2] = Req(Field("open", 0, {}, "x509_qualifiers")),
               !.omit = {2}, !.pend = FALSE]
x509_policy_qualifier_infos == List(SEQUENCE_TAG, "x509_policy_qualifier_info")
x509_qualifiers == [cps |-> "asn1_ia5_string", unotice |-> "x509_user_notice"]

x509_cert_policy_ids == {"anyPolicy", "policy"}
x509_policy_information ==
    Sequence(<<Req(Oid(x509_cert_policy_ids)),
            Raw(SEQUENCE_TAG, "x509_policy_qualifier_infos")>>)
x509_certificate_policies == List(SEQUENCE_TAG, "x509_policy_information")

x509_policy_mapping ==
    [Sequence(<<Req(Oid(x509_cert_policy_ids)), Req(Oid(x509_cert_policy_ids))>>)
        EXCEPT !.omit = {1, 2}]
x509_policy_mappings == List(SEQUENCE_TAG, "x509_policy_mapping")

x509_attribute == Sequence(<<Req(Oid({"attr"})), Req(NonEmpty(SET_TAG, ""))>>)
x509_attributes == List(SEQUENCE_TAG, "x509_attribute")

(* As if asn1_length_is_zero were missing.                                 *)
BugNoEndCheck ==
    [Sequence(<<Bool, Num>>) EXCEPT !.refuse = {1, 2}, !.filled = TRUE, !.end = FALSE]
x509_basic_constraints ==
    [Sequence(<<Bool, Num>>) EXCEPT !.refuse = {1, 2}, !.filled = TRUE]

(* An absent minimum is read as 0.                                         *)
x509_general_subtree ==
    [Sequence(<<Req(Typ("x509_general_name")), Prim(Implicit(0), {"0", "1"}),
             Prim(Implicit(1), {"0", "1"})>>) EXCEPT !.dflt = [i \in {2} |-> "0"]]
x509_general_subtrees == List(SEQUENCE_TAG, "x509_general_subtree")
x509_name_constraints ==
    Sequence(<<NonEmpty(Explicit(0), "x509_general_subtrees"),
            NonEmpty(Explicit(1), "x509_general_subtrees")>>)

x509_policy_constraints ==
    [Sequence(<<Prim(Implicit(0), {"0", "1"}), Prim(Implicit(1), {"0", "1"})>>)
        EXCEPT !.refuse = {1, 2}, !.filled = TRUE]

x509_key_purpose == Leaf(OID_TAG, {"serverAuth", "clientAuth"})
x509_ext_key_usage == List(SEQUENCE_TAG, "x509_key_purpose")

(* x509_uri_as_...: of a list of names only the first URI is read, and of  *)
(* the other alternative nothing.                                          *)
x509_uri_as_distribution_point_name ==
    [Struct(Explicit(0), <<Field("first", Implicit(6), {"uri"}, "x509_general_name")>>)
        EXCEPT !.omit = {1}, !.unset = TRUE, !.skips = {Explicit(1)}]
x509_full_name == List(Explicit(0), "x509_general_name")

(* The print function expects the tags of RFC 5280 for reasons and         *)
(* cRLIssuer; the other two write and read universal tags.                 *)
x509_uri_as_distribution_point ==
    [Sequence(<<Req(Expl(0, "x509_uri_as_distribution_point_name")),
             Bits(BIT_STRING_TAG), Raw(SEQUENCE_TAG, "x509_general_names")>>)
        EXCEPT !.dec[1] = Expl(0, "x509_uri_as_distribution_point_name"),
               !.prt = <<Expl(0, "x509_full_name"), Bits(Implicit(1)),
                         NonEmpty(Explicit(2), "x509_general_names")>>]
(* One point is written; the first with a URI is read.                     *)
x509_uri_as_distribution_points ==
    [Sequence(<<Req(Typ("x509_uri_as_distribution_point"))>>)
        EXCEPT !.dec = <<Field("pick", SEQUENCE_TAG, {}, "x509_uri_as_distribution_point")>>,
               !.prt = <<Rest("x509_uri_as_distribution_point")>>]
x509_distribution_points == List(SEQUENCE_TAG, "x509_uri_as_distribution_point")

x509_access_description ==
    [Sequence(<<Req(Oid({"caIssuers", "ocsp"})), Req(Prim(Implicit(6), {"uri"}))>>)
        EXCEPT !.refuse = {2}]
(* One place for each method, filled in whatever order they come.          *)
x509_authority_info_access ==
    [Keyed("x509_access_description",
           [i \in 1 .. 2 |-> LET oid == <<Node(OID_TAG, <<"caIssuers", "ocsp">>[i], <<>>)>>
                             IN [key |-> oid, keys |-> {oid}, field |-> Prim(Implicit(6), {"uri"})]])
        EXCEPT !.refuse = {1, 2}]

-----------------------------------------------------------------------------
(* x509_cer.c *)

x509_version == Leaf(INTEGER_TAG, {"v1", "v2", "v3"})

(* X509_MAX_UTC_TIME parts the times in two: up to it a time is written as *)
(* UTCTime, beyond as GeneralizedTime; both are read.  Where an element of *)
(* another tag is in its place the caller's variable keeps what it held.   *)
Times == <<"1999", "2049", "2050">>
x509_time ==
    [k |-> "time", tag |-> UTC_TIME_TAG, of |-> "", unset |-> FALSE,
     enc |-> [t \in {"1999", "2049", "2050"} |->
                 IF t = "2050" THEN GENERALIZED_TIME_TAG ELSE UTC_TIME_TAG],
     dec |-> [t \in {UTC_TIME_TAG, GENERALIZED_TIME_TAG} |->
                 IF t = UTC_TIME_TAG THEN {"1999", "2049"} ELSE {"1999", "2049", "2050"}]]

x509_validity == Sequence(<<Req(Typ("x509_time")), Req(Typ("x509_time"))>>)
(* What x509_validity_from_der asks in addition.                           *)
x509_validity_in_order(v) ==
    \E i, j \in 1 .. Len(Times) :
        i < j /\ v.kids[1].prim = Times[i] /\ v.kids[2].prim = Times[j]

x509_directory_names == {TELETEX_TAG, PRINTABLE_TAG, UNIVERSAL_TAG, UTF8_TAG, BMP_TAG}
x509_directory_name ==
    Choice([t \in x509_directory_names |-> t], [t \in x509_directory_names |-> t],
           [t \in x509_directory_names |-> ""], 0)

x509_name_types == {"countryName", "commonName", "emailAddress"}
x509_attr_type_and_value ==
    [Sequence(<<Req(Oid(x509_name_types)), Req(Typ("x509_directory_name"))>>)
        EXCEPT !.prt[2] = Req(Field("open", 0, {}, "x509_attribute_values")), !.omit = {2}]
(* x509_name_types_info: the types with limits; no other is accepted.      *)
x509_attr_type_and_value_check(v) ==
    /\ v.kids[1].prim \in {"countryName", "commonName"}
    /\ v.kids[1].prim = "countryName" => v.kids[2].tag = PRINTABLE_TAG
(* Every element is one x509_attr_type_and_value_from_der takes, and not   *)
(* an empty one.                                                           *)
x509_rdn_check(elems) == \A k \in DOMAIN elems :
    LET e == elems[k]
    IN /\ e.tag = SEQUENCE_TAG /\ e.prim = "" /\ Len(e.kids) = 2
       /\ e.kids[1].tag = OID_TAG /\ e.kids[1].kids = <<>>
       /\ e.kids[2].tag \in x509_directory_names
       /\ e.kids[2].prim # "" \/ e.kids[2].kids # <<>>
       /\ x509_attr_type_and_value_check(e)
x509_attribute_values ==
    [countryName |-> "x509_directory_name", commonName |-> "x509_directory_name",
     emailAddress |-> "asn1_ia5_string"]

x509_rdn ==
    [Struct(SET_TAG, <<Typ("x509_attr_type_and_value"), CheckedRest("x509_attr_type_and_value")>>)
        EXCEPT !.dec[1] = Req(Typ("x509_attr_type_and_value")),
               !.prt[1] = Req(Typ("x509_attr_type_and_value")), !.omit = {1, 2}]
x509_name == List(SEQUENCE_TAG, "x509_rdn")

(* As if the reader took both unique identifiers for the first.            *)
BugUniqueIdTags ==
    [Sequence(<<Expl(0, "x509_version"), Req(BigInt), Req(Typ("x509_signature_algor")),
            Req(Raw(SEQUENCE_TAG, "x509_name")), Req(Typ("x509_validity")),
            Req(Raw(SEQUENCE_TAG, "x509_name")), Req(Typ("sm2_public_key_info")),
            BitOctets(Implicit(1)), BitOctets(Implicit(2)), Expl(3, "x509_extensions")>>)
        EXCEPT !.dec[9] = BitOctets(Implicit(1))]
x509_tbs_cert ==
    Sequence(<<Expl(0, "x509_version"), Req(BigInt), Req(Typ("x509_signature_algor")),
            Req(Raw(SEQUENCE_TAG, "x509_name")), Req(Typ("x509_validity")),
            Req(Raw(SEQUENCE_TAG, "x509_name")), Req(Typ("sm2_public_key_info")),
            BitOctets(Implicit(1)), BitOctets(Implicit(2)), Expl(3, "x509_extensions")>>)

(* x509_cert_sign_to_der writes, x509_cert_get_details reads.              *)
x509_certificate ==
    Sequence(<<Req(Typ("x509_tbs_cert")), Req(Typ("x509_signature_algor")),
            Req(BitOctets(BIT_STRING_TAG))>>)

-----------------------------------------------------------------------------
X509Types ==
    [x509_digest_algor |-> x509_digest_algor,
     x509_signature_algor |-> x509_signature_algor,
     x509_encryption_algor |-> x509_encryption_algor,
     x509_public_key_encryption_algor |-> x509_public_key_encryption_algor,
     ec_named_curve |-> ec_named_curve,
     x509_public_key_algor |-> x509_public_key_algor, x509_ext |-> x509_ext,
     x509_extensions |-> x509_extensions,
     asn1_octet_string |-> asn1_octet_string,
     asn1_ia5_string |-> asn1_ia5_string, asn1_sequence |-> asn1_sequence,
     x509_key_usage |-> x509_key_usage,
     x509_other_name |-> x509_other_name,
     x509_edi_party_name |-> x509_edi_party_name,
     x509_general_name |-> x509_general_name,
     x509_general_names |-> x509_general_names,
     x509_authority_key_identifier |-> x509_authority_key_identifier,
     x509_display_text |-> x509_display_text, asn1_int |-> asn1_int,
     asn1_sequence_of_int |-> asn1_sequence_of_int,
     x509_notice_reference |-> x509_notice_reference,
     x509_user_notice |-> x509_user_notice,
     x509_policy_qualifier_info |-> x509_policy_qualifier_info,
     x509_policy_qualifier_infos |-> x509_policy_qualifier_infos,
     x509_policy_information |-> x509_policy_information,
     x509_certificate_policies |-> x509_certificate_policies,
     x509_policy_mapping |-> x509_policy_mapping,
     x509_policy_mappings |-> x509_policy_mappings,
     x509_attribute |-> x509_attribute, x509_attributes |-> x509_attributes,
     x509_basic_constraints |-> x509_basic_constraints,
     x509_general_subtree |-> x509_general_subtree,
     x509_general_subtrees |-> x509_general_subtrees,
     x509_name_constraints |-> x509_name_constraints,
     x509_policy_constraints |-> x509_policy_constraints,
     x509_key_purpose |-> x509_key_purpose,
     x509_ext_key_usage |-> x509_ext_key_usage,
     x509_uri_as_distribution_point_name |-> x509_uri_as_distribution_point_name,
     x509_full_name |-> x509_full_name,
     x509_uri_as_distribution_point |-> x509_uri_as_distribution_point,
     x509_uri_as_distribution_points |-> x509_uri_as_distribution_points,
     x509_distribution_points |-> x509_distribution_points,
     x509_access_description |-> x509_access_description,
     x509_authority_info_access |-> x509_authority_info_access,
     x509_version |-> x509_version, x509_time |-> x509_time,
     x509_validity |-> x509_validity,
     x509_directory_name |-> x509_directory_name,
     x509_attr_type_and_value |-> x509_attr_type_and_value,
     x509_rdn |-> x509_rdn, x509_name |-> x509_name,
     x509_tbs_cert |-> x509_tbs_cert, x509_certificate |-> x509_certificate]
=============================================================================
