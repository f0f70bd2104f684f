------------------------------ MODULE CmsSchema ------------------------------
(***************************************************************************)
(* The ASN.1 types of cms.c, in the vocabulary of module Asn1Schema.       *)
(***************************************************************************)
EXTENDS Asn1Schema

cms_content_types == {"data", "signedData", "envelopedData", "signedAndEnvelopedData",
                      "encryptedData", "keyAgreementInfo"}
cms_contents ==
    [data |-> "asn1_octet_string", signedData |-> "cms_signed_data",
     envelopedData |-> "cms_enveloped_data",
     signedAndEnvelopedData |-> "cms_signed_and_enveloped_data",
     encryptedData |-> "cms_encrypted_data", keyAgreementInfo |-> "cms_key_agreement_info"]
(* Content of type data is given as bytes, put into an OCTET STRING by the *)
(* writer, and given back with that wrapping; other content is DER.        *)
cms_content_info ==
    [Sequence(<<Req(Oid(cms_content_types)), Field("content", Explicit(0), {}, "cms_contents")>>)
        EXCEPT !.prt[2] = Req(Field("content", Explicit(0), {}, "cms_contents"))]

cms_enced_content_info ==
    Sequence(<<Req(Oid(cms_content_types)), Req(Typ("x509_encryption_algor")),
            Octets(Implicit(0)), Octets(Implicit(1)), Octets(Implicit(2))>>)
(* As cms_encrypted_data_encrypt_to_der writes it.                         *)
cms_encrypted_data ==
    [Sequence(<<Req(Version({"1"})), Req(Typ("cms_enced_content_info"))>>) EXCEPT !.prt[1] = Req(Num)]

cms_issuer_and_serial_number == Sequence(<<Req(Raw(SEQUENCE_TAG, "x509_name")), Req(BigInt)>>)
cms_signer_info ==
    [Sequence(<<Req(Version({"1"})), Req(Typ("cms_issuer_and_serial_number")),
             Req(Typ("x509_digest_algor")), Raw(Explicit(0), "x509_attributes"),
             Req(Typ("x509_signature_algor")), Req(Octets(OCTET_STRING_TAG)),
             Raw(Explicit(1), "x509_attributes")>>)
        EXCEPT !.dec[1] = Req(Num), !.prt[1] = Req(Num)]
cms_signer_infos == List(SET_TAG, "cms_signer_info")
cms_digest_algors == [List(SET_TAG, "x509_digest_algor") EXCEPT !.filled = TRUE]
x509_certs == List(Explicit(0), "x509_certificate")
x509_crls == List(Explicit(1), "x509_crl")

(* The version is looked at when read; the lists of revoked certificates   *)
(* are not printed.                                                        *)
cms_signed_data ==
    [Sequence(<<Req(Num), Req(Typ("cms_digest_algors")), Req(Typ("cms_content_info")),
             Raw(Explicit(0), "x509_certs"), Raw(Explicit(1), ""),
             Req(NonEmpty(SET_TAG, "cms_signer_infos"))>>)
        EXCEPT !.dec[1] = Req(Version({"1"}))]

(* What follows the four fields is not looked at.                          *)
cms_recipient_info ==
    [Sequence(<<Req(Version({"1"})), Req(Typ("cms_issuer_and_serial_number")),
             Req(Typ("x509_public_key_encryption_algor")), Req(Octets(OCTET_STRING_TAG))>>)
        EXCEPT !.prt[1] = Req(Num), !.end = FALSE]
cms_recipient_info_algor(v) == v.kids[3].prim = "sm2encrypt"
cms_recipient_infos == List(SET_TAG, "cms_recipient_info")

(* The encrypted content is taken over as an element of any type.          *)
cms_enveloped_data ==
    [Sequence(<<Req(Num), Req(NonEmpty(SET_TAG, "cms_recipient_infos")),
             Req(Typ("cms_enced_content_info"))>>)
        EXCEPT !.dec[3] = Req(AnyElem("cms_enced_content_info"))]
cms_signed_and_enveloped_data ==
    [Sequence(<<Req(Num), Req(NonEmpty(SET_TAG, "cms_recipient_infos")),
             Req(Typ("cms_digest_algors")), Req(Typ("cms_enced_content_info")),
             Raw(Explicit(0), "x509_certs"), Raw(Explicit(1), "x509_crls"),
             Req(NonEmpty(SET_TAG, "cms_signer_infos"))>>)
        EXCEPT !.dec[4] = Req(AnyElem("cms_enced_content_info"))]

cms_key_agreement_info ==
    Sequence(<<Req(Num), Req(Typ("sm2_public_key_info")), Req(Typ("x509_certificate")),
            Req(Octets(OCTET_STRING_TAG))>>)
cms_pem == [Struct(0, <<>>) EXCEPT !.k = "pem", !.enc = "CMS", !.of = "cms_content_info"]

-----------------------------------------------------------------------------
CmsTypes ==
    [cms_content_info |-> cms_content_info,
     cms_enced_content_info |-> cms_enced_content_info,
     cms_encrypted_data |-> cms_encrypted_data,
     cms_issuer_and_serial_number |-> cms_issuer_and_serial_number,
     cms_signer_info |-> cms_signer_info,
     cms_signer_infos |-> cms_signer_infos,
     cms_digest_algors |-> cms_digest_algors, x509_certs |-> x509_certs,
     x509_crls |-> x509_crls, cms_signed_data |-> cms_signed_data,
     cms_recipient_info |-> cms_recipient_info,
     cms_recipient_infos |-> cms_recipient_infos,
     cms_enveloped_data |-> cms_enveloped_data,
     cms_signed_and_enveloped_data |-> cms_signed_and_enveloped_data,
     cms_key_agreement_info |-> cms_key_agreement_info, cms_pem |-> cms_pem]
=============================================================================
