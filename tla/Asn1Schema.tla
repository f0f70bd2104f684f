----------------------------- MODULE Asn1Schema -----------------------------
(***************************************************************************)
(* The vocabulary in which the DER functions of the library are written    *)
(* down.  Every ASN.1 type of the C code has up to three functions:        *)
(* x_to_der, which writes the fields it is given, x_from_der, which reads  *)
(* them back, and x_print, which walks over the content once more.  Each   *)
(* is a chain of calls "asn1_a(...) != 1 || asn1_b(...) < 0 || ...", one   *)
(* call per field; "!= 1" makes the field required and "< 0" lets it be    *)
(* absent.  The three chains are written independently of each other, so a *)
(* type is described by three sequences of fields, one for each.           *)
(*                                                                         *)
(* A DER element is a node: its tag, and a content that is either          *)
(* primitive (a string that stands for the bytes) or a sequence of nodes.  *)
(* Tags are those of enum ASN1_TAG.  Lengths and the bytes of primitive    *)
(* contents are not modelled.                                              *)
(***************************************************************************)
EXTENDS Integers, Sequences, FiniteSets

Node(tag, prim, kids) == [tag |-> tag, prim |-> prim, kids |-> kids]
(* An argument that is NULL, -1 or of length 0, as x_to_der is given it    *)
(* and x_from_der leaves it for a field that is not there.                 *)
Absent == Node(-1, "", <<>>)

BOOLEAN_TAG == 1
INTEGER_TAG == 2
BIT_STRING_TAG == 3
OCTET_STRING_TAG == 4
NULL_TAG == 5
OID_TAG == 6
ENUMERATED_TAG == 10
UTF8_TAG == 12
PRINTABLE_TAG == 19
TELETEX_TAG == 20
IA5_TAG == 22
UTC_TIME_TAG == 23
GENERALIZED_TIME_TAG == 24
VISIBLE_TAG == 26
UNIVERSAL_TAG == 28
BMP_TAG == 30
SEQUENCE_TAG == 48
SET_TAG == 49

(* ASN1_TAG_IMPLICIT and ASN1_TAG_EXPLICIT: the second has the bit of a    *)
(* constructed content.                                                    *)
Implicit(i) == 128 + i
Explicit(i) == 160 + i

-----------------------------------------------------------------------------
(* Fields.  op says which family of asn1_ functions reads and writes it.   *)

Field(op, tag, ok, sub) ==
    [op |-> op, tag |-> tag, ok |-> ok, sub |-> sub, req |-> FALSE]

(* A field whose result is compared with "!= 1".                           *)
Req(f) == [f EXCEPT !.req = TRUE]

(* asn1_int, asn1_boolean, asn1_bits, asn1_object_identifier and the like: *)
(* the content is decoded, ok holds the contents that are in order.        *)
Prim(tag, ok) == Field("prim", tag, ok, "")
Num == Prim(INTEGER_TAG, {"0", "1"})
Version(ok) == Prim(INTEGER_TAG, ok)
BigInt == Prim(INTEGER_TAG, {"serial"})
Bool == Prim(BOOLEAN_TAG, {"true", "false"})
Bits(tag) == Prim(tag, {"bits"})
BitOctets(tag) == Prim(tag, {"octets"})
Oid(ok) == Prim(OID_TAG, ok)
Time(tag) == Prim(tag, {"time"})

(* asn1_type and what is a macro of it (asn1_octet_string, asn1_sequence,  *)
(* asn1_implicit): the content is handed on as it is.  sub is the type the *)
(* content has for those who made it and for the print function.           *)
Raw(tag, sub) == Field("raw", tag, {}, sub)
(* asn1_nonempty_type (asn1_set, asn1_explicit, asn1_implicit_sequence,    *)
(* asn1_sequence_of): the same, but an empty content is an error.          *)
NonEmpty(tag, sub) == Field("nonempty", tag, {}, sub)
Octets(tag) == Raw(tag, "")

(* A field that is read and that nobody writes.                            *)
Never == Field("never", 0, {}, "")

(* A field with x_to_der and x_from_der of its own, and one that is such a *)
(* field inside an explicit tag of which nothing may be left over.         *)
Typ(sub) == Field("typ", 0, {}, sub)
Expl(i, sub) == Field("expl", Explicit(i), {}, sub)

(* An octet string that holds one element of type sub, and nothing after   *)
(* it where that is looked at (inoctend).                                  *)
InOctets(sub) == Field("inoct", OCTET_STRING_TAG, {}, sub)
InOctetsEnd(sub) == Field("inoctend", OCTET_STRING_TAG, {}, sub)

(* asn1_any, an element of any tag; and asn1_data, all elements that are   *)
(* left, each of type sub.                                                 *)
AnyElem(sub) == Field("any", 0, {}, sub)
Rest(sub) == Field("rest", 0, {}, sub)
(* The same where each of them is looked at (x509_rdn_check).              *)
CheckedRest(sub) == Field("rest", 0, {"checked"}, sub)

(* An octet string whose content has a type that the identifier before it  *)
(* tells x_print; ok says what x_print asks of it: that nothing follows    *)
(* the value ("end"), or that an unknown value is one element ("one").     *)
OpenOctets(ok, table) == Field("openoct", OCTET_STRING_TAG, ok, table)

-----------------------------------------------------------------------------
(* Types.  omit: if all of these fields are void, x_to_der returns 0 and   *)
(* writes nothing; refuse: if all of them are void it returns -1.  filled: *)
(* x_from_der refuses an empty content.  end, pend: x_from_der and x_print *)
(* require that nothing is left over (asn1_length_is_zero).  dflt: what    *)
(* x_from_der puts in the place of an absent field, by field number.       *)
(* unset: if it is not there, x_from_der returns 0 and does not touch the  *)
(* variables of its caller, which others set to NULL or -1.  skips: tags   *)
(* it takes as well, again without touching them.                          *)

Struct(tag, fields) ==
    [k |-> "seq", tag |-> tag, enc |-> fields, dec |-> fields, prt |-> fields,
     omit |-> {}, refuse |-> {}, filled |-> FALSE, end |-> TRUE, pend |-> TRUE,
     dflt |-> [i \in {} |-> ""], unset |-> FALSE, skips |-> {}, of |-> ""]
Sequence(fields) == Struct(SEQUENCE_TAG, fields)

(* The content is any number of elements of one type.                      *)
List(tag, of) == [Struct(tag, <<>>) EXCEPT !.k = "list", !.of = of]

(* Elements of one type, each with a place of its own that the fields      *)
(* before the last one tell: the ones written (key), the ones read (keys). *)
Keyed(of, places) ==
    [Struct(SEQUENCE_TAG, places) EXCEPT !.k = "keyed", !.of = of]

(* One element by itself.                                                  *)
Leaf(tag, ok) == [Struct(tag, <<Prim(tag, ok)>>) EXCEPT !.k = "leaf"]

(* One element whose tag tells which alternative it is: enc from the       *)
(* alternative to the tag written, dec from the tag read to the            *)
(* alternative, prt from the alternative to the type of its content, which *)
(* x_print expects inside one more SEQUENCE where inner says so.           *)
(* other: what x_from_der returns for another tag; absent: what x_to_der   *)
(* returns when there is nothing to write.  No reader of this kind touches *)
(* the variables of its caller when the element is not there.              *)
Choice(enc, dec, prt, other) ==
    [k |-> "choice", tag |-> 0, enc |-> enc, dec |-> dec, prt |-> prt,
     other |-> other, absent |-> 0, inner |-> FALSE, unset |-> TRUE, of |-> ""]

(* An AlgorithmIdentifier: from the identifier to the parameters written,  *)
(* and to the parameters read without complaint.                           *)
Alg(enc, dec) ==
    [k |-> "alg", tag |-> SEQUENCE_TAG, enc |-> enc, dec |-> dec, prt |-> dec,
     unset |-> FALSE, of |-> ""]

Null == Node(NULL_TAG, "", <<>>)
=============================================================================
