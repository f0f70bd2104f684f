----------------------------- MODULE MCAsn1Codec -----------------------------
(***************************************************************************)
(* A value of a type is chosen and written, the bytes are taken over as    *)
(* they are or changed in one place, and they are read and printed.        *)
(***************************************************************************)
EXTENDS X509Schema, CrlSchema, KeySchema, CmsSchema, SequencesExt

AllTypes == X509Types @@ CrlTypes @@ KeyTypes @@ CmsTypes
AllOpens ==
    [x509_ext_values |-> x509_ext_values, x509_qualifiers |-> x509_qualifiers,
     x509_attribute_values |-> x509_attribute_values,
     x509_crl_entry_values |-> x509_crl_entry_values,
     x509_crl_ext_values |-> x509_crl_ext_values, cms_contents |-> cms_contents]

-----------------------------------------------------------------------------
(* The life of one encoding.                                               *)

VARIABLES ty, val,
    left,       \* what the caller's variables hold: NULL and -1, or anything else
    wrote,      \* what x_to_der returned and wrote
    der,        \* the input of the reader, which something else follows
    change,     \* the element that was changed on the way, before and after
    got, printed, phase
vars == <<ty, val, left, wrote, der, change, got, printed, phase>>

Codec == INSTANCE Asn1Samples WITH Types <- AllTypes, Opens <- AllOpens, Left <- left
Dirty == Codec!Garbage

Follower == Node(999, "next", <<>>)
(* What may be added: an unknown element, parameters, attributes.          *)
Foreign == {Node(998, "", <<>>), Null, Node(Explicit(0), "octets", <<>>)}
OtherTags(tag) ==
    CASE tag = UTC_TIME_TAG -> {998, GENERALIZED_TIME_TAG}
      [] tag = GENERALIZED_TIME_TAG -> {998, UTC_TIME_TAG}
      [] tag = Explicit(0) -> {998, Explicit(1)}
      [] OTHER -> {998}
Swapped(s, i) == [s EXCEPT ![i] = s[i + 1], ![i + 1] = s[i]]
Change(from, to) == [from |-> from, to |-> to, all |-> to]
(* A change inside n, and what n becomes by it.                            *)
RECURSIVE Changes(_)
Changes(n) ==
    LET I == DOMAIN n.kids
        kids == {RemoveAt(n.kids, i) : i \in I} \cup {InsertAt(n.kids, i, n.kids[i]) : i \in I}
                \cup {Swapped(n.kids, i) : i \in {i \in I : i + 1 \in I}}
                \cup IF I = {} THEN {} ELSE {Append(n.kids, f) : f \in Foreign} \cup {<<>>}
    IN {Change(n, [n EXCEPT !.tag = t]) : t \in OtherTags(n.tag)}
       \cup (IF I = {} THEN {Change(n, [n EXCEPT !.prim = "other"])} ELSE {})
       \cup {Change(n, [n EXCEPT !.kids = k]) : k \in kids \ {n.kids}}
       \cup UNION {{[c EXCEPT !.all = [n EXCEPT !.kids[i] = c.all]] : c \in Changes(n.kids[i])} : i \in I}

Unchanged == Change(Absent, Absent)
altered == change # Unchanged

Init ==
    /\ left \in {Absent, Dirty}
    /\ ty \in DOMAIN AllTypes /\ val \in Codec!Samples(ty)
    /\ wrote = Codec!None /\ der = <<>> /\ change = Unchanged
    /\ got = Codec!Miss(<<>>) /\ printed = FALSE /\ phase = "chosen"

WriteIt ==
    /\ phase = "chosen"
    /\ wrote' = Codec!ToDer(ty, val) /\ der' = wrote'.out \o <<Follower>>
    /\ phase' = "written"
    /\ UNCHANGED <<ty, val, left, change, got, printed>>

Alter ==
    /\ phase = "written" /\ ~altered /\ wrote.ret = 1
    /\ \E c \in Changes(der[1]) : change' = c /\ der' = <<c.all, Follower>>
    /\ UNCHANGED <<ty, val, left, wrote, got, printed, phase>>

ReadIt ==
    /\ phase = "written" /\ wrote.ret >= 0
    /\ got' = Codec!FromDer(ty, der)
    /\ phase' = "read"
    /\ UNCHANGED <<ty, val, left, wrote, der, change, printed>>

PrintIt ==
    /\ phase = "read" /\ got.ret = 1 /\ AllTypes[ty].k # "pem"
    /\ printed' = Codec!Printed(ty, der)
    /\ phase' = "printed"
    /\ UNCHANGED <<ty, val, left, wrote, der, change, got>>

Next == WriteIt \/ Alter \/ ReadIt \/ PrintIt
Spec == Init /\ [][Next]_vars

-----------------------------------------------------------------------------
(* What a writer writes and its reader does not take.                      *)
WrittenNotRead(name, v) ==
    CASE name = "x509_general_name" ->
            \* the writer has only tags of primitive contents, x509_ext.c:835
            v.tag \in {0, 3, 4, 5}
      [] name = "x509_validity" ->
            \* the order of the two is looked at only by the reader, x509_cer.c:177
            ~x509_validity_in_order(v)
      [] name = "x509_rdn" ->
            \* the rest without a first one is read with one of them as the first
            v.kids[1] = Absent
      [] name = "x509_tbs_crl" ->
            \* no writer looks at the version, x509_crl.c:1308
            ~x509_tbs_crl_versions(v)
      [] name = "x509_revoked_cert_ex" ->
            \* extensions are optional for the writer and not for the reader, x509_crl.c:603
            v.kids[3] = Absent
      [] name = "x509_issuing_distribution_point" ->
            \* and so is the name of the point, x509_crl.c:849
            v.kids[1] = Absent
      [] name = "sm2_private_key" ->
            \* the public key in the structure is not that of the private key
            ~sm2_public_key_equ(v)
      [] name \in {"sm9_sign_master_key", "sm9_enc_master_key"} ->
            \* an INTEGER has no leading zeros and the reader wants 32 bytes, sm9_key.c:90
            v.kids[1].prim = "short"
      [] name = "pbkdf2_params" -> v.kids[1].prim = "" \/ v.kids[2].prim = "0"
      [] name = "cms_signed_data" -> v.kids[1].prim # "1"
      [] name = "cms_digest_algors" -> v.kids = <<>>
      [] OTHER -> FALSE

(* A field that is not there and that the reader leaves unset, while it    *)
(* returns 1: x509_ext.c:805, x509_ext.c:1498, and x509_cer.c:129 where    *)
(* something follows an absent nextUpdate.                                 *)
LeftUnset(name, v) ==
    CASE name \in {"x509_edi_party_name", "x509_user_notice"} -> v.kids[1] = Absent
      [] name = "x509_tbs_crl" ->
            v.kids[5] = Absent /\ (v.kids[6] # Absent \/ v.kids[7] # Absent)
      [] OTHER -> FALSE

(* What x_to_der wrote, x_from_der reads: the same value, up to the end of *)
(* what was written and no further, whatever the caller's variables held   *)
(* before.  It fails for the values of WrittenNotRead and LeftUnset and    *)
(* for no others.  About every pair of _to_der and _from_der, whose chains *)
(* of calls are written twice by hand.                                     *)
RoundTrip ==
    phase = "read" /\ ~altered /\ wrote.ret = 1 =>
        (got = Codec!Read(Codec!AsRead(ty, val), <<Follower>>)
            <=> /\ ~WrittenNotRead(ty, val)
                /\ LeftUnset(ty, val) => left = Absent)

(* Where the library takes more than one encoding of a value, f having     *)
(* become g: NULL after an algorithm or not, x509_alg.c:412 and 649; two   *)
(* kinds of time, x509_cer.c:117 and x509_crl.c:578; the minimum of a      *)
(* subtree that is 0, x509_ext.c:2137; the order where each element says   *)
(* what it is, x509_crl.c:438 and x509_ext.c:3164; and something after     *)
(* what a reader was looking for: x509_crl.c:355, x509_ext.c:2615, 2778    *)
(* and cms.c:1255.                                                         *)
NullParameters(f, g) ==
    \E a \in x509_sign_algors \cup {"rsaEncryption"} :
        f.tag = g.tag /\ {f.kids, g.kids} = {Only(a), With(a, Null)}
SameTime(f, g) == {f.tag, g.tag} = {UTC_TIME_TAG, GENERALIZED_TIME_TAG} /\ f.prim = g.prim
MinimumOfZero(f, g) ==
    /\ Len(f.kids) > 1 /\ f.kids[2] = Node(Implicit(0), "0", <<>>)
    /\ g.kids = RemoveAt(f.kids, 2)
OtherOrder(f, g) ==
    /\ ty \in {"x509_authority_info_access", "x509_crl_entry_exts", "x509_revoked_cert_ex"}
    /\ \E i \in 1 .. Len(f.kids) - 1 : g.kids = Swapped(f.kids, i)
    /\ \A i \in DOMAIN f.kids : f.kids[i].tag = SEQUENCE_TAG
MoreAfter(f, g) ==
    /\ \E n \in Foreign \cup {Last(f.kids)} : g.kids = Append(f.kids, n)
    /\ \/ f.tag = OCTET_STRING_TAG /\ ty \in {"x509_crl_entry_exts", "x509_revoked_cert_ex"}
       \/ f.tag = Explicit(0) /\ f.kids[1].tag = Implicit(6)
       \/ f = wrote.out[1] /\ ty \in {"x509_uri_as_distribution_points", "cms_recipient_info"}
       \/ f = wrote.out[1].kids[1] /\ ty = "cms_recipient_infos"
Slack(f, g) ==
    \/ NullParameters(f, g) \/ SameTime(f, g) \/ MinimumOfZero(f, g)
    \/ f.kids # <<>> /\ (OtherOrder(f, g) \/ MoreAfter(f, g))

(* Encodings that differ are read as different values: nothing that was    *)
(* written is still read as the value that went in when one element of it, *)
(* at any depth, has another tag or other bytes, is missing, is there      *)
(* twice, in another place or with something after it, but for Slack.      *)
(* About the checks at the end of every _from_der that all was taken.      *)
Unambiguous ==
    phase = "read" /\ altered /\ got.ret = 1 /\ ~Slack(change.from, change.to) =>
        got.val # Codec!AsRead(ty, val)

(* What x_print reports as an error although it was written and read: it   *)
(* expects other tags for two fields of a distribution point than those    *)
(* that are written, x509_ext.c:2734, and a content, cms.c:225; and after  *)
(* InhibitAnyPolicy it goes on with pointers that nobody set, where it     *)
(* should return, x509_ext.c:282.                                          *)
PointRefused(p) == p.kids[2] # Absent \/ p.kids[3] # Absent
PrintRefuses(name, v) ==
    CASE name = "x509_uri_as_distribution_point" -> PointRefused(v)
      [] name \in {"x509_uri_as_distribution_points", "x509_distribution_points"} ->
            \E i \in DOMAIN v.kids : PointRefused(v.kids[i])
      [] name \in {"x509_ext", "x509_crl_ext"} ->
            \/ /\ v.kids[1].prim \in {"CRLDistributionPoints", "FreshestCRL"}
               /\ v.kids[3].kids = <<Codec!BaseDer("x509_uri_as_distribution_points")>>
            \/ v.kids[1].prim = "InhibitAnyPolicy" /\ left # Absent
      [] name = "x509_distribution_point_name" -> v.tag = Explicit(1)
      [] name = "cms_content_info" -> v.kids[2] = Absent
      [] OTHER -> FALSE

(* x_print, which walks over the bytes with calls of its own, finds no     *)
(* error in what was written and read, but for PrintRefuses.               *)
PrintAccepts == phase = "printed" /\ ~altered => (printed <=> ~PrintRefuses(ty, val))
=============================================================================
