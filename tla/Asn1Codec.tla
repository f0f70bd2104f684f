------------------------------ MODULE Asn1Codec ------------------------------
(***************************************************************************)
(* What the DER functions of the library do with the types of the schema   *)
(* modules.  A value is chosen, x_to_der writes it, the bytes are taken    *)
(* over as they are or changed in one place on the way, x_from_der reads   *)
(* them and x_print walks over them.                                       *)
(*                                                                         *)
(* Every function returns 1, 0 for "not there", or -1.  x_to_der writes    *)
(* nothing unless it returns 1; x_from_der leaves the input where it was   *)
(* unless it returns 1.                                                    *)
(***************************************************************************)
EXTENDS X509Schema, CrlSchema, KeySchema, CmsSchema, SequencesExt

CONSTANTS
    Types,  \* the types of the schema modules, by name
    Opens,  \* where the type of a field depends on the identifier before it
    Left    \* what variables held that nobody has set: Absent (by chance, or
            \* the caller has set them to NULL or -1) or Garbage

Garbage == Node(-2, "", <<>>)

PEM_TAG == 1000

Yes(out) == [ret |-> 1, out |-> out]
None == [ret |-> 0, out |-> <<>>]
No == [ret |-> -1, out |-> <<>>]
Elem(tag, r) == IF r.ret = 1 THEN Yes(<<Node(tag, "", r.out)>>) ELSE r
Empty(v) == v.prim = "" /\ v.kids = <<>>
(* The results of calls as a tuple, which TLC works out once.              *)
Results(rs) == SubSeq(rs, 1, Len(rs))
(* A chain of calls, each "!= 1" or "< 0".                                 *)
Chain(fields, results) ==
    LET rs == Results(results)
    IN IF \E i \in DOMAIN rs : rs[i].ret < 0 \/ (fields[i].req /\ rs[i].ret # 1) THEN No
       ELSE Yes(FlattenSeq([i \in DOMAIN rs |-> rs[i].out]))

(* Conditions on several fields that x_to_der, or x_from_der, looks at.    *)
EncCheck(name, v) == name = "x509_attr_type_and_value" => x509_attr_type_and_value_check(v)
DecCheck(name, v) ==
    CASE name = "x509_attr_type_and_value" -> x509_attr_type_and_value_check(v)
      [] name = "x509_validity" -> x509_validity_in_order(v)
      [] name = "sm2_private_key" -> sm2_public_key_equ(v)
      [] name = "x509_tbs_crl" -> x509_tbs_crl_versions(v)
      [] name = "cms_recipient_info" -> cms_recipient_info_algor(v)
      [] OTHER -> TRUE

-----------------------------------------------------------------------------
(* x_to_der *)

(* The elements of CheckedRest, for the writer as for the reader.          *)
RestOK(f, elems) == "checked" \in f.ok => x509_rdn_check(elems)
RECURSIVE EncT(_, _)
EncF(f, v, oid) ==
    CASE f.op = "never" -> None
      [] f.op = "typ" -> EncT(f.sub, v)
      [] f.op = "expl" -> Elem(f.tag, EncT(f.sub, v))
      [] v = Absent -> None
      [] f.op \in {"prim", "first"} ->
             IF v.prim \in f.ok THEN Yes(<<Node(f.tag, v.prim, <<>>)>>) ELSE No
      [] f.op \in {"raw", "openoct"} -> Yes(<<Node(f.tag, v.prim, v.kids)>>)
      [] f.op = "nonempty" -> IF Empty(v) THEN No ELSE Yes(<<Node(f.tag, v.prim, v.kids)>>)
      [] f.op = "content" ->
             IF oid = "data" THEN Yes(<<Node(f.tag, "", <<Node(OCTET_STRING_TAG, v.prim, v.kids)>>)>>)
             ELSE IF Empty(v) THEN No ELSE Yes(<<Node(f.tag, v.prim, v.kids)>>)
      [] f.op \in {"inoct", "inoctend"} -> Elem(f.tag, EncT(f.sub, v))
      [] f.op = "sealed" ->
             LET r == EncT(f.sub, v)
             IN IF r.ret = 1 THEN Yes(<<Node(f.tag, "sealed", r.out)>>) ELSE No
      [] f.op = "any" -> Yes(v.kids)
      [] f.op = "rest" -> IF RestOK(f, v.kids) THEN Yes(v.kids) ELSE No

EncT(name, v) ==
    LET t == Types[name]
        u == IF v = Absent THEN [i \in DOMAIN t.enc |-> Absent] ELSE v.kids
        void(I) == I # {} /\ \A i \in I : u[i] = Absent \/ Empty(u[i])
    IN CASE t.k = "seq" ->
              IF void(t.omit) THEN None
              ELSE IF void(t.refuse) \/ ~EncCheck(name, Node(0, "", u)) THEN No
              ELSE Elem(t.tag, Chain(t.enc, [i \in DOMAIN t.enc |-> EncF(t.enc[i], u[i], u[1].prim)]))
         [] t.k = "keyed" ->
              IF void(t.omit) THEN None ELSE IF void(t.refuse) THEN No
              ELSE Elem(t.tag, Chain([i \in DOMAIN u |-> t.enc[i].field],
                      [i \in DOMAIN u |->
                          LET r == EncF(t.enc[i].field, u[i], "")
                          IN IF r.ret = 1 THEN Yes(<<Node(SEQUENCE_TAG, "", t.enc[i].key \o r.out)>>)
                             ELSE r]))
         [] t.k = "choice" ->
              IF v = Absent THEN [None EXCEPT !.ret = t.absent]
              ELSE IF v.tag \in DOMAIN t.enc THEN Yes(<<Node(t.enc[v.tag], v.prim, v.kids)>>) ELSE No
         [] v = Absent -> None
         [] t.k = "list" ->
              LET rs == Results([i \in DOMAIN v.kids |-> EncT(t.of, v.kids[i])])
              IN IF \E i \in DOMAIN rs : rs[i].ret # 1 THEN No
                 ELSE Yes(<<Node(t.tag, "", FlattenSeq([i \in DOMAIN rs |-> rs[i].out]))>>)
         [] t.k = "leaf" -> EncF(t.enc[1], v, "")
         [] t.k = "alg" ->
              IF v.prim \in DOMAIN t.enc THEN Yes(<<Node(t.tag, "", t.enc[v.prim])>>) ELSE No
         [] t.k = "time" ->
              IF v.prim \in DOMAIN t.enc THEN Yes(<<Node(t.enc[v.prim], v.prim, <<>>)>>) ELSE No
         [] t.k = "pem" ->
              LET r == EncT(t.of, v)
              IN IF r.ret = 1 THEN Yes(<<Node(PEM_TAG, t.enc, r.out)>>) ELSE No
ToDer(name, v) == EncT(name, v)

-----------------------------------------------------------------------------
(* x_from_der *)

Read(val, rest) == [ret |-> 1, val |-> val, rest |-> rest]
(* Not there: what the caller gets is set to NULL or -1, or left alone.    *)
Miss(in) == [ret |-> 0, val |-> Absent, rest |-> in]
Untouched(in) == [Miss(in) EXCEPT !.val = Left]
MissOf(name, in) == IF Types[name].unset THEN Untouched(in) ELSE Miss(in)
Bad(in) == [ret |-> -1, val |-> Absent, rest |-> in]
(* The type inside an element, which takes up all of it or not.            *)
Inside(r, in, all) ==
    IF r.ret = 1 /\ (all => r.rest = <<>>) THEN Read(r.val, Tail(in)) ELSE Bad(in)

RECURSIVE DecT(_, _), NextName(_, _), FirstPoint(_, _)
DecF(f, in) ==
    IF f.op = "typ" THEN DecT(f.sub, in)
    ELSE IF f.op = "rest" THEN
        IF ~RestOK(f, in) THEN Bad(in)
        ELSE Read(IF in = <<>> THEN Absent ELSE Node(0, "", in), <<>>)
    ELSE IF f.op = "first" THEN IF in = <<>> THEN Bad(in) ELSE NextName(f, in)
    ELSE IF f.op = "pick" THEN FirstPoint(in, Left)
    ELSE IF in = <<>> \/ (f.op # "any" /\ in[1].tag # f.tag) THEN
        IF f.op = "expl" THEN MissOf(f.sub, in) ELSE Miss(in)
    ELSE LET n == in[1]
         IN CASE f.op = "prim" ->
                    IF n.kids = <<>> /\ n.prim \in f.ok THEN Read(Node(0, n.prim, <<>>), Tail(in))
                    ELSE Bad(in)
              [] f.op \in {"raw", "openoct"} -> Read(Node(0, n.prim, n.kids), Tail(in))
              [] f.op \in {"nonempty", "content"} ->
                    IF Empty(n) THEN Bad(in) ELSE Read(Node(0, n.prim, n.kids), Tail(in))
              [] f.op \in {"expl", "inoctend"} -> Inside(DecT(f.sub, n.kids), in, TRUE)
              [] f.op = "inoct" -> Inside(DecT(f.sub, n.kids), in, FALSE)
              [] f.op = "sealed" ->
                    IF n.prim = "sealed" THEN Inside(DecT(f.sub, n.kids), in, TRUE) ELSE Bad(in)
              [] f.op = "any" -> Read(Node(0, "", <<n>>), Tail(in))

(* x509_general_names_get_next: what comes after is not looked at.         *)
NameOrNext(r, f, in) ==
    IF r.ret # 1 THEN Bad(in)
    ELSE IF in[1].tag = f.tag THEN Read(Node(0, r.val.prim, <<>>), <<>>)
    ELSE NextName(f, r.rest)
NextName(f, in) ==
    IF in = <<>> THEN Read(Absent, <<>>) ELSE NameOrNext(DecT(f.sub, in), f, in)
(* The loop of x509_uri_as_distribution_points_from_der, *uri being held   *)
(* before: a point without a name, or with one of the other alternative,   *)
(* leaves it, and it is asked for all the same.                            *)
UriAfter(names, held) ==
    IF Len(names) = 1 /\ names[1] # Garbage THEN names[1] ELSE held
PointOrNext(r, in, held) ==
    IF r.ret # 1 THEN Bad(in)
    ELSE IF UriAfter(r.val.kids[1].kids, held) # Absent THEN Read(r.val, <<>>)
    ELSE FirstPoint(r.rest, Absent)
FirstPoint(in, held) ==
    IF in = <<>> THEN Read(Absent, <<>>)
    ELSE PointOrNext(DecT("x509_uri_as_distribution_point", in), in, held)

(* The chain of calls: the values so far and what is left, or an error.    *)
RECURSIVE DecFs(_, _, _, _)
DecRest(r, fields, i, vals) ==
    IF r.ret < 0 \/ (fields[i].req /\ r.ret # 1) THEN [ret |-> -1, val |-> vals, rest |-> r.rest]
    ELSE DecFs(fields, i + 1, Append(vals, r.val), r.rest)
DecFs(fields, i, vals, in) ==
    IF i > Len(fields) THEN [ret |-> 1, val |-> vals, rest |-> in]
    ELSE DecRest(DecF(fields[i], in), fields, i, vals)

(* The place of a keyed element, and the values in their places.           *)
PlaceOf(t, n) == {i \in DOMAIN t.enc : \E k \in t.enc[i].keys :
                     IsPrefix(k, n.kids) /\ Len(n.kids) = Len(k) + 1}
RECURSIVE DecKeyed(_, _, _), DecList(_, _, _)
DecPlace(r, t, i, vals, in) ==
    IF vals[i] # Absent \/ r.ret # 1 THEN Bad(in)
    ELSE DecKeyed(t, [vals EXCEPT ![i] = r.val], Tail(in))
DecKeyed(t, vals, in) ==
    IF in = <<>> THEN Read(Node(0, "", vals), <<>>)
    ELSE LET P == PlaceOf(t, in[1])
             i == CHOOSE j \in P : TRUE
         IN IF in[1].tag # SEQUENCE_TAG \/ P = {} THEN Bad(in)
            ELSE DecPlace(DecF(t.enc[i].field, <<Last(in[1].kids)>>), t, i, vals, in)
DecMore(r, of, vals, in) ==
    IF r.ret # 1 THEN Bad(in) ELSE DecList(of, Append(vals, r.val), r.rest)
DecList(of, vals, in) ==
    IF in = <<>> THEN Read(Node(0, "", vals), <<>>) ELSE DecMore(DecT(of, in), of, vals, in)

(* What follows the chain: defaults, and the conditions on the whole.      *)
Defaults(t, vals) ==
    [i \in DOMAIN t.dec |->
        IF i \in DOMAIN t.dflt /\ vals[i] = Absent THEN Node(0, t.dflt[i], <<>>) ELSE vals[i]]
Checked(name, v, in) == IF DecCheck(name, v) THEN Read(v, Tail(in)) ELSE Bad(in)
Ended(r, name, t, in) ==
    IF r.ret # 1 \/ (t.end /\ r.rest # <<>>) THEN Bad(in)
    ELSE Checked(name, Node(0, "", Defaults(t, r.val)), in)

DecT(name, in) ==
    LET t == Types[name]
        n == in[1]
    IN CASE in = <<>> -> MissOf(name, in)
         [] t.k = "choice" ->
              IF n.tag \in DOMAIN t.dec THEN Read(Node(t.dec[n.tag], n.prim, n.kids), Tail(in))
              ELSE [Untouched(in) EXCEPT !.ret = t.other]
         [] t.k = "time" ->
              IF n.tag \notin DOMAIN t.dec THEN Untouched(in)
              ELSE IF n.kids = <<>> /\ n.prim \in t.dec[n.tag] THEN Read(Node(0, n.prim, <<>>), Tail(in))
              ELSE Bad(in)
         [] t.k = "pem" ->
              IF n.tag # PEM_TAG \/ n.prim # t.enc THEN Bad(in)
              ELSE Inside(DecT(t.of, n.kids), in, TRUE)
         [] t.k = "seq" /\ n.tag \in t.skips -> Read(Node(0, "", <<Left>>), Tail(in))
         [] n.tag # t.tag -> IF t.k = "seq" /\ t.skips # {} THEN Bad(in) ELSE MissOf(name, in)
         [] t.k = "leaf" -> DecF(t.dec[1], in)
         [] n.prim # "" \/ (t.k # "alg" /\ t.filled /\ n.kids = <<>>) -> Bad(in)
         [] t.k = "alg" ->
              IF n.kids \in DOMAIN t.dec THEN Read(Node(0, t.dec[n.kids], <<>>), Tail(in)) ELSE Bad(in)
         [] t.k = "keyed" -> Inside(DecKeyed(t, [i \in DOMAIN t.enc |-> Absent], n.kids), in, TRUE)
         [] t.k = "list" -> Inside(DecList(t.of, <<>>, n.kids), in, TRUE)
         [] t.k = "seq" -> Ended(DecFs(t.dec, 1, <<>>, n.kids), name, t, in)
FromDer(name, in) == DecT(name, in)

-----------------------------------------------------------------------------
(* x_print.  An error inside a field is printed and the function goes on,  *)
(* so the walk is without error when all of its parts are.                 *)

RECURSIVE Prt(_, _)
(* One element of type name.                                               *)
PrtElem(name, n) ==
    LET t == Types[name]
    IN CASE t.k = "choice" ->
              /\ n.tag \in DOMAIN t.dec /\ t.dec[n.tag] \in DOMAIN t.prt
              /\ LET sub == t.prt[t.dec[n.tag]]
                 IN CASE sub = "" -> TRUE
                      [] sub = "bytes" -> n.kids # <<>> /\ n.kids[1].tag = SEQUENCE_TAG
                      [] t.inner -> n.kids # <<>> /\ n.kids[1].tag = SEQUENCE_TAG /\ Prt(sub, n.kids[1])
                      [] OTHER -> Prt(sub, n)
         [] t.k \in {"leaf", "alg", "time"} -> DecT(name, <<n>>).ret = 1
         [] OTHER -> n.tag = t.tag /\ Prt(name, n)
PrtF(f, n, oid) ==
    LET open == Opens[f.sub][oid]
    IN CASE f.op = "prim" -> n.kids = <<>> /\ n.prim \in f.ok
         [] f.op \in {"raw", "nonempty"} ->
              (f.op = "nonempty" => ~Empty(n)) /\ (f.sub # "" => Prt(f.sub, n))
         [] f.op \in {"typ", "open"} -> PrtElem(IF f.op = "open" THEN open ELSE f.sub, n)
         [] f.op = "expl" -> Len(n.kids) = 1 /\ PrtElem(f.sub, n.kids[1])
         [] f.op = "inoctend" -> Len(n.kids) = 1 /\ PrtElem(f.sub, n.kids[1])
         [] f.op = "sealed" -> n.prim = "sealed"
         [] f.op = "content" -> Len(n.kids) = 1 /\ PrtElem(open, n.kids[1])
         [] f.op = "openoct" /\ oid \in DOMAIN Opens[f.sub] ->
              /\ n.kids # <<>> /\ PrtElem(open, n.kids[1])
              /\ "end" \in f.ok => Len(n.kids) = 1
              \* the case has no return: the next one prints p and len, unset
              /\ oid = "InhibitAnyPolicy" => Left = Absent
         [] f.op = "openoct" -> "one" \in f.ok => Len(n.kids) = 1
(* The elements a field is for: of its tag, or of those of its type.       *)
IsFor(f, n, oid) ==
    CASE f.op \in {"typ", "open"} ->
            LET t == Types[IF f.op = "open" THEN Opens[f.sub][oid] ELSE f.sub]
            IN IF t.k \in {"choice", "time"} THEN n.tag \in DOMAIN t.dec ELSE n.tag = t.tag
      [] OTHER -> n.tag = f.tag
RECURSIVE PrtFs(_, _, _, _)
PrtFs(t, i, in, oid) ==
    IF i > Len(t.prt) THEN t.pend => in = <<>>
    ELSE LET f == t.prt[i]
         IN IF f.op \in {"rest", "first"} THEN \A k \in DOMAIN in : PrtElem(f.sub, in[k])
            ELSE IF in # <<>> /\ IsFor(f, in[1], oid)
                 THEN PrtF(f, in[1], oid) /\ PrtFs(t, i + 1, Tail(in), oid)
                 ELSE ~f.req /\ PrtFs(t, i + 1, in, oid)
Prt(name, n) ==
    LET t == Types[name]
    IN CASE t.k = "seq" -> n.prim = "" /\ PrtFs(t, 1, n.kids, IF n.kids = <<>> THEN "" ELSE n.kids[1].prim)
         [] t.k \in {"list", "keyed"} -> n.prim = "" /\ \A k \in DOMAIN n.kids : PrtElem(t.of, n.kids[k])
         [] t.k = "pem" -> TRUE
         [] OTHER -> PrtElem(name, n)
Printed(name, der) == PrtElem(name, der[1])
=============================================================================
