----------------------------- MODULE Asn1Samples -----------------------------
(***************************************************************************)
(* Values for the DER functions of Asn1Codec to write, and what a reader   *)
(* should make of them.                                                    *)
(***************************************************************************)
EXTENDS Asn1Codec

(* Values to write: of every type one in which all is there, those in      *)
(* which one or two fields are missing, or all, and those that differ in   *)
(* one field.                                                              *)

Some(S) == CHOOSE x \in S : TRUE
Prims(S) == {Node(0, p, <<>>) : p \in S}
Content(n) == Node(0, n.prim, n.kids)
(* The identifier that decides in such a value.                            *)
BaseOid(table) ==
    CASE table = "cms_contents" -> "data"
      [] table = "x509_attribute_values" -> "commonName"
      [] table = "x509_ext_values" -> "KeyUsage"
      [] table = "x509_crl_ext_values" -> "CRLNumber"
      [] table = "x509_crl_entry_values" -> "CRLReasons"
      [] table = "x509_qualifiers" -> "cps"
RECURSIVE Base(_)
BaseDer(name) == EncT(name, Base(name)).out[1]
FieldValues(f, oid) ==
    CASE f.op \in {"prim", "first"} -> Prims(f.ok)
      [] f.op \in {"raw", "nonempty"} ->
            IF f.sub = "" THEN {Node(0, "octets", <<>>), Node(0, "", <<>>)}
            ELSE {Content(BaseDer(f.sub)), Node(0, "", <<>>)}
      [] f.op \in {"typ", "expl", "inoct", "inoctend", "sealed"} -> {Base(f.sub)}
      [] f.op = "rest" -> {Node(0, "", <<BaseDer(f.sub)>>)}
      [] f.op = "any" -> {Node(0, "", <<BaseDer(x509_qualifiers[oid])>>)}
      [] f.op \in {"openoct", "content"} ->
            IF oid = "data" THEN {Node(0, "octets", <<>>)}
            ELSE {Node(0, "", <<BaseDer(Opens[f.sub][oid])>>)}
      [] f.op = "never" -> {Absent}
      [] OTHER -> {Absent}
(* The table that tells the type of the last field, if there is one.       *)
OpenOf(t) == IF Last(t.prt).op \in {"openoct", "content", "open"} THEN Last(t.prt).sub ELSE ""
IsOpen(t) == OpenOf(t) # ""
BaseField(f, g, oid) ==
    Some((IF f.op = "prim" /\ g.op = "prim" THEN Prims(f.ok \cap g.ok)
          ELSE FieldValues(f, oid)) \ {Node(0, "", <<>>)})
Filled(t, oid) ==
    Node(0, "", [i \in DOMAIN t.enc |->
        IF i = 1 /\ oid # "" THEN Node(0, oid, <<>>) ELSE BaseField(t.enc[i], t.dec[i], oid)])
Base(name) ==
    LET t == Types[name]
    IN CASE t.k = "seq" ->
              IF name = "x509_validity" THEN Node(0, "", <<Node(0, "1999", <<>>), Node(0, "2049", <<>>)>>)
              ELSE IF name = "sm2_private_key"
              THEN [Filled(t, "") EXCEPT !.kids[2].prim = "d1", !.kids[4].prim = "P1"]
              ELSE IF name = "x509_tbs_crl" THEN [Filled(t, "") EXCEPT !.kids[1].prim = "v2"]
              ELSE IF name = "x509_general_subtree"
              THEN [Filled(t, "") EXCEPT !.kids[1] = Node(2, "octets", <<>>)]
              ELSE Filled(t, IF IsOpen(t) THEN BaseOid(OpenOf(t)) ELSE "")
         [] t.k = "keyed" -> Node(0, "", [i \in DOMAIN t.enc |-> BaseField(t.enc[i].field, t.enc[i].field, "")])
         [] t.k = "list" -> Node(0, "", <<Base(t.of)>>)
         [] t.k = "choice" -> Node(IF name = "x509_general_name" THEN 6
                                   ELSE IF name = "x509_directory_name" THEN PRINTABLE_TAG
                                   ELSE Some(DOMAIN t.enc), "octets", <<>>)
         [] t.k = "leaf" -> BaseField(t.enc[1], t.dec[1], "")
         [] t.k \in {"alg", "time"} -> Node(0, Some(DOMAIN t.enc), <<>>)
         [] t.k = "pem" -> Base(t.of)

Without(v, I) == [v EXCEPT !.kids = [i \in DOMAIN v.kids |-> IF i \in I THEN Absent ELSE v.kids[i]]]
Samples(name) ==
    LET t == Types[name]
        b == Base(name)
        few == {I \in SUBSET DOMAIN t.enc : Cardinality(I) <= 2} \cup {DOMAIN t.enc}
    IN CASE t.k = "seq" ->
              {Without(b, I) : I \in few}
              \cup {[b EXCEPT !.kids[i] = w] : <<i, w>> \in
                       UNION {{<<i, w>> : w \in FieldValues(t.enc[i], b.kids[1].prim)}
                              : i \in DOMAIN t.enc \ {j \in {1} : IsOpen(t)}}}
              \cup IF IsOpen(t) THEN {Filled(t, o) : o \in DOMAIN Opens[OpenOf(t)]} ELSE {}
         [] t.k = "keyed" -> {Without(b, I) : I \in SUBSET DOMAIN t.enc}
         [] t.k = "list" -> {Absent, b, Node(0, "", <<>>), Node(0, "", b.kids \o b.kids)}
         [] name = "x509_distribution_point_name" ->
              {[BaseDer("x509_general_names") EXCEPT !.tag = c] : c \in DOMAIN t.enc}
         [] t.k = "choice" -> {Absent} \cup {Node(c, "octets", <<>>) : c \in DOMAIN t.enc}
         [] t.k = "leaf" -> {Absent} \cup FieldValues(t.enc[1], "")
         [] t.k \in {"alg", "time"} -> {Absent} \cup Prims(DOMAIN t.enc \cup {"unknown"})
         [] t.k = "pem" -> {b}

-----------------------------------------------------------------------------
(* The value the reader hands out for a value that was written.            *)
RECURSIVE AsRead(_, _)
AsReadF(f, g, v, oid) ==
    CASE f.op = "never" -> Absent
      [] g.op = "any" /\ f.op = "typ" -> Node(0, "", EncT(f.sub, v).out)
      [] v = Absent -> Absent
      [] f.op = "content" /\ oid = "data" ->
            Node(0, "", <<Node(OCTET_STRING_TAG, v.prim, v.kids)>>)
      [] f.op = "expl" /\ g.sub = "x509_distribution_point_name" ->
            EncT(f.sub, v).out[1]
      [] f.op \in {"typ", "expl", "inoct", "inoctend", "sealed"} ->
            IF EncT(f.sub, v).ret = 1 THEN AsRead(f.sub, v) ELSE Absent
      [] OTHER -> v
AsRead(name, v) ==
    LET t == Types[name]
    IN CASE t.k = "seq" ->
              Node(0, "", [i \in DOMAIN t.dec |->
                  IF i \in DOMAIN t.dflt /\ v.kids[i] = Absent THEN Node(0, t.dflt[i], <<>>)
                  ELSE AsReadF(t.enc[i], t.dec[i], v.kids[i], v.kids[1].prim)])
         [] t.k = "list" -> Node(0, "", [i \in DOMAIN v.kids |-> AsRead(t.of, v.kids[i])])
         [] t.k = "pem" -> AsRead(t.of, v)
         [] OTHER -> v
=============================================================================
