--------------------------- MODULE X509ChainProofs ---------------------------
(***************************************************************************)
(* Whatever is presented, a chain that is accepted is a proper path to a   *)
(* trusted certificate, and one that is refused is not: X509Chain for any  *)
(* certificates, trusted lists, CRLs, depths and numbers of CAs.           *)
(***************************************************************************)
EXTENDS X509Chain, TLAPS

Certs == EntityCerts \cup CaCerts

\* What is checked once is still to be checked as long as no CA was read.
Pending(n) ==
    /\ double_certs <=> Paired /\ n <= 1
    /\ check_crl <=> verifier.check_crl /\ n <= 1

\* The certificates read make up a proper path to cert.
OnPath ==
    /\ path \in Seq(Certs) /\ Len(path) >= 1
    /\ cert = path[Len(path)]
    /\ path_len = Len(path) - 1
    /\ Proper(path)

\* The inductive invariant.
ChainInv ==
    /\ verifier \in Verifiers
    /\ phase \in {"entity", "kenc", "chain", "accepted", "refused"}
    /\ phase = "entity" => path_len = 0 /\ kenc = NoCert /\ Pending(0)
    /\ phase = "kenc" => OnPath /\ Len(path) = 1 /\ Pending(1)
    /\ phase = "chain" => /\ OnPath /\ Pending(Len(path))
                          /\ Paired => kenc # NoCert
    /\ AcceptsOnlyPaths

\* What is found out about the path when ca has verified its last certificate.
Vouches(ca) ==
    /\ Issued(ca, path[Len(path)])
    /\ ~Tool => /\ x509_cert_check(ca, "ca")
                /\ Constraint(ca) >= 0 => Len(path) - 1 <= Constraint(ca)
                /\ Len(path) - 1 <= verifier.depth
    /\ Len(path) = 1 =>
        /\ Paired => Issued(ca, kenc)
        /\ verifier.check_crl =>
            /\ NotRevoked(path[1], ca, crl'.entity)
            /\ Paired => NotRevoked(kenc, ca, crl'.kenc)
    /\ Len(path) >= 2 /\ verifier.check_crl => crl' = crl

\* An extension that HasPoint finds is there.
LEMMA PointIsThere ==
    ASSUME NEW c, HasPoint(c)
    PROVE  \E i \in DOMAIN c.exts :
            c.exts[i].oid = "crl_distribution_points" /\ c.exts[i].val = "uri"
BY DEF HasPoint

\* x509_cert_check_crl accepts only what an issuer has not revoked.
LEMMA CheckCrlSound ==
    ASSUME NEW c, NEW ca, NEW a, x509_cert_check_crl(c, ca, a)
    PROVE  NotRevoked(c, ca, a)
BY PointIsThere DEF x509_cert_check_crl, x509_crl_new_from_cert, x509_crl_check,
    x509_crl_verify_by_ca_cert, NotRevoked

\* The sequences used here: what Append leaves alone and what it adds.
LEMMA AppendFacts ==
    ASSUME NEW S, NEW p \in Seq(S), NEW e
    PROVE  /\ Append(p, e) \in Seq(S \cup {e})
           /\ Len(Append(p, e)) = Len(p) + 1
           /\ \A i \in 1 .. Len(p) : Append(p, e)[i] = p[i]
           /\ Append(p, e)[Len(p) + 1] = e
<1>1. p \in Seq(S \cup {e})
  OBVIOUS
<1> QED BY <1>1

\* A step of either verifier that goes on has verified all of Vouches.
LEMMA VerifyByVouches ==
    ASSUME NEW ca, NEW q, NEW next, next # "refused",
           VerifyBy(ca, q, next), phase' = next,
           verifier \in Verifiers, OnPath, Pending(Len(path))
    PROVE  Vouches(ca)
<1>1. Len(path) \in Nat /\ Len(path) >= 1 /\ cert = path[Len(path)]
  BY DEF OnPath
<1>2. CASE Tool
  <2>1. PICK a, b :
          /\ crl' = IF check_crl THEN [entity |-> a, kenc |-> b] ELSE crl
          /\ IssuesForTool(ca, a, b)
    BY <1>2 DEF VerifyBy
  <2>2. Issued(ca, path[Len(path)])
    BY <1>1, <2>1 DEF IssuesForTool, EntityHolds, EntityIssued,
       x509_cert_verify_by_ca_cert, Issued
  <2>3. Len(path) >= 2 /\ verifier.check_crl => crl' = crl
    BY <1>1, <2>1 DEF Pending
  <2>4. ASSUME Len(path) = 1
        PROVE  /\ Paired => Issued(ca, kenc)
               /\ verifier.check_crl =>
                    /\ NotRevoked(path[1], ca, crl'.entity)
                    /\ Paired => NotRevoked(kenc, ca, crl'.kenc)
    <3>1. (double_certs <=> Paired) /\ (check_crl <=> verifier.check_crl)
      BY <2>4 DEF Pending
    <3>2. Paired => Issued(ca, kenc)
      BY <2>1, <3>1 DEF IssuesForTool, KencIssued, x509_cert_verify_by_ca_cert, Issued
    <3>3. ASSUME verifier.check_crl
          PROVE  /\ NotRevoked(path[1], ca, crl'.entity)
                 /\ Paired => NotRevoked(kenc, ca, crl'.kenc)
      <4>1. crl'.entity = a /\ crl'.kenc = b
        BY <2>1, <3>1, <3>3
      <4>2. NotRevoked(path[1], ca, a)
        BY <1>1, <2>1, <2>4, <3>1, <3>3, CheckCrlSound DEF IssuesForTool, EntityHolds
      <4>3. Paired => NotRevoked(kenc, ca, b)
        BY <2>1, <3>1, <3>3, CheckCrlSound DEF IssuesForTool
      <4> QED BY <4>1, <4>2, <4>3
    <3> QED BY <3>2, <3>3
  <2> QED BY <1>2, <2>2, <2>3, <2>4 DEF Vouches
<1>3. CASE ~Tool
  <2>1. Issues(ca) /\ crl' = crl
    BY <1>3 DEF VerifyBy, IssuesInChain
  <2>2. path_len = Len(path) - 1
    BY DEF OnPath
  <2>3. ~verifier.double_certs /\ ~verifier.check_crl
    BY <1>3, VerifiersAssumption DEF Tool
  <2> QED BY <1>1, <1>3, <2>1, <2>2, <2>3 DEF Vouches, Issues, Issued,
            x509_cert_verify_by_ca_cert, Paired
<1> QED BY <1>2, <1>3

\* A proper path grows to a proper path.
LEMMA PathGrows ==
    ASSUME NEW ca, NEW p, p = Append(path, ca), OnPath, Vouches(ca),
           Paired => kenc # NoCert
    PROVE  Linked(p) /\ Allowed(p) /\ PairFits(p) /\ FirstVouches(p, crl')
<1> DEFINE n == Len(path)
<1>1. n \in Nat /\ n >= 1
  BY DEF OnPath
<1>2. /\ Len(p) = n + 1 /\ p[n + 1] = ca
      /\ \A i \in 1 .. n : p[i] = path[i]
  BY AppendFacts DEF OnPath
<1> HIDE DEF n
<1>3. Linked(path) /\ Allowed(path) /\ PairFits(path) /\ FirstVouches(path, crl)
  BY DEF OnPath, Proper
<1>4. Linked(p)
  <2> SUFFICES ASSUME NEW i \in 2 .. n + 1 PROVE Issued(p[i], p[i - 1])
    BY <1>2 DEF Linked
  <2>1. CASE i = n + 1
    BY <1>1, <1>2, <2>1 DEF Vouches, n
  <2>2. CASE i # n + 1
    <3>1. i \in 2 .. n /\ i \in 1 .. n /\ i - 1 \in 1 .. n
      BY <1>1, <2>2
    <3> QED BY <1>2, <1>3, <3>1 DEF Linked, n
  <2> QED BY <2>1, <2>2
<1>5. Allowed(p)
  <2> SUFFICES ASSUME ~Tool
               PROVE  /\ x509_cert_check(p[1], verifier.type)
                      /\ \A i \in 2 .. n + 1 :
                            /\ x509_cert_check(p[i], "ca")
                            /\ Constraint(p[i]) >= 0 => i - 2 <= Constraint(p[i])
                            /\ i - 2 <= verifier.depth
    BY <1>2 DEF Allowed
  <2>1. x509_cert_check(p[1], verifier.type)
    BY <1>1, <1>2, <1>3 DEF Allowed
  <2>2. ASSUME NEW i \in 2 .. n + 1
        PROVE  /\ x509_cert_check(p[i], "ca")
               /\ Constraint(p[i]) >= 0 => i - 2 <= Constraint(p[i])
               /\ i - 2 <= verifier.depth
    <3>1. CASE i = n + 1
      <4>1. i - 2 = n - 1 /\ p[i] = ca
        BY <1>1, <1>2, <3>1
      <4> QED BY <4>1 DEF Vouches, n
    <3>2. CASE i # n + 1
      <4>1. i \in 2 .. n /\ p[i] = path[i]
        BY <1>1, <1>2, <3>2
      <4> QED BY <1>3, <4>1 DEF Allowed, n
    <3> QED BY <3>1, <3>2
  <2> QED BY <2>1, <2>2
<1>6. PairFits(p)
  BY <1>1, <1>2, <1>3 DEF PairFits
<1>7. FirstVouches(p, crl')
  <2>1. CASE n = 1
    BY <1>1, <1>2, <2>1 DEF FirstVouches, Vouches, n
  <2>2. CASE n # 1
    <3>1. p[1] = path[1] /\ p[2] = path[2] /\ n >= 2
      BY <1>1, <1>2, <2>2
    <3> QED BY <1>3, <3>1 DEF FirstVouches, Vouches, n
  <2> QED BY <2>1, <2>2
<1> QED BY <1>4, <1>5, <1>6, <1>7

LEMMA ChainInit == Init => ChainInv
<1> SUFFICES ASSUME Init PROVE ChainInv
  OBVIOUS
<1>1. Pending(0)
  BY DEF Init, Pending
<1> QED BY <1>1 DEF Init, ChainInv, AcceptsOnlyPaths

LEMMA ChainStep == ChainInv /\ [Next]_vars => ChainInv'
<1> SUFFICES ASSUME ChainInv, [Next]_vars PROVE ChainInv'
  OBVIOUS
<1>1. CASE ReadEntity
  <2>1. PICK c \in EntityCerts :
          /\ path' = <<c>> /\ cert' = c
          /\ phase' = IF ~EntityFits(c) THEN "refused"
                      ELSE IF Paired THEN "kenc" ELSE "chain"
    BY <1>1 DEF ReadEntity
  <2>2. /\ phase = "entity" /\ path_len = 0 /\ kenc = NoCert /\ Pending(0)
        /\ UNCHANGED <<verifier, roots, rest, kenc, root, path_len, double_certs,
                       check_crl, crl>>
    BY <1>1 DEF ReadEntity, ChainInv
  <2>3. /\ path' \in Seq(Certs) /\ Len(path') = 1 /\ path'[1] = c
        /\ path_len' = Len(path') - 1
    BY <2>1, <2>2 DEF Certs
  <2>4. phase' # "refused" => Proper(path)'
    <3>1. Linked(path')
      BY <2>3 DEF Linked
    <3>2. phase' # "refused" => Allowed(path)'
      BY <2>1, <2>2, <2>3 DEF Allowed, EntityFits, Tool
    <3> QED BY <2>2, <2>3, <3>1, <3>2 DEF Proper, PairFits, FirstVouches, Paired, Tlcp,
              Tool, Linked
  <2>5. Pending(Len(path))' /\ Pending(1)'
    BY <2>2, <2>3 DEF Pending, Paired, Tlcp
  <2> QED BY <2>1, <2>2, <2>3, <2>4, <2>5 DEF ChainInv, OnPath, AcceptsOnlyPaths,
            Paired, Tlcp
<1>2. CASE ReadKenc
  <2>1. PICK c \in EntityCerts :
          /\ kenc' = c
          /\ phase' = IF KencFits(c) THEN "chain" ELSE "refused"
    BY <1>2 DEF ReadKenc
  <2>2. /\ phase = "kenc" /\ OnPath /\ Len(path) = 1 /\ Pending(1)
        /\ UNCHANGED <<verifier, roots, rest, path, root, cert, path_len,
                       double_certs, check_crl, crl>>
    BY <1>2 DEF ReadKenc, ChainInv
  <2>3. kenc' # NoCert
    BY <2>1, CertsAssumption
  <2>4. phase' # "refused" => Proper(path)'
    <3>1. Linked(path') /\ Allowed(path)'
      BY <2>2 DEF OnPath, Proper, Linked, Allowed, Tool
    <3>3. FirstVouches(path, crl)'
      <4>1. Len(path') = 1
        BY <2>2
      <4> QED BY <4>1 DEF FirstVouches
    <3>2. phase' # "refused" => PairFits(path)'
      BY <2>1, <2>2 DEF PairFits, KencFits, Tool, OnPath
    <3> QED BY <3>1, <3>2, <3>3 DEF Proper, Linked
  <2>5. Pending(Len(path))'
    BY <2>2 DEF Pending, Paired, Tlcp
  <2> QED BY <2>1, <2>2, <2>3, <2>4, <2>5 DEF ChainInv, OnPath, AcceptsOnlyPaths
<1>3. CASE ReadCa
  <2>1. PICK ca \in CaCerts :
          VerifyBy(ca, TRUE, "chain") /\ path' = Append(path, ca) /\ cert' = ca
    BY <1>3 DEF ReadCa
  <2>2. /\ phase = "chain" /\ OnPath /\ Pending(Len(path)) /\ (Paired => kenc # NoCert)
        /\ verifier \in Verifiers
        /\ path_len' = path_len + 1 /\ double_certs' = FALSE /\ check_crl' = FALSE
        /\ UNCHANGED <<verifier, roots, rest, kenc, root>>
    BY <1>3 DEF ReadCa, ChainInv
  <2>3. phase' \in {"chain", "refused"}
    BY <2>1 DEF VerifyBy
  <2>4. CASE phase' = "refused"
    BY <2>2, <2>4 DEF ChainInv, AcceptsOnlyPaths
  <2>5. CASE phase' = "chain"
    <3>1. Vouches(ca)
      BY <2>1, <2>2, <2>5, VerifyByVouches
    <3>2. PICK p : p = Append(path, ca)
      OBVIOUS
    <3>3. Linked(p) /\ Allowed(p) /\ PairFits(p) /\ FirstVouches(p, crl')
      BY <2>2, <3>1, <3>2, PathGrows
    <3>4. p = path'
      BY <2>1, <3>2
    <3>5. Proper(path)'
      BY <2>2, <3>3, <3>4 DEF Proper, Linked, Allowed, PairFits, FirstVouches, Tool,
         Paired, Tlcp
    <3>6. /\ path' \in Seq(Certs) /\ Len(path') = Len(path) + 1
          /\ cert' = path'[Len(path')]
      <4>1. path \in Seq(Certs) /\ ca \in Certs
        BY <2>2 DEF OnPath, Certs
      <4> QED BY <2>1, <4>1, AppendFacts
    <3>7. Len(path) \in Nat /\ Len(path) >= 1 /\ path_len = Len(path) - 1
      BY <2>2 DEF OnPath
    <3>8. Pending(Len(path))'
      BY <2>2, <3>6, <3>7 DEF Pending
    <3>9. OnPath'
      BY <2>2, <3>5, <3>6, <3>7 DEF OnPath
    <3> QED BY <2>2, <2>5, <3>8, <3>9 DEF ChainInv, AcceptsOnlyPaths, Paired, Tlcp
  <2> QED BY <2>3, <2>4, <2>5
<1>4. CASE FindRoot
  <2>1. /\ phase = "chain" /\ rest = "end" /\ OnPath /\ Pending(Len(path))
        /\ (Paired => kenc # NoCert) /\ verifier \in Verifiers
        /\ UNCHANGED <<verifier, roots, rest, path, kenc, cert, path_len,
                       double_certs, check_crl>>
    BY <1>4 DEF FindRoot, ChainInv
  <2>2. CASE phase' = "refused"
    BY <2>1, <2>2 DEF ChainInv, AcceptsOnlyPaths
  <2>3. CASE phase' # "refused"
    <3>1. PICK i \in x509_certs_get_cert_by_subject(roots, cert.issuer) :
            root' = roots[i] /\ VerifyBy(roots[i], FALSE, "accepted")
      BY <1>4, <2>3 DEF FindRoot
    <3>2. i \in DOMAIN roots
      BY <3>1 DEF x509_certs_get_cert_by_subject
    <3>3. PICK r : r = roots[i]
      OBVIOUS
    <3>4. phase' = "accepted" /\ VerifyBy(r, FALSE, "accepted")
      BY <2>3, <3>1, <3>3 DEF VerifyBy
    <3>5. Vouches(r)
      BY <2>1, <3>4, VerifyByVouches
    <3>6. PICK p : p = Append(path, r)
      OBVIOUS
    <3>7. Linked(p) /\ Allowed(p) /\ PairFits(p) /\ FirstVouches(p, crl')
      BY <2>1, <3>5, <3>6, PathGrows
    <3>8. p = Append(path, root)'
      BY <2>1, <3>1, <3>3, <3>6
    <3>9. Proper(Append(path, root))'
      BY <2>1, <3>7, <3>8 DEF Proper, Linked, Allowed, PairFits, FirstVouches, Tool,
         Paired, Tlcp
    <3> QED BY <2>1, <3>1, <3>2, <3>4, <3>9 DEF ChainInv, AcceptsOnlyPaths
  <2> QED BY <2>2, <2>3
<1>5. CASE Ends
  BY <1>5 DEF Ends, ChainInv, OnPath, Pending, AcceptsOnlyPaths, Proper, Linked,
     Allowed, PairFits, FirstVouches, Tool, Paired, Tlcp
<1>6. CASE Unreadable
  BY <1>6 DEF Unreadable, ChainInv, AcceptsOnlyPaths
<1>7. CASE UNCHANGED vars
  BY <1>7 DEF vars, ChainInv, OnPath, Pending, AcceptsOnlyPaths, Proper, Linked,
     Allowed, PairFits, FirstVouches, Tool, Paired, Tlcp
<1> QED BY <1>1, <1>2, <1>3, <1>4, <1>5, <1>6, <1>7 DEF Next

\* x509_certs_verify, x509_certs_verify_tlcp and certverify accept only proper
\* paths to a trusted certificate, of any length and for every set of
\* certificates, lists of trusted ones and CRLs.
THEOREM PathsCorrect == Spec => []AcceptsOnlyPaths
<1>1. ChainInv => AcceptsOnlyPaths
  BY DEF ChainInv
<1> QED BY <1>1, ChainInit, ChainStep, PTL DEF Spec

-----------------------------------------------------------------------------
(* What is refused is refused for a reason.                                *)

\* What ChainInv leaves out: how far reading has come, and that the trusted
\* certificates are a list.
RefuseInv ==
    /\ roots \in RootLists
    /\ phase = "entity" => path = <<>>
    /\ phase = "kenc" => Paired /\ kenc = NoCert
    /\ RefusesForAReason

\* x509_cert_check_crl accepts whatever the issuer has not revoked, by a CRL that
\* was really looked up.
LEMMA CheckCrlComplete ==
    ASSUME NEW c, NEW ca, NEW a, Issued(ca, c), NotRevoked(c, ca, a), HasPoint(c)
    PROVE  x509_cert_check_crl(c, ca, a)
<1>1. a.form # "unavailable"
  BY DEF NotRevoked
<1> QED BY <1>1 DEF x509_cert_check_crl, x509_crl_new_from_cert, x509_crl_check,
          x509_crl_verify_by_ca_cert, NotRevoked, Issued

\* Nothing was looked up unless there is a distribution point.
LEMMA NothingLookedUp ==
    ASSUME NEW c, NEW ca, NEW needed, NEW a \in Answers(needed, c),
           NotRevoked(c, ca, a)
    PROVE  HasPoint(c)
<1>1. NoCrl.form # "good"
  BY DEF NoCrl
<1> QED BY <1>1 DEF Answers, NotRevoked

\* If a verifier stops at ca, ca does not continue the path to a proper one, or
\* is a first intermediate CA that may have others below it.
LEMMA VerifyByRefuses ==
    ASSUME NEW ca, NEW q \in BOOLEAN, NEW next, next # "refused",
           VerifyBy(ca, q, next), phase' = "refused",
           OnPath, Pending(Len(path)), NEW p, p = Append(path, ca),
           Linked(p), Allowed(p), FirstVouches(p, crl'), q => FirstIsLast(p)
    PROVE  FALSE
<1> DEFINE n == Len(path)
<1>1. n \in Nat /\ n >= 1 /\ cert = path[n] /\ path_len = n - 1
  BY DEF OnPath
<1>2. /\ Len(p) = n + 1 /\ p[n + 1] = ca
      /\ \A i \in 1 .. n : p[i] = path[i]
  BY AppendFacts DEF OnPath
<1>p. Pending(n)
  OBVIOUS
<1> HIDE DEF n
<1>3. Issued(ca, cert)
  <2>1. n + 1 \in 2 .. Len(p) /\ (n + 1) - 1 = n /\ n \in 1 .. n
    BY <1>1, <1>2
  <2>2. Issued(p[n + 1], p[n])
    BY <2>1 DEF Linked
  <2> QED BY <1>1, <1>2, <2>1, <2>2
<1>4. n = 1 => /\ p[1] = cert /\ p[2] = ca
               /\ Paired => Issued(ca, kenc)
               /\ verifier.check_crl =>
                    /\ NotRevoked(cert, ca, crl'.entity)
                    /\ Paired => NotRevoked(kenc, ca, crl'.kenc)
  BY <1>1, <1>2 DEF FirstVouches
<1>5. CASE Tool
  <2>1. PICK a \in Answers(EntityIssued(ca), cert) :
        \E b \in Answers(double_certs /\ KencIssued(ca, a), kenc) :
          /\ crl' = IF check_crl THEN [entity |-> a, kenc |-> b] ELSE crl
          /\ ~IssuesForTool(ca, a, b)
    BY <1>5 DEF VerifyBy
  <2>2. PICK b \in Answers(double_certs /\ KencIssued(ca, a), kenc) :
          /\ crl' = IF check_crl THEN [entity |-> a, kenc |-> b] ELSE crl
          /\ ~IssuesForTool(ca, a, b)
    BY <2>1
  <2>3. EntityIssued(ca)
    BY <1>3 DEF EntityIssued, x509_cert_verify_by_ca_cert, Issued
  <2>4. check_crl => /\ n = 1 /\ verifier.check_crl
                     /\ crl'.entity = a /\ crl'.kenc = b
    BY <1>1, <1>p, <2>2 DEF Pending
  <2>5. check_crl => x509_cert_check_crl(cert, ca, a)
    BY <1>3, <1>4, <2>1, <2>4, NothingLookedUp, CheckCrlComplete
  <2>6. EntityHolds(ca, a)
    BY <2>3, <2>5 DEF EntityHolds
  <2>7. double_certs => n = 1 /\ Paired /\ Issued(ca, kenc)
    BY <1>1, <1>p, <1>4 DEF Pending
  <2>8. double_certs => KencIssued(ca, a)
    BY <2>6, <2>7 DEF KencIssued, x509_cert_verify_by_ca_cert, Issued
  <2>9. double_certs /\ check_crl => x509_cert_check_crl(kenc, ca, b)
    BY <1>4, <2>2, <2>4, <2>7, NothingLookedUp, CheckCrlComplete
  <2> QED BY <2>2, <2>6, <2>8, <2>9 DEF IssuesForTool
<1>6. CASE ~Tool
  <2>1. ~(IF q THEN IssuesInChain(ca) ELSE Issues(ca))
    BY <1>6 DEF VerifyBy
  <2>2. /\ x509_cert_check(ca, "ca")
        /\ Constraint(ca) >= 0 => path_len <= Constraint(ca)
        /\ path_len <= verifier.depth
    <3>1. n + 1 \in 2 .. Len(p) /\ (n + 1) - 2 = path_len
      BY <1>1, <1>2
    <3> QED BY <1>2, <1>6, <3>1 DEF Allowed
  <2>3. Tlcp /\ path_len = 0 => x509_cert_verify_by_ca_cert(kenc, ca)
    BY <1>1, <1>4 DEF Paired, x509_cert_verify_by_ca_cert, Issued
  <2>4. Issues(ca)
    BY <1>3, <2>2, <2>3 DEF Issues, x509_cert_verify_by_ca_cert, Issued
  <2>5. q /\ path_len = 0 => Constraint(ca) = 0
    BY <1>1, <1>2, <1>4, <1>6 DEF FirstIsLast
  <2> QED BY <2>1, <2>4, <2>5 DEF IssuesInChain
<1> QED BY <1>5, <1>6

LEMMA RefuseInit == Init => RefuseInv
BY DEF Init, RefuseInv, RefusesForAReason

LEMMA RefuseStep == ChainInv /\ RefuseInv /\ [Next]_vars => RefuseInv'
<1> SUFFICES ASSUME ChainInv, RefuseInv, [Next]_vars PROVE RefuseInv'
  OBVIOUS
<1>1. CASE ReadEntity
  <2>1. PICK c \in EntityCerts :
          /\ path' = <<c>> /\ cert' = c
          /\ phase' = IF ~EntityFits(c) THEN "refused"
                      ELSE IF Paired THEN "kenc" ELSE "chain"
    BY <1>1 DEF ReadEntity
  <2>2. /\ phase = "entity" /\ kenc = NoCert /\ rest = "more"
        /\ UNCHANGED <<verifier, roots, rest, kenc>>
    BY <1>1 DEF ReadEntity, ChainInv
  <2>3. phase' = "refused" => ~Allowed(path)'
    BY <2>1, <2>2 DEF Allowed, EntityFits, Tool
  <2> QED BY <2>1, <2>2, <2>3 DEF RefuseInv, RefusesForAReason, Proper, Paired, Tlcp
<1>2. CASE ReadKenc
  <2>1. PICK c \in EntityCerts :
          /\ kenc' = c
          /\ phase' = IF KencFits(c) THEN "chain" ELSE "refused"
    BY <1>2 DEF ReadKenc
  <2>2. /\ phase = "kenc" /\ OnPath /\ Len(path) = 1 /\ Paired /\ rest = "more"
        /\ UNCHANGED <<verifier, roots, rest, path, cert>>
    BY <1>2 DEF ReadKenc, ChainInv, RefuseInv
  <2>3. kenc' # NoCert /\ cert = path[1]
    BY <2>1, <2>2, CertsAssumption DEF OnPath
  <2>4. phase' = "refused" => ~PairFits(path)'
    BY <2>1, <2>2, <2>3 DEF PairFits, KencFits, Tool, Paired, Tlcp
  <2> QED BY <2>1, <2>2, <2>4 DEF RefuseInv, RefusesForAReason, Proper
<1>3. CASE ReadCa
  <2>1. PICK ca \in CaCerts : VerifyBy(ca, TRUE, "chain") /\ path' = Append(path, ca)
    BY <1>3 DEF ReadCa
  <2>2. /\ OnPath /\ Pending(Len(path)) /\ rest = "more"
        /\ UNCHANGED <<verifier, roots, rest, kenc>>
    BY <1>3 DEF ReadCa, ChainInv
  <2>3. phase' \in {"chain", "refused"}
    BY <2>1 DEF VerifyBy
  <2>4. ASSUME phase' = "refused", Proper(path)', FirstIsLast(path)'
        PROVE  FALSE
    <3>1. PICK p : p = Append(path, ca)
      OBVIOUS
    <3>2. p = path'
      BY <2>1, <3>1
    <3>3. Linked(p) /\ Allowed(p) /\ FirstVouches(p, crl') /\ FirstIsLast(p)
      BY <2>2, <2>4, <3>2 DEF Proper, Linked, Allowed, FirstVouches, FirstIsLast,
         Tool, Paired, Tlcp
    <3> QED BY <2>1, <2>2, <2>4, <3>1, <3>3, VerifyByRefuses
  <2> QED BY <2>2, <2>3, <2>4 DEF RefuseInv, RefusesForAReason
<1>4. CASE FindRoot
  <2>1. /\ OnPath /\ Pending(Len(path)) /\ rest = "end" /\ roots \in RootLists
        /\ UNCHANGED <<verifier, roots, rest, path, kenc, cert>>
    BY <1>4 DEF FindRoot, ChainInv, RefuseInv
  <2>2. Len(roots) \in Nat /\ DOMAIN roots = 1 .. Len(roots)
    BY <2>1, RootsAssumption
  <2>3. phase' \in {"accepted", "refused"}
    BY <1>4 DEF FindRoot, VerifyBy
  <2>4. ASSUME NEW k \in DOMAIN roots, roots[k].subject # cert.issuer
        PROVE  ~Proper(Append(path, roots[k]))'
    <3>1. PICK r : r = roots[k]
      OBVIOUS
    <3>2. PICK p : p = Append(path, r)
      OBVIOUS
    <3>3. Len(p) = Len(path) + 1 /\ p[Len(path) + 1] = r /\ p[Len(path)] = cert
      BY <2>1, <3>2, AppendFacts DEF OnPath
    <3>4. Linked(p) => Issued(r, cert)
      <4>1. Len(path) + 1 \in 2 .. Len(p) /\ (Len(path) + 1) - 1 = Len(path)
        BY <2>1, <3>3 DEF OnPath
      <4> QED BY <3>3, <4>1 DEF Linked
    <3>5. p = Append(path, roots[k])'
      BY <2>1, <3>1, <3>2
    <3> QED BY <2>4, <3>1, <3>4, <3>5 DEF Proper, Linked, Issued
  <2>5. ASSUME phase' = "refused", NEW k \in DOMAIN roots,
               roots[k].subject = cert.issuer, ~Shadowed(k)
        PROVE  ~Proper(Append(path, roots[k]))'
    <3>1. k \in x509_certs_get_cert_by_subject(roots, cert.issuer)
      BY <2>5 DEF x509_certs_get_cert_by_subject, Shadowed
    <3>2. PICK i \in x509_certs_get_cert_by_subject(roots, cert.issuer) :
            VerifyBy(roots[i], FALSE, "accepted")
      BY <1>4, <3>1 DEF FindRoot
    <3>3. i = k
      BY <2>2, <3>1, <3>2 DEF x509_certs_get_cert_by_subject
    <3>4. PICK r : r = roots[k]
      OBVIOUS
    <3>5. PICK p : p = Append(path, r)
      OBVIOUS
    <3>6. VerifyBy(r, FALSE, "accepted")
      BY <3>2, <3>3, <3>4
    <3>7. p = Append(path, roots[k])'
      BY <2>1, <3>4, <3>5
    <3>8. Proper(Append(path, roots[k]))' =>
            Linked(p) /\ Allowed(p) /\ FirstVouches(p, crl')
      BY <2>1, <3>7 DEF Proper, Linked, Allowed, FirstVouches, Tool, Paired, Tlcp
    <3> QED BY <2>1, <2>5, <3>5, <3>6, <3>8, VerifyByRefuses
  <2>6. ASSUME phase' = "refused", NEW k \in DOMAIN roots'
        PROVE  Shadowed(k)' \/ ~Proper(Append(path, roots[k]))'
    <3>1. Shadowed(k) => Shadowed(k)'
      BY <2>1 DEF Shadowed
    <3> QED BY <2>1, <2>4, <2>5, <2>6, <3>1
  <2> QED BY <2>1, <2>3, <2>6 DEF RefuseInv, RefusesForAReason
<1>5. CASE Ends
  BY <1>5 DEF Ends, RefuseInv, RefusesForAReason
<1>6. CASE Unreadable
  BY <1>6 DEF Unreadable, RefuseInv, RefusesForAReason, Paired, Tlcp
<1>7. CASE UNCHANGED vars
  BY <1>7 DEF vars, RefuseInv, RefusesForAReason, Proper, Linked, Allowed, PairFits,
     FirstVouches, FirstIsLast, Shadowed, Tool, Paired, Tlcp
<1> QED BY <1>1, <1>2, <1>3, <1>4, <1>5, <1>6, <1>7 DEF Next

\* The three verifiers refuse nothing but what is unreadable, too short or no part
\* of a proper path, and a chain that no trusted certificate completes that is
\* found by its name: the converse of PathsCorrect, for every length, set of
\* certificates, list of trusted ones and CRL.
THEOREM RefusalsCorrect == Spec => []RefusesForAReason
<1>1. RefuseInv => RefusesForAReason
  BY DEF RefuseInv
<1> QED BY <1>1, ChainInit, ChainStep, RefuseInit, RefuseStep, PTL DEF Spec
=============================================================================
