-------------------------- MODULE HttpsSetupProofs --------------------------
(***************************************************************************)
(* The Setup HTTPS command, for any number of instances of Visual Studio   *)
(* and any lifetimes of the certificates: its type, SignedByTrustedRoot,   *)
(* RootsAreFew, CompletedMeansInstalled and InstalledEndsWithItsRoot.      *)
(***************************************************************************)
EXTENDS HttpsSetup, FiniteSetTheorems, TLAPS

(***************************************************************************)
(* An instance that signs has a trusted root, and so has what it signed,   *)
(* which it has from then on.                                              *)
(***************************************************************************)
SignsWithTrusted ==
  \A s \in Session :
    /\ At(s, "trust") => root[s] \in Root
    /\ At(s, "sign") => root[s] \in trusted
    /\ certificate[s] # NoCertificate => certificate[s].root \in trusted

HasSigned ==
  \A s \in Session :
    pc[s] \in {"check", "upload", "import"} => certificate[s] # NoCertificate

(***************************************************************************)
(* An instance that is about to create a root counts as if it had.         *)
(***************************************************************************)
Creating == {s \in Session : At(s, "create")}

RootsToBe ==
  Cardinality(ValidRoots) + Cardinality(Creating) <= Cardinality(Session) + unopened

(***************************************************************************)
(* What the device shows was signed by a trusted root or is its own.       *)
(***************************************************************************)
SignedOrOwn == installed # NoCertificate => installed.root \in trusted \cup {SelfSigned}

HttpsInv ==
  /\ TypeOK
  /\ SignsWithTrusted
  /\ HasSigned
  /\ SignedOrOwn
  /\ CompletedMeansInstalled
  /\ RootsToBe

LEMMA SessionIsFinite ==
  IsFiniteSet(Session) /\ Cardinality(Session) \in Nat
BY HttpsAssumption, FS_CardinalityType

LEMMA CountsAreNumbers ==
  ASSUME TypeOK
  PROVE  /\ IsFiniteSet(ValidRoots) /\ Cardinality(ValidRoots) \in Nat
         /\ IsFiniteSet(Creating) /\ Cardinality(Creating) \in Nat
<1>1. IsFiniteSet(Root)
  <2>1. Len(notAfter) \in Nat
    BY DEF TypeOK
  <2>2. QED
    BY <2>1, FS_Interval DEF Root
<1>2. ValidRoots \in SUBSET Root /\ Creating \in SUBSET Session
  BY DEF ValidRoots, Creating, TypeOK
<1>3. QED
  BY <1>1, <1>2, SessionIsFinite, FS_Subset, FS_CardinalityType

LEMMA HttpsInvInit == Init => HttpsInv
<1> SUFFICES ASSUME Init
             PROVE  HttpsInv
  OBVIOUS
<1>1. TypeOK
  <2>1. notAfter \in Seq(Nat) /\ projects \in [Session -> 0..MaxProjects]
    BY HttpsAssumption DEF Init
  <2>2. disturbed \in [Session -> BOOLEAN]
    BY Zenon DEF Init
  <2>3. installed \in Leaf \cup {NoCertificate}
    BY HttpsAssumption DEF Init, OwnCertificate, Leaf, SelfSigned
  <2>4. QED
    BY <2>1, <2>2, <2>3 DEF Init, TypeOK, Mode
<1>2. SignsWithTrusted /\ HasSigned /\ SignedOrOwn /\ CompletedMeansInstalled
  BY DEF Init, SignsWithTrusted, HasSigned, SignedOrOwn, OwnCertificate,
    CompletedMeansInstalled, At
<1>3. RootsToBe
  <2>1. ValidRoots = {} /\ Creating = {}
    BY DEF Init, ValidRoots, Creating, At
  <2>2. QED
    BY <2>1, FS_EmptySet, SessionIsFinite DEF Init, RootsToBe
<1>4. QED
  BY <1>1, <1>2, <1>3 DEF HttpsInv

LEMMA StepKeepsType == HttpsInv /\ [Next]_vars => TypeOK'
<1> SUFFICES ASSUME HttpsInv, [Next]_vars
             PROVE  TypeOK'
  OBVIOUS
<1> USE DEF HttpsInv, TypeOK, stores, device, request, Goto, At, Mode
<1>1. ASSUME NEW s \in Session, NEW m \in Mode, NEW n \in 1..MaxProjects, Execute(s, m, n)
      PROVE  TypeOK'
  BY <1>1, HttpsAssumption DEF Execute, Root
<1>2. ASSUME NEW s \in Session, Step(s) \/ Throw(s)
      PROVE  TypeOK'
  <2>1. ASSUME NEW leaf \in Leaf \cup {NoCertificate}, NEW file \in Session \cup {Nobody},
               End(s), UNCHANGED <<now, stores>>, installed' = leaf, pfx' = file,
               disturbed' \in [Session -> BOOLEAN]
        PROVE  TypeOK'
    BY <2>1, HttpsAssumption DEF End, Root
  <2>2. ASSUME EndQuietly(s)
        PROVE  End(s) /\ disturbed' \in [Session -> BOOLEAN]
    BY <2>2 DEF EndQuietly
  <2>3. ASSUME NEW own \in BOOLEAN, DisturbOthers(s, own)
        PROVE  disturbed' \in [Session -> BOOLEAN]
    BY <2>3, Zenon DEF DisturbOthers
  <2>4. ForgetUpload(s) => pfx' \in Session \cup {Nobody}
    BY DEF ForgetUpload
  <2>5. Imported(s) \subseteq Leaf \cup {NoCertificate}
    BY DEF Imported
  <2>6. disturbed[s] \in BOOLEAN
    BY DEF TypeOK
  <2>7. CASE LoadRoot(s)
    <3>1. ASSUME NEW r \in ValidRoots
          PROVE  r \in Root /\ r \in Nat
      BY DEF ValidRoots, Root
    <3>2. root' \in [Session -> Nat]
      BY <2>7, <3>1 DEF LoadRoot
    <3>3. pc' = [pc EXCEPT ![s] = "create"] \/ pc' = [pc EXCEPT ![s] = "sign"]
            \/ pc' = [pc EXCEPT ![s] = "trust"]
      BY <2>7, Zenon DEF LoadRoot
    <3>4. QED
      BY <2>7, <3>2, <3>3 DEF LoadRoot, Root
  <2>18. CASE StoreFails(s)
    BY <2>18 DEF StoreFails, Root
  <2>8. CASE CreateRoot(s)
    <3>1. now + RootLife \in Nat
      BY HttpsAssumption
    <3>2. /\ notAfter' \in Seq(Nat)
          /\ Len(notAfter') = Len(notAfter) + 1
          /\ Len(notAfter) \in Nat
      BY <2>8, <3>1 DEF CreateRoot
    <3>3. Root \subseteq Root' /\ Len(notAfter') \in Root'
      BY <3>2 DEF Root
    <3>4. QED
      BY <2>8, <3>2, <3>3 DEF CreateRoot
  <2>9. CASE TrustRoot(s)
    BY <2>9 DEF TrustRoot, SignsWithTrusted, Root
  <2>10. CASE TrustIsRefused(s)
    BY <2>10, <2>1, <2>2 DEF TrustIsRefused
  <2>11. CASE CreateCertificate(s)
    <3>1. CASE now + LeafLife <= notAfter[root[s]]
      <4>1. now + LeafLife \in Nat /\ root[s] \in Nat
        BY HttpsAssumption
      <4>2. [root |-> root[s], until |-> now + LeafLife] \in Leaf
        BY <4>1 DEF Leaf
      <4>3. /\ certificate' = [certificate EXCEPT
                   ![s] = [root |-> root[s], until |-> now + LeafLife]]
            /\ root' = [root EXCEPT ![s] = 0]
            /\ Goto(s, "check")
            /\ UNCHANGED <<now, stores, device, request, disturbed>>
        BY <2>11, <3>1 DEF CreateCertificate
      <4>4. certificate' \in [Session -> Leaf \cup {NoCertificate}]
        BY <4>2, <4>3
      <4>5. QED
        BY <4>3, <4>4 DEF Root
    <3>2. CASE ~(now + LeafLife <= notAfter[root[s]])
      BY <2>11, <3>2, <2>1, <2>2 DEF CreateCertificate
    <3>3. QED
      BY <3>1, <3>2
  <2>12. CASE CheckCertificate(s)
    BY <2>12 DEF CheckCertificate, Root
  <2>13. CASE UploadCertificate(s)
    <3>1. CASE pfx' = s /\ Goto(s, "import") /\ UNCHANGED <<request, root, certificate, disturbed>>
      BY <2>13, <3>1 DEF UploadCertificate, Root
    <3>2. CASE pfx' \in {pfx, Nobody} /\ EndQuietly(s)
      BY <2>13, <3>2, <2>1, <2>2 DEF UploadCertificate
    <3>3. QED
      BY <2>13, <3>1, <3>2 DEF UploadCertificate
  <2>14. CASE Import(s)
    <3>1. installed' \in Leaf \cup {NoCertificate} /\ pfx' \in Session \cup {Nobody}
      BY <2>14, <2>4, <2>5
      DEF Import, ImportSucceeds, ImportFails, ImportHasNoStatus, ImportThrows
    <3>2. disturbed' \in [Session -> BOOLEAN]
      BY <2>14, <2>3, <2>6
      DEF Import, ImportSucceeds, ImportFails, ImportHasNoStatus, ImportThrows
    <3>3. CASE ImportThrows(s)
      BY <3>1, <3>2, <3>3, <2>1 DEF ImportThrows
    <3>4. CASE ImportSucceeds(s) \/ ImportFails(s) \/ ImportHasNoStatus(s)
      BY <3>1, <3>2, <3>4 DEF ImportSucceeds, ImportFails, ImportHasNoStatus, Root
    <3>5. QED
      BY <2>14, <3>3, <3>4 DEF Import
  <2>15. CASE NextProject(s)
    <3>1. CASE projects[s] > 1
      <4>1. /\ projects' = [projects EXCEPT ![s] = projects[s] - 1]
            /\ Goto(s, "load")
            /\ certificate' = [certificate EXCEPT ![s] = NoCertificate]
            /\ disturbed' = [disturbed EXCEPT ![s] = FALSE]
            /\ UNCHANGED <<now, stores, device, mode, root>>
        BY <2>15, <3>1 DEF NextProject
      <4>2. projects' \in [Session -> 0..MaxProjects]
        <5>1. projects[s] - 1 \in 0..MaxProjects
          BY <3>1, HttpsAssumption
        <5>2. QED
          BY <4>1, <5>1
      <4>3. QED
        BY <4>1, <4>2 DEF Root
    <3>2. CASE ~(projects[s] > 1)
      BY <2>15, <3>2, <2>1, <2>2 DEF NextProject
    <3>3. QED
      BY <3>1, <3>2
  <2>16. CASE Throw(s)
    BY <2>16, <2>1, <2>2 DEF Throw
  <2>17. QED
    BY <1>2, <2>7, <2>8, <2>9, <2>10, <2>11, <2>12, <2>13, <2>14, <2>15, <2>16, <2>18 DEF Step
<1>3. CASE TimePasses
  BY <1>3 DEF TimePasses, Root
<1>7. CASE DeviceCreatesOwn
  <2>1. installed' \in Leaf
    BY <1>7, HttpsAssumption DEF DeviceCreatesOwn, Leaf, SelfSigned
  <2>2. disturbed' \in [Session -> BOOLEAN]
    BY <1>7, Zenon DEF DeviceCreatesOwn
  <2>3. QED
    BY <1>7, <2>1, <2>2 DEF DeviceCreatesOwn, Root
<1>4. ASSUME NEW r \in Root, RemoveRoot(r)
      PROVE  TypeOK'
  BY <1>4 DEF RemoveRoot, Root
<1>5. CASE UNCHANGED vars
  BY <1>5 DEF vars, Root
<1>6. QED
  BY <1>1, <1>2, <1>3, <1>4, <1>5, <1>7 DEF Next

----------------------------------------------------------------------------
LEMMA FewerAreFew ==
  ASSUME NEW A, NEW B, IsFiniteSet(A), IsFiniteSet(B), NEW n \in Nat,
         Cardinality(A) + Cardinality(B) <= n,
         NEW C \in SUBSET A, NEW D \in SUBSET B
  PROVE  Cardinality(C) + Cardinality(D) <= n
<1>1. Cardinality(C) <= Cardinality(A) /\ Cardinality(D) <= Cardinality(B)
  BY FS_Subset
<1>2. /\ Cardinality(A) \in Nat /\ Cardinality(B) \in Nat
      /\ Cardinality(C) \in Nat /\ Cardinality(D) \in Nat
  BY FS_Subset, FS_CardinalityType
<1>3. QED
  BY <1>1, <1>2

LEMMA StepKeepsRoots == HttpsInv /\ [Next]_vars => RootsToBe'
<1> SUFFICES ASSUME HttpsInv, [Next]_vars
             PROVE  RootsToBe'
  OBVIOUS
<1> USE DEF stores, device, request
<1>1. /\ IsFiniteSet(ValidRoots) /\ IsFiniteSet(Creating)
      /\ Cardinality(ValidRoots) \in Nat /\ Cardinality(Creating) \in Nat
      /\ unopened \in Nat
  BY CountsAreNumbers DEF HttpsInv, TypeOK
<1>2. ASSUME ValidRoots' \subseteq ValidRoots, Creating' \subseteq Creating,
             UNCHANGED unopened
      PROVE  RootsToBe'
  BY <1>1, <1>2, FewerAreFew, SessionIsFinite DEF HttpsInv, RootsToBe
<1>3. ASSUME UNCHANGED <<now, notAfter, personal>>
      PROVE  ValidRoots' = ValidRoots
  BY <1>3 DEF ValidRoots
<1>4. ASSUME UNCHANGED <<now, notAfter, personal, unopened>>,
             NEW s \in Session,
             \/ pc' = [pc EXCEPT ![s] = "idle"]
             \/ pc' = [pc EXCEPT ![s] = "load"]
             \/ pc' = [pc EXCEPT ![s] = "trust"]
             \/ pc' = [pc EXCEPT ![s] = "sign"]
             \/ pc' = [pc EXCEPT ![s] = "check"]
             \/ pc' = [pc EXCEPT ![s] = "upload"]
             \/ pc' = [pc EXCEPT ![s] = "import"]
             \/ pc' = [pc EXCEPT ![s] = "completed"]
             \/ pc' = [pc EXCEPT ![s] = "failed"]
      PROVE  RootsToBe'
  <2>1. Creating' \subseteq Creating
    BY <1>4 DEF Creating, At, HttpsInv, TypeOK
  <2>2. QED
    BY <2>1, <1>2, <1>3, <1>4
<1>5. ASSUME NEW s \in Session, NEW m \in Mode, NEW n \in 1..MaxProjects, Execute(s, m, n)
      PROVE  RootsToBe'
  BY <1>5, <1>4 DEF Execute, Goto
<1>6. ASSUME NEW s \in Session, Step(s) \/ Throw(s)
      PROVE  RootsToBe'
  <2>1. CASE LoadRoot(s)
    <3>1. CASE ValidRoots = {} /\ Goto(s, "create")
      <4>1. ValidRoots' = {}
        BY <2>1, <3>1, <1>3 DEF LoadRoot
      <4>2. Creating' \in SUBSET Session
        BY DEF Creating
      <4>3. Cardinality(Creating') <= Cardinality(Session) /\ Cardinality(Creating') \in Nat
        BY <4>2, SessionIsFinite, FS_Subset, FS_CardinalityType
      <4>4. QED
        BY <1>1, <2>1, <4>1, <4>3, FS_EmptySet, SessionIsFinite DEF LoadRoot, RootsToBe
    <3>2. CASE ~(ValidRoots = {} /\ Goto(s, "create"))
      <4>1. pc' = [pc EXCEPT ![s] = "sign"] \/ pc' = [pc EXCEPT ![s] = "trust"]
        BY <2>1, <3>2, Zenon DEF LoadRoot, Goto
      <4>2. QED
        BY <2>1, <4>1, <1>4 DEF LoadRoot
    <3>3. QED
      BY <3>1, <3>2
  <2>12. CASE StoreFails(s)
    <3>1. Creating' = Creating \cup {s} /\ ValidRoots' = ValidRoots
      BY <2>12, <1>3 DEF StoreFails, Creating, At, Goto, HttpsInv, TypeOK
    <3>2. /\ Cardinality(Creating') <= Cardinality(Creating) + 1
          /\ Cardinality(Creating') \in Nat
      <4>1. /\ IsFiniteSet(Creating \cup {s})
            /\ Cardinality(Creating \cup {s}) =
                 IF s \in Creating THEN Cardinality(Creating)
                 ELSE Cardinality(Creating) + 1
        BY <1>1, FS_AddElement
      <4>2. QED
        BY <4>1, <3>1, <1>1
    <3>3. unopened' = unopened + 1
      BY <2>12 DEF StoreFails
    <3>4. QED
      BY <3>1, <3>2, <3>3, <1>1, SessionIsFinite DEF HttpsInv, RootsToBe
  <2>2. CASE CreateRoot(s)
    <3>1. Creating' = Creating \ {s} /\ s \in Creating
      BY <2>2 DEF CreateRoot, Creating, At, Goto, HttpsInv, TypeOK
    <3>2. ValidRoots' \in SUBSET (ValidRoots \cup {Len(notAfter')})
      <4>1. notAfter \in Seq(Nat) /\ now + RootLife \in Nat
        BY HttpsAssumption DEF HttpsInv, TypeOK
      <4>2. \A r \in personal : notAfter'[r] = notAfter[r]
        BY <4>1, <2>2 DEF CreateRoot, HttpsInv, TypeOK, Root
      <4>3. QED
        BY <4>2, <2>2 DEF CreateRoot, ValidRoots
    <3>3. /\ Cardinality(Creating') = Cardinality(Creating) - 1
          /\ IsFiniteSet(ValidRoots \cup {Len(notAfter')})
          /\ Cardinality(ValidRoots \cup {Len(notAfter')}) <= Cardinality(ValidRoots) + 1
          /\ Cardinality(ValidRoots \cup {Len(notAfter')}) \in Nat
      <4>1. Cardinality(Creating') = Cardinality(Creating) - 1
        BY <3>1, <1>1, FS_RemoveElement
      <4>2. /\ IsFiniteSet(ValidRoots \cup {Len(notAfter')})
            /\ Cardinality(ValidRoots \cup {Len(notAfter')}) =
                 IF Len(notAfter') \in ValidRoots THEN Cardinality(ValidRoots)
                 ELSE Cardinality(ValidRoots) + 1
        BY <1>1, FS_AddElement
      <4>3. QED
        BY <4>1, <4>2, <1>1
    <3>4. /\ Cardinality(ValidRoots') <= Cardinality(ValidRoots \cup {Len(notAfter')})
          /\ Cardinality(ValidRoots') \in Nat
      BY <3>2, <3>3, FS_Subset, FS_CardinalityType
    <3>5. UNCHANGED unopened
      BY <2>2 DEF CreateRoot
    <3>6. QED
      BY <3>3, <3>4, <3>5, <1>1, SessionIsFinite DEF HttpsInv, RootsToBe
  <2>3. CASE TrustRoot(s)
    BY <2>3, <1>4 DEF TrustRoot, Goto
  <2>4. CASE TrustIsRefused(s)
    BY <2>4, <1>4 DEF TrustIsRefused, EndQuietly, End, Goto
  <2>5. CASE CreateCertificate(s)
    BY <2>5, <1>4 DEF CreateCertificate, EndQuietly, End, Goto
  <2>6. CASE CheckCertificate(s)
    BY <2>6, <1>4 DEF CheckCertificate, Goto
  <2>7. CASE UploadCertificate(s)
    BY <2>7, <1>4 DEF UploadCertificate, EndQuietly, End, Goto
  <2>8. CASE Import(s)
    BY <2>8, <1>4 DEF Import, ImportSucceeds, ImportFails, ImportHasNoStatus,
      ImportThrows, End, Goto
  <2>9. CASE NextProject(s)
    BY <2>9, <1>4 DEF NextProject, EndQuietly, End, Goto
  <2>10. CASE Throw(s)
    BY <2>10, <1>4 DEF Throw, EndQuietly, End, Goto
  <2>11. QED
    BY <1>6, <2>1, <2>2, <2>3, <2>4, <2>5, <2>6, <2>7, <2>8, <2>9, <2>10, <2>12 DEF Step
<1>7. CASE TimePasses
  <2>1. ValidRoots' \subseteq ValidRoots
    <3>1. \A r \in personal : notAfter[r] \in Nat
      BY DEF HttpsInv, TypeOK, Root
    <3>2. QED
      BY <1>7, <3>1 DEF TimePasses, ValidRoots, HttpsInv, TypeOK
  <2>2. Creating' = Creating /\ UNCHANGED unopened
    BY <1>7 DEF TimePasses, Creating, At
  <2>3. QED
    BY <2>1, <2>2, <1>2
<1>8. ASSUME NEW r \in Root, RemoveRoot(r)
      PROVE  RootsToBe'
  BY <1>8, <1>2 DEF RemoveRoot, ValidRoots, Creating, At
<1>9. CASE DeviceCreatesOwn \/ UNCHANGED vars
  BY <1>9, <1>2 DEF DeviceCreatesOwn, vars, ValidRoots, Creating, At
<1>10. QED
  BY <1>5, <1>6, <1>7, <1>8, <1>9 DEF Next

----------------------------------------------------------------------------
(***************************************************************************)
(* Who has signed, and with what.                                          *)
(***************************************************************************)
LEMMA StepKeepsSignatures ==
  HttpsInv /\ [Next]_vars => SignsWithTrusted' /\ HasSigned' /\ SignedOrOwn'
<1> SUFFICES ASSUME HttpsInv, [Next]_vars
             PROVE  SignsWithTrusted' /\ HasSigned' /\ SignedOrOwn'
  OBVIOUS
<1> USE DEF HttpsInv, TypeOK, SignsWithTrusted, HasSigned, SignedOrOwn,
        stores, device, request, Goto, At
<1>1. ASSUME NEW s \in Session, NEW m \in Mode, NEW n \in 1..MaxProjects, Execute(s, m, n)
      PROVE  SignsWithTrusted' /\ HasSigned' /\ SignedOrOwn'
  BY <1>1 DEF Execute, Root
<1>2. ASSUME NEW s \in Session, Step(s) \/ Throw(s)
      PROVE  SignsWithTrusted' /\ HasSigned' /\ SignedOrOwn'
  <2>1. ASSUME End(s), UNCHANGED stores, SignedOrOwn'
        PROVE  SignsWithTrusted' /\ HasSigned' /\ SignedOrOwn'
    BY <2>1 DEF End, Root
  <2>2. CASE LoadRoot(s)
    <3>1. UNCHANGED <<notAfter, trusted, installed, certificate>>
      BY <2>2 DEF LoadRoot
    <3>2. CASE ValidRoots = {} /\ Goto(s, "create") /\ UNCHANGED root
      BY <3>1, <3>2 DEF Root
    <3>3. ASSUME NEW r \in ValidRoots, root' = [root EXCEPT ![s] = r],
                 Goto(s, IF r \in trusted THEN "sign" ELSE "trust")
          PROVE  SignsWithTrusted' /\ HasSigned' /\ SignedOrOwn'
      <4>1. r \in Root
        BY DEF ValidRoots
      <4>2. CASE r \in trusted
        BY <3>1, <3>3, <4>1, <4>2 DEF Root
      <4>3. CASE r \notin trusted
        BY <3>1, <3>3, <4>1, <4>3 DEF Root
      <4>4. QED
        BY <4>2, <4>3
    <3>4. QED
      <4>1. SUFFICES ASSUME ~(ValidRoots = {} /\ Goto(s, "create") /\ UNCHANGED root)
                     PROVE  \E r \in ValidRoots :
                              /\ root' = [root EXCEPT ![s] = r]
                              /\ Goto(s, IF r \in trusted THEN "sign" ELSE "trust")
        BY <3>2, <3>3
      <4>2. QED
        BY <2>2, <4>1 DEF LoadRoot
  <2>13. CASE StoreFails(s)
    BY <2>13 DEF StoreFails, Root
  <2>3. CASE CreateRoot(s)
    <3>1. notAfter' \in Seq(Nat) /\ Len(notAfter') = Len(notAfter) + 1 /\ Len(notAfter) \in Nat
      BY <2>3, HttpsAssumption DEF CreateRoot
    <3>2. Root \subseteq Root' /\ Len(notAfter') \in Root'
      BY <3>1 DEF Root
    <3>3. QED
      BY <2>3, <3>2 DEF CreateRoot
  <2>4. CASE TrustRoot(s)
    BY <2>4 DEF TrustRoot, Root
  <2>5. CASE TrustIsRefused(s)
    BY <2>5, <2>1 DEF TrustIsRefused, EndQuietly
  <2>6. CASE CreateCertificate(s)
    <3>1. CASE now + LeafLife <= notAfter[root[s]]
      <4>1. [root |-> root[s], until |-> now + LeafLife] # NoCertificate
        BY HttpsAssumption
      <4>2. /\ certificate' = [certificate EXCEPT
                 ![s] = [root |-> root[s], until |-> now + LeafLife]]
            /\ root' = [root EXCEPT ![s] = 0]
            /\ pc' = [pc EXCEPT ![s] = "check"]
            /\ UNCHANGED <<notAfter, trusted, installed>>
        BY <2>6, <3>1 DEF CreateCertificate
      <4>3. root[s] \in trusted
        BY <2>6 DEF CreateCertificate
      <4>4. QED
        BY <4>1, <4>2, <4>3 DEF Root
    <3>2. CASE ~(now + LeafLife <= notAfter[root[s]])
      BY <2>6, <3>2, <2>1 DEF CreateCertificate, EndQuietly
    <3>3. QED
      BY <3>1, <3>2
  <2>7. CASE CheckCertificate(s)
    BY <2>7 DEF CheckCertificate, Root
  <2>8. CASE UploadCertificate(s)
    <3>1. CASE EndQuietly(s)
      BY <2>8, <3>1, <2>1 DEF UploadCertificate, EndQuietly
    <3>2. CASE Goto(s, "import") /\ UNCHANGED <<request, root, certificate, disturbed>>
      BY <2>8, <3>2 DEF UploadCertificate, Root
    <3>3. QED
      BY <2>8, <3>1, <3>2 DEF UploadCertificate
  <2>9. CASE Import(s)
    <3>1. SignedOrOwn'
      <4>1. installed' \in {installed, NoCertificate, certificate[s]} /\ UNCHANGED trusted
        BY <2>9 DEF Import, ImportSucceeds, ImportFails, ImportHasNoStatus, ImportThrows,
          Imported
      <4>2. QED
        BY <4>1
    <3>2. CASE ImportThrows(s)
      BY <3>1, <3>2, <2>1 DEF ImportThrows
    <3>3. CASE ImportSucceeds(s) \/ ImportFails(s) \/ ImportHasNoStatus(s)
      BY <3>1, <3>3 DEF ImportSucceeds, ImportFails, ImportHasNoStatus, Root
    <3>4. QED
      BY <2>9, <3>2, <3>3 DEF Import
  <2>10. CASE NextProject(s)
    <3>1. CASE projects[s] > 1
      BY <2>10, <3>1 DEF NextProject, Root
    <3>2. CASE ~(projects[s] > 1)
      BY <2>10, <3>2, <2>1 DEF NextProject, EndQuietly
    <3>3. QED
      BY <3>1, <3>2
  <2>11. CASE Throw(s)
    BY <2>11, <2>1 DEF Throw, EndQuietly
  <2>12. QED
    BY <1>2, <2>2, <2>3, <2>4, <2>5, <2>6, <2>7, <2>8, <2>9, <2>10, <2>11, <2>13 DEF Step
<1>3. CASE TimePasses
  BY <1>3 DEF TimePasses, Root
<1>7. CASE DeviceCreatesOwn
  BY <1>7 DEF DeviceCreatesOwn, Root
<1>4. ASSUME NEW r \in Root, RemoveRoot(r)
      PROVE  SignsWithTrusted' /\ HasSigned' /\ SignedOrOwn'
  BY <1>4 DEF RemoveRoot, Root
<1>5. CASE UNCHANGED vars
  BY <1>5 DEF vars, Root
<1>6. QED
  BY <1>1, <1>2, <1>3, <1>4, <1>5, <1>7 DEF Next

(***************************************************************************)
(* What an instance says that another one may have undone is disturbed.    *)
(***************************************************************************)
LEMMA StepKeepsCompleted == HttpsInv /\ [Next]_vars => CompletedMeansInstalled'
<1> SUFFICES ASSUME HttpsInv, [Next]_vars
             PROVE  CompletedMeansInstalled'
  OBVIOUS
<1> USE DEF HttpsInv, TypeOK, CompletedMeansInstalled, stores, device, request, Goto, At
<1>1. ASSUME NEW s \in Session, UNCHANGED installed,
             \A t \in Session \ {s} :
               UNCHANGED <<pc[t], mode[t], certificate[t], disturbed[t]>>,
             pc'[s] # "completed"
      PROVE  CompletedMeansInstalled'
  BY <1>1
<1>2. ASSUME NEW s \in Session, NEW m \in Mode, NEW n \in 1..MaxProjects, Execute(s, m, n)
      PROVE  CompletedMeansInstalled'
  BY <1>2, <1>1 DEF Execute
<1>3. ASSUME NEW s \in Session, Step(s) \/ Throw(s)
      PROVE  CompletedMeansInstalled'
  <2>1. ASSUME EndQuietly(s), UNCHANGED installed
        PROVE  CompletedMeansInstalled'
    BY <2>1, <1>1 DEF EndQuietly, End
  <2>2. CASE LoadRoot(s)
    <3>1. pc' = [pc EXCEPT ![s] = "create"] \/ pc' = [pc EXCEPT ![s] = "sign"]
            \/ pc' = [pc EXCEPT ![s] = "trust"]
      BY <2>2, Zenon DEF LoadRoot
    <3>2. QED
      BY <2>2, <3>1, <1>1 DEF LoadRoot
  <2>3. CASE StoreFails(s) \/ CreateRoot(s) \/ TrustRoot(s)
    BY <2>3, <1>1 DEF StoreFails, CreateRoot, TrustRoot
  <2>4. CASE TrustIsRefused(s)
    BY <2>4, <2>1 DEF TrustIsRefused
  <2>5. CASE CreateCertificate(s)
    BY <2>5, <2>1, <1>1 DEF CreateCertificate
  <2>6. CASE CheckCertificate(s)
    <3>1. CASE Goto(s, "upload")
      <4>1. \A t \in Session \ {s} : disturbed'[t] = disturbed[t]
        BY <2>6 DEF CheckCertificate
      <4>2. QED
        BY <2>6, <3>1, <4>1, <1>1 DEF CheckCertificate
    <3>2. CASE ~Goto(s, "upload")
      <4>1. /\ mode[s] = "Update"
            /\ Goto(s, "completed")
            /\ \/ IsValid(installed) /\ UNCHANGED disturbed
               \/ disturbed' = [disturbed EXCEPT ![s] = TRUE]
        BY <2>6, <3>2 DEF CheckCertificate
      <4>2. UNCHANGED <<installed, mode, certificate>>
        BY <2>6 DEF CheckCertificate
      <4>3. QED
        BY <4>1, <4>2 DEF IsValid
    <3>3. QED
      BY <3>1, <3>2
  <2>7. CASE UploadCertificate(s)
    BY <2>7, <2>1, <1>1 DEF UploadCertificate
  <2>8. CASE Import(s)
    <3>1. PICK own \in BOOLEAN : DisturbOthers(s, own)
      BY <2>8 DEF Import, ImportSucceeds, ImportFails, ImportHasNoStatus, ImportThrows
    <3>2. \A t \in Session \ {s} :
            /\ UNCHANGED <<pc[t], mode[t], certificate[t]>>
            /\ pc[t] = "completed" => disturbed'[t]
      <4>1. \A t \in Session \ {s} : UNCHANGED <<pc[t], mode[t], certificate[t]>>
        BY <2>8
        DEF Import, ImportSucceeds, ImportFails, ImportHasNoStatus, ImportThrows, End
      <4>2. \A t \in Session \ {s} : pc[t] = "completed" => disturbed'[t]
        BY <3>1 DEF DisturbOthers
      <4>3. QED
        BY <4>1, <4>2
    <3>3. CASE ImportSucceeds(s)
      <4>1. /\ installed' = certificate[s] /\ certificate[s] # NoCertificate
            /\ UNCHANGED certificate
        BY <3>3 DEF ImportSucceeds, Imported, HasSigned
      <4>2. QED
        BY <3>2, <4>1
    <3>4. CASE ImportHasNoStatus(s)
      <4>1. disturbed'[s]
        BY <3>4 DEF ImportHasNoStatus, DisturbOthers
      <4>2. QED
        BY <3>2, <4>1
    <3>5. CASE ImportFails(s) \/ ImportThrows(s)
      <4>1. pc'[s] # "completed"
        BY <3>5 DEF ImportFails, ImportThrows, End
      <4>2. QED
        BY <3>2, <4>1
    <3>6. QED
      BY <2>8, <3>3, <3>4, <3>5 DEF Import
  <2>9. CASE NextProject(s)
    BY <2>9, <2>1, <1>1 DEF NextProject
  <2>10. CASE Throw(s)
    BY <2>10, <2>1 DEF Throw
  <2>11. QED
    BY <1>3, <2>2, <2>3, <2>4, <2>5, <2>6, <2>7, <2>8, <2>9, <2>10 DEF Step
<1>4. CASE TimePasses \/ UNCHANGED vars
  BY <1>4 DEF TimePasses, vars
<1>5. ASSUME NEW r \in Root, RemoveRoot(r)
      PROVE  CompletedMeansInstalled'
  BY <1>5 DEF RemoveRoot
<1>6. CASE DeviceCreatesOwn
  <2>1. \A s \in Session : pc[s] = "completed" => disturbed'[s]
    BY <1>6 DEF DeviceCreatesOwn
  <2>2. QED
    BY <1>6, <2>1 DEF DeviceCreatesOwn
<1>7. QED
  BY <1>2, <1>3, <1>4, <1>5, <1>6 DEF Next

----------------------------------------------------------------------------
LEMMA HttpsInvInvariant == Spec => []HttpsInv
<1>1. Init => HttpsInv
  BY HttpsInvInit
<1>2. HttpsInv /\ [Next]_vars => HttpsInv'
  BY StepKeepsType, StepKeepsSignatures, StepKeepsCompleted, StepKeepsRoots DEF HttpsInv
<1>3. QED
  BY <1>1, <1>2, PTL DEF Spec

(***************************************************************************)
(* The variables keep their types: a certificate always names the root it  *)
(* was signed with and an end, the loop over the projects stays in bounds. *)
(***************************************************************************)
THEOREM HttpsTypeCorrect == Spec => []TypeOK
<1>1. HttpsInv => TypeOK
  BY DEF HttpsInv
<1>2. QED
  BY <1>1, HttpsInvInvariant, PTL

(***************************************************************************)
(* The device shows its own certificate or one whose root the computer was *)
(* made to trust, however many instances set it up at the same time; after *)
(* a setup in Replace mode, that the device has not changed since, never   *)
(* its own.                                                                *)
(***************************************************************************)
THEOREM SignedByTrustedRootCorrect == Spec => []SignedByTrustedRoot
<1>1. HttpsInv => SignedByTrustedRoot
  BY DEF HttpsInv, SignedOrOwn, CompletedMeansInstalled, SignsWithTrusted, SignedByTrustedRoot
<1>2. QED
  BY <1>1, HttpsInvInvariant, PTL

(***************************************************************************)
(* LoadSelfSignedRootCertificate and the creation that follows it are not  *)
(* atomic; the valid roots they leave never outnumber the instances and    *)
(* the times the store could not be opened.                                *)
(***************************************************************************)
THEOREM RootsAreFewCorrect == Spec => []RootsAreFew
<1>1. HttpsInv => RootsAreFew
  <2> SUFFICES ASSUME HttpsInv
               PROVE  RootsAreFew
    OBVIOUS
  <2>1. Cardinality(ValidRoots) \in Nat /\ Cardinality(Creating) \in Nat
    BY CountsAreNumbers DEF HttpsInv
  <2>2. unopened \in Nat
    BY DEF HttpsInv, TypeOK
  <2>3. QED
    BY <2>1, <2>2, SessionIsFinite DEF HttpsInv, RootsToBe, RootsAreFew
<1>2. QED
  BY <1>1, HttpsInvInvariant, PTL

(***************************************************************************)
(* "Setup completed successfully" is true of the device, the new           *)
(* certificate in Replace mode, unless another instance came between.      *)
(***************************************************************************)
THEOREM CompletedMeansInstalledCorrect == Spec => []CompletedMeansInstalled
<1>1. HttpsInv => CompletedMeansInstalled
  BY DEF HttpsInv
<1>2. QED
  BY <1>1, HttpsInvInvariant, PTL

----------------------------------------------------------------------------
(***************************************************************************)
(* No certificate outlives its root: while the one the device shows is     *)
(* valid, so is the root it was signed with, if it was, also when the      *)
(* developer has removed that root from the store or a newer one has been  *)
(* created.                                                                *)
(***************************************************************************)
IsSigned(c) == c # NoCertificate /\ c.root # SelfSigned

EndsWithItsRoot(c) == IsSigned(c) => c.until <= notAfter[c.root]

InstalledEndsWithItsRoot ==
  /\ EndsWithItsRoot(installed)
  /\ IsSigned(installed) /\ now < installed.until => now < notAfter[installed.root]

EndsInv ==
  /\ EndsWithItsRoot(installed)
  /\ \A s \in Session : EndsWithItsRoot(certificate[s])

LEMMA EndsInvStep == HttpsInv /\ HttpsInv' /\ EndsInv /\ [Next]_vars => EndsInv'
<1> SUFFICES ASSUME HttpsInv, HttpsInv', EndsInv, [Next]_vars
             PROVE  EndsInv'
  OBVIOUS
<1> USE DEF stores, device, request, Goto, At
<1>0. TypeOK /\ SignsWithTrusted /\ SignedOrOwn
  BY DEF HttpsInv
\* What has been signed was signed by a root that is there.
<1>1. /\ IsSigned(installed) => installed.root \in Root
      /\ \A s \in Session : certificate[s] # NoCertificate => certificate[s].root \in Root
  BY <1>0 DEF TypeOK, SignsWithTrusted, SignedOrOwn, IsSigned
<1>2. \A r \in Root : notAfter'[r] = notAfter[r]
  <2>1. CASE \E s \in Session : CreateRoot(s)
    BY <1>0, <2>1, HttpsAssumption DEF CreateRoot, TypeOK, Root
  <2>2. CASE ~ \E s \in Session : CreateRoot(s)
    <3>1. UNCHANGED notAfter
      BY <2>2 DEF Next, Step, Execute, LoadRoot, StoreFails, TrustRoot, TrustIsRefused,
        CreateCertificate, CheckCertificate, UploadCertificate, Import, ImportSucceeds, ImportFails,
        ImportHasNoStatus, ImportThrows, NextProject, Throw, TimePasses, DeviceCreatesOwn,
        RemoveRoot, vars
    <3>2. QED
      BY <3>1
  <2>3. QED
    BY <2>1, <2>2
\* A certificate that was there, or one that is new and was checked.
<1>3. ASSUME NEW s \in Session
      PROVE  \/ certificate'[s] \in {certificate[s], NoCertificate}
             \/ /\ certificate'[s].root \in Root
                /\ certificate'[s].until <= notAfter[certificate'[s].root]
  <2>1. ASSUME NEW t \in Session, End(t)
        PROVE  certificate'[s] \in {certificate[s], NoCertificate}
    BY <1>0, <2>1 DEF End, TypeOK
  <2>2. ASSUME NEW t \in Session, CreateCertificate(t)
        PROVE  \/ certificate'[s] \in {certificate[s], NoCertificate}
               \/ /\ certificate'[s].root \in Root
                  /\ certificate'[s].until <= notAfter[certificate'[s].root]
    <3>1. CASE now + LeafLife <= notAfter[root[t]]
      <4>1. root[t] \in Root
        BY <1>0, <2>2 DEF CreateCertificate, SignsWithTrusted, TypeOK
      <4>2. certificate' = [certificate EXCEPT
                 ![t] = [root |-> root[t], until |-> now + LeafLife]]
        BY <2>2, <3>1 DEF CreateCertificate
      <4>3. QED
        BY <1>0, <3>1, <4>1, <4>2 DEF TypeOK
    <3>2. CASE ~(now + LeafLife <= notAfter[root[t]])
      BY <2>1, <2>2, <3>2 DEF CreateCertificate, EndQuietly
    <3>3. QED
      BY <3>1, <3>2
  <2>3. ASSUME NEW t \in Session, NextProject(t)
        PROVE  certificate'[s] \in {certificate[s], NoCertificate}
    BY <1>0, <2>1, <2>3 DEF NextProject, EndQuietly, TypeOK
  <2>4. ASSUME NEW t \in Session,
               TrustIsRefused(t) \/ UploadCertificate(t) \/ ImportThrows(t) \/ Throw(t)
        PROVE  certificate'[s] \in {certificate[s], NoCertificate}
    BY <2>1, <2>4 DEF TrustIsRefused, UploadCertificate, ImportThrows, Throw, EndQuietly
  <2>5. QED
    BY <2>2, <2>3, <2>4 DEF Next, Step, Execute, LoadRoot, StoreFails, CreateRoot,
      TrustRoot, CheckCertificate, Import, ImportSucceeds, ImportFails, ImportHasNoStatus,
      TimePasses, DeviceCreatesOwn, RemoveRoot, vars
<1>4. \/ installed' \in {installed, NoCertificate}
      \/ \E s \in Session : installed' = certificate[s]
      \/ installed'.root = SelfSigned
  <2>1. CASE DeviceCreatesOwn
    BY <2>1 DEF DeviceCreatesOwn
  <2>2. ASSUME NEW s \in Session, Step(s) \/ Throw(s)
        PROVE  installed' \in {installed, NoCertificate, certificate[s]}
    BY <2>2 DEF Step, LoadRoot, StoreFails, CreateRoot, TrustRoot, TrustIsRefused,
      CreateCertificate, CheckCertificate, UploadCertificate, Import, ImportSucceeds,
      ImportFails, ImportHasNoStatus, ImportThrows, Imported, NextProject, Throw
  <2>3. QED
    BY <2>1, <2>2 DEF Next, Execute, TimePasses, RemoveRoot, vars
<1>5. EndsWithItsRoot(installed)'
  BY <1>1, <1>2, <1>4 DEF EndsInv, EndsWithItsRoot, IsSigned
<1>6. \A s \in Session : EndsWithItsRoot(certificate[s])'
  BY <1>1, <1>2, <1>3 DEF EndsInv, EndsWithItsRoot, IsSigned
<1>7. QED
  BY <1>5, <1>6 DEF EndsInv

(***************************************************************************)
(* CreateDevelopmentCertificateFile signs with a root found a step before, *)
(* and the import installs what was signed three steps before: what a      *)
(* setup has installed ends with its root all the same.                    *)
(***************************************************************************)
THEOREM InstalledEndsWithItsRootCorrect == Spec => []InstalledEndsWithItsRoot
<1>1. Init => EndsInv
  BY DEF Init, EndsInv, EndsWithItsRoot, IsSigned, OwnCertificate
<1>2. HttpsInv /\ EndsInv => InstalledEndsWithItsRoot
  <2> SUFFICES ASSUME HttpsInv, EndsInv, IsSigned(installed), now < installed.until
               PROVE  now < notAfter[installed.root]
    BY DEF EndsInv, InstalledEndsWithItsRoot
  <2>1. /\ now \in Nat /\ installed.until \in Nat /\ notAfter[installed.root] \in Nat
        /\ installed.until <= notAfter[installed.root]
    BY DEF HttpsInv, TypeOK, SignedOrOwn, IsSigned, Leaf, Root, EndsInv, EndsWithItsRoot
  <2>2. QED
    BY <2>1
<1>3. QED
  BY <1>1, <1>2, HttpsInvInvariant, EndsInvStep, PTL DEF Spec
=============================================================================
