----------------------------- MODULE HttpsSetup -----------------------------
(***************************************************************************)
(* The Setup HTTPS command: a root certificate is found in the developer's *)
(* store, or created, and trusted; it signs a certificate for the device,  *)
(* which replaces the one that "dotnet dev-certs" has there. The device    *)
(* may have created that one itself.                                       *)
(*                                                                         *)
(* The command blocks the UI thread of its Visual Studio, but instances of *)
(* Visual Studio share the certificate stores of the developer, the device *)
(* and the file the certificate is uploaded to. Certificates expire, and   *)
(* the developer tidies the stores. A root certificate is its place in the *)
(* order of creation, SelfSigned stands for none; keys, names and          *)
(* extensions are left out.                                                *)
(***************************************************************************)
EXTENDS Integers, Sequences, FiniteSets

CONSTANTS Session,        \* the instances of Visual Studio
          RootLife,       \* how long a root certificate is valid
          LeafLife,       \* how long one for a device is
          NoCertificate,
          Nobody,
          MaxEvents,      \* bound on the time, the roots removed and the
                          \* failures of the store together
          MaxProjects     \* bound on the projects of two commands together

ASSUME HttpsAssumption ==
  /\ IsFiniteSet(Session)
  /\ Nobody \notin Session
  /\ RootLife \in Nat \ {0}
  /\ LeafLife \in 1..RootLife
  /\ MaxEvents \in Nat
  /\ MaxProjects \in Nat
  /\ NoCertificate \notin [root : Nat, until : Nat]

VARIABLES
  now,
  \* the certificate stores of the developer
  notAfter,       \* of every root certificate there has been
  personal,       \* the roots in the personal store
  trusted,        \* the trusted roots
  unopened,       \* history: how often the search could not open the store
  \* the device
  installed,      \* the certificate its applications use
  pfx,            \* the instance that has uploaded the file in the home
                  \* directory, until it has imported it
  \* per instance
  pc,
  mode,           \* SetupMode
  projects,       \* the projects that are left
  root,           \* rootCert
  certificate,    \* the one created for the device
  disturbed       \* history: since the setup was completed the certificate of
                  \* the device has changed, or a command had no exit status

stores == <<notAfter, personal, trusted, unopened>>
device == <<installed, pfx>>
request == <<mode, projects>>
vars == <<now, stores, device, pc, request, root, certificate, disturbed>>

Root == 1..Len(notAfter)
Leaf == [root : Nat, until : Nat]
SelfSigned == 0
OwnCertificate == [root : {SelfSigned}, until : 0..LeafLife]
Mode == {"Update", "Replace"}

TypeOK ==
  /\ now \in Nat
  /\ notAfter \in Seq(Nat)
  /\ personal \subseteq Root
  /\ trusted \subseteq Root
  /\ unopened \in Nat
  /\ installed \in Leaf \cup {NoCertificate}
  /\ pfx \in Session \cup {Nobody}
  /\ pc \in [Session -> {"idle", "load", "create", "trust", "sign", "check", "upload",
                         "import", "completed", "failed"}]
  /\ mode \in [Session -> Mode]
  /\ projects \in [Session -> 0..MaxProjects]
  /\ root \in [Session -> Nat]
  /\ certificate \in [Session -> Leaf \cup {NoCertificate}]
  /\ disturbed \in [Session -> BOOLEAN]

Init ==
  /\ now = 0
  /\ notAfter = <<>>
  /\ personal = {}
  /\ trusted = {}
  /\ unopened = 0
  /\ installed \in OwnCertificate \cup {NoCertificate}
  /\ pfx = Nobody
  /\ pc = [s \in Session |-> "idle"]
  /\ mode = [s \in Session |-> "Update"]
  /\ projects = [s \in Session |-> 0]
  /\ root = [s \in Session |-> 0]
  /\ certificate = [s \in Session |-> NoCertificate]
  /\ disturbed = [s \in Session |-> FALSE]

Events == now + Cardinality(Root \ personal) + unopened

At(s, step) == pc[s] = step
Goto(s, step) == pc' = [pc EXCEPT ![s] = step]

ValidRoots == {r \in personal : now < notAfter[r]}

(***************************************************************************)
(* The command ends, after its last project or with a message box.         *)
(***************************************************************************)
End(s) ==
  /\ Goto(s, "idle")
  /\ mode' = [mode EXCEPT ![s] = "Update"]
  /\ projects' = [projects EXCEPT ![s] = 0]
  /\ root' = [root EXCEPT ![s] = 0]
  /\ certificate' = [certificate EXCEPT ![s] = NoCertificate]

EndQuietly(s) == End(s) /\ disturbed' = [disturbed EXCEPT ![s] = FALSE]

Execute(s, m, n) ==
  /\ At(s, "idle")
  /\ \A t \in Session : projects[t] + n <= MaxProjects
  /\ Goto(s, "load")
  /\ mode' = [mode EXCEPT ![s] = m]
  /\ projects' = [projects EXCEPT ![s] = n]
  /\ UNCHANGED <<now, stores, device, root, certificate, disturbed>>

----------------------------------------------------------------------------
(***************************************************************************)
(* LoadSelfSignedRootCertificate prefers a root that is valid altogether,  *)
(* trusted that is, to one that is valid as to its time. An exception of   *)
(* the store is taken for a store without a root.                          *)
(***************************************************************************)
\* Variant: without the second search.
LoadRootTrusted(s) ==
  /\ At(s, "load")
  /\ \/ /\ ValidRoots \cap trusted = {}
        /\ Goto(s, "create")
        /\ UNCHANGED root
     \/ \E r \in ValidRoots \cap trusted :
          /\ root' = [root EXCEPT ![s] = r]
          /\ Goto(s, "sign")
  /\ UNCHANGED <<now, stores, device, request, certificate, disturbed>>

LoadRoot(s) ==
  /\ At(s, "load")
  /\ \/ /\ ValidRoots = {}
        /\ Goto(s, "create")
        /\ UNCHANGED root
     \/ \E r \in IF ValidRoots \cap trusted # {} THEN ValidRoots \cap trusted
                 ELSE ValidRoots :
          /\ root' = [root EXCEPT ![s] = r]
          /\ Goto(s, IF r \in trusted THEN "sign" ELSE "trust")
  /\ UNCHANGED <<now, stores, device, request, certificate, disturbed>>

StoreFails(s) ==
  /\ At(s, "load")
  /\ Events < MaxEvents
  /\ unopened' = unopened + 1
  /\ Goto(s, "create")
  /\ UNCHANGED <<now, notAfter, personal, trusted, device, request, root, certificate,
                 disturbed>>

CreateRoot(s) ==
  /\ At(s, "create")
  /\ notAfter' = Append(notAfter, now + RootLife)
  /\ personal' = personal \cup {Len(notAfter')}
  /\ root' = [root EXCEPT ![s] = Len(notAfter')]
  /\ Goto(s, "trust")
  /\ UNCHANGED <<now, trusted, unopened, device, request, certificate, disturbed>>

(***************************************************************************)
(* TrustSelfSignedPublicRootCertificate. Windows asks the developer about  *)
(* a root that is not trusted; a refusal is an exception.                  *)
(***************************************************************************)
\* Variant: a refusal is no exception.
TrustRootOrNot(s) ==
  /\ At(s, "trust")
  /\ trusted' \in {trusted, trusted \cup {root[s]}}
  /\ Goto(s, "sign")
  /\ UNCHANGED <<now, notAfter, personal, unopened, device, request, root, certificate,
                 disturbed>>

TrustRoot(s) ==
  /\ At(s, "trust")
  /\ trusted' = trusted \cup {root[s]}
  /\ Goto(s, "sign")
  /\ UNCHANGED <<now, notAfter, personal, unopened, device, request, root, certificate,
                 disturbed>>

TrustIsRefused(s) ==
  /\ At(s, "trust")
  /\ root[s] \notin trusted
  /\ EndQuietly(s)
  /\ UNCHANGED <<now, stores, device>>

(***************************************************************************)
(* CreateDevelopmentCertificateFile. External: CertificateRequest.Create   *)
(* throws when the new certificate would outlive the one that signs it.    *)
(***************************************************************************)
CreateCertificate(s) ==
  /\ At(s, "sign")
  /\ IF now + LeafLife <= notAfter[root[s]]
       THEN /\ certificate' = [certificate EXCEPT
                 ![s] = [root |-> root[s], until |-> now + LeafLife]]
            /\ root' = [root EXCEPT ![s] = 0]
            /\ Goto(s, "check")
            /\ UNCHANGED <<request, disturbed>>
       ELSE EndQuietly(s)
  /\ UNCHANGED <<now, stores, device>>

----------------------------------------------------------------------------
(***************************************************************************)
(* SetupAspNetDeveloperCertificateAsync. External: "--check" fails without *)
(* a certificate that is still valid, and without dotnet; it does not ask  *)
(* who signed the certificate. A command that is killed has no exit        *)
(* status, which is taken for 0.                                           *)
(***************************************************************************)
IsValid(c) == IF c = NoCertificate THEN FALSE ELSE now < c.until

CheckCertificate(s) ==
  /\ At(s, "check")
  /\ \/ /\ Goto(s, "upload")
        /\ UNCHANGED disturbed
     \/ /\ Goto(s, IF mode[s] = "Update" THEN "completed" ELSE "upload")
        /\ \/ IsValid(installed) /\ UNCHANGED disturbed
           \/ disturbed' = [disturbed EXCEPT ![s] = TRUE]
  /\ UNCHANGED <<now, stores, device, request, root, certificate>>

UploadCertificate(s) ==
  /\ At(s, "upload")
  /\ \/ /\ pfx' = s
        /\ Goto(s, "import")
        /\ UNCHANGED <<request, root, certificate, disturbed>>
     \/ /\ pfx' \in {pfx, Nobody}
        /\ EndQuietly(s)
  /\ UNCHANGED <<now, stores, installed>>

(***************************************************************************)
(* External: "--clean" removes the certificate the device has, "--import"  *)
(* needs the file to be the one the password belongs to. A failure of the  *)
(* command is a line of text, an exception ends the setup.                 *)
(***************************************************************************)
ForgetUpload(s) == pfx' = IF pfx = s THEN Nobody ELSE pfx

Imported(s) == IF pfx = s THEN {certificate[s]} ELSE {}

DisturbOthers(s, own) ==
  disturbed' = [t \in Session |-> IF t = s THEN own ELSE
                  disturbed[t] \/ At(t, "completed")]

ImportSucceeds(s) ==
  /\ At(s, "import")
  /\ installed' \in Imported(s)
  /\ Goto(s, "completed")
  /\ DisturbOthers(s, disturbed[s])
  /\ ForgetUpload(s)
  /\ UNCHANGED <<now, stores, request, root, certificate>>

\* Variant: the exit status of the import is not looked at.
ImportFailsUnseen(s) ==
  /\ At(s, "import")
  /\ installed' \in {installed, NoCertificate}
  /\ Goto(s, "completed")
  /\ DisturbOthers(s, disturbed[s])
  /\ ForgetUpload(s)
  /\ UNCHANGED <<now, stores, request, root, certificate>>

ImportFails(s) ==
  /\ At(s, "import")
  /\ installed' \in {installed, NoCertificate}
  /\ Goto(s, "failed")
  /\ DisturbOthers(s, disturbed[s])
  /\ ForgetUpload(s)
  /\ UNCHANGED <<now, stores, request, root, certificate>>

ImportHasNoStatus(s) ==
  /\ At(s, "import")
  /\ installed' \in {installed, NoCertificate} \cup Imported(s)
  /\ Goto(s, "completed")
  /\ DisturbOthers(s, TRUE)
  /\ ForgetUpload(s)
  /\ UNCHANGED <<now, stores, request, root, certificate>>

ImportThrows(s) ==
  /\ At(s, "import")
  /\ installed' \in {installed, NoCertificate} \cup Imported(s)
  /\ End(s)
  /\ DisturbOthers(s, FALSE)
  /\ ForgetUpload(s)
  /\ UNCHANGED <<now, stores>>

\* Variant: the loop runs past the last project.
NextProjectPastLast(s) ==
  /\ pc[s] \in {"completed", "failed"}
  /\ projects' = [projects EXCEPT ![s] = @ - 1]
  /\ Goto(s, "load")
  /\ UNCHANGED <<now, stores, device, mode, root, certificate, disturbed>>

NextProject(s) ==
  /\ pc[s] \in {"completed", "failed"}
  /\ IF projects[s] > 1
       THEN /\ projects' = [projects EXCEPT ![s] = @ - 1]
            /\ Goto(s, "load")
            /\ certificate' = [certificate EXCEPT ![s] = NoCertificate]
            /\ disturbed' = [disturbed EXCEPT ![s] = FALSE]
            /\ UNCHANGED <<mode, root>>
       ELSE EndQuietly(s)
  /\ UNCHANGED <<now, stores, device>>

(***************************************************************************)
(* Any other exception.                                                    *)
(***************************************************************************)
Throw(s) ==
  /\ pc[s] \in {"load", "create", "trust", "sign", "check"}
  /\ EndQuietly(s)
  /\ UNCHANGED <<now, stores, device>>

----------------------------------------------------------------------------
(***************************************************************************)
(* Time, and what the developer does with the stores. External: the first  *)
(* run of an SDK on the device, or "dotnet dev-certs https" there, creates *)
(* a certificate when the device has no valid one.                         *)
(***************************************************************************)
TimePasses ==
  /\ Events < MaxEvents
  /\ now' = now + 1
  /\ UNCHANGED <<stores, device, pc, request, root, certificate, disturbed>>

RemoveRoot(r) ==
  /\ r \in personal
  /\ Events < MaxEvents
  /\ personal' = personal \ {r}
  /\ UNCHANGED <<now, notAfter, trusted, unopened, device, pc, request, root, certificate,
                 disturbed>>

DeviceCreatesOwn ==
  /\ ~IsValid(installed)
  /\ installed' = [root |-> SelfSigned, until |-> now + LeafLife]
  /\ disturbed' = [s \in Session |-> disturbed[s] \/ At(s, "completed")]
  /\ UNCHANGED <<now, stores, pfx, pc, request, root, certificate>>

Import(s) == ImportSucceeds(s) \/ ImportFails(s) \/ ImportHasNoStatus(s) \/ ImportThrows(s)

Step(s) ==
  \/ LoadRoot(s) \/ StoreFails(s) \/ CreateRoot(s) \/ TrustRoot(s) \/ TrustIsRefused(s)
  \/ CreateCertificate(s)
  \/ CheckCertificate(s) \/ UploadCertificate(s) \/ Import(s)
  \/ NextProject(s)

Next ==
  \/ \E s \in Session, m \in Mode, n \in 1..MaxProjects : Execute(s, m, n)
  \/ \E s \in Session : Step(s) \/ Throw(s)
  \/ TimePasses \/ DeviceCreatesOwn
  \/ \E r \in Root : RemoveRoot(r)

Spec == Init /\ [][Next]_vars

----------------------------------------------------------------------------
(***************************************************************************)
(* Whatever becomes of the setups, the device shows a certificate that was *)
(* signed by a root the developer's computer has been made to trust, or    *)
(* its own; and its own no more when a setup in Replace mode says that it  *)
(* is completed (unless the device has changed since, or a command was     *)
(* killed). An Update leaves the device's own as long as that is valid.    *)
(***************************************************************************)
SignedByTrustedRoot ==
  /\ installed # NoCertificate => installed.root \in trusted \cup {SelfSigned}
  /\ \A s \in Session :
       At(s, "completed") /\ mode[s] = "Replace" /\ ~disturbed[s] =>
         installed # NoCertificate /\ installed.root \in trusted

(***************************************************************************)
(* Setups that are refused, fail or are repeated do not litter the store:  *)
(* there are never more valid roots in it than instances that may have     *)
(* looked for one at the same time, and times the store was not opened.    *)
(***************************************************************************)
RootsAreFew == Cardinality(ValidRoots) <= Cardinality(Session) + unopened

(***************************************************************************)
(* When the setup says that it is completed, the device has a certificate, *)
(* and in Replace mode it is the new one (unless the device has changed    *)
(* since, or a command was killed).                                        *)
(***************************************************************************)
CompletedMeansInstalled ==
  \A s \in Session :
    At(s, "completed") /\ ~disturbed[s] =>
      /\ installed # NoCertificate
      /\ mode[s] = "Replace" => installed = certificate[s]

(***************************************************************************)
(* "Add or Update: Updates the existing certificate in case it is no       *)
(* longer valid" (docs/Commands.md): the root that is found can sign the   *)
(* certificate that is to be installed.                                    *)
(***************************************************************************)
FoundRootCanSign ==
  [][\A s \in Session :
       At(s, "load") /\ root'[s] # root[s]
         => now + LeafLife <= notAfter[root'[s]]]_vars
=============================================================================
