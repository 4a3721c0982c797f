-------------------------- MODULE DeltaDeployProofs --------------------------
(***************************************************************************)
(* Proofs about RemoteTools and DeltaDeploy, which extends it, for every   *)
(* set of paths, any names that clash, any contents and releases.          *)
(***************************************************************************)
EXTENDS DeltaDeploy, TLAPS

(***************************************************************************)
(* What makes ReadyHasOwnBinary inductive. No version on the device is     *)
(* newer than the extension; version.json never runs ahead of the binary;  *)
(* an installation in progress has not written its version yet.            *)
(***************************************************************************)
ToolsInv ==
  /\ ToolsTypeOK
  /\ versionFile <= shipped
  /\ versionFile = shipped => binary = shipped
  /\ toolsStep \in {"mkdir", "uploadBinary", "uploadVersion"} => versionFile # shipped
  /\ toolsStep \in {"uploadVersion", "chmod", "ready"} => binary = shipped

LEMMA ToolsInvInit == ToolsInit => ToolsInv
<1> SUFFICES ASSUME ToolsInit
             PROVE  ToolsInv
  OBVIOUS
<1>1. ToolsTypeOK
  BY DEF ToolsInit, ToolsTypeOK, ToolsSteps
<1>2. shipped \in Nat \ {0} /\ versionFile = 0 /\ toolsStep = "out"
  BY VersionAssumption DEF ToolsInit, Missing
<1>3. QED
  BY <1>1, <1>2 DEF ToolsInv

(***************************************************************************)
(* The step of the installation that a session takes next keeps ToolsInv.  *)
(***************************************************************************)
LEMMA InstallStepKeepsToolsInv == ToolsInv /\ InstallStep => ToolsInv'
<1> SUFFICES ASSUME ToolsInv, InstallStep
             PROVE  ToolsInv'
  OBVIOUS
<1> USE VersionAssumption DEF ToolsInv, ToolsTypeOK, ToolsSteps, Missing, Torn
<1>1. CASE Probe
  BY <1>1 DEF Probe, NeedsInstall
<1>2. CASE MakeToolsFolder
  BY <1>2 DEF MakeToolsFolder
<1>3. CASE UploadBinary
  <2>1. ModeAfterUpload \subseteq BOOLEAN
    BY DEF ModeAfterUpload
  <2>2. QED
    BY <1>3, <2>1 DEF UploadBinary
<1>4. CASE UploadVersion
  BY <1>4 DEF UploadVersion
<1>5. CASE SetExecutable
  BY <1>5 DEF SetExecutable
<1>6. QED
  BY <1>1, <1>2, <1>3, <1>4, <1>5 DEF InstallStep

LEMMA ToolsInvStep == ToolsInv /\ [ToolsNext]_toolsVars => ToolsInv'
<1> SUFFICES ASSUME ToolsInv, [ToolsNext]_toolsVars
             PROVE  ToolsInv'
  OBVIOUS
<1> USE VersionAssumption DEF ToolsInv, ToolsTypeOK, ToolsSteps, Missing, Torn
<1>1. CASE EnterTools
  BY <1>1 DEF EnterTools
<1>2. CASE InstallStep
  BY <1>2, InstallStepKeepsToolsInv
<1>3. CASE LeaveTools
  BY <1>3 DEF LeaveTools
<1>4. CASE Upgrade
  <2>1. PICK v \in Version : v > shipped /\ shipped' = v
    BY <1>4 DEF Upgrade
  <2>2. versionFile < shipped'
    BY <2>1
  <2>3. QED
    BY <1>4, <2>1, <2>2 DEF Upgrade
<1>5. CASE UNCHANGED toolsVars
  BY <1>5 DEF toolsVars
<1>6. QED
  BY <1>1, <1>2, <1>3, <1>4, <1>5 DEF ToolsNext

LEMMA ToolsInvariant == ToolsSpec => []ToolsInv
BY ToolsInvInit, ToolsInvStep, PTL DEF ToolsSpec

(***************************************************************************)
(* The types of the tools' variables, in every reachable state.            *)
(***************************************************************************)
THEOREM ToolsTypeCorrect == ToolsSpec => []ToolsTypeOK
<1>1. ToolsInv => ToolsTypeOK
  BY DEF ToolsInv
<1>2. QED
  BY <1>1, ToolsInvariant, PTL

(***************************************************************************)
(* InstallRemoteToolsIfNeeded returns only when "checksum" on the device   *)
(* is complete and of the release that is running.                         *)
(***************************************************************************)
THEOREM ReadyHasOwnBinaryCorrect == ToolsSpec => []ReadyHasOwnBinary
<1>1. ToolsInv => ReadyHasOwnBinary
  BY DEF ToolsInv, ReadyHasOwnBinary
<1>2. QED
  BY <1>1, ToolsInvariant, PTL

(***************************************************************************)
(* No step disturbs tools that work: an installation only begins when the  *)
(* versions differ.                                                        *)
(***************************************************************************)
THEOREM UsableStaysUsableCorrect == ToolsSpec => UsableStaysUsable
<1>1. ToolsInv /\ [ToolsNext]_toolsVars
        => [Usable /\ shipped' = shipped => Usable']_toolsVars
  <2> SUFFICES ASSUME ToolsInv, ToolsNext, Usable, shipped' = shipped
               PROVE  Usable'
    BY DEF toolsVars
  <2> USE DEF Usable
  <2>1. CASE EnterTools \/ LeaveTools \/ Upgrade
    <3>1. shipped \in Nat
      BY VersionAssumption DEF ToolsInv, ToolsTypeOK
    <3>2. QED
      BY <2>1, <3>1 DEF EnterTools, LeaveTools, Upgrade
  <2>2. CASE Probe \/ MakeToolsFolder \/ SetExecutable
    BY <2>2 DEF Probe, MakeToolsFolder, SetExecutable
  <2>3. CASE UploadBinary \/ UploadVersion
    BY <2>3 DEF UploadBinary, UploadVersion, ToolsInv
  <2>4. QED
    BY <2>1, <2>2, <2>3 DEF ToolsNext, InstallStep
<1>2. QED
  BY <1>1, ToolsInvariant, PTL DEF ToolsSpec, UsableStaysUsable

(***************************************************************************)
(* Nothing repairs a version.json that was cut off: every later session    *)
(* ends when it reads it (JToken.Parse throws), before the installation    *)
(* that would write it anew, so the delta deployment never gets to the     *)
(* device again, in this release of the extension or a later one.          *)
(***************************************************************************)
TornEndsSessions == versionFile = Torn => toolsStep \in {"out", "probe"}

TornStaysTorn == [][versionFile = Torn => versionFile' = Torn]_toolsVars

THEOREM TornStaysTornCorrect == ToolsSpec => []TornEndsSessions /\ TornStaysTorn
<1>1. ToolsInit => TornEndsSessions
  BY DEF ToolsInit, TornEndsSessions
<1>2. ToolsInv /\ TornEndsSessions /\ [ToolsNext]_toolsVars
        => TornEndsSessions' /\ [versionFile = Torn => versionFile' = Torn]_toolsVars
  <2> SUFFICES ASSUME ToolsInv, TornEndsSessions, [ToolsNext]_toolsVars
               PROVE  TornEndsSessions' /\ (versionFile = Torn => versionFile' = Torn)
    OBVIOUS
  <2> USE VersionAssumption DEF TornEndsSessions
  <2>1. CASE EnterTools \/ LeaveTools \/ Upgrade
    BY <2>1 DEF EnterTools, LeaveTools, Upgrade
  <2>2. CASE Probe \/ MakeToolsFolder \/ UploadBinary \/ SetExecutable
    BY <2>2 DEF Probe, MakeToolsFolder, UploadBinary, SetExecutable
  <2>3. CASE UploadVersion
    <3>1. shipped # Torn
      BY DEF ToolsInv, ToolsTypeOK, Torn
    <3>2. QED
      BY <2>3, <3>1 DEF UploadVersion
  <2>4. CASE UNCHANGED toolsVars
    BY <2>4 DEF toolsVars
  <2>5. QED
    BY <2>1, <2>2, <2>3, <2>4 DEF ToolsNext, InstallStep
<1>3. QED
  BY <1>1, <1>2, ToolsInvariant, PTL DEF ToolsSpec, TornStaysTorn

(***************************************************************************)
(* Nor does anything repair tools that were uploaded completely by a       *)
(* session that ended before chmod: as long as the extension stays the     *)
(* same, version.json keeps later sessions from installing them again.     *)
(***************************************************************************)
Stuck ==
  /\ versionFile = shipped /\ ~ executable
  /\ toolsStep \in {"out", "probe", "ready"}

THEOREM StuckStaysStuck == ToolsSpec => [][Stuck /\ shipped' = shipped => Stuck']_toolsVars
<1>1. [ToolsNext]_toolsVars => [Stuck /\ shipped' = shipped => Stuck']_toolsVars
  <2> SUFFICES ASSUME ToolsNext, Stuck, shipped' = shipped
               PROVE  Stuck'
    BY DEF toolsVars
  <2> USE DEF Stuck
  <2>1. CASE EnterTools \/ LeaveTools \/ Upgrade
    BY <2>1 DEF EnterTools, LeaveTools, Upgrade
  <2>2. CASE Probe
    BY <2>2 DEF Probe, NeedsInstall
  <2>3. CASE MakeToolsFolder \/ UploadBinary \/ UploadVersion \/ SetExecutable
    BY <2>3 DEF MakeToolsFolder, UploadBinary, UploadVersion, SetExecutable
  <2>4. QED
    BY <2>1, <2>2, <2>3 DEF ToolsNext, InstallStep
<1>2. QED
  BY <1>1, PTL DEF ToolsSpec

----------------------------------------------------------------------------
(***************************************************************************)
(* Lemmas about the dictionaries and sets of DirectoryCompare.             *)
(***************************************************************************)
LEMMA TryGetValueType ==
  ASSUME NEW f, NEW p, NEW V, \A q \in Path : f[q] \in V, NoFile \in V
  PROVE  TryGetValue(f, p) \in V
<1>1. CASE Holders(f, p) = {}
  BY <1>1 DEF TryGetValue
<1>2. CASE Holders(f, p) # {}
  <2>1. (CHOOSE q \in Holders(f, p) : TRUE) \in Holders(f, p)
    BY <1>2
  <2>2. (CHOOSE q \in Holders(f, p) : TRUE) \in Path
    BY <2>1 DEF Holders
  <2>3. QED
    BY <1>2, <2>2 DEF TryGetValue
<1>3. QED
  BY <1>1, <1>2

LEMMA HoldersOwn ==
  ASSUME NEW f, NEW p \in OwnName
  PROVE  Holders(f, p) = IF f[p] = NoFile THEN {} ELSE {p}
BY DEF Holders, OwnName, SameName

LEMMA TryGetValueOwn ==
  ASSUME NEW f, NEW p \in OwnName
  PROVE  TryGetValue(f, p) = f[p]
<1>1. CASE f[p] = NoFile
  BY <1>1, HoldersOwn DEF TryGetValue
<1>2. CASE f[p] # NoFile
  <2>1. Holders(f, p) = {p}
    BY <1>2, HoldersOwn
  <2>2. (CHOOSE q \in {p} : TRUE) = p
    OBVIOUS
  <2>3. QED
    BY <2>1, <2>2 DEF TryGetValue
<1>3. QED
  BY <1>1, <1>2

LEMMA AddHashType ==
  ASSUME NEW V, NEW f \in [Path -> V], NEW p \in Path, NEW c \in V
  PROVE  AddHash(f, p, c) \in [Path -> V]
<1>1. CASE Holders(f, p) = {}
  BY <1>1 DEF AddHash
<1>2. CASE Holders(f, p) # {}
  <2>1. (CHOOSE q \in Holders(f, p) : TRUE) \in Path
    BY <1>2 DEF Holders
  <2>2. QED
    BY <2>1 DEF AddHash
<1>3. QED
  BY <1>1, <1>2

(***************************************************************************)
(* The key AddHash writes has the name it was given.                       *)
(***************************************************************************)
LEMMA AddHashKey ==
  ASSUME NEW f, DOMAIN f = Path, NEW p \in Path, NEW c
  PROVE  \E key \in Path :
           /\ SameName(p, key)
           /\ \A r \in Path : AddHash(f, p, c)[r] = IF r = key THEN c ELSE f[r]
<1> DEFINE key == IF Holders(f, p) = {} THEN p ELSE CHOOSE q \in Holders(f, p) : TRUE
<1>1. key \in Path /\ SameName(p, key)
  <2>1. CASE Holders(f, p) = {}
    BY <2>1 DEF SameName
  <2>2. CASE Holders(f, p) # {}
    <3>1. key \in Holders(f, p)
      BY <2>2
    <3>2. QED
      BY <3>1 DEF Holders
  <2>3. QED
    BY <2>1, <2>2
<1>2. AddHash(f, p, c) = [f EXCEPT ![key] = c]
  BY DEF AddHash
<1> HIDE DEF key
<1>3. \A r \in Path : AddHash(f, p, c)[r] = IF r = key THEN c ELSE f[r]
  BY <1>1, <1>2
<1>4. QED
  BY <1>1, <1>3

LEMMA AddHashOwn ==
  ASSUME NEW f, DOMAIN f = Path, NEW p \in Path, NEW c, NEW r \in OwnName
  PROVE  AddHash(f, p, c)[r] = IF r = p THEN c ELSE f[r]
<1>1. PICK key \in Path :
         /\ SameName(p, key)
         /\ \A q \in Path : AddHash(f, p, c)[q] = IF q = key THEN c ELSE f[q]
  BY AddHashKey
<1>2. r \in Path /\ (key = r <=> p = r)
  BY <1>1 DEF OwnName, SameName
<1>3. QED
  BY <1>1, <1>2

LEMMA ScansType ==
  ASSUME NEW V, NEW f \in [Path -> V], NoFile \in V, NEW g \in Scans(f)
  PROVE  g \in [Path -> V]
<1>1. {f[p] : p \in Path} \cup {NoFile} \subseteq V
  OBVIOUS
<1>2. g \in [Path -> {f[p] : p \in Path} \cup {NoFile}]
  BY DEF Scans
<1>3. QED
  BY <1>1, <1>2

LEMMA ScansOwn ==
  ASSUME NEW f, NEW g \in Scans(f), NEW p \in OwnName
  PROVE  g[p] = f[p]
<1>0. p \in Path
  BY DEF OwnName
<1>1. CASE g[p] # NoFile
  <2>1. Last(f, p) \subseteq {p}
    BY HoldersOwn DEF Last
  <2>2. QED
    BY <1>0, <1>1, <2>1 DEF Scans
<1>2. CASE g[p] = NoFile
  <2>1. SUFFICES ASSUME f[p] # NoFile
                 PROVE  FALSE
    BY <1>2
  <2>2. PICK q \in Path : \A r \in Path : SameName(p, r) /\ g[r] # NoFile <=> r = q
    BY <1>0, <2>1 DEF Scans
  <2>3. SameName(p, q) /\ g[q] # NoFile
    BY <2>2
  <2>4. QED
    BY <1>2, <2>3 DEF OwnName
<1>3. QED
  BY <1>1, <1>2

LEMMA HashSetsOwn ==
  ASSUME NEW S \in SUBSET Path, NEW T \in HashSets(S), NEW p \in OwnName
  PROVE  p \in T <=> p \in S
<1>1. T \subseteq S
  BY DEF HashSets
<1>2. ASSUME p \in S
      PROVE  p \in T
  <2>1. PICK q \in T : \A r \in T : SameName(p, r) <=> r = q
    BY <1>2 DEF HashSets
  <2>2. SameName(p, q) /\ q \in Path
    BY <1>1, <2>1
  <2>3. QED
    BY <2>2 DEF OwnName
<1>3. QED
  BY <1>1, <1>2

(***************************************************************************)
(* What the comparison finds, path by path: a path that has a name of its  *)
(* own is copied exactly when the project has it and the device does not   *)
(* have the same, and deleted exactly when only the device has it. Names   *)
(* that clash elsewhere in the folder do not matter.                       *)
(***************************************************************************)
THEOREM ComparisonExact ==
  ASSUME NEW actual, NEW expected, NEW p \in OwnName,
         NEW C \in CopySets(actual, expected), NEW D \in DeleteSets(actual, expected)
  PROVE  /\ p \in C <=> expected[p] # NoFile /\ expected[p] # actual[p]
         /\ p \in D <=> actual[p] # NoFile /\ expected[p] = NoFile
<1>1. PICK B \in HashSets(Differing(actual, expected)) :
         C = B \cup {r \in NewFiles(actual, expected) : \A q \in B : ~ SameName(r, q)}
  BY DEF CopySets
<1>2. p \in Path /\ TryGetValue(expected, p) = expected[p]
  BY TryGetValueOwn DEF OwnName
<1>3. B \subseteq Differing(actual, expected) /\ Differing(actual, expected) \subseteq Path
  BY DEF HashSets, Differing
<1>4. p \in B <=> actual[p] # NoFile /\ expected[p] # NoFile /\ expected[p] # actual[p]
  <2>1. p \in B <=> p \in Differing(actual, expected)
    BY <1>3, HashSetsOwn
  <2>2. QED
    BY <1>2, <2>1 DEF Differing
<1>5. p \in NewFiles(actual, expected) <=> expected[p] # NoFile /\ actual[p] = NoFile
  BY <1>2 DEF NewFiles
<1>6. ASSUME p \in NewFiles(actual, expected)
      PROVE  \A q \in B : ~ SameName(p, q)
  BY <1>3, <1>4, <1>5, <1>6 DEF OwnName
<1>7. p \in D <=> p \in Extra(actual, expected)
  BY HashSetsOwn DEF DeleteSets, Extra
<1>8. p \in D <=> actual[p] # NoFile /\ expected[p] = NoFile
  BY <1>2, <1>7 DEF Extra
<1>9. QED
  BY <1>1, <1>4, <1>5, <1>6, <1>8

LEMMA ExtraHasNoHolder ==
  ASSUME NEW actual, NEW expected, NEW p \in Extra(actual, expected)
  PROVE  Holders(expected, p) = {}
<1> SUFFICES ASSUME Holders(expected, p) # {}
             PROVE  FALSE
  OBVIOUS
<1> DEFINE q == CHOOSE q \in Holders(expected, p) : TRUE
<1>1. q \in Holders(expected, p)
  OBVIOUS
<1>2. expected[q] # NoFile
  BY <1>1 DEF Holders
<1>3. TryGetValue(expected, p) = expected[q]
  BY DEF TryGetValue
<1>4. QED
  BY <1>2, <1>3 DEF Extra

(***************************************************************************)
(* Whatever names clash: a name to copy is in the project in some case and *)
(* a name to delete is there in none, so no name is on both lists.         *)
(***************************************************************************)
THEOREM ComparisonApart ==
  ASSUME NEW actual, NEW expected,
         NEW C \in CopySets(actual, expected), NEW D \in DeleteSets(actual, expected)
  PROVE  /\ \A p \in C : Holders(expected, p) # {}
         /\ \A p \in D : Holders(expected, p) = {}
         /\ \A p \in C, q \in D : ~ SameName(p, q)
<1>1. ASSUME NEW p \in C
      PROVE  p \in Path /\ Holders(expected, p) # {}
  <2>1. p \in Differing(actual, expected) \/ p \in NewFiles(actual, expected)
    BY DEF CopySets, HashSets
  <2>2. CASE p \in Differing(actual, expected)
    BY <2>2 DEF Differing, TryGetValue
  <2>3. CASE p \in NewFiles(actual, expected)
    BY <2>3 DEF NewFiles, Holders, SameName
  <2>4. QED
    BY <2>1, <2>2, <2>3
<1>2. ASSUME NEW p \in D
      PROVE  Holders(expected, p) = {}
  BY ExtraHasNoHolder DEF DeleteSets, HashSets
<1>3. ASSUME NEW p \in C, NEW q \in D, SameName(p, q)
      PROVE  FALSE
  <2>1. Holders(expected, p) = Holders(expected, q)
    BY <1>3 DEF Holders, SameName
  <2>2. QED
    BY <1>1, <1>2, <2>1
<1>4. QED
  BY <1>1, <1>2, <1>3

LEMMA ComparisonType ==
  ASSUME NEW actual, NEW expected
  PROVE  /\ CopySets(actual, expected) \subseteq SUBSET Path
         /\ DeleteSets(actual, expected) \subseteq SUBSET Path
<1>1. Differing(actual, expected) \subseteq Path
  BY DEF Differing
<1>2. NewFiles(actual, expected) \subseteq Path
  BY DEF NewFiles
<1>3. Extra(actual, expected) \subseteq Path
  BY DEF Extra
<1>4. QED
  BY <1>1, <1>2, <1>3 DEF CopySets, DeleteSets, HashSets

----------------------------------------------------------------------------
(***************************************************************************)
(* What a step of a deployment does to the tools is a step of RemoteTools, *)
(* so all that is proved there holds here.                                 *)
(***************************************************************************)
LEMMA DeltaDeployHasToolsSpec == Spec => ToolsSpec
<1>1. Init => ToolsInit
  BY DEF Init
<1>2. [Next]_vars => [ToolsNext]_toolsVars
  <2> SUFFICES ASSUME [Next]_vars
               PROVE  [ToolsNext]_toolsVars
    OBVIOUS
  <2> USE DEF ToolsNext
  <2>1. CASE Start
    BY <2>1 DEF Start
  <2>2. CASE Deployment
    BY <2>2 DEF Deployment, InstallRemoteToolsIfNeeded, GetRemoteFileHashes,
                ComputeHashForFile, GetFilesToCopyOrDelete, DeleteRemoteFile,
                ConnectScp, CopyRemoteFile, CutOff, Finish, Fail, End
  <2>3. CASE Environment
    BY <2>3 DEF Environment, Edit, Lock, Unlock, AppWrites, UpgradeExtension
  <2>4. CASE UNCHANGED vars
    BY <2>4 DEF vars
  <2>5. QED
    BY <2>1, <2>2, <2>3, <2>4 DEF Next
<1>3. QED
  BY <1>1, <1>2, PTL DEF Spec, ToolsSpec

(***************************************************************************)
(* The types of all variables, in every reachable state.                   *)
(***************************************************************************)
LEMMA TypeOKInit == Init => TypeOK
<1> SUFFICES ASSUME Init
             PROVE  TypeOK
  OBVIOUS
<1>1. ToolsTypeOK
  BY ToolsInvInit DEF Init, ToolsInv
<1>2. local \in [Path -> File]
  BY DEF Init, LocalFolders
<1>3. Nothing \in [Path -> File] /\ Nothing \in [Path -> File \cup {Garbage}]
  BY DEF Nothing, File
<1>4. seen \in [Path -> SUBSET File]
  BY <1>2 DEF Init
<1>5. QED
  BY <1>1, <1>2, <1>3, <1>4 DEF Init, TypeOK

LEMMA TypeOKDeployment == TypeOK /\ ToolsTypeOK' /\ Deployment => TypeOK'
<1> SUFFICES ASSUME TypeOK, ToolsTypeOK', Deployment
             PROVE  TypeOK'
  OBVIOUS
<1> USE DEF TypeOK
<1>0. Nothing \in [Path -> File]
  BY DEF Nothing, File
<1>1. CASE InstallRemoteToolsIfNeeded
  BY <1>1 DEF InstallRemoteToolsIfNeeded
<1>2. CASE GetRemoteFileHashes
  <2>1. remoteFileHashes' \in [Path -> File \cup {Garbage}]
    BY <1>2, ScansType DEF GetRemoteFileHashes, File
  <2>2. QED
    BY <1>0, <1>2, <2>1 DEF GetRemoteFileHashes
<1>3. ASSUME NEW p \in Path, ComputeHashForFile(p)
      PROVE  TypeOK'
  <2>1. AddHash(expectedHashes, p, local[p]) \in [Path -> File]
    BY AddHashType
  <2>2. expectedHashes' \in [Path -> File]
    BY <1>3, <2>1 DEF ComputeHashForFile
  <2>3. inaccessible' \subseteq Path /\ unscanned' \subseteq Path
    BY <1>3 DEF ComputeHashForFile
  <2>4. QED
    BY <1>3, <2>2, <2>3 DEF ComputeHashForFile
<1>4. CASE GetFilesToCopyOrDelete
  <2>1. filesToCopy' \subseteq Path /\ filesToDelete' \subseteq Path
    BY <1>4, ComparisonType DEF GetFilesToCopyOrDelete
  <2>2. QED
    BY <1>0, <1>4, <2>1 DEF GetFilesToCopyOrDelete
<1>5. ASSUME NEW p \in Path, DeleteRemoteFile(p)
      PROVE  TypeOK'
  BY <1>5 DEF DeleteRemoteFile, File
<1>6. CASE ConnectScp
  BY <1>6 DEF ConnectScp
<1>7. ASSUME NEW p \in Path, CopyRemoteFile(p)
      PROVE  TypeOK'
  <2>1. TryGetValue(local, p) \in File
    BY TryGetValueType DEF File
  <2>2. QED
    BY <1>7, <2>1 DEF CopyRemoteFile
<1>8. ASSUME NEW p \in Path, CutOff(p)
      PROVE  TypeOK'
  BY <1>0, <1>8 DEF CutOff, End
<1>9. CASE Finish \/ Fail
  BY <1>0, <1>9 DEF Finish, Fail, End
<1>10. QED
  BY <1>1, <1>2, <1>3, <1>4, <1>5, <1>6, <1>7, <1>8, <1>9 DEF Deployment

LEMMA TypeOKEnvironment == TypeOK /\ ToolsTypeOK' /\ Environment => TypeOK'
<1> SUFFICES ASSUME TypeOK, ToolsTypeOK', Environment
             PROVE  TypeOK'
  OBVIOUS
<1> USE DEF TypeOK
<1>1. ASSUME NEW p \in Path, NEW c \in File, Edit(p, c)
      PROVE  TypeOK'
  BY <1>1 DEF Edit
<1>2. ASSUME NEW p \in Path, Lock(p) \/ Unlock(p)
      PROVE  TypeOK'
  BY <1>2 DEF Lock, Unlock
<1>3. ASSUME NEW p \in Path, NEW c \in File, AppWrites(p, c)
      PROVE  TypeOK'
  BY <1>3 DEF AppWrites
<1>4. CASE UpgradeExtension
  BY <1>4 DEF UpgradeExtension, deployVars
<1>5. QED
  BY <1>1, <1>2, <1>3, <1>4 DEF Environment

THEOREM TypeCorrect == Spec => []TypeOK
<1>1. TypeOK /\ ToolsTypeOK' /\ [Next]_vars => TypeOK'
  <2> SUFFICES ASSUME TypeOK, ToolsTypeOK', [Next]_vars
               PROVE  TypeOK'
    OBVIOUS
  <2>1. CASE Start
    BY <2>1 DEF Start, TypeOK
  <2>2. CASE UNCHANGED vars
    BY <2>2 DEF vars, toolsVars, deployVars, TypeOK
  <2>3. QED
    BY <2>1, <2>2, TypeOKDeployment, TypeOKEnvironment DEF Next
<1>2. Spec => []ToolsTypeOK
  BY DeltaDeployHasToolsSpec, ToolsTypeCorrect, PTL
<1>3. QED
  BY <1>1, <1>2, TypeOKInit, PTL DEF Spec

----------------------------------------------------------------------------
(***************************************************************************)
(* How a deployment and its tools go together: outside of a deployment no  *)
(* installation runs, and the steps after InstallRemoteToolsIfNeeded have  *)
(* the tools it returned with.                                             *)
(***************************************************************************)
ToolsFollow ==
  /\ pc = "idle" <=> toolsStep = "out"
  /\ pc \in {"hash", "scan", "delete", "copy"} => toolsStep = "ready"

LEMMA ToolsFollowStep == TypeOK /\ ToolsFollow /\ [Next]_vars => ToolsFollow'
<1> SUFFICES ASSUME TypeOK, ToolsFollow, [Next]_vars
             PROVE  ToolsFollow'
  OBVIOUS
<1> USE DEF ToolsFollow
<1>1. CASE Start
  BY <1>1 DEF Start, EnterTools
<1>2. CASE InstallRemoteToolsIfNeeded
  BY <1>2 DEF InstallRemoteToolsIfNeeded
<1>3. CASE GetRemoteFileHashes \/ GetFilesToCopyOrDelete \/ ConnectScp
  BY <1>3 DEF GetRemoteFileHashes, GetFilesToCopyOrDelete, ConnectScp, toolsVars
<1>4. CASE \E p \in Path : ComputeHashForFile(p) \/ DeleteRemoteFile(p) \/ CopyRemoteFile(p)
  BY <1>4 DEF ComputeHashForFile, DeleteRemoteFile, CopyRemoteFile, toolsVars
<1>5. CASE Finish \/ Fail \/ \E p \in Path : CutOff(p)
  BY <1>5 DEF Finish, Fail, CutOff, End, LeaveTools
<1>6. CASE \E p \in Path, c \in File : Edit(p, c) \/ AppWrites(p, c)
  BY <1>6 DEF Edit, AppWrites, toolsVars
<1>7. CASE \E p \in Path : Lock(p) \/ Unlock(p)
  BY <1>7 DEF Lock, Unlock, toolsVars
<1>8. CASE UpgradeExtension \/ UNCHANGED vars
  BY <1>8 DEF UpgradeExtension, Upgrade, deployVars, vars, toolsVars
<1>9. QED
  BY <1>1, <1>2, <1>3, <1>4, <1>5, <1>6, <1>7, <1>8 DEF Next, Deployment, Environment

LEMMA ToolsFollowInvariant == Spec => []ToolsFollow
<1>1. Init => ToolsFollow
  BY DEF Init, ToolsInit, ToolsFollow
<1>2. QED
  BY <1>1, ToolsFollowStep, TypeCorrect, PTL DEF Spec

(***************************************************************************)
(* The hashes a deployment compares with come from the "checksum" of its   *)
(* own release, complete and executable on the device, whatever upgrades   *)
(* and torn installations came before.                                     *)
(***************************************************************************)
HashesByOwnTools ==
  [][pc = "hash" /\ pc' = "scan" => binary = shipped /\ executable]_vars

THEOREM HashesByOwnToolsCorrect == Spec => HashesByOwnTools
<1>1. TypeOK /\ ReadyHasOwnBinary /\ ToolsFollow /\ [Next]_vars
        => [pc = "hash" /\ pc' = "scan" => binary = shipped /\ executable]_vars
  <2> SUFFICES ASSUME TypeOK, ReadyHasOwnBinary, ToolsFollow, Next,
                      pc = "hash", pc' = "scan"
               PROVE  binary = shipped /\ executable
    BY DEF vars
  <2>1. binary = shipped
    BY DEF ToolsFollow, ReadyHasOwnBinary
  <2>2. GetRemoteFileHashes
    BY DEF Next, Deployment, Environment, Start, InstallRemoteToolsIfNeeded,
           ComputeHashForFile, GetFilesToCopyOrDelete, DeleteRemoteFile, ConnectScp,
           CopyRemoteFile, CutOff, Finish, Fail, End, Edit, Lock, Unlock, AppWrites,
           UpgradeExtension, deployVars
  <2>3. QED
    BY <2>1, <2>2 DEF GetRemoteFileHashes, ToolsRun
<1>2. Spec => []ReadyHasOwnBinary
  BY DeltaDeployHasToolsSpec, ReadyHasOwnBinaryCorrect, PTL
<1>3. QED
  BY <1>1, <1>2, TypeCorrect, ToolsFollowInvariant, PTL DEF Spec, HashesByOwnTools

----------------------------------------------------------------------------
(***************************************************************************)
(* Why nothing the project needs is deleted, whatever the names. Once a    *)
(* file was scanned, its name is in the dictionary in some case, or the    *)
(* file was missing, or it could not be read.                              *)
(***************************************************************************)
SeenHasLocal == pc # "idle" => \A p \in Path : local[p] \in seen[p]

Scanned ==
  pc = "scan" => \A p \in Path \ unscanned :
    Holders(expectedHashes, p) = {} => NoFile \in seen[p] \/ p \in inaccessible

\* The lists live from the comparison to the end of their loops.
Lists ==
  /\ filesToDelete # {} => pc = "delete"
  /\ filesToCopy # {} => pc \in {"delete", "copy"}

GoneInv == SeenHasLocal /\ Scanned /\ Lists /\ DeletesOnlyGoneFiles

(***************************************************************************)
(* AddHash forgets no name and records the one it is given.                *)
(***************************************************************************)
LEMMA AddHashHolds ==
  ASSUME NEW V, NEW f \in [Path -> V], NEW p \in Path, NEW c \in V, c # NoFile
  PROVE  /\ Holders(AddHash(f, p, c), p) # {}
         /\ \A r \in Path : Holders(f, r) \subseteq Holders(AddHash(f, p, c), r)
<1>1. PICK key \in Path :
         /\ SameName(p, key)
         /\ \A r \in Path : AddHash(f, p, c)[r] = IF r = key THEN c ELSE f[r]
  BY AddHashKey
<1>2. key \in Holders(AddHash(f, p, c), p)
  BY <1>1 DEF Holders
<1>3. \A r \in Path : Holders(f, r) \subseteq Holders(AddHash(f, p, c), r)
  BY <1>1 DEF Holders
<1>4. QED
  BY <1>2, <1>3

LEMMA GoneInvInit == Init => GoneInv
BY DEF Init, GoneInv, SeenHasLocal, Scanned, Lists, DeletesOnlyGoneFiles

LEMMA GoneInvScan ==
  ASSUME TypeOK, GoneInv, NEW p \in Path, ComputeHashForFile(p)
  PROVE  GoneInv'
<1> USE DEF GoneInv
<1>1. SeenHasLocal' /\ Lists' /\ DeletesOnlyGoneFiles'
  <2>1. inaccessible \subseteq inaccessible'
    BY DEF ComputeHashForFile
  <2>2. QED
    BY <2>1 DEF ComputeHashForFile, SeenHasLocal, Lists, DeletesOnlyGoneFiles
<1>2. ASSUME NEW r \in Path, r \notin unscanned', Holders(expectedHashes', r) = {}
      PROVE  NoFile \in seen[r] \/ r \in inaccessible'
  <2>1. local[r] \in seen[r]
    BY DEF SeenHasLocal, ComputeHashForFile
  <2>2. CASE local[p] = NoFile \/ p \in locked
    <3>1. expectedHashes' = expectedHashes /\ inaccessible \subseteq inaccessible'
      BY <2>2 DEF ComputeHashForFile
    <3>2. CASE r = p
      BY <2>1, <2>2, <3>2 DEF ComputeHashForFile
    <3>3. CASE r # p
      BY <1>2, <3>1, <3>3 DEF ComputeHashForFile, Scanned
    <3>4. QED
      BY <3>2, <3>3
  <2>3. CASE local[p] # NoFile /\ p \notin locked
    <3>1. expectedHashes' = AddHash(expectedHashes, p, local[p])
      BY <2>3 DEF ComputeHashForFile
    <3>2. /\ Holders(expectedHashes', p) # {}
          /\ Holders(expectedHashes, r) \subseteq Holders(expectedHashes', r)
      BY <2>3, <3>1, AddHashHolds, local[p] \in File DEF TypeOK
    <3>3. r # p /\ Holders(expectedHashes, r) = {}
      BY <1>2, <3>2
    <3>4. QED
      BY <1>2, <2>3, <3>3 DEF ComputeHashForFile, Scanned
  <2>4. QED
    BY <2>2, <2>3
<1>3. Scanned'
  BY <1>2 DEF Scanned, ComputeHashForFile
<1>4. QED
  BY <1>1, <1>3

LEMMA GoneInvStep == TypeOK /\ TypeOK' /\ GoneInv /\ [Next]_vars => GoneInv'
<1> SUFFICES ASSUME TypeOK, TypeOK', GoneInv, [Next]_vars
             PROVE  GoneInv'
  OBVIOUS
<1> USE DEF GoneInv, SeenHasLocal, Scanned, Lists, DeletesOnlyGoneFiles
<1>1. CASE Start
  BY <1>1 DEF Start, TypeOK
<1>2. CASE InstallRemoteToolsIfNeeded
  BY <1>2 DEF InstallRemoteToolsIfNeeded
<1>3. CASE GetRemoteFileHashes
  BY <1>3 DEF GetRemoteFileHashes
<1>4. ASSUME NEW p \in Path, ComputeHashForFile(p)
      PROVE  GoneInv'
  BY <1>4, GoneInvScan
<1>5. CASE GetFilesToCopyOrDelete
  <2>1. PICK D \in DeleteSets(remoteFileHashes, expectedHashes) : filesToDelete' = D
    BY <1>5 DEF GetFilesToCopyOrDelete
  <2>2. D \subseteq Extra(remoteFileHashes, expectedHashes)
    BY <2>1 DEF DeleteSets, HashSets
  <2>3. \A p \in D : p \in Path /\ Holders(expectedHashes, p) = {}
    BY <2>2, ExtraHasNoHolder DEF Extra
  <2>4. QED
    BY <1>5, <2>1, <2>3 DEF GetFilesToCopyOrDelete
<1>6. ASSUME NEW p \in Path, DeleteRemoteFile(p) \/ CopyRemoteFile(p)
      PROVE  GoneInv'
  BY <1>6 DEF DeleteRemoteFile, CopyRemoteFile
<1>7. CASE ConnectScp
  BY <1>7 DEF ConnectScp
<1>8. ASSUME NEW p \in Path, CutOff(p)
      PROVE  GoneInv'
  BY <1>8 DEF CutOff, End
<1>9. CASE Finish \/ Fail
  BY <1>9 DEF Finish, Fail, End
<1>10. ASSUME NEW p \in Path, NEW c \in File, Edit(p, c)
       PROVE  GoneInv'
  <2>1. /\ seen' \in [Path -> SUBSET File]
        /\ \A r \in Path : seen[r] \subseteq seen'[r]
    BY <1>10 DEF Edit, TypeOK
  <2>2. SeenHasLocal'
    BY <1>10 DEF Edit, TypeOK
  <2>3. Scanned' /\ Lists' /\ DeletesOnlyGoneFiles'
    BY <1>10, <2>1 DEF Edit, TypeOK
  <2>4. QED
    BY <2>2, <2>3
<1>11. ASSUME NEW p \in Path, Lock(p) \/ Unlock(p)
       PROVE  GoneInv'
  BY <1>11 DEF Lock, Unlock
<1>12. ASSUME NEW p \in Path, NEW c \in File, AppWrites(p, c)
       PROVE  GoneInv'
  BY <1>12 DEF AppWrites
<1>13. CASE UpgradeExtension \/ UNCHANGED vars
  BY <1>13 DEF UpgradeExtension, deployVars, vars
<1>14. QED
  BY <1>1, <1>2, <1>3, <1>4, <1>5, <1>6, <1>7, <1>8, <1>9, <1>10, <1>11,
     <1>12, <1>13 DEF Next, Deployment, Environment

LEMMA GoneInvariant == Spec => []GoneInv
BY GoneInvInit, GoneInvStep, TypeCorrect, PTL DEF Spec

(***************************************************************************)
(* No file the project needs is on the list of deletions, for any set of   *)
(* paths, also when names clash, and whatever builds do meanwhile.         *)
(***************************************************************************)
THEOREM DeletesOnlyGoneFilesCorrect == Spec => []DeletesOnlyGoneFiles
<1>1. GoneInv => DeletesOnlyGoneFiles
  BY DEF GoneInv
<1>2. QED
  BY <1>1, GoneInvariant, PTL

----------------------------------------------------------------------------
(***************************************************************************)
(* Why a successful deployment leaves the project's files on the device.   *)
(* Comparable says what the two dictionaries hold when they are compared:  *)
(* the device's is current but for the files its program wrote, the local  *)
(* one has a version the project had. Pending says that from then on what  *)
(* is not right on the device is still on one of the lists. All of it is   *)
(* about the paths that have a name of their own; Apart is about every     *)
(* path, and keeps an upload from bringing a deleted name back.            *)
(***************************************************************************)
Comparable ==
  pc = "scan" => \A p \in OwnName :
    /\ p \notin touched => remoteFileHashes[p] = remote[p]
    /\ p \in unscanned => expectedHashes[p] = NoFile
    /\ p \notin unscanned \cup inaccessible => expectedHashes[p] \in seen[p]

Pending ==
  pc \in {"delete", "copy"} =>
    \A p \in OwnName \ (touched \cup inaccessible) :
      remote[p] \in seen[p] \/ p \in filesToCopy \cup filesToDelete

Verdict == outcome = "ok" => pc = "idle"

Apart == \A p \in filesToCopy, q \in filesToDelete : ~ SameName(p, q)

MirrorInv ==
  /\ Comparable
  /\ Pending
  /\ Verdict
  /\ Apart
  /\ MirrorOnSuccess
  /\ OnlyDifferencesTravel

LEMMA OwnNameIsPath == OwnName \subseteq Path
BY DEF OwnName

LEMMA MirrorInvInit == Init => MirrorInv
BY DEF Init, MirrorInv, Comparable, Pending, Verdict, Apart, MirrorOnSuccess,
       OnlyDifferencesTravel

(***************************************************************************)
(* The steps of a deployment that do not touch the device.                 *)
(***************************************************************************)
LEMMA MirrorInvScan ==
  ASSUME TypeOK, GoneInv, MirrorInv, NEW p \in Path, ComputeHashForFile(p)
  PROVE  MirrorInv'
<1> USE DEF MirrorInv
<1>1. inaccessible \subseteq inaccessible'
  BY DEF ComputeHashForFile
<1>2. local[p] \in seen[p]
  BY DEF ComputeHashForFile, GoneInv, SeenHasLocal
<1>3. \A r \in OwnName :
        AddHash(expectedHashes, p, local[p])[r] = IF r = p THEN local[p] ELSE expectedHashes[r]
  BY AddHashOwn DEF TypeOK
<1>4. Comparable'
  <2>1. CASE local[p] = NoFile
    BY <1>2, <2>1, OwnNameIsPath DEF Comparable, ComputeHashForFile
  <2>2. CASE local[p] # NoFile /\ p \in locked
    BY <2>2, OwnNameIsPath DEF Comparable, ComputeHashForFile
  <2>3. CASE local[p] # NoFile /\ p \notin locked
    BY <1>2, <1>3, <2>3, OwnNameIsPath DEF Comparable, ComputeHashForFile
  <2>4. QED
    BY <2>1, <2>2, <2>3
<1>5. (Pending /\ Verdict /\ Apart)'
  BY <1>1 DEF Pending, Verdict, Apart, ComputeHashForFile
<1>6. MirrorOnSuccess' /\ OnlyDifferencesTravel'
  BY <1>1 DEF MirrorOnSuccess, OnlyDifferencesTravel, ComputeHashForFile
<1>7. QED
  BY <1>4, <1>5, <1>6

LEMMA MirrorInvCompare ==
  ASSUME TypeOK, GoneInv, MirrorInv, GetFilesToCopyOrDelete
  PROVE  MirrorInv'
<1> USE DEF MirrorInv
<1>1. PICK C \in CopySets(remoteFileHashes, expectedHashes) : filesToCopy' = C
  BY DEF GetFilesToCopyOrDelete
<1>2. PICK D \in DeleteSets(remoteFileHashes, expectedHashes) : filesToDelete' = D
  BY DEF GetFilesToCopyOrDelete
<1>3. \A p \in OwnName :
        /\ p \in C <=> expectedHashes[p] # NoFile /\ expectedHashes[p] # remoteFileHashes[p]
        /\ p \in D <=> remoteFileHashes[p] # NoFile /\ expectedHashes[p] = NoFile
  BY ComparisonExact
<1>4. ASSUME NEW p \in OwnName \ (touched \cup inaccessible)
      PROVE  remoteFileHashes[p] = remote[p] /\ expectedHashes[p] \in seen[p]
  BY OwnNameIsPath DEF Comparable, GetFilesToCopyOrDelete
<1>5. Comparable' /\ Verdict'
  BY DEF Comparable, Verdict, GetFilesToCopyOrDelete
<1>6. Pending'
  <2> SUFFICES ASSUME NEW p \in OwnName \ (touched \cup inaccessible),
                      remote[p] \notin seen[p]
               PROVE  p \in C \cup D
    BY <1>1, <1>2 DEF Pending, GetFilesToCopyOrDelete
  <2>1. expectedHashes[p] # remoteFileHashes[p]
    BY <1>4
  <2>2. QED
    BY <1>3, <2>1
<1>7. Apart'
  BY <1>1, <1>2, ComparisonApart DEF Apart
<1>8. OnlyDifferencesTravel'
  <2> SUFFICES ASSUME NEW p \in OwnName \ (touched \cup inaccessible), p \in C \cup D,
                      NEW c \in File, seen[p] = {c}
               PROVE  remote[p] # c
    BY <1>1, <1>2 DEF OnlyDifferencesTravel, GetFilesToCopyOrDelete
  <2>1. remoteFileHashes[p] = remote[p] /\ expectedHashes[p] = c
    BY <1>4
  <2>2. QED
    BY <1>3, <2>1
<1>9. MirrorOnSuccess'
  BY DEF MirrorOnSuccess, Verdict, GetFilesToCopyOrDelete
<1>10. QED
  BY <1>5, <1>6, <1>7, <1>8, <1>9

(***************************************************************************)
(* The steps that change the device.                                       *)
(***************************************************************************)
LEMMA MirrorInvDelete ==
  ASSUME TypeOK, GoneInv, MirrorInv, NEW p \in Path, DeleteRemoteFile(p)
  PROVE  MirrorInv'
<1> USE DEF MirrorInv, DeleteRemoteFile
<1>1. NoFile \in seen[p] \/ p \in inaccessible
  BY DEF GoneInv, DeletesOnlyGoneFiles
<1>2. \A r \in Path : remote'[r] = IF r = p THEN NoFile ELSE remote[r]
  BY DEF TypeOK
<1>3. Pending'
  BY <1>1, <1>2, OwnNameIsPath DEF Pending
<1>4. OnlyDifferencesTravel'
  <2> SUFFICES ASSUME NEW r \in OwnName \ (touched \cup inaccessible),
                      r \in filesToCopy \cup filesToDelete',
                      NEW c \in File, seen[r] = {c}
               PROVE  remote'[r] # c
    BY DEF OnlyDifferencesTravel
  <2>1. p \notin filesToCopy
    BY DEF Apart, SameName
  <2>2. r # p /\ r \in filesToCopy \cup filesToDelete
    BY <2>1
  <2>3. QED
    BY <1>2, <2>2, OwnNameIsPath DEF OnlyDifferencesTravel
<1>5. Apart'
  BY DEF Apart
<1>6. QED
  BY <1>3, <1>4, <1>5 DEF Comparable, Verdict, MirrorOnSuccess

LEMMA MirrorInvCopy ==
  ASSUME TypeOK, GoneInv, MirrorInv, NEW p \in Path, CopyRemoteFile(p)
  PROVE  MirrorInv'
<1> USE DEF MirrorInv, CopyRemoteFile
<1>1. p \in OwnName => TryGetValue(local, p) \in seen[p]
  BY TryGetValueOwn DEF GoneInv, SeenHasLocal
<1>2. \A r \in Path : remote'[r] = IF r = p THEN TryGetValue(local, p) ELSE remote[r]
  BY DEF TypeOK
<1>3. Pending'
  BY <1>1, <1>2, OwnNameIsPath DEF Pending
<1>4. OnlyDifferencesTravel'
  <2> SUFFICES ASSUME NEW r \in OwnName \ (touched \cup inaccessible),
                      r \in filesToCopy' \cup filesToDelete,
                      NEW c \in File, seen[r] = {c}
               PROVE  remote'[r] # c
    BY DEF OnlyDifferencesTravel
  <2>1. p \notin filesToDelete
    BY DEF Apart, SameName
  <2>2. r # p /\ r \in filesToCopy \cup filesToDelete
    BY <2>1
  <2>3. QED
    BY <1>2, <2>2, OwnNameIsPath DEF OnlyDifferencesTravel
<1>5. Apart'
  BY DEF Apart
<1>6. QED
  BY <1>3, <1>4, <1>5 DEF Comparable, Verdict, MirrorOnSuccess

(***************************************************************************)
(* The ends of a deployment.                                               *)
(***************************************************************************)
LEMMA MirrorInvEnd ==
  ASSUME GoneInv, MirrorInv, Finish \/ Fail \/ \E p \in Path : CutOff(p)
  PROVE  MirrorInv'
<1> USE DEF MirrorInv, End, Apart
<1>1. CASE Finish
  <2>1. filesToCopy = {} /\ filesToDelete = {} /\ pc = "copy"
    BY <1>1 DEF Finish, GoneInv, Lists
  <2>2. \A p \in OwnName \ (touched \cup inaccessible) : remote[p] \in seen[p]
    BY <2>1 DEF Pending
  <2>3. QED
    BY <1>1, <2>2 DEF Finish, Comparable, Pending, Verdict, MirrorOnSuccess,
                      OnlyDifferencesTravel
<1>2. CASE Fail
  BY <1>2 DEF Fail, Comparable, Pending, Verdict, MirrorOnSuccess, OnlyDifferencesTravel
<1>3. CASE \E p \in Path : CutOff(p)
  BY <1>3 DEF CutOff, Comparable, Pending, Verdict, MirrorOnSuccess, OnlyDifferencesTravel
<1>4. QED
  BY <1>1, <1>2, <1>3

LEMMA MirrorInvEdit ==
  ASSUME TypeOK, GoneInv, MirrorInv, NEW p \in Path, NEW c \in File, Edit(p, c)
  PROVE  MirrorInv'
<1> USE DEF MirrorInv, Edit
<1>1. \A r \in Path : seen[r] \subseteq seen'[r]
  BY DEF TypeOK
<1>2. Comparable' /\ Pending' /\ Verdict' /\ Apart' /\ MirrorOnSuccess'
  BY <1>1, OwnNameIsPath DEF Comparable, Pending, Verdict, Apart, MirrorOnSuccess
<1>3. OnlyDifferencesTravel'
  <2> SUFFICES ASSUME NEW r \in OwnName \ (touched \cup inaccessible),
                      r \in filesToCopy \cup filesToDelete,
                      NEW d \in File, seen'[r] = {d}
               PROVE  remote[r] # d
    BY DEF OnlyDifferencesTravel
  <2>1. r \in Path /\ pc # "idle"
    BY DEF TypeOK, GoneInv, Lists
  <2>2. seen[r] = {d}
    BY <1>1, <2>1 DEF GoneInv, SeenHasLocal
  <2>3. QED
    BY <2>2 DEF OnlyDifferencesTravel
<1>4. QED
  BY <1>2, <1>3

LEMMA MirrorInvStep ==
  ASSUME TypeOK, TypeOK', GoneInv, MirrorInv, [Next]_vars
  PROVE  MirrorInv'
<1> USE DEF MirrorInv, Comparable, Pending, Verdict, Apart, MirrorOnSuccess,
            OnlyDifferencesTravel
<1>1. CASE Start
  BY <1>1 DEF Start, GoneInv, Lists
<1>2. CASE InstallRemoteToolsIfNeeded
  BY <1>2 DEF InstallRemoteToolsIfNeeded
<1>3. CASE GetRemoteFileHashes
  <2>1. \A p \in OwnName : expectedHashes'[p] = NoFile /\ p \in unscanned'
    BY <1>3, OwnNameIsPath DEF GetRemoteFileHashes, Nothing
  <2>2. \A p \in OwnName : remoteFileHashes'[p] = remote'[p]
    BY <1>3, ScansOwn DEF GetRemoteFileHashes
  <2>3. QED
    BY <1>3, <2>1, <2>2 DEF GetRemoteFileHashes
<1>4. ASSUME NEW p \in Path, ComputeHashForFile(p)
      PROVE  MirrorInv'
  BY <1>4, MirrorInvScan
<1>5. CASE GetFilesToCopyOrDelete
  BY <1>5, MirrorInvCompare
<1>6. ASSUME NEW p \in Path, DeleteRemoteFile(p)
      PROVE  MirrorInv'
  BY <1>6, MirrorInvDelete
<1>7. CASE ConnectScp
  BY <1>7 DEF ConnectScp
<1>8. ASSUME NEW p \in Path, CopyRemoteFile(p)
      PROVE  MirrorInv'
  BY <1>8, MirrorInvCopy
<1>9. CASE Finish \/ Fail \/ \E p \in Path : CutOff(p)
  BY <1>9, MirrorInvEnd
<1>10. ASSUME NEW p \in Path, NEW c \in File, Edit(p, c)
       PROVE  MirrorInv'
  BY <1>10, MirrorInvEdit
<1>11. ASSUME NEW p \in Path, Lock(p) \/ Unlock(p)
       PROVE  MirrorInv'
  BY <1>11 DEF Lock, Unlock
<1>12. ASSUME NEW p \in Path, NEW c \in File, AppWrites(p, c)
       PROVE  MirrorInv'
  <2>1. \A r \in OwnName \ touched' : remote'[r] = remote[r]
    BY <1>12, OwnNameIsPath DEF AppWrites, TypeOK
  <2>2. touched \subseteq touched'
    BY <1>12 DEF AppWrites
  <2>3. QED
    BY <1>12, <2>1, <2>2 DEF AppWrites
<1>13. CASE UpgradeExtension \/ UNCHANGED vars
  BY <1>13 DEF UpgradeExtension, deployVars, vars
<1>14. QED
  BY <1>1, <1>2, <1>3, <1>4, <1>5, <1>6, <1>7, <1>8, <1>9, <1>10, <1>11,
     <1>12, <1>13 DEF Next, Deployment, Environment

LEMMA MirrorInvariant == Spec => []MirrorInv
<1>1. TypeOK /\ TypeOK' /\ GoneInv /\ MirrorInv /\ [Next]_vars => MirrorInv'
  BY MirrorInvStep
<1>2. QED
  BY <1>1, MirrorInvInit, TypeCorrect, GoneInvariant, PTL DEF Spec

(***************************************************************************)
(* A deployment that reports success has mirrored the project, path by     *)
(* path, for every set of paths.                                           *)
(***************************************************************************)
THEOREM MirrorOnSuccessCorrect == Spec => []MirrorOnSuccess
<1>1. MirrorInv => MirrorOnSuccess
  BY DEF MirrorInv
<1>2. QED
  BY <1>1, MirrorInvariant, PTL

(***************************************************************************)
(* No file that is already right is sent or deleted.                       *)
(***************************************************************************)
THEOREM OnlyDifferencesTravelCorrect == Spec => []OnlyDifferencesTravel
<1>1. MirrorInv => OnlyDifferencesTravel
  BY DEF MirrorInv
<1>2. QED
  BY <1>1, MirrorInvariant, PTL

----------------------------------------------------------------------------
(***************************************************************************)
(* The delta deployment implements FolderMirror: every step of it is one   *)
(* of the abstract deployment or leaves the mapped variables alone.        *)
(***************************************************************************)
LEMMA OwnOf == ASSUME NEW f, NEW p \in OwnName PROVE Own(f)[p] = f[p]
BY DEF Own

(***************************************************************************)
(* A file that changes is, seen through Own, the same file or none.        *)
(***************************************************************************)
LEMMA OwnRemote ==
  ASSUME TypeOK, NEW p \in Path, NEW c, remote' = [remote EXCEPT ![p] = c]
  PROVE  /\ p \in OwnName => Own(remote') = [Own(remote) EXCEPT ![p] = c]
         /\ p \notin OwnName => Own(remote') = Own(remote)
<1>1. \A r \in OwnName : remote'[r] = IF r = p THEN c ELSE remote[r]
  BY OwnNameIsPath DEF TypeOK
<1>2. QED
  BY <1>1 DEF Own

LEMMA MirrorsInit == Init => Mirror!Init
<1> SUFFICES ASSUME Init
             PROVE  Mirror!Init
  OBVIOUS
<1>1. Own(local) \in [OwnName -> Mirror!File]
  BY OwnNameIsPath DEF Init, LocalFolders, File, Mirror!File, Own
<1>2. Own(remote) \in [OwnName -> Mirror!File]
  BY OwnNameIsPath DEF Init, Nothing, Mirror!File, Own
<1>3. Own(seen) = [p \in OwnName |-> {Own(local)[p]}]
  BY OwnNameIsPath DEF Init, Own
<1>4. QED
  BY <1>1, <1>2, <1>3 DEF Init, Mirror!Init

LEMMA MirrorsDeployment ==
  ASSUME TypeOK, TypeOK', GoneInv, MirrorInv, Deployment
  PROVE  Mirror!Next \/ UNCHANGED Mirror!mirrorVars
<1> USE DEF Mirror!mirrorVars, Mirror!Next
<1>1. CASE InstallRemoteToolsIfNeeded
  <2>1. CASE toolsStep' = "out"
    BY <1>1, <2>1 DEF InstallRemoteToolsIfNeeded, Mirror!GiveUp, Own
  <2>2. CASE toolsStep' # "out"
    BY <1>1, <2>2 DEF InstallRemoteToolsIfNeeded, Own
  <2>3. QED
    BY <2>1, <2>2
<1>2. CASE GetRemoteFileHashes \/ GetFilesToCopyOrDelete \/ ConnectScp
  BY <1>2 DEF GetRemoteFileHashes, GetFilesToCopyOrDelete, ConnectScp, Own
<1>3. ASSUME NEW p \in Path, ComputeHashForFile(p)
      PROVE  Mirror!MissSource \/ UNCHANGED Mirror!mirrorVars
  <2>1. UNCHANGED <<Own(local), Own(remote), pc, outcome, Own(seen), touched>> /\ pc # "idle"
    BY <1>3 DEF ComputeHashForFile, Own
  <2>2. inaccessible' = inaccessible \/ inaccessible' = inaccessible \cup {p}
    BY <1>3 DEF ComputeHashForFile
  <2>3. CASE p \in OwnName
    BY <2>1, <2>2, <2>3 DEF Mirror!MissSource
  <2>4. CASE p \notin OwnName
    BY <2>1, <2>2, <2>4
  <2>5. QED
    BY <2>3, <2>4
<1>4. ASSUME NEW p \in Path, NEW c \in File, pc # "idle",
             c \in seen[p] \/ (c = NoFile /\ p \in inaccessible) \/ p \notin OwnName,
             remote' = [remote EXCEPT ![p] = c],
             UNCHANGED <<local, pc, outcome, seen, touched, inaccessible>>
      PROVE  Mirror!Transfer \/ UNCHANGED Mirror!mirrorVars
  <2>1. UNCHANGED <<Own(local), Own(seen)>>
    BY <1>4 DEF Own
  <2>2. CASE p \in OwnName
    <3>1. Own(remote') = [Own(remote) EXCEPT ![p] = c]
      BY <1>4, <2>2, OwnRemote
    <3>2. c \in Own(seen)[p] \/ (c = NoFile /\ p \in inaccessible \cap OwnName)
      BY <1>4, <2>2, OwnOf
    <3>3. c \in Mirror!File
      BY DEF File, Mirror!File
    <3>4. QED
      BY <1>4, <2>1, <2>2, <3>1, <3>2, <3>3 DEF Mirror!Transfer
  <2>3. CASE p \notin OwnName
    <3>1. Own(remote') = Own(remote)
      BY <1>4, <2>3, OwnRemote
    <3>2. QED
      BY <1>4, <2>1, <3>1
  <2>4. QED
    BY <2>2, <2>3
<1>5. ASSUME NEW p \in Path, DeleteRemoteFile(p)
      PROVE  Mirror!Transfer \/ UNCHANGED Mirror!mirrorVars
  <2>1. NoFile \in seen[p] \/ p \in inaccessible
    BY <1>5 DEF DeleteRemoteFile, GoneInv, DeletesOnlyGoneFiles
  <2>2. NoFile \in File
    BY DEF File
  <2>3. QED
    BY <1>4, <1>5, <2>1, <2>2 DEF DeleteRemoteFile
<1>6. ASSUME NEW p \in Path, CopyRemoteFile(p)
      PROVE  Mirror!Transfer \/ UNCHANGED Mirror!mirrorVars
  <2>1. TryGetValue(local, p) \in File
    BY TryGetValueType DEF TypeOK, File
  <2>2. p \in OwnName => TryGetValue(local, p) \in seen[p]
    BY <1>6, TryGetValueOwn DEF CopyRemoteFile, GoneInv, SeenHasLocal
  <2>3. QED
    BY <1>4, <1>6, <2>1, <2>2 DEF CopyRemoteFile
<1>7. CASE Finish
  <2>1. \A p \in OwnName \ (touched \cup inaccessible) : remote[p] \in seen[p]
    BY <1>7 DEF Finish, GoneInv, Lists, MirrorInv, Pending
  <2>2. \A p \in OwnName \ ((touched \cap OwnName) \cup (inaccessible \cap OwnName)) :
          Own(remote)[p] \in Own(seen)[p]
    BY <2>1, OwnOf
  <2>3. QED
    BY <1>7, <2>2 DEF Finish, End, Mirror!Succeed, Own
<1>8. ASSUME NEW p \in Path, CutOff(p)
      PROVE  Mirror!GiveUp
  <2>1. \/ Own(remote') = Own(remote)
        \/ \E r \in OwnName : Own(remote') = [Own(remote) EXCEPT ![r] = Garbage]
    <3>1. remote' = [remote EXCEPT ![p] = Garbage]
      BY <1>8 DEF CutOff
    <3>2. QED
      BY <3>1, OwnRemote
  <2>2. UNCHANGED <<Own(local), Own(seen), touched, inaccessible>>
    BY <1>8 DEF CutOff, End, Own
  <2>3. QED
    BY <1>8, <2>1, <2>2 DEF CutOff, End, Mirror!GiveUp
<1>9. CASE Fail
  BY <1>9 DEF Fail, End, Mirror!GiveUp, Own
<1>10. QED
  BY <1>1, <1>2, <1>3, <1>5, <1>6, <1>7, <1>8, <1>9 DEF Deployment

LEMMA MirrorsEnvironment ==
  ASSUME TypeOK, TypeOK', GoneInv, Environment
  PROVE  Mirror!Next \/ UNCHANGED Mirror!mirrorVars
<1> USE DEF Mirror!mirrorVars, Mirror!Next
<1>1. ASSUME NEW p \in Path, NEW c \in File, Edit(p, c)
      PROVE  Mirror!ChangeSource
  <2>1. Own(local') \in [OwnName -> Mirror!File]
    BY OwnNameIsPath DEF TypeOK, File, Mirror!File, Own
  <2>2. ASSUME pc # "idle"
        PROVE  Own(seen') = [r \in OwnName |-> Own(seen)[r] \cup {Own(local')[r]}]
    <3>1. seen' = [seen EXCEPT ![p] = @ \cup {c}]
      BY <1>1, <2>2 DEF Edit
    <3>2. \A r \in Path : local'[r] = IF r = p THEN c ELSE local[r]
      BY <1>1 DEF Edit, TypeOK
    <3>3. \A r \in Path : seen'[r] = seen[r] \cup {local'[r]}
      BY <2>2, <3>1, <3>2 DEF TypeOK, GoneInv, SeenHasLocal
    <3>4. \A r \in OwnName : seen'[r] = Own(seen)[r] \cup {Own(local')[r]}
      BY <3>3, OwnNameIsPath, OwnOf
    <3>5. QED
      BY <3>4 DEF Own
  <2>3. pc = "idle" => Own(seen') = Own(seen)
    BY <1>1 DEF Edit
  <2>4. UNCHANGED <<Own(remote), pc, outcome, touched, inaccessible>>
    BY <1>1 DEF Edit, Own
  <2>5. QED
    BY <2>1, <2>2, <2>3, <2>4 DEF Mirror!ChangeSource
<1>2. ASSUME NEW p \in Path, Lock(p) \/ Unlock(p)
      PROVE  UNCHANGED Mirror!mirrorVars
  BY <1>2 DEF Lock, Unlock, Own
<1>3. ASSUME NEW p \in Path, NEW c \in File, AppWrites(p, c)
      PROVE  Mirror!ChangeTarget \/ UNCHANGED Mirror!mirrorVars
  <2>1. UNCHANGED <<Own(local), pc, outcome, Own(seen), inaccessible>>
    BY <1>3 DEF AppWrites, Own
  <2>2. CASE p \in OwnName
    <3>1. Own(remote') = [Own(remote) EXCEPT ![p] = c]
      BY <1>3, <2>2, OwnRemote DEF AppWrites
    <3>2. touched' \cap OwnName = (touched \cap OwnName) \cup {p}
      BY <1>3, <2>2 DEF AppWrites
    <3>3. c \in Mirror!File
      BY DEF File, Mirror!File
    <3>4. QED
      BY <2>1, <2>2, <3>1, <3>2, <3>3 DEF Mirror!ChangeTarget
  <2>3. CASE p \notin OwnName
    <3>1. Own(remote') = Own(remote) /\ touched' \cap OwnName = touched \cap OwnName
      BY <1>3, <2>3, OwnRemote DEF AppWrites
    <3>2. QED
      BY <2>1, <3>1
  <2>4. QED
    BY <2>2, <2>3
<1>4. CASE UpgradeExtension
  BY <1>4 DEF UpgradeExtension, deployVars, Own
<1>5. QED
  BY <1>1, <1>2, <1>3, <1>4 DEF Environment

(***************************************************************************)
(* On the paths that have a name of their own the delta deployment is a    *)
(* FolderMirror, for every set of paths and whatever happens to the rest.  *)
(***************************************************************************)
THEOREM ImplementsFolderMirrorCorrect == Spec => ImplementsFolderMirror
<1>1. ASSUME TypeOK, TypeOK', GoneInv, MirrorInv, [Next]_vars
      PROVE  [Mirror!Next]_Mirror!mirrorVars
  <2>1. CASE Start
    <3>1. Own(seen') = [p \in OwnName |-> {Own(local)[p]}]
      BY <2>1, OwnNameIsPath DEF Start, Own
    <3>2. Mirror!Begin
      BY <2>1, <3>1 DEF Start, Mirror!Begin, Own
    <3>3. QED
      BY <3>2 DEF Mirror!Next
  <2>2. CASE Deployment
    BY <1>1, <2>2, MirrorsDeployment
  <2>3. CASE Environment
    BY <1>1, <2>3, MirrorsEnvironment
  <2>4. CASE UNCHANGED vars
    BY <2>4 DEF vars, deployVars, Mirror!mirrorVars, Own
  <2>5. QED
    BY <1>1, <2>1, <2>2, <2>3, <2>4 DEF Next
<1>2. QED
  BY <1>1, MirrorsInit, TypeCorrect, GoneInvariant, MirrorInvariant, PTL
     DEF Spec, ImplementsFolderMirror, Mirror!Spec

(***************************************************************************)
(* FolderMirror is strong enough: whatever implements it keeps the promise *)
(* of a deployment that reports success. The verdict stays right while     *)
(* nothing runs, because what changes the target then is foreign.          *)
(***************************************************************************)
Promise ==
  /\ pc # "idle" => outcome # "ok"
  /\ outcome = "ok" =>
       \A p \in OwnName \ ((touched \cap OwnName) \cup (inaccessible \cap OwnName)) :
         Own(remote)[p] \in Own(seen)[p]

THEOREM FolderMirrorKeepsPromise == ImplementsFolderMirror => []MirrorOnSuccess
<1>1. Mirror!Init => Promise
  BY DEF Mirror!Init, Promise, Own
<1>2. Promise /\ [Mirror!Next]_Mirror!mirrorVars => Promise'
  <2> SUFFICES ASSUME Promise, [Mirror!Next]_Mirror!mirrorVars
               PROVE  Promise'
    OBVIOUS
  <2> USE DEF Promise
  <2>0. DOMAIN Own(remote) = OwnName
    BY DEF Own
  <2>1. CASE Mirror!ChangeSource
    BY <2>0, <2>1 DEF Mirror!ChangeSource
  <2>2. CASE Mirror!ChangeTarget
    BY <2>0, <2>2 DEF Mirror!ChangeTarget
  <2>3. CASE Mirror!Begin
    BY <2>0, <2>3 DEF Mirror!Begin
  <2>4. CASE Mirror!MissSource \/ Mirror!Transfer
    BY <2>0, <2>4 DEF Mirror!MissSource, Mirror!Transfer
  <2>5. CASE Mirror!Succeed
    BY <2>0, <2>5 DEF Mirror!Succeed
  <2>6. CASE Mirror!GiveUp
    BY <2>0, <2>6 DEF Mirror!GiveUp
  <2>7. CASE UNCHANGED Mirror!mirrorVars
    BY <2>0, <2>7 DEF Mirror!mirrorVars
  <2>8. QED
    BY <2>1, <2>2, <2>3, <2>4, <2>5, <2>6, <2>7 DEF Mirror!Next
<1>3. Promise => MirrorOnSuccess
  BY OwnOf DEF Promise, MirrorOnSuccess
<1>4. QED
  BY <1>1, <1>2, <1>3, PTL DEF ImplementsFolderMirror, Mirror!Spec
=============================================================================
