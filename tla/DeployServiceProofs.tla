-------------------------- MODULE DeployServiceProofs --------------------------
(***************************************************************************)
(* Proofs about DeployService, for any set of profiles, any number of      *)
(* additional files and directories with any targets, and any number of    *)
(* builds: its invariants, that it implements AppDeployment, and that what *)
(* implements AppDeployment completes with what was asked for.             *)
(***************************************************************************)
EXTENDS DeployService, TLAPS

LEMMA ProfileFields ==
  ASSUME NEW P \in AnyProfile
  PROVE  /\ P.publish \in {"no", "framework", "self"}
         /\ P.transfer \in {"full", "delta"}
         /\ P.clean \in BOOLEAN /\ P.deployOnStart \in BOOLEAN
         /\ P.files \in Seq(File \cup {"missing"})
         /\ P.directories \in Seq(Directory \cup {"missing"})
         /\ Len(P.files) \in Nat /\ Len(P.directories) \in Nat
         /\ DOMAIN P.files = 1..Len(P.files)
         /\ DOMAIN P.directories = 1..Len(P.directories)
  BY DEF AnyProfile

LEMMA ProfileType == TypeOK => profile \in AnyProfile
  BY DeployServiceAssumption DEF TypeOK

\* The target of a directory that is there, and the application's.
LEMMA TargetType ==
  ASSUME NEW P \in AnyProfile, NEW n \in Nat, n <= Len(P.directories),
         n >= 1 => "missing" \notin Range(P.directories)
  PROVE  /\ (IF n = 0 THEN "app" ELSE P.directories[n]) \in Folder
         /\ n >= 1 => /\ P.directories[n] \in Directory
                      /\ P.directories[n] \in Range(P.directories)
                      /\ P.directories[n] # "app" /\ P.directories[n] # "missing"
<1>1. CASE n = 0
  BY <1>1 DEF Folder
<1>2. CASE n >= 1
  <2>1. n \in DOMAIN P.directories /\ P.directories[n] \in Directory \cup {"missing"}
    BY <1>2, ProfileFields
  <2>2. P.directories[n] \in Range(P.directories)
    BY <2>1 DEF Range
  <2> QED BY <1>2, <2>1, <2>2, DeployServiceAssumption DEF Folder
<1> QED BY <1>1, <1>2

LEMMA FirstStepType == FirstStep \in {"clean", "mkdir"} /\ (FirstStep = "mkdir" => ~ profile.clean)
  BY DEF FirstStep

LEMMA FoldersAndPlaces ==
  /\ App = {"main", "asset"} /\ App \subseteq Place /\ "main" \in Place /\ "asset" \in Place
  /\ "app" \in Folder /\ Directory \subseteq Folder /\ Directory \subseteq Place /\ File \subseteq Place
  /\ \A f \in Folder : Seen[f] \subseteq Inside[f] /\ Inside[f] \subseteq Place
  /\ \A d \in Directory : d # "app" /\ d \notin App
  /\ \A p \in File : p \notin App
  BY DeployServiceAssumption DEF App, Place, Folder

\* Where a call goes that returns, or ends in an exception.
LEMMA ThrowType ==
  ASSUME TypeOK, NEW exception \in {"launcher", "session"}, Throw(exception)
  PROVE  /\ pc' \in {"idle", "before"}
         /\ caller' \in {"nobody", "menu", "command", "solution", "launch"}
         /\ at' = 0
  BY DEF TypeOK, Throw, Return, End

LEMMA ReturnType ==
  ASSUME TypeOK, Return
  PROVE  /\ pc' \in {"idle", "before", "query"}
         /\ caller' \in {"nobody", "menu", "command", "solution", "launch"}
         /\ at' = 0
  BY DEF TypeOK, Return, End

LEMMA NumbersType ==
  ASSUME TypeOK
  PROVE  /\ build \in Nat /\ began \in Nat /\ at \in Nat /\ MaxBuild \in Nat /\ build >= 1
         /\ build \in 0..MaxBuild /\ 0 \in 0..MaxBuild
         /\ \A p \in App : publishFolder[p] \in Nat
         /\ \A p \in Place : device[p] \in Nat
<1>1. MaxBuild \in Nat /\ \A n \in 0..MaxBuild : n \in Nat
  BY DeployServiceAssumption
<1> QED BY <1>1 DEF TypeOK

LEMMA VersionType ==
  ASSUME TypeOK, NEW p
  PROVE  Version(p) \in 0..MaxBuild
  BY NumbersType DEF Version, TypeOK

\* What an upload leaves at a place.
LEMMA UploadedValue ==
  ASSUME NEW f \in Folder, NEW p \in Place
  PROVE  /\ p \in Source(f) => Uploaded(f)[p] = Version(p)
         /\ p \in Inside[f] \ Source(f) /\ profile.transfer = "delta" => Uploaded(f)[p] = 0
         /\ p \notin Source(f) /\ ~ (p \in Inside[f] /\ profile.transfer = "delta")
              => Uploaded(f)[p] = device[p]
  BY DEF Uploaded

LEMMA UploadedType ==
  ASSUME TypeOK, NEW f \in Folder
  PROVE  Uploaded(f) \in [Place -> 0..MaxBuild]
<1>1. ASSUME NEW p \in Place
      PROVE  Uploaded(f)[p] \in 0..MaxBuild
  <2>1. device[p] \in 0..MaxBuild /\ 0 \in 0..MaxBuild
    BY NumbersType DEF TypeOK
  <2> QED BY <2>1, UploadedValue, VersionType
<1> QED BY <1>1 DEF Uploaded

LEMMA ModeType ==
  ASSUME executable' \in ModeAfterUpload
  PROVE  executable' \in BOOLEAN
<1>1. ModeAfterUpload \in SUBSET BOOLEAN
  BY Zenon DEF ModeAfterUpload
<1> QED BY <1>1

----------------------------------------------------------------------------
(***************************************************************************)
(* The invariant. Where the loops are.                                     *)
(***************************************************************************)
WhichFolder ==
  /\ pc \notin InFolder \cup {"files", "directories"} => at = 0
  /\ pc = "files" => at <= Len(profile.files)
  /\ pc \in InFolder \cup {"directories"} =>
       /\ at <= Len(profile.directories)
       /\ at >= 1 => "missing" \notin Range(profile.directories)

\* A deployment that runs knows its build, and has published if it is asked to.
Begun ==
  /\ began <= build
  /\ pc \in {"connect", "publish"} \cup Deploying => began >= 1 /\ complete = FALSE
  /\ pc \in {"connect", "publish"} => published = FALSE /\ unnoticed = {}
  /\ pc = "publish" => profile.publish # "no"

Published ==
  pc \in Deploying =>
    /\ published = TRUE <=> profile.publish # "no"
    /\ published = TRUE => \A p \in App \ Doubtful : publishFolder[p] >= began

(***************************************************************************)
(* What the deployment has brought after m files and n directories, and    *)
(* what of it is there: n directories may have taken some of it.           *)
(***************************************************************************)
Brought(m, n) ==
  ({"main"} \cup (IF profile.publish = "no" THEN {} ELSE {"asset"})
            \cup {profile.files[i] : i \in 1..m} \cup {profile.directories[i] : i \in 1..n})
    \ {"missing"}

Settled(p, n) == IF p \in Overrun(n) THEN device[p] = 0 ELSE device[p] >= began

AllSettled(m, n) == \A p \in Brought(m, n) \ Doubtful : Settled(p, n)

Files == Len(profile.files)

Landed ==
  /\ pc = "chmod" => AllSettled(0, 0)
  /\ pc = "files" => AllSettled(at, 0)
  /\ pc = "directories" => AllSettled(Files, at)
  /\ pc \in InFolder /\ at >= 1 =>
       \A p \in Brought(Files, at - 1) \ (Doubtful \cup Taken(folder) \cup {folder}) :
         Settled(p, at - 1)

\* A folder that is cleaned first is clean until its upload.
Cleaned ==
  /\ pc = "clean" => profile.clean
  /\ pc \in {"mkdir", "upload"} /\ profile.clean => \A p \in Seen[folder] : device[p] = 0

\* Nothing else is left in the first n targets.
NothingElse(n) == \A i \in 0..n : \A p \in Taken(Target(i)) \ Wanted : device[p] = 0

NoLeftovers ==
  /\ pc \in {"chmod", "files"} => NothingElse(0)
  /\ pc = "directories" => NothingElse(at)
  /\ pc \in InFolder /\ at >= 1 => NothingElse(at - 1)

Executable ==
  (pc \in {"files", "directories"} \/ (pc \in InFolder /\ at >= 1)) =>
    (profile.publish = "self" /\ device["main"] # 0 /\ "chmod" \notin unnoticed
       => executable = TRUE)

\* A launch that deploys itself has completed the deployment.
LaunchDeployed ==
  pc \in {"query", "debugging"} /\ profile.deployOnStart => complete = TRUE

DeployInv ==
  /\ TypeOK /\ WhichFolder /\ Begun /\ Published
  /\ Landed /\ Cleaned /\ NoLeftovers /\ Executable
  /\ LaunchDeployed
  /\ CompleteHasAll /\ CompleteHasNoLeftovers /\ CompleteIsExecutable

LEMMA DeployInvInit == Init => DeployInv
<1> SUFFICES ASSUME Init
             PROVE  DeployInv
  OBVIOUS
<1>1. /\ pc = "idle" /\ complete = FALSE /\ began = 0 /\ build = 1 /\ at = 0
      /\ published = FALSE /\ executable = FALSE /\ profile \in Profile
      /\ caller = "nobody" /\ unnoticed = {}
  BY DEF Init
<1>2. TypeOK
  <2>1. /\ device \in [Place -> 0..MaxBuild] /\ publishFolder \in [App -> 0..MaxBuild]
        /\ build \in 1..MaxBuild /\ began \in 0..MaxBuild
    BY <1>1, DeployServiceAssumption DEF Init
  <2>2. folders \subseteq Folder
    BY DEF Init
  <2> QED BY <1>1, <2>1, <2>2 DEF TypeOK, InFolder
<1>3. /\ WhichFolder /\ Begun /\ Published /\ Landed /\ Cleaned /\ NoLeftovers /\ Executable
      /\ LaunchDeployed
  BY <1>1 DEF WhichFolder, Begun, Published, Landed, Cleaned, NoLeftovers, Executable,
     LaunchDeployed, InFolder, Deploying
<1>4. CompleteHasAll /\ CompleteHasNoLeftovers /\ CompleteIsExecutable
  BY <1>1 DEF CompleteHasAll, CompleteHasNoLeftovers, CompleteIsExecutable
<1> QED BY <1>2, <1>3, <1>4 DEF DeployInv

----------------------------------------------------------------------------
(***************************************************************************)
(* Type correctness and the loops, action by action.                       *)
(***************************************************************************)
Types ==
  /\ profile \in Profile
  /\ build \in 1..MaxBuild
  /\ publishFolder \in [App -> 0..MaxBuild]
  /\ device \in [Place -> 0..MaxBuild]
  /\ folders \subseteq Folder
  /\ executable \in BOOLEAN
  /\ pc \in Deploying \cup {"idle", "connect", "publish", "before", "query", "debugging"}
  /\ caller \in {"nobody", "menu", "command", "solution", "launch"}
  /\ at \in Nat
  /\ published \in BOOLEAN
  /\ complete \in BOOLEAN
  /\ began \in 0..MaxBuild
  /\ unnoticed \subseteq {"publish", "chmod"}

Typed == TypeOK /\ WhichFolder

LEMMA TypedFromTypes == ASSUME Types', WhichFolder' PROVE Typed'
<1>1. profile' \in AnyProfile /\ at' \in Nat
  BY DeployServiceAssumption DEF Types
<1>2. pc' \in InFolder => folder' \in Folder
  BY <1>1, TargetType DEF folder, Target, WhichFolder
<1> QED BY <1>2 DEF Typed, TypeOK, Types

\* A step that leaves what the types are about, and where no loop runs.
LEMMA RefuseType ==
  ASSUME Typed, NEW exception \in {"launcher", "session"}, Refuse(exception)
  PROVE  Typed'
<1>1. /\ Throw(exception) /\ UNCHANGED <<profile, build, publishFolder, device, folders, executable,
                                         published, complete, began, unnoticed>>
  BY DEF Refuse, local, remote
<1>2. Types' /\ WhichFolder'
  BY <1>1, ThrowType DEF Typed, TypeOK, Types, WhichFolder, InFolder
<1> QED BY <1>2, TypedFromTypes

LEMMA RemovedType ==
  ASSUME TypeOK, NEW places, NEW gone, Removed(places, gone)
  PROVE  device' \in [Place -> 0..MaxBuild] /\ folders' \subseteq Folder /\ executable' \in BOOLEAN
         /\ \A p \in Place : device'[p] = IF p \in places THEN 0 ELSE device[p]
<1>1. device' \in [Place -> 0..MaxBuild]
  BY NumbersType DEF Removed, TypeOK
<1>2. folders' \subseteq Folder /\ \A p \in Place : device'[p] = IF p \in places THEN 0 ELSE device[p]
  BY DEF Removed, TypeOK
<1>3. executable' \in BOOLEAN
  <2>1. executable' = (executable /\ "main" \notin places)
    BY DEF Removed
  <2> QED BY <2>1, Zenon
<1> QED BY <1>1, <1>2, <1>3

LEMMA TypedStep == Typed /\ [Next]_vars => Typed'
<1> SUFFICES ASSUME Typed, [Next]_vars
             PROVE  Typed'
  OBVIOUS
<1> USE DEF local, remote
<1>0. /\ TypeOK /\ WhichFolder /\ Types
      /\ build \in 0..MaxBuild /\ at \in Nat /\ profile \in AnyProfile
  BY NumbersType, ProfileType DEF Typed, TypeOK, Types
<1>f. Len(profile.files) \in Nat /\ Len(profile.directories) \in Nat
  BY <1>0, ProfileFields
<1>s. FirstStep \in {"clean", "mkdir"}
  BY FirstStepType
<1>1. ASSUME NEW who \in {"menu", "command", "solution"}, Deploy(who)
      PROVE  Typed'
  BY <1>0, <1>1, TypedFromTypes DEF Deploy, Begin, Types, WhichFolder, InFolder
<1>2. CASE StartDebugging \/ StopDebugging \/ QueryDebugTargets
  <2>1. /\ pc' \in {"idle", "before", "debugging"} /\ at' = 0
        /\ caller' \in {"nobody", "menu", "command", "solution", "launch"}
        /\ UNCHANGED <<profile, build, publishFolder, device, folders, executable, published>>
    BY <1>0, <1>2 DEF StartDebugging, StopDebugging, QueryDebugTargets, End, Types, WhichFolder,
       InFolder
  <2>2. complete' \in BOOLEAN /\ began' \in 0..MaxBuild /\ unnoticed' \subseteq {"publish", "chmod"}
    BY <1>0, <1>2, NumbersType DEF StartDebugging, StopDebugging, QueryDebugTargets, Types
  <2>3. Types' /\ WhichFolder'
    BY <1>0, <2>1, <2>2 DEF Types, WhichFolder, InFolder
  <2> QED BY <2>3, TypedFromTypes
<1>3. CASE CleanRemoteFolder
  <2>1. device' \in [Place -> 0..MaxBuild] /\ folders' \subseteq Folder /\ executable' \in BOOLEAN
    BY <1>0, <1>3, RemovedType DEF CleanRemoteFolder, CleanPartOf
  <2>2. Types' /\ WhichFolder'
    BY <1>0, <1>3, <2>1 DEF CleanRemoteFolder, Types, WhichFolder, InFolder
  <2> QED BY <2>2, TypedFromTypes
<1>4. CASE OnBeforeLaunch
  <2>1. CASE End
    BY <1>0, <1>4, <2>1, TypedFromTypes DEF OnBeforeLaunch, End, Begin, Types, WhichFolder, InFolder
  <2>2. CASE Begin(IF profile.publish = "no" THEN FirstStep ELSE "publish") /\ UNCHANGED caller
    <3>1. /\ pc' \in {"clean", "mkdir", "publish"} /\ at' = 0 /\ published' = FALSE /\ complete' = FALSE
          /\ began' = build /\ unnoticed' = {}
          /\ UNCHANGED <<profile, build, publishFolder, device, folders, executable, caller>>
      BY <1>4, <1>s, <2>2 DEF OnBeforeLaunch, Begin
    <3>2. Types'
      BY <1>0, <3>1 DEF Types, InFolder, Deploying
    <3>3. WhichFolder'
      BY <1>f, <3>1 DEF WhichFolder, InFolder
    <3> QED BY <3>2, <3>3, TypedFromTypes
  <2>3. CASE pc' = "query" /\ UNCHANGED <<caller, at, published, complete, began, unnoticed>>
    BY <1>0, <1>4, <2>3, TypedFromTypes DEF OnBeforeLaunch, Types, WhichFolder, InFolder
  <2> QED BY <1>4, <2>1, <2>2, <2>3 DEF OnBeforeLaunch
<1>5. CASE CheckConnectionThrow
  <2>1. CASE Refuse("launcher")
    BY <2>1, RefuseType
  <2>2. CASE ~ Refuse("launcher")
    <3>1. /\ pc = "connect" /\ pc' \in {"clean", "mkdir", "publish"}
          /\ UNCHANGED <<profile, build, publishFolder, device, folders, executable, caller, at,
                         published, complete, began, unnoticed>>
      BY <1>5, <1>s, <2>2 DEF CheckConnectionThrow, GoOn
    <3>2. Types' /\ WhichFolder'
      BY <1>0, <1>f, <3>1 DEF Types, WhichFolder, InFolder, Deploying
    <3> QED BY <3>2, TypedFromTypes
  <2> QED BY <2>1, <2>2
<1>6. CASE Publish
  <2>1. CASE Refuse("session")
    BY <2>1, RefuseType
  <2>2. CASE ~ Refuse("session")
    <3>1. publishFolder' \in [App -> 0..MaxBuild] /\ published' \in BOOLEAN
          /\ unnoticed' \subseteq {"publish", "chmod"}
          /\ UNCHANGED <<profile, build, device, folders, executable, complete, began>>
      BY <1>0, <1>6, <2>2 DEF Publish, HalfPublished, Types
    <3>2. CASE pc' = FirstStep /\ UNCHANGED <<caller, at>>
      BY <1>0, <1>f, <1>6, <1>s, <3>1, <3>2, TypedFromTypes
         DEF Publish, Types, WhichFolder, InFolder, Deploying
    <3>3. CASE Throw("launcher")
      <4>1. /\ pc' \in {"idle", "before"} /\ at' = 0
            /\ caller' \in {"nobody", "menu", "command", "solution", "launch"}
        BY <1>0, <3>3, ThrowType
      <4> QED BY <1>0, <3>1, <4>1, TypedFromTypes DEF Types, WhichFolder, InFolder
    <3> QED BY <1>6, <2>2, <3>2, <3>3 DEF Publish
  <2> QED BY <2>1, <2>2
<1>7. CASE CleanFolder
  <2>1. CASE Refuse("session")
    BY <2>1, RefuseType
  <2>2. CASE ~ Refuse("session")
    <3>1. device' \in [Place -> 0..MaxBuild] /\ folders' \subseteq Folder /\ executable' \in BOOLEAN
      BY <1>0, <1>7, <2>2, RemovedType DEF CleanFolder, CleanPartOf
    <3>2. pc = "clean" /\ UNCHANGED <<profile, build, publishFolder, published, complete, began, unnoticed>>
      BY <1>7, <2>2 DEF CleanFolder, GoOn
    <3>3. CASE pc' = "mkdir" /\ UNCHANGED <<caller, at>>
      BY <1>0, <3>1, <3>2, <3>3, TypedFromTypes DEF Types, WhichFolder, InFolder, Deploying
    <3>4. CASE Throw("session")
      <4>1. /\ pc' \in {"idle", "before"} /\ at' = 0
            /\ caller' \in {"nobody", "menu", "command", "solution", "launch"}
        BY <1>0, <3>4, ThrowType
      <4> QED BY <1>0, <3>1, <3>2, <4>1, TypedFromTypes DEF Types, WhichFolder, InFolder
    <3> QED BY <1>7, <2>2, <3>3, <3>4 DEF CleanFolder, GoOn
  <2> QED BY <2>1, <2>2
<1>8. CASE CreateFolderIfNeeded
  <2>1. CASE Refuse("session")
    BY <2>1, RefuseType
  <2>2. CASE ~ Refuse("session")
    BY <1>0, <1>8, <2>2, TypedFromTypes
       DEF CreateFolderIfNeeded, GoOn, Types, WhichFolder, InFolder, Deploying
  <2> QED BY <2>1, <2>2
<1>9. CASE UploadFolderRecursive
  <2>1. device' \in [Place -> 0..MaxBuild]
    BY <1>0, <1>9, UploadedType DEF UploadFolderRecursive, TypeOK, InFolder
  <2>2. executable' \in BOOLEAN
    BY <1>9, ModeType DEF UploadFolderRecursive
  <2>3. /\ pc = "upload" /\ pc' = AfterUpload
        /\ UNCHANGED <<profile, build, publishFolder, folders, at, caller, published, complete,
                       began, unnoticed>>
    BY <1>9 DEF UploadFolderRecursive, GoOn
  <2>4. folder = "app" => at = 0
    BY <1>0, <2>3, TargetType DEF folder, Target, WhichFolder, InFolder
  <2>5. /\ pc' \in {"directories", "chmod", "files"}
        /\ pc' # "directories" => at = 0
    BY <2>3, <2>4 DEF AfterUpload
  <2>6. Types' /\ WhichFolder'
    BY <1>0, <1>f, <2>1, <2>2, <2>3, <2>5 DEF Types, WhichFolder, InFolder, Deploying
  <2> QED BY <2>6, TypedFromTypes
<1>10. CASE UploadFolderFails
  <2>1. device' \in [Place -> 0..MaxBuild]
    BY <1>10, <1>0 DEF UploadFolderFails, HalfUploaded, TypeOK
  <2>2. executable' \in BOOLEAN
    BY <1>10, ModeType DEF UploadFolderFails
  <2>3. /\ Throw("session")
        /\ UNCHANGED <<profile, build, publishFolder, folders, published, complete, began, unnoticed>>
    BY <1>10 DEF UploadFolderFails
  <2>4. Types' /\ WhichFolder'
    BY <1>0, <2>1, <2>2, <2>3, ThrowType DEF Types, WhichFolder, InFolder
  <2> QED BY <2>4, TypedFromTypes
<1>11. CASE ChangeRemoteFilePermission
  <2>1. CASE Refuse("session")
    BY <2>1, RefuseType
  <2>2. CASE ~ Refuse("session")
    <3>1. /\ executable' \in BOOLEAN /\ unnoticed' \subseteq {"publish", "chmod"}
      BY <1>0, <1>11, <2>2 DEF ChangeRemoteFilePermission, Types
    <3>2. /\ pc = "chmod" /\ pc' = "files"
          /\ UNCHANGED <<profile, build, publishFolder, device, folders, caller, at, published,
                         complete, began>>
      BY <1>11, <2>2 DEF ChangeRemoteFilePermission, GoOn
    <3>3. Types' /\ WhichFolder'
      BY <1>0, <1>f, <3>1, <3>2 DEF Types, WhichFolder, InFolder, Deploying
    <3> QED BY <3>3, TypedFromTypes
  <2> QED BY <2>1, <2>2
<1>12. CASE DeployAdditionalFiles
  <2>0. pc = "files" /\ at < Len(profile.files)
    BY <1>12 DEF DeployAdditionalFiles
  <2>1. CASE Refuse("launcher")
    BY <2>1, RefuseType
  <2>2. CASE Throw("session") /\ \E file \in {profile.files[NextEntry]} :
                device' \in {device, [device EXCEPT ![file] = 0]}
             /\ UNCHANGED <<local, publishFolder, folders, executable, published, complete, began,
                            unnoticed>>
    <3>1. device' \in [Place -> 0..MaxBuild]
      BY <1>0, <2>2, NumbersType DEF TypeOK
    <3>2. Types' /\ WhichFolder'
      BY <1>0, <2>2, <3>1, ThrowType DEF Types, WhichFolder, InFolder
    <3> QED BY <3>2, TypedFromTypes
  <2>3. CASE GoOn("files") /\ device' = [device EXCEPT ![profile.files[NextEntry]] = build]
             /\ at' = NextEntry /\ UNCHANGED <<publishFolder, folders, executable, unnoticed>>
    <3>1. device' \in [Place -> 0..MaxBuild]
      BY <1>0, <2>3 DEF TypeOK
    <3>2. Types' /\ WhichFolder'
      BY <1>0, <1>f, <2>0, <2>3, <3>1 DEF Types, WhichFolder, InFolder, NextEntry, GoOn
    <3> QED BY <3>2, TypedFromTypes
  <2> QED BY <1>12, <2>1, <2>2, <2>3 DEF DeployAdditionalFiles
<1>13. CASE FilesDeployed
  BY <1>0, <1>f, <1>13, TypedFromTypes DEF FilesDeployed, GoOn, Types, WhichFolder, InFolder, Deploying
<1>14. CASE DeployAdditionalDirectories
  <2>1. CASE Refuse("launcher")
    BY <2>1, RefuseType
  <2>2. CASE ~ Refuse("launcher")
    <3>1. /\ pc = "directories" /\ at < Len(profile.directories) /\ at' = at + 1
          /\ "missing" \notin Range(profile.directories) /\ pc' = FirstStep
          /\ UNCHANGED <<profile, build, caller, published, complete, began, publishFolder, device,
                         folders, executable, unnoticed>>
      BY <1>14, <2>2 DEF DeployAdditionalDirectories, GoOn, NextEntry
    <3>2. Types' /\ WhichFolder'
      BY <1>0, <1>f, <1>s, <3>1 DEF Types, WhichFolder, InFolder, Deploying
    <3> QED BY <3>2, TypedFromTypes
  <2> QED BY <2>1, <2>2
<1>15. CASE Done
  <2>1. Types' /\ WhichFolder'
    BY <1>0, <1>15, ReturnType DEF Done, Types, WhichFolder, InFolder
  <2> QED BY <2>1, TypedFromTypes
<1>16. CASE Build
  <2>1. build + 1 \in 1..MaxBuild
    BY <1>0, <1>16, NumbersType DEF Build, Types
  <2>2. Types' /\ WhichFolder'
    BY <1>0, <1>16, <2>1 DEF Build, Types, WhichFolder
  <2> QED BY <2>2, TypedFromTypes
<1>17. CASE ChangeProfile
  <2>1. Types' /\ WhichFolder'
    BY <1>0, <1>17 DEF ChangeProfile, Types, WhichFolder, InFolder
  <2> QED BY <2>1, TypedFromTypes
<1>18. CASE UNCHANGED vars
  BY <1>0, <1>18, TypedFromTypes DEF vars, Types, WhichFolder
<1> QED
  BY <1>1, <1>2, <1>3, <1>4, <1>5, <1>6, <1>7, <1>8, <1>9, <1>10, <1>11, <1>12, <1>13, <1>14,
     <1>15, <1>16, <1>17, <1>18 DEF Next, Request, Step

----------------------------------------------------------------------------
(***************************************************************************)
(* What the steps are about does not change while a deployment runs.       *)
(***************************************************************************)
LEMMA ProfileKept ==
  ASSUME profile' = profile
  PROVE  /\ Wanted' = Wanted /\ Lost' = Lost
         /\ \A f : Taken(f)' = Taken(f)
         /\ \A n : Overrun(n)' = Overrun(n)
         /\ \A n : Target(n)' = Target(n)
         /\ \A m, n : Brought(m, n)' = Brought(m, n)
         /\ Files' = Files
<1>1. \A f : Taken(f)' = Taken(f)
  BY DEF Taken
<1>2. \A n : Overrun(n)' = Overrun(n)
  BY DEF Taken, Overrun
<1> QED BY <1>1, <1>2 DEF Wanted, Lost, Overrun, Taken, Target, Brought, Files

LEMMA DoubtfulKept ==
  ASSUME unnoticed' \in {unnoticed, unnoticed \cup {"chmod"}}
  PROVE  Doubtful' = Doubtful
  BY DEF Doubtful

LEMMA TakenIs ==
  ASSUME TypeOK, NEW f \in Folder
  PROVE  /\ Taken(f) \subseteq Inside[f] /\ Taken(f) \subseteq Place
         /\ profile.transfer = "delta" => Taken(f) = Inside[f]
         /\ profile.clean => Seen[f] \subseteq Taken(f)
         /\ profile.transfer # "delta" => Taken(f) = IF profile.clean THEN Seen[f] ELSE {}
<1>1. profile.transfer \in {"full", "delta"} /\ f # "missing"
  BY ProfileType, ProfileFields, DeployServiceAssumption DEF Folder, Place
<1>2. CASE profile.transfer = "delta"
  BY <1>1, <1>2, FoldersAndPlaces DEF Taken
<1>3. CASE profile.transfer = "full"
  BY <1>1, <1>3, FoldersAndPlaces DEF Taken
<1> QED BY <1>1, <1>2, <1>3

LEMMA SameTargets ==
  ASSUME profile' = profile
  PROVE  \A i : Taken(Target(i))' = Taken(Target(i)) /\ Wanted' = Wanted
  BY DEF Taken, Target, Wanted

LEMMA NothingElseIs ==
  ASSUME profile' = profile
  PROVE  /\ (\A i \in 0..0 : \A p \in Taken(Target(i)) \ Wanted : device'[p] = 0)
              => NothingElse(0)'
         /\ at' = at /\ (\A i \in 0..at : \A p \in Taken(Target(i)) \ Wanted : device'[p] = 0)
              => NothingElse(at)'
<1>1. \A i : Taken(Target(i))' = Taken(Target(i)) /\ Wanted' = Wanted
  BY SameTargets
<1> QED BY <1>1 DEF NothingElse

LEMMA NothingElseKept ==
  ASSUME profile' = profile, device' = device, NothingElse(0)
  PROVE  NothingElse(0)'
  BY NothingElseIs DEF NothingElse

LEMMA SettledKept ==
  ASSUME UNCHANGED <<profile, device, began>>, Doubtful' = Doubtful
  PROVE  AllSettled(0, 0)' = AllSettled(0, 0) /\ AllSettled(Files, 0)' = AllSettled(Files, 0)
<1>1. Files' = Files /\ Overrun(0)' = Overrun(0)
  BY DEF Files, Overrun, Taken
<1>2. Brought(0, 0)' = Brought(0, 0) /\ Brought(Files, 0)' = Brought(Files, 0)
  BY <1>1 DEF Brought
<1> QED BY <1>1, <1>2 DEF AllSettled, Settled

LEMMA OverrunNone == Overrun(0) = {}
  BY DEF Overrun

\* One directory more: it takes what it takes, and brings what it brings.
LEMMA OverrunNext ==
  ASSUME NEW n \in Nat, n >= 1, NEW p \in Place
  PROVE  p \in Overrun(n) <=> /\ profile.directories[n] # p
                              /\ p \in Taken(profile.directories[n]) \/ p \in Overrun(n - 1)
<1> DEFINE dirs == profile.directories
<1>1. ASSUME p \in Overrun(n)
      PROVE  dirs[n] # p /\ (p \in Taken(dirs[n]) \/ p \in Overrun(n - 1))
  <2>1. PICK i \in 1..n : p \in Taken(dirs[i]) /\ \A j \in i..n : dirs[j] # p
    BY <1>1 DEF Overrun
  <2>2. dirs[n] # p
    BY <2>1
  <2>3. CASE i = n
    BY <2>1, <2>2, <2>3
  <2>4. CASE i # n
    <3>1. i \in 1..(n - 1) /\ \A j \in i..(n - 1) : dirs[j] # p
      BY <2>1, <2>4
    <3> QED BY <2>1, <2>2, <3>1 DEF Overrun
  <2> QED BY <2>3, <2>4
<1>2. ASSUME dirs[n] # p, p \in Taken(dirs[n])
      PROVE  p \in Overrun(n)
  <2>1. n \in 1..n /\ \A j \in n..n : j = n
    OBVIOUS
  <2> QED BY <1>2, <2>1 DEF Overrun
<1>3. ASSUME dirs[n] # p, p \in Overrun(n - 1)
      PROVE  p \in Overrun(n)
  <2>1. PICK i \in 1..(n - 1) : p \in Taken(dirs[i]) /\ \A j \in i..(n - 1) : dirs[j] # p
    BY <1>3 DEF Overrun
  <2>2. i \in 1..n /\ \A j \in i..n : j \in i..(n - 1) \/ j = n
    BY <2>1
  <2>3. \A j \in i..n : dirs[j] # p
    BY <1>3, <2>1, <2>2
  <2> QED BY <2>1, <2>2, <2>3 DEF Overrun
<1> QED BY <1>1, <1>2, <1>3

\* What is brought are places the profile asks for, in the end all of them.
LEMMA BroughtIs ==
  ASSUME TypeOK, NEW m \in Nat, NEW n \in Nat, m <= Files, n <= Len(profile.directories)
  PROVE  /\ Brought(m, n) \subseteq Wanted /\ Brought(m, n) \subseteq Place
         /\ m = Files /\ n = Len(profile.directories) => Brought(m, n) = Wanted
<1>1. profile \in AnyProfile
  BY ProfileType
<1>2. /\ DOMAIN profile.files = 1..Files /\ DOMAIN profile.directories = 1..Len(profile.directories)
      /\ Files \in Nat /\ Len(profile.directories) \in Nat
      /\ \A i \in 1..Files : profile.files[i] \in File \cup {"missing"}
      /\ \A i \in 1..Len(profile.directories) : profile.directories[i] \in Directory \cup {"missing"}
  BY <1>1, ProfileFields DEF Files
<1>3. /\ \A i \in 1..m : i \in 1..Files
      /\ \A i \in 1..n : i \in 1..Len(profile.directories)
  BY <1>2
<1>4. Brought(m, n) \subseteq Wanted
  BY <1>2, <1>3 DEF Brought, Wanted, Range
<1>5. Brought(m, n) \subseteq Place
  BY <1>2, <1>3, FoldersAndPlaces DEF Brought
<1>6. ASSUME m = Files, n = Len(profile.directories)
      PROVE  Wanted \subseteq Brought(m, n)
  <2>1. "main" # "missing" /\ "asset" # "missing"
    OBVIOUS
  <2> QED BY <1>2, <1>6, <2>1 DEF Brought, Wanted, Range
<1> QED BY <1>4, <1>5, <1>6

LEMMA WantedPlaces == ASSUME TypeOK PROVE Wanted \subseteq Place
<1>1. Files \in Nat /\ Len(profile.directories) \in Nat
  BY ProfileType, ProfileFields DEF Files
<1> QED BY <1>1, BroughtIs

----------------------------------------------------------------------------
(***************************************************************************)
(* Steps that end or interrupt a deployment: a deployment that is not      *)
(* complete promises nothing; one that is, what it promised already.       *)
(***************************************************************************)
LEMMA IncompleteKeeps ==
  ASSUME Typed', pc' \in {"idle", "before"}, complete' = FALSE, began' <= build'
  PROVE  DeployInv'
<1>1. Begun' /\ Published'
  BY DEF Begun, Published, InFolder, Deploying
<1>2. Landed' /\ Cleaned' /\ NoLeftovers' /\ Executable' /\ LaunchDeployed'
  BY DEF Landed, Cleaned, NoLeftovers, Executable, LaunchDeployed, InFolder
<1>3. CompleteHasAll' /\ CompleteHasNoLeftovers' /\ CompleteIsExecutable'
  BY DEF CompleteHasAll, CompleteHasNoLeftovers, CompleteIsExecutable
<1> QED BY <1>1, <1>2, <1>3 DEF DeployInv, Typed

LEMMA QuietKeeps ==
  ASSUME DeployInv, Typed', pc' \in {"idle", "before", "query", "debugging"},
         UNCHANGED <<profile, build, device, executable, began, complete, unnoticed>>,
         LaunchDeployed'
  PROVE  DeployInv'
<1> USE DEF DeployInv
<1>1. Begun' /\ Published'
  BY DEF Begun, Published, InFolder, Deploying
<1>2. Landed' /\ Cleaned' /\ NoLeftovers' /\ Executable'
  BY DEF Landed, Cleaned, NoLeftovers, Executable, InFolder
<1>3. CompleteHasAll'
  BY ProfileKept DEF CompleteHasAll, Doubtful
<1>4. CompleteHasNoLeftovers' /\ CompleteIsExecutable'
  BY ProfileKept DEF CompleteHasNoLeftovers, CompleteIsExecutable
<1> QED BY <1>1, <1>2, <1>3, <1>4 DEF Typed

\* An exception while a deployment runs.
LEMMA ThrowKeeps ==
  ASSUME DeployInv, Typed', pc \in {"connect", "publish"} \cup Deploying,
         NEW exception \in {"launcher", "session"}, Throw(exception),
         UNCHANGED <<build, began, complete>>
  PROVE  DeployInv'
<1>1. complete' = FALSE /\ began' <= build'
  BY DEF DeployInv, Begun
<1>2. pc' \in {"idle", "before"}
  BY ThrowType DEF DeployInv
<1> QED BY <1>1, <1>2, IncompleteKeeps

LEMMA RefuseKeeps ==
  ASSUME DeployInv, Typed', pc \in {"connect", "publish"} \cup Deploying,
         NEW exception \in {"launcher", "session"}, Refuse(exception)
  PROVE  DeployInv'
  BY ThrowKeeps DEF Refuse, local

\* A deployment comes to its first step.
LEMMA FirstStepKeeps ==
  ASSUME DeployInv, Typed', pc' = FirstStep, at' = 0, complete' = FALSE,
         began' >= 1, began' <= build', profile' = profile,
         published' = TRUE <=> profile.publish # "no",
         published' = TRUE => \A p \in App \ Doubtful' : publishFolder'[p] >= began'
  PROVE  DeployInv'
<1>1. pc' \in {"clean", "mkdir"} /\ (pc' = "mkdir" => ~ profile.clean) /\ (pc' = "clean" => profile.clean)
  BY DEF FirstStep
<1>2. Begun'
  BY <1>1 DEF Begun, InFolder, Deploying
<1>3. Published'
  BY DEF Published
<1>4. Landed' /\ Cleaned' /\ NoLeftovers' /\ Executable' /\ LaunchDeployed'
  BY <1>1 DEF Landed, Cleaned, NoLeftovers, Executable, LaunchDeployed, InFolder
<1>5. CompleteHasAll' /\ CompleteHasNoLeftovers' /\ CompleteIsExecutable'
  BY DEF CompleteHasAll, CompleteHasNoLeftovers, CompleteIsExecutable
<1> QED BY <1>2, <1>3, <1>4, <1>5 DEF DeployInv, Typed

\* A deployment goes on: what it has got done is still there.
LEMMA GoOnKeeps ==
  ASSUME DeployInv, Typed', pc \in Deploying, pc' \in Deploying,
         UNCHANGED <<profile, build, publishFolder, published, complete, began>>,
         Doubtful' = Doubtful,
         Landed', Cleaned', NoLeftovers', Executable'
  PROVE  DeployInv'
<1>1. Begun' /\ LaunchDeployed' /\ complete' = FALSE
  BY DEF DeployInv, Begun, LaunchDeployed, Deploying, InFolder
<1>2. Published'
  BY DEF DeployInv, Published
<1>3. CompleteHasAll' /\ CompleteHasNoLeftovers' /\ CompleteIsExecutable'
  BY <1>1 DEF CompleteHasAll, CompleteHasNoLeftovers, CompleteIsExecutable
<1> QED BY <1>1, <1>2, <1>3 DEF DeployInv, Typed

----------------------------------------------------------------------------
(***************************************************************************)
(* The steps of a deployment.                                              *)
(***************************************************************************)
LEMMA ConnectKeeps ==
  ASSUME DeployInv, Typed', CheckConnectionThrow
  PROVE  DeployInv'
<1>1. CASE Refuse("launcher")
  BY <1>1, RefuseKeeps DEF CheckConnectionThrow
<1>2. CASE ~ Refuse("launcher")
  <2>1. /\ pc = "connect" /\ published = FALSE /\ at = 0 /\ complete = FALSE
        /\ began >= 1 /\ began <= build /\ unnoticed = {}
    BY <1>2 DEF CheckConnectionThrow, DeployInv, Begun, WhichFolder, InFolder
  <2>2. /\ UNCHANGED <<profile, build, publishFolder, at, published, complete, began, unnoticed>>
        /\ pc' = IF profile.publish = "no" THEN FirstStep ELSE "publish"
    BY <1>2 DEF CheckConnectionThrow, GoOn, local
  <2>3. CASE profile.publish = "no"
    BY <2>1, <2>2, <2>3, FirstStepKeeps
  <2>4. CASE profile.publish # "no"
    <3>1. Begun' /\ Published'
      BY <2>1, <2>2, <2>4 DEF Begun, Published, InFolder, Deploying
    <3>2. Landed' /\ Cleaned' /\ NoLeftovers' /\ Executable' /\ LaunchDeployed'
      BY <2>2, <2>4 DEF Landed, Cleaned, NoLeftovers, Executable, LaunchDeployed, InFolder
    <3>3. CompleteHasAll' /\ CompleteHasNoLeftovers' /\ CompleteIsExecutable'
      BY <2>1, <2>2 DEF CompleteHasAll, CompleteHasNoLeftovers, CompleteIsExecutable
    <3> QED BY <3>1, <3>2, <3>3 DEF DeployInv, Typed
  <2> QED BY <2>3, <2>4
<1> QED BY <1>1, <1>2

LEMMA PublishKeeps ==
  ASSUME DeployInv, Typed', Publish
  PROVE  DeployInv'
<1>0. /\ pc = "publish" /\ profile.publish # "no" /\ at = 0 /\ complete = FALSE
      /\ began >= 1 /\ began <= build /\ unnoticed = {} /\ TypeOK
      /\ UNCHANGED <<profile, build, complete, began>>
  BY DEF Publish, DeployInv, Begun, WhichFolder, InFolder, local
<1>1. CASE Refuse("session")
  BY <1>0, <1>1, RefuseKeeps
<1>2. CASE Throw("launcher")
  BY <1>0, <1>2, ThrowKeeps
<1>3. CASE publishFolder' = [p \in App |-> build] /\ published' = TRUE /\ pc' = FirstStep
           /\ UNCHANGED <<caller, at, unnoticed>>
  BY <1>0, <1>3, FirstStepKeeps
<1>4. CASE published' = TRUE /\ pc' = FirstStep /\ unnoticed' = unnoticed \cup {"publish"}
           /\ UNCHANGED <<caller, at>>
  <2>1. Doubtful' = App
    BY <1>4 DEF Doubtful
  <2> QED BY <1>0, <1>4, <2>1, FirstStepKeeps
<1> QED BY <1>1, <1>2, <1>3, <1>4 DEF Publish

\* A step within one folder that takes nothing but what the folder takes.
LEMMA InFolderKeeps ==
  ASSUME DeployInv, Typed', pc \in InFolder, pc' \in InFolder,
         UNCHANGED <<profile, build, publishFolder, published, complete, began, at, unnoticed>>,
         \A p \in Place : device'[p] \in {device[p], 0},
         \A p \in Place \ Taken(folder) : device'[p] = device[p],
         executable = TRUE /\ device'["main"] # 0 => executable' = TRUE,
         pc' # "clean",
         profile.clean => \A p \in Seen[folder] : device'[p] = 0
  PROVE  DeployInv'
<1>1. Doubtful' = Doubtful /\ folder' = folder
  BY DoubtfulKept DEF folder, Target
<1>2. Cleaned'
  BY <1>1 DEF Cleaned
<1>3. TypeOK /\ at \in Nat /\ pc \in Deploying /\ pc' \in Deploying
  BY NumbersType DEF DeployInv, Deploying
<1>4. Landed'
  <2>1. SUFFICES ASSUME at >= 1,
                        NEW p \in Brought(Files, at - 1) \ (Doubtful \cup Taken(folder) \cup {folder})
                 PROVE  IF p \in Overrun(at - 1) THEN device'[p] = 0 ELSE device'[p] >= began
    <3>1. \A p : Settled(p, at - 1)'
                   <=> IF p \in Overrun(at - 1) THEN device'[p] = 0 ELSE device'[p] >= began
      BY ProfileKept DEF Settled
    <3> QED BY <1>1, <2>1, <3>1, ProfileKept DEF Landed, InFolder
  <2>2. p \in Place
    <3>1. at <= Len(profile.directories) /\ Files \in Nat /\ Len(profile.directories) \in Nat
      BY <1>3, ProfileType, ProfileFields DEF DeployInv, WhichFolder, Files
    <3> QED BY <1>3, <2>1, <3>1, BroughtIs
  <2>3. Settled(p, at - 1)
    BY <2>1 DEF DeployInv, Landed
  <2> QED BY <2>1, <2>2, <2>3 DEF Settled
<1>5. NoLeftovers'
  <2>1. SUFFICES ASSUME at >= 1, NEW i \in 0..(at - 1), NEW p \in Taken(Target(i)) \ Wanted
                 PROVE  device'[p] = 0
    <3>1. NothingElse(at - 1)' <=> \A i \in 0..(at' - 1) : \A p \in Taken(Target(i))' \ Wanted' : device'[p] = 0
      BY DEF NothingElse
    <3>2. \A i : Taken(Target(i))' = Taken(Target(i)) /\ Wanted' = Wanted
      BY SameTargets
    <3> QED BY <2>1, <3>1, <3>2 DEF NoLeftovers, InFolder
  <2>2. p \in Place
    <3>1. Target(i) \in Folder
      BY <1>3, ProfileType, ProfileFields, TargetType DEF DeployInv, WhichFolder, Target
    <3> QED BY <1>3, <3>1, TakenIs
  <2>3. device[p] = 0
    BY <2>1 DEF DeployInv, NoLeftovers, NothingElse
  <2> QED BY <2>2, <2>3
<1>6. Executable'
  <2>1. device'["main"] # 0 => device["main"] # 0
    BY FoldersAndPlaces
  <2> QED BY <2>1 DEF DeployInv, Executable, InFolder
<1> QED BY <1>1, <1>2, <1>3, <1>4, <1>5, <1>6, GoOnKeeps

LEMMA CleanKeeps ==
  ASSUME DeployInv, Typed', CleanFolder
  PROVE  DeployInv'
<1>0. /\ pc = "clean" /\ TypeOK /\ folder \in Folder /\ pc \in Deploying /\ profile.clean
  BY DEF DeployInv, CleanFolder, TypeOK, InFolder, Deploying, Cleaned
<1>1. CASE Refuse("session")
  BY <1>0, <1>1, RefuseKeeps
<1>2. CASE Throw("session") /\ UNCHANGED <<local, complete, began>>
  BY <1>0, <1>2, ThrowKeeps DEF local
<1>3. CASE Removed(Seen[folder], Below(folder)) /\ GoOn("mkdir") /\ UNCHANGED <<publishFolder, at, unnoticed>>
  <2>1. \A p \in Place : device'[p] = IF p \in Seen[folder] THEN 0 ELSE device[p]
    BY <1>0, <1>3, RemovedType
  <2>2. Seen[folder] \subseteq Taken(folder) /\ Seen[folder] \subseteq Place
    BY <1>0, TakenIs
  <2>3. executable = TRUE /\ device'["main"] # 0 => executable' = TRUE
    <3>1. executable' = (executable /\ "main" \notin Seen[folder])
      BY <1>3 DEF Removed
    <3>2. "main" \in Seen[folder] => device'["main"] = 0
      BY <2>1, FoldersAndPlaces
    <3> QED BY <3>1, <3>2, Zenon
  <2> QED BY <1>0, <1>3, <2>1, <2>2, <2>3, InFolderKeeps DEF GoOn, local, InFolder
<1> QED BY <1>1, <1>2, <1>3 DEF CleanFolder

LEMMA CreateKeeps ==
  ASSUME DeployInv, Typed', CreateFolderIfNeeded
  PROVE  DeployInv'
<1>0. pc = "mkdir" /\ pc \in Deploying
  BY DEF CreateFolderIfNeeded, InFolder, Deploying
<1>1. CASE Refuse("session")
  BY <1>0, <1>1, RefuseKeeps
<1>2. CASE GoOn("upload") /\ UNCHANGED <<publishFolder, device, executable, at, unnoticed>>
  <2>1. profile.clean => \A p \in Seen[folder] : device'[p] = 0
    BY <1>0, <1>2 DEF DeployInv, Cleaned
  <2>2. pc \in InFolder /\ pc' \in InFolder /\ pc' # "clean"
    BY <1>0, <1>2 DEF GoOn, InFolder
  <2> QED BY <1>0, <1>2, <2>1, <2>2, InFolderKeeps DEF GoOn, local
<1> QED BY <1>1, <1>2 DEF CreateFolderIfNeeded

\* The versions the application is uploaded in.
LEMMA AppUploaded ==
  ASSUME DeployInv, pc = "upload", at = 0
  PROVE  /\ \A p \in Brought(0, 0) \ Doubtful : Uploaded("app")[p] >= began
         /\ \A p \in Taken("app") \ Wanted : Uploaded("app")[p] = 0
         /\ folder = "app"
<1>1. /\ TypeOK /\ began \in Nat /\ build \in Nat /\ began >= 1 /\ began <= build
      /\ (published = TRUE) <=> (profile.publish # "no")
      /\ published = TRUE => \A p \in App \ Doubtful : publishFolder[p] >= began
      /\ published \in BOOLEAN /\ folder = "app"
      /\ \A p \in App : publishFolder[p] \in Nat
  BY NumbersType DEF DeployInv, Published, Begun, Deploying, InFolder, TypeOK, folder, Target
<1>2. Source("app") \subseteq Wanted /\ Source("app") \subseteq App
  <2>1. Source("app") = IF published THEN {p \in App : publishFolder[p] # 0} ELSE {"main"}
    BY DEF Source
  <2> QED BY <1>1, <2>1 DEF Wanted, App
<1>3. ASSUME NEW p \in Brought(0, 0) \ Doubtful
      PROVE  Uploaded("app")[p] >= began
  <2>1. p \in App /\ (p = "main" \/ (profile.publish # "no" /\ p = "asset"))
    <3>1. 1..0 = {}
      OBVIOUS
    <3>2. Brought(0, 0) \subseteq {"main"} \cup (IF profile.publish = "no" THEN {} ELSE {"asset"})
      BY <3>1 DEF Brought
    <3> QED BY <1>3, <3>2 DEF App
  <2>2. CASE published = TRUE
    <3>1. publishFolder[p] >= began /\ publishFolder[p] # 0
      BY <1>1, <1>3, <2>1, <2>2
    <3>2. p \in Source("app") /\ Version(p) = publishFolder[p]
      BY <2>1, <2>2, <3>1 DEF Source, Version
    <3> QED BY <2>1, <3>1, <3>2, UploadedValue, FoldersAndPlaces
  <2>3. CASE published = FALSE
    <3>1. p \in Source("app") /\ Version(p) = build
      BY <1>1, <2>1, <2>3 DEF Source, Version
    <3> QED BY <1>1, <2>1, <3>1, UploadedValue, FoldersAndPlaces
  <2> QED BY <1>1, <2>2, <2>3
<1>4. ASSUME NEW p \in Taken("app") \ Wanted
      PROVE  Uploaded("app")[p] = 0
  <2>0. p \in Place /\ p \notin Source("app") /\ "app" \in Folder
    BY <1>1, <1>2, <1>4, TakenIs, FoldersAndPlaces
  <2>1. CASE profile.transfer = "delta"
    <3>1. p \in Inside["app"] \ Source("app")
      BY <1>1, <1>4, <2>0, TakenIs
    <3> QED BY <2>0, <2>1, <3>1, UploadedValue
  <2>2. CASE profile.transfer # "delta"
    <3>1. profile.clean /\ p \in Seen["app"]
      BY <1>1, <1>4, <2>0, <2>2, TakenIs
    <3>2. device[p] = 0
      BY <1>1, <3>1 DEF DeployInv, Cleaned
    <3> QED BY <2>0, <2>2, <3>2, UploadedValue
  <2> QED BY <2>1, <2>2
<1> QED BY <1>1, <1>3, <1>4

\* ... and a directory: it brings its place and takes what its folder takes.
LEMMA DirectoryUploaded ==
  ASSUME DeployInv, pc = "upload", at >= 1
  PROVE  /\ folder = profile.directories[at] /\ folder \in Directory /\ folder \in Wanted
         /\ folder \in Place /\ folder # "app" /\ folder # "missing"
         /\ at \in Nat /\ at <= Len(profile.directories)
         /\ Uploaded(folder)[folder] = build
         /\ \A p \in Taken(folder) \ {folder} : Uploaded(folder)[p] = 0
         /\ \A p \in Place \ (Taken(folder) \cup {folder}) : Uploaded(folder)[p] = device[p]
<1>1. TypeOK /\ at \in Nat /\ profile \in AnyProfile /\ at <= Len(profile.directories)
      /\ "missing" \notin Range(profile.directories)
  BY NumbersType, ProfileType DEF DeployInv, WhichFolder, InFolder
<1>2. folder = profile.directories[at]
  BY DEF folder, Target
<1>3. folder \in Directory /\ folder \in Range(profile.directories) /\ folder # "app"
      /\ folder # "missing"
  BY <1>1, <1>2, TargetType
<1>4. folder \in Wanted /\ folder \in Place /\ folder \in Folder /\ folder \notin App
  BY <1>3, FoldersAndPlaces DEF Wanted
<1>5. Source(folder) = {folder} /\ Version(folder) = build
  BY <1>3, <1>4 DEF Source, Version
<1>6. Uploaded(folder)[folder] = build
  BY <1>4, <1>5, UploadedValue
<1>7. ASSUME NEW p \in Taken(folder) \ {folder}
      PROVE  Uploaded(folder)[p] = 0
  <2>0. p \in Place /\ p \notin Source(folder)
    BY <1>1, <1>4, <1>5, <1>7, TakenIs
  <2>1. CASE profile.transfer = "delta"
    <3>1. p \in Inside[folder] \ Source(folder)
      BY <1>1, <1>4, <1>7, <2>0, TakenIs
    <3> QED BY <1>4, <2>0, <2>1, <3>1, UploadedValue
  <2>2. CASE profile.transfer # "delta"
    <3>1. profile.clean /\ p \in Seen[folder]
      BY <1>1, <1>4, <1>7, <2>2, TakenIs
    <3>2. device[p] = 0
      BY <3>1 DEF DeployInv, Cleaned
    <3> QED BY <1>4, <2>0, <2>2, <3>2, UploadedValue
  <2> QED BY <2>1, <2>2
<1>8. ASSUME NEW p \in Place \ (Taken(folder) \cup {folder})
      PROVE  Uploaded(folder)[p] = device[p]
  <2>1. p \notin Source(folder) /\ ~ (p \in Inside[folder] /\ profile.transfer = "delta")
    BY <1>1, <1>4, <1>5, <1>8, TakenIs
  <2> QED BY <1>4, <1>8, <2>1, UploadedValue
<1> QED BY <1>1, <1>2, <1>3, <1>4, <1>6, <1>7, <1>8

LEMMA AppUploadKeeps ==
  ASSUME DeployInv, Typed', UploadFolderRecursive, at = 0
  PROVE  DeployInv'
<1>1. /\ pc = "upload" /\ device' = Uploaded("app") /\ folder = "app"
      /\ pc' = (IF profile.publish = "self" THEN "chmod" ELSE "files")
      /\ UNCHANGED <<profile, build, publishFolder, published, complete, began, at, unnoticed>>
  BY AppUploaded DEF UploadFolderRecursive, AfterUpload, GoOn, local
<1>2. Doubtful' = Doubtful /\ at' = 0
  BY <1>1, DoubtfulKept
<1>3. AllSettled(0, 0)'
  <2>1. \A p \in Brought(0, 0) \ Doubtful : device'[p] >= began
    BY <1>1, AppUploaded
  <2>2. Overrun(0)' = {} /\ Brought(0, 0)' = Brought(0, 0)
    BY <1>1, OverrunNone, ProfileKept
  <2> QED BY <1>1, <1>2, <2>1, <2>2 DEF AllSettled, Settled
<1>4. Landed'
  BY <1>1, <1>2, <1>3 DEF Landed, InFolder
<1>5. NoLeftovers'
  <2>1. \A p \in Taken("app") \ Wanted : device'[p] = 0
    BY <1>1, AppUploaded
  <2>2. Wanted' = Wanted /\ Taken("app")' = Taken("app")
    BY <1>1, ProfileKept
  <2>3. NothingElse(0)' <=> \A p \in (Taken("app"))' \ Wanted' : device'[p] = 0
    BY DEF NothingElse, Target
  <2>4. NothingElse(0)'
    BY <2>1, <2>2, <2>3
  <2> QED BY <1>1, <1>2, <2>4 DEF NoLeftovers, InFolder
<1>6. Executable' /\ Cleaned'
  BY <1>1 DEF Executable, Cleaned, InFolder
<1> QED BY <1>1, <1>2, <1>4, <1>5, <1>6, GoOnKeeps DEF Deploying, InFolder

LEMMA DirectoryUploadKeeps ==
  ASSUME DeployInv, Typed', UploadFolderRecursive, at >= 1
  PROVE  DeployInv'
<1>1. /\ pc = "upload" /\ device' = Uploaded(folder) /\ pc' = "directories"
      /\ UNCHANGED <<profile, build, publishFolder, published, complete, began, at, unnoticed>>
  BY DirectoryUploaded DEF UploadFolderRecursive, AfterUpload, GoOn, local
<1>2. /\ Doubtful' = Doubtful /\ TypeOK /\ build \in Nat /\ began <= build /\ at \in Nat
      /\ Files \in Nat
  BY <1>1, DoubtfulKept, NumbersType, ProfileType, ProfileFields DEF DeployInv, Begun, Files
<1>3. ASSUME NEW p \in Brought(Files, at) \ Doubtful
      PROVE  IF p \in Overrun(at) THEN device'[p] = 0 ELSE device'[p] >= began
  <2>1. p \in Place
    BY <1>2, <1>3, BroughtIs, DirectoryUploaded, <1>1
  <2>2. p \in Overrun(at) <=> folder # p /\ (p \in Taken(folder) \/ p \in Overrun(at - 1))
    BY <1>1, <1>2, <2>1, OverrunNext, DirectoryUploaded
  <2>3. CASE p = folder
    BY <1>1, <1>2, <2>2, <2>3, DirectoryUploaded
  <2>4. CASE p # folder /\ p \in Taken(folder)
    BY <1>1, <2>2, <2>4, DirectoryUploaded
  <2>5. CASE p # folder /\ p \notin Taken(folder)
    <3>1. p \in Brought(Files, at - 1)
      <4>1. \A i \in 1..at : i = at \/ i \in 1..(at - 1)
        BY <1>2
      <4>2. folder = profile.directories[at]
        BY <1>1, DirectoryUploaded
      <4> QED BY <1>3, <2>5, <4>1, <4>2 DEF Brought
    <3>2. Settled(p, at - 1)
      BY <1>1, <1>3, <2>5, <3>1 DEF DeployInv, Landed, InFolder
    <3>3. device'[p] = device[p]
      BY <1>1, <2>1, <2>5, DirectoryUploaded
    <3> QED BY <2>2, <2>5, <3>2, <3>3 DEF Settled
  <2> QED BY <2>3, <2>4, <2>5
<1>4. Landed'
  <2>1. Overrun(at)' = Overrun(at) /\ Brought(Files, at)' = Brought(Files, at)
    BY <1>1 DEF Overrun, Taken, Brought, Files
  <2>2. AllSettled(Files, at)'
    BY <1>1, <1>2, <1>3, <2>1 DEF AllSettled, Settled
  <2> QED BY <1>1, <2>2 DEF Landed, InFolder
<1>5. NoLeftovers'
  <2>1. ASSUME NEW i \in 0..at, NEW p \in Taken(Target(i)) \ Wanted
        PROVE  device'[p] = 0
    <3>1. Target(i) \in Folder /\ p # folder
      <4>1. i <= Len(profile.directories) /\ i \in Nat
        BY <1>1, <1>2, DirectoryUploaded, ProfileType, ProfileFields
      <4> QED BY <1>1, <1>2, <2>1, <4>1, TargetType, ProfileType, DirectoryUploaded
             DEF DeployInv, WhichFolder, InFolder, Target
    <3>2. p \in Place
      BY <1>2, <2>1, <3>1, TakenIs
    <3>3. CASE p \in Taken(folder)
      BY <1>1, <3>1, <3>3, DirectoryUploaded
    <3>4. CASE p \notin Taken(folder)
      <4>1. i \in 0..(at - 1)
        BY <1>2, <2>1, <3>4 DEF folder
      <4>2. device[p] = 0
        BY <1>1, <2>1, <4>1 DEF DeployInv, NoLeftovers, NothingElse, InFolder
      <4> QED BY <1>1, <3>1, <3>2, <3>4, <4>2, DirectoryUploaded
    <3> QED BY <3>3, <3>4
  <2>2. NothingElse(at)'
    BY <1>1, <2>1, NothingElseIs
  <2> QED BY <1>1, <2>2 DEF NoLeftovers, InFolder
<1>6. Executable'
  <2>1. "main" # folder /\ "main" \in Place
    BY <1>1, DirectoryUploaded, FoldersAndPlaces DEF App
  <2>2. device'["main"] # 0 => device["main"] # 0
    BY <1>1, <2>1, DirectoryUploaded
  <2>3. executable' = (executable /\ device'["main"] # 0)
    <3>1. "main" \notin Source(folder)
      BY <1>1, <2>1, DirectoryUploaded DEF Source
    <3>2. ModeAfterUpload = {executable /\ device'["main"] # 0}
      BY <3>1, Zenon DEF ModeAfterUpload
    <3> QED BY <3>2, Zenon DEF UploadFolderRecursive
  <2>4. executable = TRUE /\ device'["main"] # 0 => executable' = TRUE
    BY <2>3, Zenon
  <2> QED BY <1>1, <2>2, <2>4 DEF DeployInv, Executable, InFolder
<1>7. Cleaned'
  BY <1>1 DEF Cleaned
<1> QED BY <1>1, <1>2, <1>4, <1>5, <1>6, <1>7, GoOnKeeps DEF Deploying, InFolder

\* A step that moves on and leaves what is on the device.
LEMMA ChmodKeeps ==
  ASSUME DeployInv, Typed', ChangeRemoteFilePermission
  PROVE  DeployInv'
<1>0. pc = "chmod" /\ pc \in Deploying /\ at = 0
  BY DEF ChangeRemoteFilePermission, InFolder, Deploying, DeployInv, WhichFolder
<1>1. CASE Refuse("session")
  BY <1>0, <1>1, RefuseKeeps
<1>2. CASE GoOn("files") /\ UNCHANGED <<publishFolder, device, at>>
           /\ unnoticed' \in {unnoticed, unnoticed \cup {"chmod"}}
           /\ (executable' = TRUE \/ "chmod" \in unnoticed')
  <2>1. Doubtful' = Doubtful /\ pc' = "files" /\ at' = 0
        /\ UNCHANGED <<profile, build, publishFolder, published, complete, began, device>>
    BY <1>0, <1>2, DoubtfulKept DEF GoOn, local
  <2>2. Landed'
    <3>1. AllSettled(0, 0)
      BY <1>0 DEF DeployInv, Landed
    <3>2. AllSettled(0, 0)'
      BY <2>1, <3>1, SettledKept
    <3> QED BY <2>1, <3>2 DEF Landed, InFolder
  <2>3. NoLeftovers'
    <3>1. NothingElse(0)
      BY <1>0 DEF DeployInv, NoLeftovers
    <3>2. NothingElse(0)'
      BY <2>1, <3>1, NothingElseKept
    <3> QED BY <2>1, <3>2 DEF NoLeftovers, InFolder
  <2>4. Executable' /\ Cleaned'
    BY <1>2, <2>1 DEF Executable, Cleaned
  <2> QED BY <1>0, <2>1, <2>2, <2>3, <2>4, GoOnKeeps DEF Deploying
<1> QED BY <1>1, <1>2 DEF ChangeRemoteFilePermission, remote

LEMMA FilesKeeps ==
  ASSUME DeployInv, Typed', DeployAdditionalFiles
  PROVE  DeployInv'
<1>0. /\ pc = "files" /\ pc \in Deploying /\ TypeOK /\ at \in Nat /\ at < Files /\ build \in Nat
      /\ began <= build /\ Files \in Nat /\ profile \in AnyProfile
  BY NumbersType, ProfileType, ProfileFields
     DEF DeployAdditionalFiles, Deploying, DeployInv, Begun, Files
<1>1. CASE Refuse("launcher")
  BY <1>0, <1>1, RefuseKeeps
<1>2. CASE Throw("session") /\ UNCHANGED <<local, complete, began>>
  BY <1>0, <1>2, ThrowKeeps DEF local
<1>3. CASE /\ profile.files[NextEntry] # "missing"
           /\ device' = [device EXCEPT ![profile.files[NextEntry]] = build]
           /\ at' = NextEntry
           /\ GoOn("files")
           /\ UNCHANGED <<publishFolder, folders, executable, unnoticed>>
  <2> DEFINE file == profile.files[at + 1]
  <2>1. file \in File /\ file \in Place /\ file \in Wanted /\ file # "main"
    <3>1. at + 1 \in DOMAIN profile.files /\ file \in File \cup {"missing"}
      BY <1>0, ProfileFields DEF Files
    <3>2. file # "missing"
      BY <1>3 DEF NextEntry
    <3> QED BY <3>1, <3>2, FoldersAndPlaces DEF Wanted, Range, App
  <2>2. /\ pc' = "files" /\ at' = at + 1 /\ Doubtful' = Doubtful
        /\ UNCHANGED <<profile, build, publishFolder, published, complete, began, executable, unnoticed>>
        /\ device'[file] = build /\ \A p \in Place \ {file} : device'[p] = device[p]
    BY <1>0, <1>3, <2>1, DoubtfulKept DEF GoOn, local, NextEntry, TypeOK
  <2>3. Landed'
    <3>1. ASSUME NEW p \in Brought(at + 1, 0) \ Doubtful
          PROVE  device'[p] >= began
      <4>1. CASE p = file
        BY <1>0, <2>2, <4>1
      <4>2. CASE p # file
        <5>1. \A i \in 1..(at + 1) : i = at + 1 \/ i \in 1..at
          BY <1>0
        <5>2. p \in Brought(at, 0)
          BY <3>1, <4>2, <5>1 DEF Brought
        <5>3. p \in Place
          BY <1>0, <5>2, BroughtIs, ProfileFields
        <5>4. device[p] >= began
          BY <1>0, <3>1, <5>2, OverrunNone DEF DeployInv, Landed, AllSettled, Settled
        <5> QED BY <2>2, <4>2, <5>3, <5>4
      <4> QED BY <4>1, <4>2
    <3>2. Overrun(0)' = {}
      BY DEF Overrun
    <3>3. Brought(at + 1, 0) = Brought(at, 0)'
      BY <2>2 DEF Brought
    <3>4. AllSettled(at, 0)'
      BY <2>2, <3>1, <3>2, <3>3 DEF AllSettled, Settled
    <3> QED BY <2>2, <3>4 DEF Landed, InFolder
  <2>4. NoLeftovers'
    <3>1. ASSUME NEW p \in Taken("app") \ Wanted
          PROVE  device'[p] = 0
      <4>1. p \in Place /\ p # file
        BY <1>0, <2>1, <3>1, TakenIs, FoldersAndPlaces
      <4>2. device[p] = 0
        BY <1>0, <3>1 DEF DeployInv, NoLeftovers, NothingElse, Target
      <4> QED BY <2>2, <4>1, <4>2
    <3>2. \A i \in 0..0 : \A p \in Taken(Target(i)) \ Wanted : device'[p] = 0
      BY <3>1 DEF Target
    <3>3. NothingElse(0)'
      BY <2>2, <3>2, NothingElseIs
    <3> QED BY <2>2, <3>3 DEF NoLeftovers, InFolder
  <2>5. Executable' /\ Cleaned'
    BY <1>0, <2>1, <2>2, FoldersAndPlaces DEF DeployInv, Executable, Cleaned
  <2> QED BY <1>0, <2>2, <2>3, <2>4, <2>5, GoOnKeeps DEF Deploying
<1> QED BY <1>1, <1>2, <1>3 DEF DeployAdditionalFiles

LEMMA FilesDeployedKeeps ==
  ASSUME DeployInv, Typed', FilesDeployed
  PROVE  DeployInv'
<1>1. /\ pc = "files" /\ at = Files /\ pc' = "directories" /\ at' = 0 /\ Doubtful' = Doubtful
      /\ UNCHANGED <<profile, build, publishFolder, published, complete, began, device, executable,
                     unnoticed>>
  BY DoubtfulKept DEF FilesDeployed, GoOn, local, remote, Files
<1>2. Landed'
  <2>1. AllSettled(Files, 0)
    BY <1>1 DEF DeployInv, Landed
  <2>2. AllSettled(Files, 0)'
    BY <1>1, <2>1, SettledKept
  <2> QED BY <1>1, <2>2 DEF Landed, InFolder
<1>3. NoLeftovers'
  <2>1. NothingElse(0)
    BY <1>1 DEF DeployInv, NoLeftovers
  <2>2. NothingElse(0)'
    BY <1>1, <2>1, NothingElseKept
  <2> QED BY <1>1, <2>2 DEF NoLeftovers, InFolder
<1>4. Executable' /\ Cleaned'
  BY <1>1 DEF DeployInv, Executable, Cleaned
<1> QED BY <1>1, <1>2, <1>3, <1>4, GoOnKeeps DEF Deploying

LEMMA DirectoriesKeeps ==
  ASSUME DeployInv, Typed', DeployAdditionalDirectories
  PROVE  DeployInv'
<1>0. pc = "directories" /\ pc \in Deploying /\ at \in Nat
  BY NumbersType DEF DeployAdditionalDirectories, Deploying, DeployInv
<1>1. CASE Refuse("launcher")
  BY <1>0, <1>1, RefuseKeeps
<1>2. CASE ~ Refuse("launcher")
  <2>1. /\ pc' = FirstStep /\ at' = at + 1 /\ Doubtful' = Doubtful
        /\ UNCHANGED <<profile, build, publishFolder, published, complete, began, device, executable,
                       unnoticed>>
    BY <1>2, DoubtfulKept DEF DeployAdditionalDirectories, GoOn, local, remote, NextEntry
  <2>2. /\ pc' \in {"clean", "mkdir"}
        /\ pc' = "mkdir" => ~ profile.clean
        /\ pc' = "clean" => profile.clean
    BY <2>1 DEF FirstStep
  <2>3. at' - 1 = at /\ at' >= 1
    BY <1>0, <2>1
  <2>4. Landed'
    <3>1. AllSettled(Files, at)
      BY <1>0 DEF DeployInv, Landed
    <3>a. Overrun(at - 1)' = Overrun(at)
      BY <2>1, <2>3 DEF Overrun, Taken
    <3>b. Brought(Files, at - 1)' = Brought(Files, at)
      BY <2>1, <2>3 DEF Brought, Files
    <3>2. AllSettled(Files, at - 1)'
      BY <2>1, <3>1, <3>a, <3>b DEF AllSettled, Settled
    <3> QED BY <2>2, <3>2 DEF Landed, AllSettled, InFolder
  <2>5. NoLeftovers'
    <3>1. NothingElse(at)
      BY <1>0 DEF DeployInv, NoLeftovers
    <3>2. \A i : /\ Taken(Target(i))' = Taken(Target(i))
                /\ Wanted' = Wanted
      BY <2>1 DEF Taken, Target, Wanted
    <3>3. NothingElse(at - 1)' <=> \A i \in 0..(at' - 1) : \A p \in Taken(Target(i))' \ Wanted' : device'[p] = 0
      BY DEF NothingElse
    <3>4. NothingElse(at - 1)'
      BY <2>1, <2>3, <3>1, <3>2, <3>3 DEF NothingElse
    <3> QED BY <2>2, <3>4 DEF NoLeftovers, InFolder
  <2>6. Executable' /\ Cleaned'
    BY <1>0, <2>1, <2>2 DEF DeployInv, Executable, Cleaned
  <2> QED BY <1>0, <2>1, <2>2, <2>4, <2>5, <2>6, GoOnKeeps DEF Deploying, InFolder
<1> QED BY <1>1, <1>2

LEMMA DoneKeeps ==
  ASSUME DeployInv, Typed', Done
  PROVE  DeployInv'
<1>1. /\ pc' \in {"idle", "before", "query"} /\ complete' = TRUE /\ pc = "directories"
      /\ at = Len(profile.directories) /\ Doubtful' = Doubtful /\ TypeOK
      /\ UNCHANGED <<profile, build, publishFolder, published, began, device, executable, unnoticed>>
  BY ReturnType, DoubtfulKept DEF Done, DeployInv, local, remote
<1>2. Files \in Nat /\ Len(profile.directories) \in Nat
  BY <1>1, ProfileType, ProfileFields DEF Files
<1>3. Begun' /\ Published'
  BY <1>1 DEF DeployInv, Begun, Published, InFolder, Deploying
<1>4. Landed' /\ Cleaned' /\ NoLeftovers' /\ Executable' /\ LaunchDeployed'
  BY <1>1 DEF Landed, Cleaned, NoLeftovers, Executable, LaunchDeployed, InFolder
<1>5. CompleteHasAll'
  <2>1. AllSettled(Files, Len(profile.directories))
    BY <1>1 DEF DeployInv, Landed
  <2>2. Brought(Files, Len(profile.directories)) = Wanted
    BY <1>1, <1>2, BroughtIs
  <2>3. \A p \in Wanted \ Doubtful : IF p \in Lost THEN device[p] = 0 ELSE device[p] >= began
    BY <2>1, <2>2 DEF AllSettled, Settled, Lost
  <2> QED BY <1>1, <2>3, ProfileKept DEF CompleteHasAll
<1>6. CompleteHasNoLeftovers'
  <2>1. NothingElse(at)
    BY <1>1 DEF DeployInv, NoLeftovers
  <2>2. ASSUME NEW f \in {"app"} \cup Range(profile.directories)
        PROVE  /\ f \in Folder
               /\ \A p \in Taken(f) \ Wanted : device[p] = 0
    <3>1. PICK i \in 0..at : f = Target(i)
      <4>1. CASE f = "app"
        BY <1>1, <1>2, <4>1 DEF Target
      <4>2. CASE f \in Range(profile.directories)
        <5>1. PICK i \in 1..at : f = profile.directories[i]
          BY <1>1, <4>2, ProfileType, ProfileFields DEF Range
        <5> QED BY <1>1, <1>2, <5>1 DEF Target
      <4> QED BY <2>2, <4>1, <4>2
    <3>2. f \in Folder
      BY <1>1, <1>2, <3>1, TargetType, ProfileType DEF Target, DeployInv, WhichFolder
    <3> QED BY <2>1, <3>1, <3>2 DEF NothingElse
  <2>3. ASSUME NEW f \in {"app"} \cup Range(profile.directories)
        PROVE  /\ profile.transfer = "delta" => \A p \in Inside[f] \ Wanted : device[p] = 0
               /\ profile.clean => \A p \in Seen[f] \ Wanted : device[p] = 0
    BY <1>1, <2>2, <2>3, TakenIs
  <2> QED BY <1>1, <2>3, ProfileKept DEF CompleteHasNoLeftovers
<1>7. CompleteIsExecutable'
  BY <1>1 DEF DeployInv, Executable, CompleteIsExecutable
<1> QED BY <1>3, <1>4, <1>5, <1>6, <1>7 DEF DeployInv, Typed

\* A build, or nothing.
LEMMA SameKeeps ==
  ASSUME DeployInv, Typed', began <= build',
         UNCHANGED <<profile, publishFolder, device, executable, pc, at, published, complete,
                     began, unnoticed>>
  PROVE  DeployInv'
<1>1. Begun' /\ LaunchDeployed' /\ CompleteIsExecutable' /\ Executable'
  BY DEF DeployInv, Begun, LaunchDeployed, CompleteIsExecutable, Executable
<1>2. Doubtful' = Doubtful /\ folder' = folder /\ Files' = Files
  BY DEF Doubtful, folder, Target, Files
<1>3. Published' /\ Cleaned'
  BY <1>2 DEF DeployInv, Published, Cleaned
<1>4. CompleteHasAll' /\ CompleteHasNoLeftovers'
  BY <1>2, ProfileKept DEF DeployInv, CompleteHasAll, CompleteHasNoLeftovers
<1>5. Overrun(at)' = Overrun(at) /\ Overrun(0)' = Overrun(0) /\ Overrun(at - 1)' = Overrun(at - 1)
  BY DEF Overrun, Taken
<1>6. /\ Brought(0, 0)' = Brought(0, 0) /\ Brought(at, 0)' = Brought(at, 0)
      /\ Brought(Files, at)' = Brought(Files, at) /\ Brought(Files, at - 1)' = Brought(Files, at - 1)
  BY <1>2 DEF Brought
<1>7. Taken(folder)' = Taken(folder)
  BY <1>2 DEF Taken
<1>8. AllSettled(0, 0)' = AllSettled(0, 0) /\ AllSettled(at, 0)' = AllSettled(at, 0)
      /\ AllSettled(Files, at)' = AllSettled(Files, at)
  BY <1>2, <1>5, <1>6 DEF AllSettled, Settled
<1>9. (\A p \in Brought(Files, at - 1) \ (Doubtful \cup Taken(folder) \cup {folder}) : Settled(p, at - 1))'
        <=> \A p \in Brought(Files, at - 1) \ (Doubtful \cup Taken(folder) \cup {folder}) : Settled(p, at - 1)
  BY <1>2, <1>5, <1>6, <1>7 DEF Settled
<1>10. Landed'
  BY <1>8, <1>9 DEF DeployInv, Landed
<1>11. \A i : Taken(Target(i))' = Taken(Target(i)) /\ Wanted' = Wanted
  BY DEF Taken, Target, Wanted
<1>12. NoLeftovers'
  BY <1>11 DEF DeployInv, NoLeftovers, NothingElse
<1> QED BY <1>1, <1>3, <1>4, <1>10, <1>12 DEF DeployInv, Typed

LEMMA DeployInvStep == DeployInv /\ [Next]_vars => DeployInv'
<1> SUFFICES ASSUME DeployInv, [Next]_vars
             PROVE  DeployInv'
  OBVIOUS
<1>0. Typed'
  BY TypedStep DEF DeployInv, Typed
<1>f. TypeOK /\ began <= build /\ build \in Nat /\ began \in Nat /\ build >= 1
  BY NumbersType DEF DeployInv, Begun
<1>1. CASE Step
  <2>1. CASE OnBeforeLaunch
    <3>1. pc = "before" /\ UNCHANGED <<profile, build, publishFolder, device, executable>>
      BY <2>1 DEF OnBeforeLaunch, local, remote
    <3>2. CASE End /\ UNCHANGED <<published, complete, began, unnoticed>>
      BY <1>0, <3>1, <3>2, QuietKeeps DEF End, LaunchDeployed
    <3>3. CASE ~ profile.deployOnStart /\ pc' = "query"
               /\ UNCHANGED <<caller, at, published, complete, began, unnoticed>>
      BY <1>0, <3>1, <3>3, QuietKeeps DEF LaunchDeployed
    <3>4. CASE Begin(IF profile.publish = "no" THEN FirstStep ELSE "publish")
      <4>1. /\ published' = FALSE /\ complete' = FALSE /\ began' = build /\ at' = 0 /\ unnoticed' = {}
            /\ pc' = IF profile.publish = "no" THEN FirstStep ELSE "publish"
        BY <3>4 DEF Begin
      <4>2. CASE profile.publish = "no"
        <5>1. /\ pc' = FirstStep /\ began' >= 1 /\ began' <= build' /\ ~ (published' = TRUE)
              /\ profile' = profile
          BY <1>f, <3>1, <4>1, <4>2
        <5> QED BY <1>0, <4>1, <4>2, <5>1, FirstStepKeeps
      <4>3. CASE profile.publish # "no"
        <5>1. Begun' /\ Published'
          BY <1>f, <3>1, <4>1, <4>3 DEF Begun, Published, InFolder, Deploying
        <5>2. Landed' /\ Cleaned' /\ NoLeftovers' /\ Executable' /\ LaunchDeployed'
          BY <4>1, <4>3 DEF Landed, Cleaned, NoLeftovers, Executable, LaunchDeployed, InFolder
        <5>3. CompleteHasAll' /\ CompleteHasNoLeftovers' /\ CompleteIsExecutable'
          BY <4>1 DEF CompleteHasAll, CompleteHasNoLeftovers, CompleteIsExecutable
        <5> QED BY <1>0, <5>1, <5>2, <5>3 DEF DeployInv, Typed
      <4> QED BY <4>2, <4>3
    <3> QED BY <2>1, <3>2, <3>3, <3>4 DEF OnBeforeLaunch
  <2>2. CASE QueryDebugTargets
    <3>1. /\ pc = "query" /\ pc' \in {"debugging", "idle"}
          /\ UNCHANGED <<profile, build, device, executable, began, complete, unnoticed>>
      BY <2>2 DEF QueryDebugTargets, End, local, remote
    <3>2. LaunchDeployed'
      BY <3>1 DEF DeployInv, LaunchDeployed
    <3> QED BY <1>0, <3>1, <3>2, QuietKeeps
  <2>3. CASE CheckConnectionThrow
    BY <1>0, <2>3, ConnectKeeps
  <2>4. CASE Publish
    BY <1>0, <2>4, PublishKeeps
  <2>5. CASE CleanFolder
    BY <1>0, <2>5, CleanKeeps
  <2>6. CASE CreateFolderIfNeeded
    BY <1>0, <2>6, CreateKeeps
  <2>7. CASE UploadFolderRecursive
    BY <1>0, <1>f, <2>7, AppUploadKeeps, DirectoryUploadKeeps, NumbersType
  <2>8. CASE UploadFolderFails
    BY <1>0, <2>8, ThrowKeeps DEF UploadFolderFails, local, Deploying, InFolder
  <2>9. CASE ChangeRemoteFilePermission
    BY <1>0, <2>9, ChmodKeeps
  <2>10. CASE DeployAdditionalFiles
    BY <1>0, <2>10, FilesKeeps
  <2>11. CASE FilesDeployed
    BY <1>0, <2>11, FilesDeployedKeeps
  <2>12. CASE DeployAdditionalDirectories
    BY <1>0, <2>12, DirectoriesKeeps
  <2>13. CASE Done
    BY <1>0, <2>13, DoneKeeps
  <2> QED
    BY <1>1, <2>1, <2>2, <2>3, <2>4, <2>5, <2>6, <2>7, <2>8, <2>9, <2>10, <2>11, <2>12, <2>13
       DEF Step
<1>2. ASSUME NEW who \in {"menu", "command", "solution"}, Deploy(who)
      PROVE  DeployInv'
  <2>1. /\ pc' = "connect" /\ published' = FALSE /\ complete' = FALSE /\ began' = build
        /\ unnoticed' = {} /\ UNCHANGED <<profile, build>>
    BY <1>2 DEF Deploy, Begin, local
  <2>2. Begun' /\ Published'
    BY <1>f, <2>1 DEF Begun, Published, InFolder, Deploying
  <2>3. Landed' /\ Cleaned' /\ NoLeftovers' /\ Executable' /\ LaunchDeployed'
    BY <2>1 DEF Landed, Cleaned, NoLeftovers, Executable, LaunchDeployed, InFolder
  <2>4. CompleteHasAll' /\ CompleteHasNoLeftovers' /\ CompleteIsExecutable'
    BY <2>1 DEF CompleteHasAll, CompleteHasNoLeftovers, CompleteIsExecutable
  <2> QED BY <1>0, <2>2, <2>3, <2>4 DEF DeployInv, Typed
<1>3. CASE StartDebugging \/ CleanRemoteFolder \/ ChangeProfile
  <2>1. /\ pc' \in {"idle", "before"} /\ complete' = FALSE /\ build' = build
        /\ began' \in {0, began}
    BY <1>3 DEF StartDebugging, CleanRemoteFolder, ChangeProfile, local
  <2>2. began' <= build'
    BY <1>f, <2>1
  <2> QED BY <1>0, <2>1, <2>2, IncompleteKeeps
<1>4. CASE StopDebugging
  BY <1>0, <1>4, QuietKeeps DEF StopDebugging, End, local, remote, LaunchDeployed
<1>5. CASE Build
  <2>1. began <= build'
    BY <1>f, <1>5 DEF Build
  <2> QED BY <1>0, <1>5, <2>1, SameKeeps DEF Build, remote
<1>6. CASE UNCHANGED vars
  BY <1>0, <1>f, <1>6, SameKeeps DEF vars
<1> QED BY <1>1, <1>2, <1>3, <1>4, <1>5, <1>6 DEF Next, Request

LEMMA DeployInvCorrect == Spec => []DeployInv
<1> QED BY DeployInvInit, DeployInvStep, PTL DEF Spec

----------------------------------------------------------------------------
(***************************************************************************)
(* The theorems. The values have their types; when a loop over the         *)
(* entries of the profile runs, it is at one of them.                      *)
(***************************************************************************)
THEOREM DeployTypeCorrect == Spec => []TypeOK
<1>1. DeployInv => TypeOK
  BY DEF DeployInv
<1> QED BY <1>1, DeployInvCorrect, PTL

(***************************************************************************)
(* A deployment that went through all its steps has left everything the    *)
(* profile asks for on the device, none of it older than the build it      *)
(* began with. What is lost, whatever the targets contain, is exactly what *)
(* lies in the target of a later directory; a killed publish that counts   *)
(* as a success puts the application in doubt.                             *)
(***************************************************************************)
THEOREM CompleteHasAllCorrect == Spec => []CompleteHasAll
<1>1. DeployInv => CompleteHasAll
  BY DEF DeployInv
<1> QED BY <1>1, DeployInvCorrect, PTL

(***************************************************************************)
(* ... and nothing else in its target folders, if it copied the            *)
(* differences; if it cleaned, nothing but what begins with ".".           *)
(***************************************************************************)
THEOREM CompleteHasNoLeftoversCorrect == Spec => []CompleteHasNoLeftovers
<1>1. DeployInv => CompleteHasNoLeftovers
  BY DEF DeployInv
<1> QED BY <1>1, DeployInvCorrect, PTL

(***************************************************************************)
(* ... and a self-contained application that is there can be started,      *)
(* unless its chmod failed, which the code does not notice.                *)
(***************************************************************************)
THEOREM CompleteIsExecutableCorrect == Spec => []CompleteIsExecutable
<1>1. DeployInv => CompleteIsExecutable
  BY DEF DeployInv
<1> QED BY <1>1, DeployInvCorrect, PTL

(***************************************************************************)
(* The debugger is not started on an old version when it is the extension  *)
(* that deploys before the start, but for a killed publish or a directory  *)
(* that takes main away.                                                   *)
(***************************************************************************)
THEOREM ExtensionLaunchesTheBuildCorrect == Spec => []ExtensionLaunchesTheBuild
<1>1. ASSUME DeployInv
      PROVE  ExtensionLaunchesTheBuild
  <2>1. pc = "debugging" /\ profile.deployOnStart => complete = TRUE
    BY <1>1 DEF DeployInv, LaunchDeployed
  <2>2. complete = TRUE /\ "main" \notin Lost \cup Doubtful => device["main"] >= began
    BY <1>1 DEF DeployInv, CompleteHasAll, Wanted
  <2> QED BY <2>1, <2>2 DEF ExtensionLaunchesTheBuild
<1> QED BY <1>1, DeployInvCorrect, PTL

(***************************************************************************)
(* While a deployment with publish runs, the device is not touched before  *)
(* "dotnet publish" was taken for a success, and unless it was killed the  *)
(* new version is in the publish folder.                                   *)
(***************************************************************************)
PublishFirst ==
  pc # "idle" /\ profile.publish # "no" /\ began # 0
    /\ (folders' # folders \/ device' # device)
  => published /\ \A p \in App \ Doubtful : publishFolder[p] >= began

THEOREM PublishedBeforeTouchedCorrect == Spec => PublishedBeforeTouched
<1>1. ASSUME DeployInv, [Next]_vars
      PROVE  [PublishFirst]_vars
  <2>1. CASE pc \in Deploying
    <3>1. profile.publish # "no" => published = TRUE /\ \A p \in App \ Doubtful : publishFolder[p] >= began
      BY <1>1, <2>1 DEF DeployInv, Published
    <3> QED BY <3>1 DEF PublishFirst
  <2>2. CASE pc \notin Deploying
    <3>1. pc = "idle" \/ (folders' = folders /\ device' = device)
      <4>1. CASE Step
        BY <2>2, <4>1 DEF Step, Deploying, InFolder, OnBeforeLaunch, QueryDebugTargets,
           CheckConnectionThrow, Publish, CleanFolder, CreateFolderIfNeeded, UploadFolderRecursive,
           UploadFolderFails, ChangeRemoteFilePermission, DeployAdditionalFiles, FilesDeployed,
           DeployAdditionalDirectories, Done, Refuse, remote
      <4>2. CASE Request
        BY <4>2 DEF Request, Deploy, StartDebugging, StopDebugging, CleanRemoteFolder, remote
      <4>3. CASE Build \/ ChangeProfile
        BY <4>3 DEF Build, ChangeProfile, remote
      <4>4. CASE UNCHANGED vars
        BY <4>4 DEF vars
      <4> QED BY <1>1, <4>1, <4>2, <4>3, <4>4 DEF Next
    <3> QED BY <3>1 DEF PublishFirst
  <2> QED BY <2>1, <2>2
<1> QED BY <1>1, DeployInvCorrect, PTL DEF Spec, PublishedBeforeTouched, PublishFirst

----------------------------------------------------------------------------
(***************************************************************************)
(* The versions on the device. Nothing is newer than the last build, and   *)
(* until a deployment has uploaded the application, what is there of it is *)
(* no newer than the build the deployment began with.                      *)
(***************************************************************************)
Bounded ==
  /\ \A p \in App : publishFolder[p] <= build
  /\ \A p \in Place : device[p] <= build

NotReached ==
  pc \in {"connect", "publish"} \/ (pc \in InFolder /\ at = 0) =>
    \A p \in App : device[p] <= began

VersionInv == DeployInv /\ Bounded /\ NotReached

\* What a step of a running deployment may do to a place.
NotOlder(p) ==
  \/ device'[p] \in {device[p], 0}
  \/ device'[p] \in began..build /\ device'[p] >= device[p]

\* What an upload puts in place of something else is no older.
LEMMA UploadNotOlder ==
  ASSUME VersionInv, pc = "upload", NEW p \in Place,
         device'[p] \in {device[p], Uploaded(folder)[p], 0}
  PROVE  /\ p \notin Doubtful => NotOlder(p)
         /\ device'[p] <= build
<1>1. /\ TypeOK /\ began <= build /\ folder \in Folder
      /\ (published = TRUE) <=> (profile.publish # "no")
      /\ published = TRUE => \A q \in App \ Doubtful : publishFolder[q] >= began
      /\ published \in BOOLEAN
      /\ device[p] <= build
  BY DEF VersionInv, DeployInv, Begun, Published, Deploying, InFolder, TypeOK, Bounded
<1>2. /\ build \in Nat /\ began \in Nat /\ device[p] \in Nat /\ at \in Nat
      /\ \A q \in App : publishFolder[q] \in Nat
  BY <1>1, NumbersType
<1>3. CASE p \notin Source(folder)
  <2>1. Uploaded(folder)[p] \in {device[p], 0}
    BY <1>1, <1>3, UploadedValue
  <2> QED BY <1>1, <1>2, <2>1 DEF NotOlder
<1>4. CASE p \in Source(folder)
  <2>1. Uploaded(folder)[p] = Version(p)
    BY <1>1, <1>4, UploadedValue
  <2>2. CASE published = TRUE /\ p \in App
    <3>1. Version(p) = publishFolder[p]
      BY <2>2 DEF Version
    <3>2. publishFolder[p] <= build
      BY <2>2 DEF VersionInv, Bounded
    <3>3. at = 0
      <4>1. CASE at >= 1
        <5>1. folder \in Directory /\ folder # "app"
          BY <4>1, DirectoryUploaded DEF VersionInv
        <5> QED BY <1>4, <2>2, <5>1, FoldersAndPlaces DEF Source
      <4> QED BY <1>2, <4>1
    <3>4. device[p] <= began
      BY <2>2, <3>3 DEF VersionInv, NotReached, InFolder
    <3>5. p \notin Doubtful => publishFolder[p] >= began
      BY <1>1, <2>2
    <3> QED BY <1>1, <1>2, <2>1, <2>2, <3>1, <3>2, <3>4, <3>5 DEF NotOlder
  <2>3. CASE ~ (published = TRUE /\ p \in App)
    <3>1. Version(p) = build
      BY <1>1, <2>3 DEF Version
    <3> QED BY <1>1, <1>2, <2>1, <3>1 DEF NotOlder
  <2> QED BY <2>2, <2>3
<1> QED BY <1>3, <1>4

\* No step of a deployment puts something older in place of something else.
LEMMA StepNotOlder ==
  ASSUME VersionInv, Step
  PROVE  /\ \A p \in Place \ Doubtful : NotOlder(p)
         /\ \A p \in Place : device'[p] <= build
<1>1. /\ TypeOK /\ began <= build /\ build \in Nat /\ began \in Nat
      /\ \A p \in Place : device[p] \in Nat /\ device[p] <= build
  BY NumbersType DEF VersionInv, DeployInv, Begun, Bounded
<1>2. CASE UNCHANGED device
  BY <1>1, <1>2 DEF NotOlder
<1>3. CASE CleanFolder
  <2>1. CASE device' = device
    BY <1>2, <2>1
  <2>2. CASE \E places, gone : Removed(places, gone)
    <3>1. \A p \in Place : device'[p] \in {device[p], 0}
      BY <1>1, <2>2, RemovedType
    <3> QED BY <1>1, <3>1 DEF NotOlder
  <2> QED BY <1>3, <2>1, <2>2 DEF CleanFolder, CleanPartOf, Refuse, remote
<1>4. CASE UploadFolderRecursive
  BY <1>4, UploadNotOlder DEF UploadFolderRecursive
<1>5. CASE UploadFolderFails
  <2>1. pc = "upload" /\ \A p \in Place : device'[p] \in {device[p], Uploaded(folder)[p], 0}
    BY <1>5 DEF UploadFolderFails, HalfUploaded
  <2> QED BY <2>1, UploadNotOlder
<1>6. CASE DeployAdditionalFiles
  <2>1. \A p \in Place : device'[p] \in {device[p], 0, build}
    BY <1>1, <1>6 DEF DeployAdditionalFiles, Refuse, remote, TypeOK
  <2> QED BY <1>1, <2>1 DEF NotOlder
<1> QED
  BY <1>2, <1>3, <1>4, <1>5, <1>6 DEF Step, OnBeforeLaunch, QueryDebugTargets,
     CheckConnectionThrow, Publish, CreateFolderIfNeeded, ChangeRemoteFilePermission,
     FilesDeployed, DeployAdditionalDirectories, Done, Refuse, remote

LEMMA VersionInvInit == Init => VersionInv
<1> SUFFICES ASSUME Init
             PROVE  VersionInv
  OBVIOUS
<1>1. DeployInv
  BY DeployInvInit
<1>2. Bounded /\ NotReached
  BY DEF Init, Bounded, NotReached, InFolder
<1> QED BY <1>1, <1>2 DEF VersionInv

\* Until the application is uploaded, what is there of it is only taken away.
LEMMA StepReached ==
  ASSUME VersionInv, Step
  PROVE  NotReached'
<1>0. /\ TypeOK /\ began \in Nat /\ build \in Nat /\ began <= build /\ at \in Nat
      /\ \A p \in Place : device[p] \in Nat /\ device[p] <= build
      /\ \A p \in App : p \in Place
  BY NumbersType, FoldersAndPlaces DEF VersionInv, DeployInv, Begun, Bounded
<1>1. CASE pc' \notin {"connect", "publish"} \cup InFolder
  BY <1>1 DEF NotReached
<1>2. CASE pc' \in {"connect", "publish"} \cup InFolder
  <2>1. CASE OnBeforeLaunch
    <3>1. device' = device /\ began' = build
      BY <1>2, <2>1 DEF OnBeforeLaunch, Begin, End, remote, InFolder
    <3> QED BY <1>0, <3>1 DEF NotReached
  <2>2. CASE QueryDebugTargets \/ UploadFolderRecursive \/ UploadFolderFails
             \/ ChangeRemoteFilePermission \/ DeployAdditionalFiles \/ FilesDeployed \/ Done
    <3>1. CASE QueryDebugTargets \/ Done \/ FilesDeployed
      BY <1>0, <1>2, <3>1, ReturnType DEF QueryDebugTargets, Done, FilesDeployed, GoOn, End, InFolder
    <3>2. CASE UploadFolderRecursive \/ UploadFolderFails
      BY <1>0, <1>2, <3>2, ThrowType DEF UploadFolderRecursive, UploadFolderFails, AfterUpload, GoOn, InFolder
    <3>3. CASE ChangeRemoteFilePermission \/ DeployAdditionalFiles
      BY <1>0, <1>2, <3>3, ThrowType DEF ChangeRemoteFilePermission, DeployAdditionalFiles, GoOn, Refuse, InFolder
    <3> QED BY <2>2, <3>1, <3>2, <3>3
  <2>3. CASE CheckConnectionThrow \/ Publish
    <3>1. pc \in {"connect", "publish"} /\ UNCHANGED <<device, began>>
      BY <1>0, <1>2, <2>3, ThrowType DEF CheckConnectionThrow, Publish, Refuse, GoOn, remote, InFolder
    <3> QED BY <3>1 DEF VersionInv, NotReached
  <2>4. CASE CleanFolder
    <3>1. pc = "clean" /\ pc' = "mkdir" /\ Removed(Seen[folder], Below(folder)) /\ UNCHANGED <<at, began>>
      BY <1>0, <1>2, <2>4, ThrowType DEF CleanFolder, Refuse, GoOn, InFolder
    <3>2. \A p \in Place : device'[p] \in {device[p], 0}
      BY <1>0, <3>1, RemovedType
    <3> QED BY <1>0, <3>1, <3>2 DEF VersionInv, NotReached, InFolder
  <2>5. CASE CreateFolderIfNeeded
    <3>1. pc = "mkdir" /\ pc' = "upload" /\ UNCHANGED <<at, began, device>>
      BY <1>0, <1>2, <2>5, ThrowType DEF CreateFolderIfNeeded, Refuse, GoOn, InFolder
    <3> QED BY <3>1 DEF VersionInv, NotReached, InFolder
  <2>6. CASE DeployAdditionalDirectories
    <3>1. at' = at + 1
      BY <1>0, <1>2, <2>6, ThrowType DEF DeployAdditionalDirectories, Refuse, NextEntry, InFolder
    <3>2. pc' \in {"clean", "mkdir"}
      BY <1>0, <1>2, <2>6, ThrowType, FirstStepType DEF DeployAdditionalDirectories, Refuse, GoOn, InFolder
    <3> QED BY <1>0, <3>1, <3>2 DEF NotReached
  <2> QED BY <2>1, <2>2, <2>3, <2>4, <2>5, <2>6 DEF Step
<1> QED BY <1>1, <1>2

LEMMA VersionInvStep == VersionInv /\ [Next]_vars => VersionInv'
<1> SUFFICES ASSUME VersionInv, [Next]_vars
             PROVE  VersionInv'
  OBVIOUS
<1>0. /\ DeployInv /\ DeployInv' /\ TypeOK /\ TypeOK'
      /\ build \in Nat /\ began \in Nat /\ began <= build
      /\ \A p \in App : publishFolder[p] \in Nat /\ publishFolder[p] <= build /\ p \in Place
      /\ \A p \in Place : device[p] \in Nat /\ device[p] <= build
  BY DeployInvStep, NumbersType, FoldersAndPlaces DEF VersionInv, DeployInv, Bounded, Begun
<1>1. CASE Step
  <2>1. NotReached'
    BY <1>1, StepReached
  <2>2. build' = build
    BY <1>1 DEF Step, OnBeforeLaunch, QueryDebugTargets, CheckConnectionThrow, Publish, CleanFolder,
       CreateFolderIfNeeded, UploadFolderRecursive, UploadFolderFails, ChangeRemoteFilePermission,
       DeployAdditionalFiles, FilesDeployed, DeployAdditionalDirectories, Done, GoOn, Refuse, local
  <2>3. \A p \in App : publishFolder'[p] \in {publishFolder[p], build, 0}
    <3>1. CASE Publish
      BY <3>1 DEF Publish, HalfPublished, Refuse
    <3>2. CASE ~ Publish
      BY <1>1, <3>2 DEF Step, OnBeforeLaunch, QueryDebugTargets, CheckConnectionThrow, CleanFolder,
         CreateFolderIfNeeded, UploadFolderRecursive, UploadFolderFails, ChangeRemoteFilePermission,
         DeployAdditionalFiles, FilesDeployed, DeployAdditionalDirectories, Done, Refuse
    <3> QED BY <3>1, <3>2
  <2>4. \A p \in Place : device'[p] <= build
    BY <1>1, StepNotOlder
  <2> QED BY <1>0, <2>1, <2>2, <2>3, <2>4 DEF VersionInv, Bounded
<1>2. ASSUME NEW who \in {"menu", "command", "solution"}, Deploy(who)
      PROVE  VersionInv'
  <2>1. UNCHANGED <<device, build, publishFolder>> /\ began' = build
    BY <1>2 DEF Deploy, Begin, local, remote
  <2> QED BY <1>0, <2>1 DEF VersionInv, Bounded, NotReached
<1>3. CASE StartDebugging \/ StopDebugging \/ CleanRemoteFolder \/ ChangeProfile
  <2>1. /\ pc' \in {"idle", "before"} /\ UNCHANGED <<build, publishFolder>>
        /\ \A p \in Place : device'[p] \in {device[p], 0}
    <3>1. CASE CleanRemoteFolder
      BY <1>0, <3>1, RemovedType DEF CleanRemoteFolder, CleanPartOf, local
    <3>2. CASE StartDebugging \/ StopDebugging \/ ChangeProfile
      BY <3>2 DEF StartDebugging, StopDebugging, ChangeProfile, End, local, remote
    <3> QED BY <1>3, <3>1, <3>2
  <2> QED BY <1>0, <2>1 DEF VersionInv, Bounded, NotReached, InFolder
<1>4. CASE Build \/ UNCHANGED vars
  <2>1. UNCHANGED <<device, pc, at, began, publishFolder>> /\ build' \in {build, build + 1}
    BY <1>4 DEF Build, remote, vars
  <2> QED BY <1>0, <2>1 DEF VersionInv, Bounded, NotReached
<1> QED BY <1>1, <1>2, <1>3, <1>4 DEF Next, Request

LEMMA VersionInvCorrect == Spec => []VersionInv
<1> QED BY VersionInvInit, VersionInvStep, PTL DEF Spec

(***************************************************************************)
(* A deployment never puts an older version in place of a newer one: what  *)
(* a place has only grows newer, but for what is taken away and what a     *)
(* killed publish has made. It matters because each step reads its version *)
(* when it runs, some from the publish folder and some from the build,     *)
(* while the developer goes on building.                                   *)
(***************************************************************************)
NoPlaceGrowsOlder ==
  \A p \in Place \ Doubtful : device'[p] = 0 \/ device'[p] >= device[p]

THEOREM NeverOlderCorrect == Spec => [][NoPlaceGrowsOlder]_device
<1>1. ASSUME VersionInv, [Next]_vars
      PROVE  [NoPlaceGrowsOlder]_device
  <2>0. TypeOK /\ \A p \in Place : device[p] \in Nat
    BY <1>1, NumbersType DEF VersionInv, DeployInv
  <2>1. CASE Step
    BY <1>1, <2>0, <2>1, StepNotOlder DEF NotOlder, NoPlaceGrowsOlder
  <2>2. CASE CleanRemoteFolder
    BY <2>0, <2>2, RemovedType DEF CleanRemoteFolder, CleanPartOf, NoPlaceGrowsOlder
  <2> QED
    BY <1>1, <2>1, <2>2 DEF Next, Request, Deploy, StartDebugging, StopDebugging, Build,
       ChangeProfile, remote, vars
<1> QED BY <1>1, VersionInvCorrect, PTL DEF Spec

----------------------------------------------------------------------------
(***************************************************************************)
(* The refinement. A step of the deployment is a step of AppDeployment     *)
(* that transfers, completes or fails, or one it does not see.             *)
(***************************************************************************)
AppStep == [Contract!Next]_(Contract!appVars)

LEMMA PhaseIs ==
  /\ pc \in {"connect", "publish"} => Phase = "preparing"
  /\ pc \in Deploying => Phase = "touching"
  /\ pc \in {"idle", "before", "query", "debugging"} => Phase = "idle"
  /\ pc' \in {"connect", "publish"} => Phase' = "preparing"
  /\ pc' \in Deploying => Phase' = "touching"
  /\ pc' \in {"idle", "before", "query", "debugging"} => Phase' = "idle"
  BY DEF Phase, Deploying, InFolder

LEMMA WantedKept ==
  ASSUME profile' = profile
  PROVE  (Wanted \ Lost)' = Wanted \ Lost
  BY ProfileKept

LEMMA DeviceIs == ASSUME TypeOK' PROVE device' = [p \in Place |-> device'[p]]
  BY DEF TypeOK

LEMMA TouchMaps ==
  ASSUME TypeOK', \A p \in Place \ Doubtful : NotOlder(p)
  PROVE  Contract!Touch
  BY DeviceIs DEF Contract!Touch, NotOlder

\* A step the device does not show, within a phase.
LEMMA StutterMaps ==
  ASSUME Phase' = Phase, UNCHANGED <<profile, build, device, began, unnoticed, complete>>
  PROVE  AppStep
<1>1. Doubtful' = Doubtful /\ (Wanted \ Lost)' = Wanted \ Lost
  BY WantedKept, DoubtfulKept
<1> QED BY <1>1 DEF AppStep, Contract!appVars

LEMMA TransferMaps ==
  ASSUME TypeOK', pc \in Deploying, pc' \in Deploying, \A p \in Place \ Doubtful : NotOlder(p),
         UNCHANGED <<profile, build, began, complete>>, Doubtful' = Doubtful
  PROVE  AppStep
  BY PhaseIs, WantedKept, TouchMaps DEF AppStep, Contract!Next, Contract!Transfer

LEMMA FailMaps ==
  ASSUME TypeOK, TypeOK', NEW exception \in {"launcher", "session"}, Throw(exception),
         UNCHANGED <<profile, build, began, complete, unnoticed>>,
         \/ pc \in {"connect", "publish"} /\ UNCHANGED device
         \/ pc \in Deploying /\ \A p \in Place \ Doubtful : NotOlder(p)
  PROVE  AppStep
<1>1. Phase' = "idle"
  BY PhaseIs, ThrowType
<1>2. (Wanted \ Lost)' = Wanted \ Lost /\ Doubtful' = Doubtful
  BY WantedKept, DoubtfulKept
<1>3. Contract!Fail
  <2>1. CASE pc \in {"connect", "publish"} /\ UNCHANGED device
    BY <1>1, <1>2, <2>1, PhaseIs DEF Contract!Fail
  <2>2. CASE pc \in Deploying /\ \A p \in Place \ Doubtful : NotOlder(p)
    BY <1>1, <1>2, <2>2, PhaseIs, TouchMaps DEF Contract!Fail
  <2> QED BY <2>1, <2>2
<1> QED BY <1>3 DEF AppStep, Contract!Next

LEMMA RefuseMaps ==
  ASSUME TypeOK, TypeOK', NEW exception \in {"launcher", "session"}, Refuse(exception),
         pc \in {"connect", "publish"} \cup Deploying
  PROVE  AppStep
<1>1. Throw(exception) /\ UNCHANGED <<profile, build, began, complete, device, unnoticed>>
  BY DEF Refuse, local, remote
<1>2. \A p \in Place : NotOlder(p)
  BY <1>1 DEF NotOlder
<1> QED BY <1>1, <1>2, FailMaps

LEMMA DoneMaps ==
  ASSUME DeployInv, DeployInv', Done, \A p \in Place \ Doubtful : NotOlder(p)
  PROVE  AppStep
<1>0. pc = "directories" /\ UNCHANGED <<profile, build, began, unnoticed>> /\ TypeOK /\ TypeOK'
  BY DEF Done, local, DeployInv
<1>1. Phase' = "idle" /\ Phase = "touching" /\ complete' = TRUE
  BY <1>0, PhaseIs, ReturnType DEF Done, Deploying
<1>2. (Wanted \ Lost)' = Wanted \ Lost /\ Doubtful' = Doubtful
      /\ Wanted' = Wanted /\ Lost' = Lost
  BY <1>0, WantedKept, DoubtfulKept, ProfileKept
<1>3. \A p \in (Wanted \ Lost) \ Doubtful : device'[p] >= began
  BY <1>0, <1>1, <1>2 DEF DeployInv, CompleteHasAll
<1> QED BY <1>0, <1>1, <1>2, <1>3, TouchMaps DEF AppStep, Contract!Next, Contract!Complete

\* A deployment begins, and comes to its first step on the device.
LEMMA BeginMaps ==
  ASSUME Phase = "idle", pc' \in {"connect", "publish"} \cup Deploying,
         complete' = FALSE, began' = build, unnoticed' = {}, UNCHANGED <<profile, build, device>>
  PROVE  AppStep
<1>1. /\ Phase' \in {"preparing", "touching"} /\ (Wanted \ Lost)' = Wanted \ Lost
      /\ Doubtful' = {}
  BY PhaseIs, WantedKept DEF Doubtful
<1> QED BY <1>1 DEF AppStep, Contract!Next, Contract!Begin

LEMMA PreparedMaps ==
  ASSUME pc \in {"connect", "publish"}, pc' \in Deploying,
         UNCHANGED <<profile, build, device, began, complete>>
  PROVE  AppStep
<1>1. Doubtful' \in SUBSET Place
  BY FoldersAndPlaces DEF Doubtful
<1> QED BY <1>1, PhaseIs, WantedKept DEF AppStep, Contract!Next, Contract!Prepared

LEMMA StepMaps ==
  ASSUME VersionInv, VersionInv', Step
  PROVE  AppStep
<1>0. DeployInv /\ DeployInv' /\ TypeOK /\ TypeOK' /\ \A p \in Place \ Doubtful : NotOlder(p)
  BY StepNotOlder DEF VersionInv, DeployInv
<1>1. CASE OnBeforeLaunch
  <2>1. pc = "before" /\ Phase = "idle" /\ UNCHANGED <<profile, build, device>>
    BY <1>1, PhaseIs DEF OnBeforeLaunch, local, remote
  <2>2. CASE Begin(IF profile.publish = "no" THEN FirstStep ELSE "publish")
    BY <2>1, <2>2, FirstStepType, BeginMaps DEF Begin, Deploying, InFolder
  <2>3. CASE pc' \in {"query", "idle"} /\ UNCHANGED <<complete, began, unnoticed>>
    BY <2>1, <2>3, PhaseIs, StutterMaps
  <2> QED BY <1>1, <2>2, <2>3 DEF OnBeforeLaunch, End
<1>2. CASE QueryDebugTargets
  BY <1>2, PhaseIs, StutterMaps DEF QueryDebugTargets, End, local, remote
<1>3. CASE CheckConnectionThrow
  <2>1. CASE Refuse("launcher")
    BY <1>0, <1>3, <2>1, RefuseMaps DEF CheckConnectionThrow
  <2>2. CASE ~ Refuse("launcher")
    <3>1. /\ pc = "connect" /\ pc' \in {"publish", "clean", "mkdir"}
          /\ UNCHANGED <<profile, build, device, began, complete, unnoticed>>
      BY <1>3, <2>2, FirstStepType DEF CheckConnectionThrow, GoOn, local, remote
    <3> QED BY <3>1, PhaseIs, StutterMaps, PreparedMaps DEF Deploying, InFolder
  <2> QED BY <2>1, <2>2
<1>4. CASE Publish
  <2>1. pc = "publish" /\ UNCHANGED <<profile, build, device, began, complete>>
    BY <1>4 DEF Publish, local, remote
  <2>2. CASE Refuse("session")
    BY <1>0, <2>1, <2>2, RefuseMaps
  <2>3. CASE Throw("launcher") /\ UNCHANGED unnoticed
    BY <1>0, <2>1, <2>3, FailMaps
  <2>4. CASE pc' = FirstStep
    BY <2>1, <2>4, FirstStepType, PreparedMaps DEF Deploying, InFolder
  <2> QED BY <1>4, <2>2, <2>3, <2>4 DEF Publish
<1>5. CASE CleanFolder \/ CreateFolderIfNeeded \/ ChangeRemoteFilePermission \/ DeployAdditionalFiles
           \/ FilesDeployed \/ DeployAdditionalDirectories \/ UploadFolderRecursive \/ UploadFolderFails
  <2>1. pc \in Deploying /\ UNCHANGED <<profile, build, began, complete>>
    BY <1>5 DEF CleanFolder, CreateFolderIfNeeded, ChangeRemoteFilePermission, DeployAdditionalFiles,
       FilesDeployed, DeployAdditionalDirectories, UploadFolderRecursive, UploadFolderFails,
       Refuse, GoOn, local, Deploying, InFolder
  <2>2. CASE (Throw("launcher") \/ Throw("session")) /\ UNCHANGED unnoticed
    BY <1>0, <2>1, <2>2, FailMaps
  <2>3. CASE pc' \in Deploying /\ unnoticed' \in {unnoticed, unnoticed \cup {"chmod"}}
    BY <1>0, <2>1, <2>3, DoubtfulKept, TransferMaps
  <2>4. CASE CleanFolder
    BY <2>2, <2>3, <2>4 DEF CleanFolder, Refuse, GoOn, Deploying, InFolder
  <2>5. CASE CreateFolderIfNeeded
    BY <2>2, <2>3, <2>5 DEF CreateFolderIfNeeded, Refuse, GoOn, Deploying, InFolder
  <2>6. CASE ChangeRemoteFilePermission
    BY <2>2, <2>3, <2>6 DEF ChangeRemoteFilePermission, Refuse, GoOn, Deploying
  <2>7. CASE DeployAdditionalFiles
    BY <2>2, <2>3, <2>7 DEF DeployAdditionalFiles, Refuse, GoOn, Deploying
  <2>8. CASE FilesDeployed
    BY <2>3, <2>8 DEF FilesDeployed, GoOn, Deploying
  <2>9. CASE DeployAdditionalDirectories
    <3>1. CASE Refuse("launcher")
      BY <2>2, <3>1 DEF Refuse
    <3>2. CASE ~ Refuse("launcher")
      BY <2>3, <2>9, <3>2, FirstStepType DEF DeployAdditionalDirectories, GoOn, Deploying, InFolder
    <3> QED BY <3>1, <3>2
  <2>10. CASE UploadFolderRecursive
    BY <2>3, <2>10 DEF UploadFolderRecursive, AfterUpload, GoOn, Deploying
  <2>11. CASE UploadFolderFails
    BY <2>2, <2>11 DEF UploadFolderFails
  <2> QED BY <1>5, <2>4, <2>5, <2>6, <2>7, <2>8, <2>9, <2>10, <2>11
<1>6. CASE Done
  BY <1>0, <1>6, DoneMaps
<1> QED BY <1>1, <1>2, <1>3, <1>4, <1>5, <1>6 DEF Step

LEMMA NextMaps ==
  ASSUME VersionInv, VersionInv', [Next]_vars
  PROVE  AppStep
<1>0. TypeOK /\ TypeOK'
  BY DEF VersionInv, DeployInv
<1>1. CASE Step
  BY <1>1, StepMaps
<1>2. ASSUME NEW who \in {"menu", "command", "solution"}, Deploy(who)
      PROVE  AppStep
  BY <1>2, PhaseIs, BeginMaps DEF Deploy, Begin, local, remote
<1>3. CASE StartDebugging
  <2>1. /\ Phase = "idle" /\ Phase' = "idle" /\ began' = 0 /\ complete' = FALSE /\ Doubtful' = {}
        /\ UNCHANGED <<profile, build, device>>
    BY <1>3, PhaseIs DEF StartDebugging, local, remote, Doubtful
  <2> QED BY <2>1, WantedKept DEF AppStep, Contract!Next, Contract!Forget
<1>4. CASE StopDebugging
  BY <1>4, PhaseIs, StutterMaps DEF StopDebugging, End, local, remote
<1>5. CASE CleanRemoteFolder
  <2>1. /\ Phase = "idle" /\ Phase' = "idle" /\ complete' = FALSE
        /\ UNCHANGED <<profile, build, began, unnoticed>>
    BY <1>5, PhaseIs DEF CleanRemoteFolder, local
  <2>2. \A p \in Place : device'[p] \in {0, device[p]}
    BY <1>0, <1>5, RemovedType DEF CleanRemoteFolder, CleanPartOf
  <2> QED BY <1>0, <2>1, <2>2, WantedKept, DoubtfulKept, DeviceIs
         DEF AppStep, Contract!Next, Contract!Clean
<1>6. CASE Build
  <2>1. /\ Phase' = Phase /\ build' = build + 1
        /\ UNCHANGED <<profile, device, began, complete, unnoticed>>
    BY <1>6 DEF Build, remote, Phase
  <2> QED BY <2>1, WantedKept, DoubtfulKept DEF AppStep, Contract!Next, Contract!Build
<1>7. CASE ChangeProfile
  <2>1. /\ Phase = "idle" /\ Phase' = "idle" /\ complete' = FALSE
        /\ UNCHANGED <<build, began, device, unnoticed>>
    BY <1>7, PhaseIs DEF ChangeProfile, remote
  <2>2. (Wanted \ Lost)' \in SUBSET Place
    <3>1. profile' \in AnyProfile
      BY <1>0, DeployServiceAssumption DEF TypeOK
    <3>2. /\ Range(profile'.files) \subseteq File \cup {"missing"}
          /\ Range(profile'.directories) \subseteq Directory \cup {"missing"}
      BY <3>1, ProfileFields DEF Range
    <3> QED BY <3>2, FoldersAndPlaces DEF Wanted
  <2> QED BY <2>1, <2>2, DoubtfulKept DEF AppStep, Contract!Next, Contract!Ask
<1>8. CASE UNCHANGED vars
  BY <1>8, StutterMaps DEF vars, Phase
<1> QED BY <1>1, <1>2, <1>3, <1>4, <1>5, <1>6, <1>7, <1>8 DEF Next, Request

LEMMA InitMaps == Init => Contract!Init
<1> SUFFICES ASSUME Init
             PROVE  Contract!Init
  OBVIOUS
<1>1. Phase = "idle" /\ Doubtful = {}
  BY PhaseIs DEF Init, Doubtful
<1>2. Wanted \ Lost \in SUBSET Place
  BY DeployInvInit, WantedPlaces DEF DeployInv
<1> QED BY <1>1, <1>2 DEF Init, Contract!Init

(***************************************************************************)
(* The whole deployment implements AppDeployment, for any profiles: the    *)
(* device is touched only when the deployment is prepared; no place is     *)
(* given an older version than it has or than the build the deployment     *)
(* began with, unless a killed publish put the application in doubt; and a *)
(* deployment that completes has left everything the profile asks for but  *)
(* what its own later targets take away, however its steps, failures and   *)
(* callers interleave with builds.                                         *)
(***************************************************************************)
THEOREM DeployImplementsAppDeployment == Spec => ImplementsAppDeployment
<1>1. VersionInv /\ VersionInv' /\ [Next]_vars => [Contract!Next]_(Contract!appVars)
  BY NextMaps DEF AppStep
<1> QED
  BY InitMaps, <1>1, VersionInvCorrect, PTL DEF Spec, ImplementsAppDeployment, Contract!Spec

(***************************************************************************)
(* AppDeployment is strong enough: in whatever implements it, a deployment *)
(* that is complete has left everything asked for but what is in doubt,    *)
(* none of it older than the build it began with, until something else is  *)
(* asked for.                                                              *)
(***************************************************************************)
CompleteHasWanted == complete => \A p \in (Wanted \ Lost) \ Doubtful : device[p] >= began

Promise == (Phase # "idle" => ~ complete) /\ CompleteHasWanted

THEOREM AppDeploymentKeepsPromise == ImplementsAppDeployment => []CompleteHasWanted
<1>1. Contract!Init => Promise
  BY DEF Contract!Init, Promise, CompleteHasWanted
<1>2. Promise /\ [Contract!Next]_(Contract!appVars) => Promise'
  <2> SUFFICES ASSUME Promise, [Contract!Next]_(Contract!appVars)
               PROVE  Promise'
    OBVIOUS
  <2> USE DEF Promise, CompleteHasWanted
  <2>1. CASE Contract!Build
    BY <2>1 DEF Contract!Build
  <2>2. CASE Contract!Ask \/ Contract!Clean \/ Contract!Forget
    BY <2>2 DEF Contract!Ask, Contract!Clean, Contract!Forget
  <2>3. CASE Contract!Begin
    BY <2>3 DEF Contract!Begin
  <2>4. CASE Contract!Prepared \/ Contract!Transfer
    BY <2>4 DEF Contract!Prepared, Contract!Transfer
  <2>5. CASE Contract!Complete
    BY <2>5 DEF Contract!Complete
  <2>6. CASE Contract!Fail
    BY <2>6 DEF Contract!Fail
  <2>7. CASE UNCHANGED Contract!appVars
    BY <2>7 DEF Contract!appVars
  <2>8. QED
    BY <2>1, <2>2, <2>3, <2>4, <2>5, <2>6, <2>7 DEF Contract!Next
<1>3. Promise => CompleteHasWanted
  BY DEF Promise
<1> QED
  BY <1>1, <1>2, <1>3, PTL DEF ImplementsAppDeployment, Contract!Spec
=============================================================================
