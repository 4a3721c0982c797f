--------------------------- MODULE DeployService ---------------------------
(***************************************************************************)
(* The deployment of an application from the request to the debugger:      *)
(* SecureShellDeployService.DeployAsync, the folder operations of          *)
(* SecureShellRemoteOperationsService and DotnetPublishService it calls,   *)
(* and its callers: DeployOutputCommand (the menu of the extension),       *)
(* SecureShellDeployProvider (the "Deploy" command of Visual Studio and    *)
(* the "Deploy" check box of the solution) and                             *)
(* SecureShellRemoteLaunchTargetsProvider (F5).                            *)
(*                                                                         *)
(* What one folder upload does in detail is DeltaDeploy; here it replaces  *)
(* its target by the source or fails half-way. Transfer by rsync is not    *)
(* in this module.                                                         *)
(***************************************************************************)
EXTENDS Integers, Sequences, Functions

CONSTANTS Profile,      \* the launch profiles the developer uses
          MaxBuild,     \* bound on the number of builds
          File,         \* what additionalFiles can name, each with its target
          Directory,    \* what additionalDirectories can name, with its target
          Relative,     \* the directories whose target is a relative path
          Inside,       \* what is in or below each target folder
          Seen          \* ... but for what is below a name in the folder
                        \* itself that begins with "."

(***************************************************************************)
(* What lies on the device: the application, the assets only "publish"     *)
(* adds to it, the additional files, the content of the additional         *)
(* directories. What "publish" makes.                                      *)
(***************************************************************************)
App == {"main", "asset"}

Place == App \cup File \cup Directory

Folder == {"app"} \cup Directory

(***************************************************************************)
(* A profile: the transfer mode; clean before deploy; publish on deploy    *)
(* and how; deployOnStartDebugging; additionalFiles and                    *)
(* additionalDirectories, where "missing" stands for an entry whose source *)
(* does not exist (or, at the beginning, a list that does not parse);      *)
(* whether appFolderPath begins with "~".                                  *)
(***************************************************************************)
AnyProfile ==
  [transfer : {"full", "delta"}, clean : BOOLEAN,
   publish : {"no", "framework", "self"}, deployOnStart : BOOLEAN,
   files : Seq(File \cup {"missing"}),
   directories : Seq(Directory \cup {"missing"}), tilde : BOOLEAN]

(***************************************************************************)
(* A target may be any folder: below the application's, elsewhere, the     *)
(* application's own or one that contains it.                              *)
(***************************************************************************)
ASSUME DeployServiceAssumption ==
  /\ Profile \subseteq AnyProfile
  /\ MaxBuild \in Nat \ {0}
  /\ App \cap (File \cup Directory) = {} /\ File \cap Directory = {}
  /\ "missing" \notin Place /\ "app" \notin Directory
  /\ Relative \subseteq Directory
  /\ Inside \in [Folder -> SUBSET Place]
  /\ Seen \in [Folder -> SUBSET Place]
  /\ "main" \in Inside["app"]
  /\ \A d \in Directory : d \in Inside[d]
  /\ \A f \in Folder : Seen[f] \subseteq Inside[f]

VARIABLES
  profile,          \* the active launch profile
  build,            \* the last build: the version of everything local
  publishFolder,    \* per place of App the version in the publish folder
  device,           \* the device: per place the version there, 0 if none
  folders,          \* the device: the target folders that exist
  executable,       \* the device: "main" has its execute permission
  pc,               \* the step of the call that is running
  caller,           \* who called DeployAsync, "nobody" if no call runs
  at,               \* the entry of files or directories the loop is at
  published,        \* DotnetPublishService.published
  complete,         \* history: the last deployment went through all steps
  began,            \* history: the build when the last deployment began,
                    \* 0 if the debugger was started without one
  unnoticed         \* history: the steps of the last deployment that failed
                    \* and were taken for a success

vars == <<profile, build, publishFolder, device, folders, executable, pc, caller,
          at, published, complete, began, unnoticed>>

(***************************************************************************)
(* The target folder of the running DeployRemoteFolderAsync.               *)
(***************************************************************************)
Target(n) == IF n = 0 THEN "app" ELSE profile.directories[n]

folder == Target(at)

InFolder == {"clean", "mkdir", "upload"}

Deploying == InFolder \cup {"chmod", "files", "directories"}

TypeOK ==
  /\ profile \in Profile
  /\ build \in 1..MaxBuild
  /\ publishFolder \in [App -> 0..MaxBuild]
  /\ device \in [Place -> 0..MaxBuild]
  /\ folders \subseteq Folder
  /\ executable \in BOOLEAN
  /\ pc \in Deploying \cup {"idle", "connect", "publish", "before", "query", "debugging"}
  /\ caller \in {"nobody", "menu", "command", "solution", "launch"}
  /\ at \in Nat
  /\ pc \in InFolder => folder \in Folder
  /\ published \in BOOLEAN
  /\ complete \in BOOLEAN
  /\ began \in 0..MaxBuild
  /\ unnoticed \subseteq {"publish", "chmod"}

Init ==
  /\ profile \in Profile
  /\ build = 1
  /\ publishFolder = [p \in App |-> 0]
  /\ device = [p \in Place |-> 0]
  /\ folders \in {{}, {f \in Folder : Inside["app"] \subseteq Inside[f]}}
  /\ executable = FALSE
  /\ pc = "idle"
  /\ caller = "nobody"
  /\ at = 0
  /\ published = FALSE
  /\ complete = FALSE
  /\ began = 0
  /\ unnoticed = {}

local == <<profile, build>>
remote == <<device, folders, executable>>

----------------------------------------------------------------------------
(***************************************************************************)
(* The callers. A deployment that throws RemoteDebuggerLauncherException   *)
(* ("launcher") is a message on the output pane for the deploy provider,   *)
(* and a success for Visual Studio; a SecureShellSessionException          *)
(* ("session") goes through. External: Visual Studio starts the debugger   *)
(* after a deployment that did not throw.                                  *)
(***************************************************************************)
\* Variant: the publish service remembers an earlier deployment.
BeginPublished(step) ==
  /\ pc' = step
  /\ at' = 0
  /\ published' = published
  /\ complete' = FALSE
  /\ began' = build
  /\ unnoticed' = {}

Begin(step) ==
  /\ pc' = step
  /\ at' = 0
  /\ published' = FALSE
  /\ complete' = FALSE
  /\ began' = build
  /\ unnoticed' = {}

Deploy(who) ==
  /\ pc = "idle"
  /\ caller' = who
  /\ Begin("connect")
  /\ UNCHANGED <<local, publishFolder, remote>>

StartDebugging ==
  /\ pc = "idle"
  /\ caller' = "launch"
  /\ pc' = "before"
  /\ complete' = FALSE
  /\ began' = 0
  /\ unnoticed' = {}
  /\ UNCHANGED <<local, publishFolder, remote, at, published>>

End == pc' = "idle" /\ caller' = "nobody" /\ at' = 0

Return ==
  \/ caller \in {"menu", "command"} /\ End
  \/ caller = "solution" /\ pc' = "before" /\ caller' = "launch" /\ at' = 0
  \/ caller = "launch" /\ pc' = "query" /\ caller' = caller /\ at' = 0

\* Variant: OnBeforeLaunch swallows the exception as the deploy provider does.
ThrowSwallowed(exception) == IF exception = "launcher" THEN Return ELSE End

Throw(exception) ==
  IF exception = "launcher" /\ caller \in {"command", "solution"} THEN Return ELSE End

(***************************************************************************)
(* The call of the deployment ends in an exception, and the step that      *)
(* throws it has changed nothing on the device.                            *)
(***************************************************************************)
Refuse(exception) ==
  /\ Throw(exception)
  /\ UNCHANGED <<local, publishFolder, remote, published, complete, began, unnoticed>>

GoOn(step) ==
  /\ pc' = step
  /\ UNCHANGED <<local, caller, published, complete, began>>

(***************************************************************************)
(* The step a deployment of a folder begins with.                          *)
(***************************************************************************)
FirstStep == IF profile.clean THEN "clean" ELSE "mkdir"

(***************************************************************************)
(* OnBeforeLaunchAsync up to the deployment. The connection may fail; the  *)
(* installation of the debugger does not touch the application.            *)
(***************************************************************************)
OnBeforeLaunch ==
  /\ pc = "before"
  /\ UNCHANGED <<local, publishFolder, remote>>
  /\ \/ /\ profile.deployOnStart
        /\ Begin(IF profile.publish = "no" THEN FirstStep ELSE "publish")
        /\ UNCHANGED caller
     \/ /\ ~ profile.deployOnStart
        /\ pc' = "query"
        /\ UNCHANGED <<caller, at, published, complete, began, unnoticed>>
     \/ /\ End
        /\ UNCHANGED <<published, complete, began, unnoticed>>

(***************************************************************************)
(* QueryDebugTargetsAsync, and Visual Studio attaches the debugger.        *)
(***************************************************************************)
QueryDebugTargets ==
  /\ pc = "query"
  /\ \/ pc' = "debugging" /\ UNCHANGED <<caller, at>>
     \/ End
  /\ UNCHANGED <<local, publishFolder, remote, published, complete, began, unnoticed>>

StopDebugging ==
  /\ pc = "debugging"
  /\ End
  /\ UNCHANGED <<local, publishFolder, remote, published, complete, began, unnoticed>>

----------------------------------------------------------------------------
(***************************************************************************)
(* DeployAsync, steps 1 and 2.                                             *)
(***************************************************************************)
CheckConnectionThrow ==
  /\ pc = "connect"
  /\ \/ /\ GoOn(IF profile.publish = "no" THEN FirstStep ELSE "publish")
        /\ UNCHANGED <<publishFolder, remote, at, unnoticed>>
     \/ Refuse("launcher")

(***************************************************************************)
(* DotnetPublishService.StartAsync: the publish folder is emptied (no      *)
(* matter whether that works), then "dotnet publish" fills it. It fails    *)
(* with a positive exit code; the negative one of a process that crashed   *)
(* or was killed counts as a success (exitCode > 0).                       *)
(***************************************************************************)
HalfPublished ==
  {f \in [App -> 0..MaxBuild] : \A p \in App : f[p] \in {0, publishFolder[p], build}}

\* Variant: the exit code is not looked at.
PublishUnchecked ==
  /\ pc = "publish"
  /\ publishFolder' \in HalfPublished
  /\ published' = TRUE
  /\ pc' = FirstStep
  /\ UNCHANGED <<local, remote, caller, at, complete, began, unnoticed>>

Publish ==
  /\ pc = "publish"
  /\ UNCHANGED <<local, remote, complete, began>>
  /\ \/ /\ publishFolder' = [p \in App |-> build]
        /\ published' = TRUE
        /\ pc' = FirstStep
        /\ UNCHANGED <<caller, at, unnoticed>>
     \/ /\ publishFolder' \in HalfPublished
        /\ published' = TRUE
        /\ pc' = FirstStep
        /\ unnoticed' = unnoticed \cup {"publish"}
        /\ UNCHANGED <<caller, at>>
     \/ /\ publishFolder' \in HalfPublished
        /\ Throw("launcher")
        /\ UNCHANGED <<published, unnoticed>>
     \/ profile.publish = "self" /\ Refuse("session")

----------------------------------------------------------------------------
(***************************************************************************)
(* DeployRemoteFolderAsync: CleanFolderAsync, then the upload. "rm" is     *)
(* reached only if the folder exists, else the command fails; it removes   *)
(* what "/*" stands for, or a part of it when it fails. "mkdir" has the    *)
(* path in quotes, where "~" is no home directory; every other command has *)
(* it without.                                                             *)
(***************************************************************************)
Quoted(f) == profile.tilde /\ f \in {"app"} \cup Relative

CleanCommandSucceeds == folder \in folders

Below(f) == {g \in Folder : Inside[g] \subseteq Seen[f] /\ Inside[g] # Inside[f]}

Removed(places, gone) ==
  /\ device' = [p \in Place |-> IF p \in places THEN 0 ELSE device[p]]
  /\ folders' = folders \ gone
  /\ executable' = (executable /\ "main" \notin places)

CleanPartOf(f) ==
  \E places \in SUBSET Seen[f], gone \in SUBSET Below(f) : Removed(places, gone)

\* Variant: the application's folder is cleaned for every directory.
CleanAppFolder ==
  /\ pc = "clean"
  /\ \/ /\ CleanCommandSucceeds
        /\ Removed(Seen["app"], Below("app"))
        /\ GoOn("mkdir")
        /\ UNCHANGED <<publishFolder, at, unnoticed>>
     \/ Refuse("session")

CleanFolder ==
  /\ pc = "clean"
  /\ \/ /\ CleanCommandSucceeds
        /\ Removed(Seen[folder], Below(folder))
        /\ GoOn("mkdir")
        /\ UNCHANGED <<publishFolder, at, unnoticed>>
     \/ /\ CleanCommandSucceeds
        /\ CleanPartOf(folder)
        /\ Throw("session")
        /\ UNCHANGED <<local, publishFolder, published, complete, began, unnoticed>>
     \/ Refuse("session")

\* Variant: where the shell makes the folder of a quoted "~".
CreateQuotedFolder ==
  /\ pc = "mkdir"
  /\ folders' = folders \cup {IF Quoted(folder) THEN "~" ELSE folder}
  /\ GoOn("upload")
  /\ UNCHANGED <<publishFolder, device, executable, at, unnoticed>>

CreateFolderIfNeeded ==
  /\ pc = "mkdir"
  /\ \/ /\ folders' = IF Quoted(folder) THEN folders
                      ELSE folders \cup {f \in Folder : Inside[folder] \subseteq Inside[f]}
        /\ GoOn("upload")
        /\ UNCHANGED <<publishFolder, device, executable, at, unnoticed>>
     \/ Refuse("session")

(***************************************************************************)
(* The "Clean" command, CleanRemoteFolderAsync: the same commands for the  *)
(* application's folder, while Visual Studio waits; it succeeds or fails.  *)
(***************************************************************************)
CleanRemoteFolder ==
  /\ pc = "idle"
  /\ "app" \in folders
  /\ CleanPartOf("app")
  /\ complete' = FALSE
  /\ UNCHANGED <<local, publishFolder, pc, caller, at, published, began, unnoticed>>

(***************************************************************************)
(* What the source folder has, and in which version.                       *)
(***************************************************************************)
Source(f) ==
  IF f # "app" THEN {f}
  ELSE IF published THEN {p \in App : publishFolder[p] # 0} ELSE {"main"}

Version(p) == IF published /\ p \in App THEN publishFolder[p] ELSE build

(***************************************************************************)
(* The target of an upload of f when it is done: the delta mode deletes    *)
(* what the source does not have.                                          *)
(***************************************************************************)
\* Variant: what the source does not have stays.
UploadedKeeping(f) ==
  [p \in Place |-> IF p \in Source(f) THEN Version(p) ELSE device[p]]

Uploaded(f) ==
  [p \in Place |->
     CASE p \in Source(f) -> Version(p)
       [] p \in Inside[f] \ Source(f) /\ profile.transfer = "delta" -> 0
       [] OTHER -> device[p]]

(***************************************************************************)
(* What an upload that throws may leave: every file as it was, as it       *)
(* should be, or cut off.                                                  *)
(***************************************************************************)
HalfUploaded(f) ==
  {d \in [Place -> 0..MaxBuild] :
     \A p \in Place : d[p] \in {device[p], Uploaded(f)[p]}
                        \cup (IF p \in Source(f) THEN {0} ELSE {})}

(***************************************************************************)
(* External: "main" may lose its permission when SCP writes it again; it   *)
(* has none when it is new.                                                *)
(***************************************************************************)
ModeAfterUpload ==
  LET kept == executable /\ device'["main"] # 0
  IN IF "main" \in Source(folder) THEN {kept, FALSE} ELSE {kept}

\* Variant: the permission is set on the first deployment only.
AfterUploadOnce ==
  IF folder # "app" THEN "directories"
  ELSE IF profile.publish = "self" /\ device["main"] = 0 THEN "chmod" ELSE "files"

AfterUpload ==
  IF folder # "app" THEN "directories"
  ELSE IF profile.publish = "self" THEN "chmod" ELSE "files"

UploadFolderRecursive ==
  /\ pc = "upload"
  /\ folder \in folders
  /\ device' = Uploaded(folder)
  /\ executable' \in ModeAfterUpload
  /\ GoOn(AfterUpload)
  /\ UNCHANGED <<publishFolder, folders, at, unnoticed>>

UploadFolderFails ==
  /\ pc = "upload"
  /\ device' \in IF folder \in folders THEN HalfUploaded(folder) ELSE {device}
  /\ executable' \in ModeAfterUpload
  /\ Throw("session")
  /\ UNCHANGED <<local, publishFolder, folders, published, complete, began, unnoticed>>

(***************************************************************************)
(* ChangeRemoteFilePermissionAsync. A session that fails is an exception;  *)
(* the exit status of chmod is not looked at.                              *)
(***************************************************************************)
ChangeRemoteFilePermission ==
  /\ pc = "chmod"
  /\ \/ /\ device["main"] # 0
        /\ executable' = TRUE
        /\ GoOn("files")
        /\ UNCHANGED <<publishFolder, device, folders, at, unnoticed>>
     \/ /\ unnoticed' = unnoticed \cup {"chmod"}
        /\ GoOn("files")
        /\ UNCHANGED <<publishFolder, remote, at>>
     \/ Refuse("session")

(***************************************************************************)
(* DeployAdditionalFilesAsync: each entry is looked for when its turn      *)
(* comes. DeployAdditionalDirectoriesAsync: all are looked for before the  *)
(* first is deployed.                                                      *)
(***************************************************************************)
\* Variant: the loop does not move on.
NextEntryStuck == IF at = 0 THEN 1 ELSE at

NextEntry == at + 1

DeployAdditionalFiles ==
  /\ pc = "files" /\ at < Len(profile.files)
  /\ LET file == profile.files[NextEntry] IN
       \/ /\ file # "missing"
          /\ device' = [device EXCEPT ![file] = build]
          /\ at' = NextEntry
          /\ GoOn("files")
          /\ UNCHANGED <<publishFolder, folders, executable, unnoticed>>
       \/ /\ file # "missing"
          /\ device' \in {device, [device EXCEPT ![file] = 0]}
          /\ Throw("session")
          /\ UNCHANGED <<local, publishFolder, folders, executable, published,
                         complete, began, unnoticed>>
       \/ file = "missing" /\ Refuse("launcher")

FilesDeployed ==
  /\ pc = "files" /\ at = Len(profile.files)
  /\ at' = 0
  /\ GoOn("directories")
  /\ UNCHANGED <<publishFolder, remote, unnoticed>>

DeployAdditionalDirectories ==
  /\ pc = "directories" /\ at < Len(profile.directories)
  /\ \/ /\ "missing" \notin Range(profile.directories)
        /\ at' = NextEntry
        /\ GoOn(FirstStep)
        /\ UNCHANGED <<publishFolder, remote, unnoticed>>
     \/ "missing" \in Range(profile.directories) /\ Refuse("launcher")

(***************************************************************************)
(* DeployAsync returns.                                                    *)
(***************************************************************************)
Done ==
  /\ pc = "directories" /\ at = Len(profile.directories)
  /\ Return
  /\ complete' = TRUE
  /\ UNCHANGED <<local, publishFolder, remote, published, began, unnoticed>>

----------------------------------------------------------------------------
(***************************************************************************)
(* External: the developer builds, also while a deployment runs, or        *)
(* changes the profile between two.                                        *)
(***************************************************************************)
Build ==
  /\ build < MaxBuild
  /\ build' = build + 1
  /\ UNCHANGED <<profile, publishFolder, remote, pc, caller, at, published,
                 complete, began, unnoticed>>

ChangeProfile ==
  /\ pc = "idle"
  /\ profile' \in Profile
  /\ complete' = FALSE
  /\ UNCHANGED <<build, publishFolder, remote, pc, caller, at, published,
                 began, unnoticed>>

Step ==
  \/ OnBeforeLaunch \/ QueryDebugTargets
  \/ CheckConnectionThrow \/ Publish
  \/ CleanFolder \/ CreateFolderIfNeeded
  \/ UploadFolderRecursive \/ UploadFolderFails
  \/ ChangeRemoteFilePermission
  \/ DeployAdditionalFiles \/ FilesDeployed
  \/ DeployAdditionalDirectories \/ Done

Request ==
  \/ \E who \in {"menu", "command", "solution"} : Deploy(who)
  \/ StartDebugging
  \/ StopDebugging
  \/ CleanRemoteFolder

Next == Request \/ Step \/ Build \/ ChangeProfile

Spec == Init /\ [][Next]_vars

(***************************************************************************)
(* A call that has begun keeps taking steps: it cannot be cancelled, and   *)
(* every command, upload and process it waits for ends or fails.           *)
(***************************************************************************)
FairSpec == Spec /\ WF_vars(Step)

----------------------------------------------------------------------------
(***************************************************************************)
(* What the profile asks for.                                              *)
(***************************************************************************)
Wanted ==
  {"main"} \cup (IF profile.publish = "no" THEN {} ELSE {"asset"})
           \cup ((Range(profile.files) \cup Range(profile.directories)) \ {"missing"})

(***************************************************************************)
(* What goes with a folder when it is deployed, and what the first n       *)
(* directories have taken and not brought again: the steps go through the  *)
(* targets in the order of the profile, whatever they contain.             *)
(***************************************************************************)
Taken(f) ==
  CASE f = "missing" -> {}
    [] f # "missing" /\ profile.transfer = "delta" -> Inside[f]
    [] f # "missing" /\ profile.transfer = "full" -> IF profile.clean THEN Seen[f] ELSE {}

Overrun(n) ==
  {p \in Place : \E i \in 1..n : /\ p \in Taken(profile.directories[i])
                                 /\ \A j \in i..n : profile.directories[j] # p}

Lost == Overrun(Len(profile.directories))

(***************************************************************************)
(* What a killed "dotnet publish" that counts as a success makes doubtful. *)
(***************************************************************************)
Doubtful == IF "publish" \in unnoticed THEN App ELSE {}

(***************************************************************************)
(* A deployment that went through all its steps has left everything the    *)
(* profile asks for on the device, nothing of it older than the build it   *)
(* began with, whatever an earlier deployment, another profile or a half   *)
(* clean left there. What it loses is exactly what lies in the target of a *)
(* directory that comes later, and what a killed publish did not make.     *)
(***************************************************************************)
CompleteHasAll ==
  complete => \A p \in Wanted \ Doubtful : IF p \in Lost THEN device[p] = 0
                                                         ELSE device[p] >= began

(***************************************************************************)
(* ... and nothing else in any of its target folders, if it copied the     *)
(* differences: no assets of an earlier published version, no files of an  *)
(* earlier profile. If it cleaned, only what begins with "." can be left.  *)
(***************************************************************************)
CompleteHasNoLeftovers ==
  complete =>
    \A f \in {"app"} \cup Range(profile.directories) :
      /\ profile.transfer = "delta" => \A p \in Inside[f] \ Wanted : device[p] = 0
      /\ profile.clean => \A p \in Seen[f] \ Wanted : device[p] = 0

(***************************************************************************)
(* A self-contained application that is there after its deployment can be  *)
(* started, also when the upload has replaced a file that was executable,  *)
(* unless chmod failed, which nobody is told.                              *)
(***************************************************************************)
CompleteIsExecutable ==
  complete /\ profile.publish = "self" /\ device["main"] # 0 =>
    executable \/ "chmod" \in unnoticed

(***************************************************************************)
(* A publish that fails with a positive exit code costs the device         *)
(* nothing: while a deployment with publish runs, the device is not        *)
(* touched before "dotnet publish" was taken for a success, and unless it  *)
(* was killed the new version is in the publish folder.                    *)
(***************************************************************************)
PublishedBeforeTouched ==
  [][pc # "idle" /\ profile.publish # "no" /\ began # 0
       /\ (folders' # folders \/ device' # device)
     => published /\ \A p \in App \ Doubtful : publishFolder[p] >= began]_vars

(***************************************************************************)
(* The deployment as its caller may think of it (AppDeployment): however   *)
(* its steps, failures and callers interleave with builds, it touches the  *)
(* device only when it is prepared, never puts an older version there      *)
(* than what it replaces, unless the preparation left it in doubt, and     *)
(* completes only with everything asked for.                               *)
(***************************************************************************)
Phase ==
  CASE pc \in {"connect", "publish"} -> "preparing"
    [] pc \in Deploying -> "touching"
    [] OTHER -> "idle"

Contract ==
  INSTANCE AppDeployment WITH
    wanted <- Wanted \ Lost,
    doubtful <- Doubtful,
    phase <- Phase

ImplementsAppDeployment == Contract!Spec

(***************************************************************************)
(* The debugger is not started on an old version when it is the extension  *)
(* that deploys before the start (deployOnStartDebugging): that deployment *)
(* is complete, and main the build, unless dotnet was killed or a          *)
(* directory of the profile took main away.                                *)
(***************************************************************************)
ExtensionLaunchesTheBuild ==
  pc = "debugging" /\ profile.deployOnStart =>
    /\ complete
    /\ "main" \notin Lost \cup Doubtful => device["main"] >= began

(***************************************************************************)
(* Every request comes to its end.                                         *)
(***************************************************************************)
EveryRequestEnds ==
  pc \notin {"idle", "debugging"} ~> pc \in {"idle", "debugging"}

(***************************************************************************)
(* What Features.md says: "Visual Studio will deploy just before launching *)
(* the app." When the debugger starts after a deployment, the version on   *)
(* the device is not older than the build that was to be deployed.         *)
(***************************************************************************)
LaunchRunsTheBuild ==
  pc = "debugging" /\ began # 0 => device["main"] >= began

(***************************************************************************)
(* What the summary of CleanFolderAsync says: "Cleans the specified folder *)
(* leaving it empty or creates it if it does not exist." The command that  *)
(* cleans succeeds, and the folder exists when its upload begins.          *)
(***************************************************************************)
CleanedOrCreated ==
  /\ pc = "clean" => CleanCommandSucceeds
  /\ pc = "upload" => folder \in folders
=============================================================================
