---------------------------- MODULE DeltaDeploy ----------------------------
(***************************************************************************)
(* Delta deployment of a folder, transfer mode "SCP (delta)":              *)
(* SecureShellRemoteBulkCopyDeltaSessionService.UploadFolderRecursiveAsync.*)
(* One deployment runs at a time; the developer's builds change the local  *)
(* folder and the program on the device changes its folder at any moment,  *)
(* also between two steps of a deployment.                                 *)
(*                                                                         *)
(* Every remote command and every upload may throw: Fail ends a deployment *)
(* at any step and leaves the device as it is. CutOff is the upload that   *)
(* leaves half a file. The folder on the device exists: the callers of     *)
(* UploadFolderRecursiveAsync create it first.                             *)
(***************************************************************************)
EXTENDS DirectoryCompare, RemoteTools

CONSTANTS Content,      \* file contents
          Garbage,      \* the content of a file whose upload was cut off
          Lockable      \* the local files another process may hold open

ASSUME ContentAssumption ==
  /\ NoFile \notin Content
  /\ Garbage \notin Content \cup {NoFile}
  /\ Lockable \subseteq Path

VARIABLES
  local,            \* the local folder
  locked,           \* the local files that cannot be opened now
  remote,           \* the folder on the device
  pc,               \* the step of UploadFolderRecursiveAsync
  remoteFileHashes, \* what "checksum" printed
  expectedHashes,   \* ScanResult.Hashes of the local scan
  inaccessible,     \* ScanResult.InaccessibleFiles of the local scan
  unscanned,        \* what the local scan has not come to yet
  filesToCopy, filesToDelete,
  outcome,          \* how the last deployment ended
  seen,             \* history: the versions of a file since the last start
  touched           \* history: the device files its program wrote since

deployVars ==
  <<local, locked, remote, pc, remoteFileHashes, expectedHashes, inaccessible,
    unscanned, filesToCopy, filesToDelete, outcome, seen, touched>>

vars == <<toolsVars, deployVars>>

File == Content \cup {NoFile}

Nothing == [p \in Path |-> NoFile]

(***************************************************************************)
(* The local file system holds no two files whose names differ in case.    *)
(***************************************************************************)
LocalFolders ==
  {f \in [Path -> File] : \A p, q \in Path :
     f[p] # NoFile /\ f[q] # NoFile /\ SameName(p, q) => p = q}

TypeOK ==
  /\ ToolsTypeOK
  /\ local \in [Path -> File]
  /\ locked \subseteq Lockable
  /\ remote \in [Path -> File \cup {Garbage}]
  /\ pc \in {"idle", "tools", "hash", "scan", "delete", "copy"}
  /\ remoteFileHashes \in [Path -> File \cup {Garbage}]
  /\ expectedHashes \in [Path -> File]
  /\ inaccessible \subseteq Path
  /\ unscanned \subseteq Path
  /\ filesToCopy \subseteq Path
  /\ filesToDelete \subseteq Path
  /\ outcome \in {"none", "ok", "failed"}
  /\ seen \in [Path -> SUBSET File]
  /\ touched \subseteq Path

Init ==
  /\ ToolsInit
  /\ local \in LocalFolders
  /\ locked = {}
  /\ remote = Nothing
  /\ pc = "idle"
  /\ remoteFileHashes = Nothing
  /\ expectedHashes = Nothing
  /\ inaccessible = {}
  /\ unscanned = {}
  /\ filesToCopy = {}
  /\ filesToDelete = {}
  /\ outcome = "none"
  /\ seen = [p \in Path |-> {local[p]}]
  /\ touched = {}

----------------------------------------------------------------------------
(***************************************************************************)
(* Steps 1 and 2: the user's home, the remote tools.                       *)
(***************************************************************************)
Start ==
  /\ pc = "idle"
  /\ EnterTools
  /\ pc' = "tools"
  /\ outcome' = "none"
  /\ seen' = [p \in Path |-> {local[p]}]
  /\ touched' = {}
  /\ inaccessible' = {}
  /\ UNCHANGED <<local, locked, remote, remoteFileHashes, expectedHashes,
                 unscanned, filesToCopy, filesToDelete>>

InstallRemoteToolsIfNeeded ==
  /\ pc = "tools"
  /\ InstallStep
  /\ pc' = CASE toolsStep' = "ready" -> "hash"
             [] toolsStep' = "out" -> "idle"
             [] OTHER -> "tools"
  /\ outcome' = IF toolsStep' = "out" THEN "failed" ELSE outcome
  /\ UNCHANGED <<local, locked, remote, remoteFileHashes, expectedHashes,
                 inaccessible, unscanned, filesToCopy, filesToDelete, seen, touched>>

(***************************************************************************)
(* Step 3: the hashes of the files on the device, by its own "checksum".   *)
(***************************************************************************)
GetRemoteFileHashes ==
  /\ pc = "hash"
  /\ ToolsRun
  /\ pc' = "scan"
  /\ remoteFileHashes' \in Scans(remote)
  /\ expectedHashes' = Nothing
  /\ unscanned' = Path
  /\ UNCHANGED <<toolsVars, local, locked, remote, inaccessible, filesToCopy,
                 filesToDelete, outcome, seen, touched>>

(***************************************************************************)
(* Step 4: the local scan, one file after the other, then the comparison.  *)
(***************************************************************************)
\* Variant: the file is opened although it is being written.
ComputeHashOfHalfFile(p) ==
  /\ pc = "scan"
  /\ p \in unscanned
  /\ unscanned' = unscanned \ {p}
  /\ expectedHashes' =
       IF local[p] = NoFile THEN expectedHashes
       ELSE AddHash(expectedHashes, p, IF p \in locked THEN Garbage ELSE local[p])
  /\ UNCHANGED <<toolsVars, local, locked, remote, pc, remoteFileHashes,
                 inaccessible, filesToCopy, filesToDelete, outcome, seen, touched>>

ComputeHashForFile(p) ==
  /\ pc = "scan"
  /\ p \in unscanned
  /\ unscanned' = unscanned \ {p}
  /\ IF local[p] = NoFile
       THEN UNCHANGED <<expectedHashes, inaccessible>>
     ELSE IF p \in locked
       THEN inaccessible' = inaccessible \cup {p} /\ UNCHANGED expectedHashes
     ELSE expectedHashes' = AddHash(expectedHashes, p, local[p])
          /\ UNCHANGED inaccessible
  /\ UNCHANGED <<toolsVars, local, locked, remote, pc, remoteFileHashes,
                 filesToCopy, filesToDelete, outcome, seen, touched>>

\* Variant: expected and actual are swapped.
GetFilesToCopyOrDeleteSwapped ==
  /\ pc = "scan"
  /\ unscanned = {}
  /\ filesToCopy' \in CopySets(expectedHashes, remoteFileHashes)
  /\ filesToDelete' \in DeleteSets(expectedHashes, remoteFileHashes)
  /\ pc' = "delete"
  /\ remoteFileHashes' = Nothing
  /\ expectedHashes' = Nothing
  /\ UNCHANGED <<toolsVars, local, locked, remote, inaccessible, unscanned,
                 outcome, seen, touched>>

GetFilesToCopyOrDelete ==
  /\ pc = "scan"
  /\ unscanned = {}
  /\ filesToCopy' \in CopySets(remoteFileHashes, expectedHashes)
  /\ filesToDelete' \in DeleteSets(remoteFileHashes, expectedHashes)
  /\ pc' = "delete"
  /\ remoteFileHashes' = Nothing
  /\ expectedHashes' = Nothing
  /\ UNCHANGED <<toolsVars, local, locked, remote, inaccessible, unscanned,
                 outcome, seen, touched>>

(***************************************************************************)
(* Step 5: one "rm" per file. It fails when the file is gone.              *)
(***************************************************************************)
\* Variant: a file stays on the list until it is found gone.
DeleteRemoteFileUntilGone(p) ==
  /\ pc = "delete"
  /\ p \in filesToDelete
  /\ remote' = [remote EXCEPT ![p] = NoFile]
  /\ filesToDelete' = IF remote[p] = NoFile THEN filesToDelete \ {p} ELSE filesToDelete
  /\ UNCHANGED <<toolsVars, local, locked, pc, remoteFileHashes, expectedHashes,
                 inaccessible, unscanned, filesToCopy, outcome, seen, touched>>

DeleteRemoteFile(p) ==
  /\ pc = "delete"
  /\ p \in filesToDelete
  /\ remote[p] # NoFile
  /\ remote' = [remote EXCEPT ![p] = NoFile]
  /\ filesToDelete' = filesToDelete \ {p}
  /\ UNCHANGED <<toolsVars, local, locked, pc, remoteFileHashes, expectedHashes,
                 inaccessible, unscanned, filesToCopy, outcome, seen, touched>>

ConnectScp ==
  /\ pc = "delete"
  /\ filesToDelete = {}
  /\ pc' = "copy"
  /\ UNCHANGED <<toolsVars, local, locked, remote, remoteFileHashes, expectedHashes,
                 inaccessible, unscanned, filesToCopy, filesToDelete, outcome,
                 seen, touched>>

(***************************************************************************)
(* Step 6: one upload per file. The local file is opened now, by a name    *)
(* the local file system matches in any case; a file that is gone or       *)
(* locked makes the upload throw.                                          *)
(***************************************************************************)
CanOpen(p) == \E q \in Holders(local, p) : q \notin locked

CopyRemoteFile(p) ==
  /\ pc = "copy"
  /\ p \in filesToCopy
  /\ CanOpen(p)
  /\ remote' = [remote EXCEPT ![p] = TryGetValue(local, p)]
  /\ filesToCopy' = filesToCopy \ {p}
  /\ UNCHANGED <<toolsVars, local, locked, pc, remoteFileHashes, expectedHashes,
                 inaccessible, unscanned, filesToDelete, outcome, seen, touched>>

(***************************************************************************)
(* The call returns or throws; its local variables are gone.               *)
(***************************************************************************)
End(result) ==
  /\ LeaveTools
  /\ pc' = "idle"
  /\ outcome' = result
  /\ remoteFileHashes' = Nothing
  /\ expectedHashes' = Nothing
  /\ unscanned' = {}
  /\ filesToCopy' = {}
  /\ filesToDelete' = {}
  /\ UNCHANGED <<local, locked, inaccessible, seen, touched>>

\* Variant: an exception of the copy loop is swallowed.
FinishEarly ==
  /\ pc = "copy"
  /\ End("ok")
  /\ UNCHANGED remote

Finish ==
  /\ pc = "copy"
  /\ filesToCopy = {}
  /\ End("ok")
  /\ UNCHANGED remote

CutOff(p) ==
  /\ pc = "copy"
  /\ p \in filesToCopy
  /\ CanOpen(p)
  /\ remote' = [remote EXCEPT ![p] = Garbage]
  /\ End("failed")

\* Variant: an exception is reported on the output pane only.
FailUnnoticed ==
  /\ pc # "idle"
  /\ End("ok")
  /\ UNCHANGED remote

Fail ==
  /\ pc # "idle"
  /\ End("failed")
  /\ UNCHANGED remote

----------------------------------------------------------------------------
(***************************************************************************)
(* External: what goes on around a deployment. Edit is a build or an       *)
(* editor, Lock and Unlock are a process that holds a file open, AppWrites *)
(* is the program on the device.                                           *)
(***************************************************************************)
Edit(p, c) ==
  /\ p \notin locked
  /\ local' = [local EXCEPT ![p] = c]
  /\ local' \in LocalFolders
  /\ seen' = IF pc = "idle" THEN seen ELSE [seen EXCEPT ![p] = @ \cup {c}]
  /\ UNCHANGED <<toolsVars, locked, remote, pc, remoteFileHashes, expectedHashes,
                 inaccessible, unscanned, filesToCopy, filesToDelete, outcome, touched>>

Lock(p) ==
  /\ p \in Lockable
  /\ local[p] # NoFile
  /\ locked' = locked \cup {p}
  /\ UNCHANGED <<toolsVars, local, remote, pc, remoteFileHashes, expectedHashes,
                 inaccessible, unscanned, filesToCopy, filesToDelete, outcome,
                 seen, touched>>

Unlock(p) ==
  /\ locked' = locked \ {p}
  /\ UNCHANGED <<toolsVars, local, remote, pc, remoteFileHashes, expectedHashes,
                 inaccessible, unscanned, filesToCopy, filesToDelete, outcome,
                 seen, touched>>

AppWrites(p, c) ==
  /\ remote' = [remote EXCEPT ![p] = c]
  /\ touched' = touched \cup {p}
  /\ UNCHANGED <<toolsVars, local, locked, pc, remoteFileHashes, expectedHashes,
                 inaccessible, unscanned, filesToCopy, filesToDelete, outcome, seen>>

UpgradeExtension == pc = "idle" /\ Upgrade /\ UNCHANGED deployVars

Deployment ==
  \/ InstallRemoteToolsIfNeeded
  \/ GetRemoteFileHashes
  \/ \E p \in Path : ComputeHashForFile(p)
  \/ GetFilesToCopyOrDelete
  \/ \E p \in Path : DeleteRemoteFile(p)
  \/ ConnectScp
  \/ \E p \in Path : CopyRemoteFile(p)
  \/ \E p \in Path : CutOff(p)
  \/ Finish
  \/ Fail

Environment ==
  \/ \E p \in Path, c \in File : Edit(p, c)
  \/ \E p \in Path : Lock(p)
  \/ \E p \in Path : Unlock(p)
  \/ \E p \in Path, c \in File : AppWrites(p, c)
  \/ UpgradeExtension

Next == Start \/ Deployment \/ Environment

Spec == Init /\ [][Next]_vars

(***************************************************************************)
(* A deployment that has begun keeps taking steps: its task is never       *)
(* cancelled, and a command either answers or throws.                      *)
(***************************************************************************)
FairSpec == Spec /\ WF_vars(Deployment)

----------------------------------------------------------------------------
(***************************************************************************)
(* A deployment that reports success has put a version on the device that  *)
(* the project had while it ran, file by file: no older build, no file     *)
(* that was cut off by an earlier failure, no file the project no longer   *)
(* has. It does not speak of the files the program on the device wrote     *)
(* since the start (they may have changed after the hashes were taken) nor *)
(* of the local files that could not be read, nor of a name that stands    *)
(* for two paths.                                                          *)
(***************************************************************************)
MirrorOnSuccess ==
  outcome = "ok" =>
    \A p \in OwnName \ (touched \cup inaccessible) : remote[p] \in seen[p]

(***************************************************************************)
(* The delta copy deletes nothing the project needs: a file on the list of *)
(* deletions was missing from the project at some moment of this           *)
(* deployment, or could not be read when it was scanned.                   *)
(***************************************************************************)
DeletesOnlyGoneFiles ==
  \A p \in filesToDelete : NoFile \in seen[p] \/ p \in inaccessible

(***************************************************************************)
(* The delta copy does no work twice: a file that neither the developer    *)
(* nor the program on the device changed since the start is transferred or *)
(* deleted only if the device has something else than the project; so a    *)
(* deployment of an unchanged project to a device that has it moves no     *)
(* file (but of a name that stands for two paths).                         *)
(***************************************************************************)
OnlyDifferencesTravel ==
  \A p \in OwnName \ (touched \cup inaccessible) :
     p \in filesToCopy \cup filesToDelete =>
       \A c \in File : seen[p] = {c} => remote[p] # c

(***************************************************************************)
(* Every deployment comes to an end: the loops over the files to scan, to  *)
(* delete and to copy finish also when the developer and the program on    *)
(* the device keep changing files.                                         *)
(***************************************************************************)
EveryDeploymentEnds == pc # "idle" ~> pc = "idle"

(***************************************************************************)
(* The delta deployment implements the abstract one of FolderMirror on the *)
(* paths that have a name of their own, whatever happens to the others.    *)
(***************************************************************************)
Own(f) == [p \in OwnName |-> f[p]]

Mirror ==
  INSTANCE FolderMirror WITH
    Path <- OwnName, source <- Own(local), target <- Own(remote),
    running <- pc # "idle", verdict <- outcome, seen <- Own(seen),
    foreign <- touched \cap OwnName, unread <- inaccessible \cap OwnName

ImplementsFolderMirror == Mirror!Spec
=============================================================================
