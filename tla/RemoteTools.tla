---------------------------- MODULE RemoteTools ----------------------------
(***************************************************************************)
(* Installation of the remote tools on the device:                         *)
(* SecureShellRemoteBulkCopyDeltaSessionService.InstallRemoteToolsIfNeeded.*)
(*                                                                         *)
(* The tools folder on the device holds two files, the binary "checksum"   *)
(* and "version.json". They are copied in that order by one recursive SCP  *)
(* upload; the execute permission is set afterwards. A session is one      *)
(* deployment of one Visual Studio; it can end between any two steps       *)
(* (connection lost, command failed, Visual Studio closed), and the next   *)
(* one starts from what the device was left with.                          *)
(***************************************************************************)
EXTENDS Integers

CONSTANT Version    \* versions of the tools that extension releases ship

ASSUME VersionAssumption == Version \subseteq Nat \ {0}

Missing == 0        \* the file does not exist on the device
Torn == -1          \* an upload of the file was cut off

VARIABLES
  shipped,          \* the version in the extension that is running
  versionFile,      \* the device: what version.json says
  binary,           \* the device: the release "checksum" comes from
  executable,       \* the device: "checksum" has its execute permission
  toolsStep         \* how far InstallRemoteToolsIfNeeded has come

toolsVars == <<shipped, versionFile, binary, executable, toolsStep>>

ToolsSteps ==
  {"out", "probe", "mkdir", "uploadBinary", "uploadVersion", "chmod", "ready"}

ToolsTypeOK ==
  /\ shipped \in Version
  /\ versionFile \in Version \cup {Missing, Torn}
  /\ binary \in Version \cup {Missing, Torn}
  /\ executable \in BOOLEAN
  /\ toolsStep \in ToolsSteps

ToolsInit ==
  /\ shipped \in Version
  /\ versionFile = Missing
  /\ binary = Missing
  /\ executable = FALSE
  /\ toolsStep = "out"

EnterTools ==
  /\ toolsStep = "out"
  /\ toolsStep' = "probe"
  /\ UNCHANGED <<shipped, versionFile, binary, executable>>

(***************************************************************************)
(* Where the comparison of the two versions leads. "cat version.json"      *)
(* fails when the file is missing: install. A file that is not JSON makes  *)
(* JToken.Parse throw: the deployment ends.                                *)
(***************************************************************************)
\* Variant: only looks whether the file is there.
NeedsInstallWhenMissing == versionFile = Missing

\* Variant: installs every time.
NeedsInstallAlways == versionFile # Torn

NeedsInstall == versionFile \notin {shipped, Torn}

Probe ==
  /\ toolsStep = "probe"
  /\ toolsStep' = IF versionFile = Torn THEN "out"
                  ELSE IF NeedsInstall THEN "mkdir" ELSE "ready"
  /\ UNCHANGED <<shipped, versionFile, binary, executable>>

MakeToolsFolder ==
  /\ toolsStep = "mkdir"
  /\ toolsStep' = "uploadBinary"
  /\ UNCHANGED <<shipped, versionFile, binary, executable>>

(***************************************************************************)
(* External: the permission of a file SCP has written. A new file is not   *)
(* executable; one that was there may keep its permission or lose it.      *)
(***************************************************************************)
ModeAfterUpload == IF binary = Missing THEN {FALSE} ELSE {executable, FALSE}

UploadBinary ==
  /\ toolsStep = "uploadBinary"
  /\ executable' \in ModeAfterUpload
  /\ \/ binary' = shipped /\ toolsStep' = "uploadVersion"
     \/ binary' = Torn /\ toolsStep' = "out"
  /\ UNCHANGED <<shipped, versionFile>>

UploadVersion ==
  /\ toolsStep = "uploadVersion"
  /\ \/ versionFile' = shipped /\ toolsStep' = "chmod"
     \/ versionFile' = Torn /\ toolsStep' = "out"
  /\ UNCHANGED <<shipped, binary, executable>>

SetExecutable ==
  /\ toolsStep = "chmod"
  /\ executable' = TRUE
  /\ toolsStep' = "ready"
  /\ UNCHANGED <<shipped, versionFile, binary>>

InstallStep ==
  Probe \/ MakeToolsFolder \/ UploadBinary \/ UploadVersion \/ SetExecutable

(***************************************************************************)
(* The session ends: normally after the tools were used, or by a failure   *)
(* at any point. The device keeps what it has.                             *)
(***************************************************************************)
LeaveTools ==
  /\ toolsStep # "out"
  /\ toolsStep' = "out"
  /\ UNCHANGED <<shipped, versionFile, binary, executable>>

(***************************************************************************)
(* External: Visual Studio restarts with a newer release of the extension. *)
(* The code compares for equality; a return to an older release, or two    *)
(* computers with different ones, are left out: an installation of 1 that  *)
(* ends between the two files over a complete 2 leaves a device on which   *)
(* the release 2 then runs the binary of 1.                                *)
(***************************************************************************)
Upgrade ==
  /\ toolsStep = "out"
  /\ \E v \in Version : v > shipped /\ shipped' = v
  /\ UNCHANGED <<versionFile, binary, executable, toolsStep>>

ToolsNext == EnterTools \/ InstallStep \/ LeaveTools \/ Upgrade

ToolsSpec == ToolsInit /\ [][ToolsNext]_toolsVars

(***************************************************************************)
(* Whether running "checksum" on the device can succeed.                   *)
(***************************************************************************)
ToolsRun == binary \in Version /\ executable

----------------------------------------------------------------------------
(***************************************************************************)
(* The deployment never runs the "checksum" of another release than its    *)
(* own, whatever crashes, half-done uploads and upgrades to newer releases *)
(* came before: when InstallRemoteToolsIfNeeded returns, with or without   *)
(* an installation, the binary on the device is complete and the one the   *)
(* extension ships.                                                        *)
(***************************************************************************)
ReadyHasOwnBinary == toolsStep = "ready" => binary = shipped

(***************************************************************************)
(* An installation that works is left alone: as long as the extension      *)
(* stays the same, no step takes the tools away from a device on which     *)
(* they are complete, of the shipped version and executable.               *)
(***************************************************************************)
Usable == versionFile = shipped /\ binary = shipped /\ executable

UsableStaysUsable == [][Usable /\ shipped' = shipped => Usable']_toolsVars
=============================================================================
