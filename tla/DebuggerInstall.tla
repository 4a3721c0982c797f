--------------------------- MODULE DebuggerInstall ---------------------------
(***************************************************************************)
(* Installation of the VS Code debugger on the device: the online and the  *)
(* offline way of SecureShellRemoteOperationsService and who calls them,   *)
(* InstallDebuggerCommand and the OnBeforeLaunch of a debugger start. Both *)
(* run asynchronously in one Visual Studio and may overlap: they share the *)
(* debugger's folder on the device and the download cache of the computer. *)
(*                                                                         *)
(* The dialog of the command is modal: nothing else starts while it is     *)
(* open. One device; the projects of a command all deploy to it.           *)
(***************************************************************************)
EXTENDS Integers

CONSTANTS Command,      \* the executions of the command
          Launch,       \* the debugger start that is going on
          NoTask,       \* null
          Version,      \* versions of the debugger
          MaxProjects   \* bound on the projects of one command

ASSUME InstallAssumption ==
  /\ Launch \notin Command
  /\ NoTask \notin Command
  /\ Version \subseteq Nat \ {0}
  /\ MaxProjects \in Nat

Session == Command \cup {Launch}

None == 0               \* no debugger there
Part == -1              \* files are missing
Mixed == -2             \* files of an older installation among them

VARIABLES
  task,             \* InstallDebuggerCommand.joinableTask
  pc,               \* per session: the step it is at
  online,           \* per session: the online way is tried
  version,          \* per session: the version to install, if it runs
  projects,         \* per session: the projects that are left
  how,              \* per session: the way the last installation went
  disturbed,        \* history, per session: another one has changed the
                    \* device or the cache since its installation began, or
                    \* the script that fills the cache has told of errors
  cache,            \* the version in the download cache
  debugger,         \* the device: the version in the debugger's folder
  folder,           \* the device: that folder exists
  executable        \* the device: "vsdbg" has its execute permission

request == <<online, version, projects>>
device == <<debugger, folder, executable>>
vars == <<task, pc, request, how, disturbed, cache, device>>

TypeOK ==
  /\ task \in Command \cup {NoTask}
  /\ pc \in [Session -> {"idle", "connect", "online", "download", "clean", "mkdir",
                         "upload", "uploading", "chmod", "installed", "debugging"}]
  /\ online \in [Session -> BOOLEAN]
  /\ version \in [Session -> Version \cup {None}]
  /\ projects \in [Session -> 0..MaxProjects]
  /\ how \in [Session -> {"none", "online", "offline"}]
  /\ disturbed \in [Session -> BOOLEAN]
  /\ cache \in Version \cup {None, Part}
  /\ debugger \in Version \cup {None, Part, Mixed}
  /\ folder \in BOOLEAN
  /\ executable \in BOOLEAN

Init ==
  /\ task = NoTask
  /\ pc = [s \in Session |-> "idle"]
  /\ online = [s \in Session |-> TRUE]
  /\ version = [s \in Session |-> None]
  /\ projects = [s \in Session |-> 0]
  /\ how = [s \in Session |-> "none"]
  /\ disturbed = [s \in Session |-> FALSE]
  /\ cache = None
  /\ debugger = None
  /\ folder = FALSE
  /\ executable = FALSE

At(s, step) == pc[s] = step
Goto(s, step) == pc' = [pc EXCEPT ![s] = step]

(***************************************************************************)
(* The session changes the device or the cache under the other ones; its   *)
(* own installation begins with the first step that does.                  *)
(***************************************************************************)
Disturb(s, own) ==
  disturbed' = [t \in Session |-> IF t = s THEN own ELSE pc[t] # "idle"]
DisturbOthers(s) == Disturb(s, disturbed[s])
BeginInstall(s) == Disturb(s, FALSE)

(***************************************************************************)
(* A session ends: the command's "finally" runs, the launch is called off  *)
(* or its debugger has stopped.                                            *)
(***************************************************************************)
End(s) ==
  /\ Goto(s, "idle")
  /\ task' = IF s \in Command THEN NoTask ELSE task
  /\ online' = [online EXCEPT ![s] = TRUE]
  /\ version' = [version EXCEPT ![s] = None]
  /\ projects' = [projects EXCEPT ![s] = 0]
  /\ how' = [how EXCEPT ![s] = "none"]

EndQuietly(s) == End(s) /\ disturbed' = [disturbed EXCEPT ![s] = FALSE]

----------------------------------------------------------------------------
(***************************************************************************)
(* InstallDebuggerCommand.Execute. The task resets the field in its        *)
(* "finally", so a delegate that ends before RunAsync returns, or throws   *)
(* before its "try", leaves the field set (ExecuteLost).                   *)
(***************************************************************************)
FirstStep(isOnline) == IF isOnline THEN "online" ELSE "download"

Execute(i, isOnline, v, n) ==
  /\ task = NoTask
  /\ At(i, "idle")
  /\ task' = i
  /\ Goto(i, FirstStep(isOnline))
  /\ online' = [online EXCEPT ![i] = isOnline]
  /\ version' = [version EXCEPT ![i] = v]
  /\ projects' = [projects EXCEPT ![i] = n]
  /\ UNCHANGED <<how, disturbed, cache, device>>

ExecuteLost(i) ==
  /\ task = NoTask
  /\ At(i, "idle")
  /\ task' = i
  /\ UNCHANGED <<pc, request, how, disturbed, cache, device>>

(***************************************************************************)
(* OnBeforeLaunchAsync: the latest version, online first, or no            *)
(* installation at all. Then the debugger starts and stops.                *)
(***************************************************************************)
OnBeforeLaunch(v) ==
  /\ At(Launch, "idle")
  /\ Goto(Launch, "connect")
  /\ version' = [version EXCEPT ![Launch] = v]
  /\ UNCHANGED <<task, online, projects, how, disturbed, cache, device>>

CheckConnectionThrow ==
  /\ At(Launch, "connect")
  /\ \/ /\ \E step \in {"online", "installed"} : Goto(Launch, step)
        /\ UNCHANGED <<task, request, how, disturbed>>
     \/ EndQuietly(Launch)
  /\ UNCHANGED <<cache, device>>

StartDebugger ==
  /\ At(Launch, "installed")
  /\ Goto(Launch, "debugging")
  /\ UNCHANGED <<task, request, how, disturbed, cache, device>>

StopDebugger ==
  /\ At(Launch, "debugging")
  /\ EndQuietly(Launch)
  /\ UNCHANGED <<cache, device>>

----------------------------------------------------------------------------
(***************************************************************************)
(* TryInstallVsDbgOnlineAsync. External: the pipeline "curl | sh" ends     *)
(* with the exit code of "sh", which is 0 when "curl" delivers nothing.    *)
(***************************************************************************)
OnlineReturnsTrue(s) ==
  /\ At(s, "online")
  /\ \/ debugger' = version[s] /\ folder' = TRUE /\ executable' = TRUE
     \/ UNCHANGED device
  /\ Goto(s, "installed")
  /\ how' = [how EXCEPT ![s] = "online"]
  /\ BeginInstall(s)
  /\ UNCHANGED <<task, request, cache>>

(***************************************************************************)
(* No "curl" on the device, or a SecureShellSessionException, maybe in the *)
(* middle of the script.                                                   *)
(***************************************************************************)
OnlineReturnsFalse(s) ==
  /\ At(s, "online")
  /\ \/ UNCHANGED <<device, disturbed>>
     \/ debugger' = Part /\ folder' = TRUE /\ UNCHANGED executable /\ DisturbOthers(s)
  /\ Goto(s, "download")
  /\ UNCHANGED <<task, request, how, cache>>

(***************************************************************************)
(* TryInstallVsDbgOfflineAsync. The script that fills the cache runs on    *)
(* the UI thread; it installs the version or throws. Errors that it writes *)
(* to its error stream instead are not looked at, and the cache is taken   *)
(* as it is then.                                                          *)
(***************************************************************************)
Download(s) ==
  /\ At(s, "download")
  /\ \/ /\ cache' = version[s]
        /\ Goto(s, "clean")
        /\ UNCHANGED <<task, request, how>>
     \/ /\ cache' \in {cache, Part}
        /\ End(s)
  /\ BeginInstall(s)
  /\ UNCHANGED device

DownloadErrorsUnseen(s) ==
  /\ At(s, "download")
  /\ cache' \in {cache, Part}
  /\ Goto(s, "clean")
  /\ Disturb(s, TRUE)
  /\ UNCHANGED <<task, request, how, device>>

\* Variant: nothing is removed.
CleanNothing(s) ==
  /\ At(s, "clean")
  /\ folder
  /\ Goto(s, "mkdir")
  /\ DisturbOthers(s)
  /\ UNCHANGED <<task, request, how, cache, device>>

CleanRemoteFolder(s) ==
  /\ At(s, "clean")
  /\ folder
  /\ debugger' = None
  /\ executable' = FALSE
  /\ Goto(s, "mkdir")
  /\ DisturbOthers(s)
  /\ UNCHANGED <<task, request, how, cache, folder>>

CreateRemoteFolderIfNeeded(s) ==
  /\ At(s, "mkdir")
  /\ Goto(s, "upload")
  /\ UNCHANGED <<task, request, how, disturbed, cache, device>>

UploadBegins(s) ==
  /\ At(s, "upload")
  /\ debugger' = IF debugger = None THEN Part ELSE Mixed
  /\ Goto(s, "uploading")
  /\ DisturbOthers(s)
  /\ UNCHANGED <<task, request, how, cache, folder, executable>>

UploadEnds(s) ==
  /\ At(s, "uploading")
  /\ debugger' \in IF disturbed[s] THEN {cache, Part, Mixed}
                   ELSE {IF debugger = Part THEN cache ELSE Mixed}
  /\ Goto(s, "chmod")
  /\ DisturbOthers(s)
  /\ UNCHANGED <<task, request, how, cache, folder, executable>>

(***************************************************************************)
(* Any exception but the ones of the online way that lead to the offline   *)
(* one. A folder that does not exist makes the clean command throw.        *)
(***************************************************************************)
Throw(s) ==
  /\ pc[s] \in {"online", "clean", "mkdir", "upload", "uploading", "chmod"}
  /\ EndQuietly(s)
  /\ UNCHANGED <<cache, device>>

ChangeMode(s) ==
  /\ At(s, "chmod")
  /\ executable' = TRUE
  /\ Goto(s, "installed")
  /\ how' = [how EXCEPT ![s] = "offline"]
  /\ DisturbOthers(s)
  /\ UNCHANGED <<task, request, cache, debugger, folder>>

(***************************************************************************)
(* The loop over the projects.                                             *)
(***************************************************************************)
\* Variant: the command gives the field back before its last project.
NextProjectEarly(i) ==
  /\ At(i, "installed")
  /\ IF projects[i] > 1
       THEN /\ projects' = [projects EXCEPT ![i] = @ - 1]
            /\ Goto(i, FirstStep(online[i]))
            /\ task' = NoTask
            /\ UNCHANGED <<online, version, how, disturbed>>
       ELSE EndQuietly(i)
  /\ UNCHANGED <<cache, device>>

\* Variant: the loop does not count.
NextProjectAgain(i) ==
  /\ At(i, "installed")
  /\ Goto(i, FirstStep(online[i]))
  /\ UNCHANGED <<task, request, how, disturbed, cache, device>>

\* Variant: the loop runs past the last project.
NextProjectPastLast(i) ==
  /\ At(i, "installed")
  /\ IF projects[i] >= 0
       THEN /\ projects' = [projects EXCEPT ![i] = @ - 1]
            /\ Goto(i, FirstStep(online[i]))
            /\ UNCHANGED <<task, online, version, how, disturbed>>
       ELSE EndQuietly(i)
  /\ UNCHANGED <<cache, device>>

NextProject(i) ==
  /\ At(i, "installed")
  /\ IF projects[i] > 1
       THEN /\ projects' = [projects EXCEPT ![i] = @ - 1]
            /\ Goto(i, FirstStep(online[i]))
            /\ UNCHANGED <<task, online, version, how, disturbed>>
       ELSE EndQuietly(i)
  /\ UNCHANGED <<cache, device>>

Install(s) ==
  \/ OnlineReturnsTrue(s) \/ OnlineReturnsFalse(s)
  \/ Download(s) \/ DownloadErrorsUnseen(s)
  \/ CleanRemoteFolder(s) \/ CreateRemoteFolderIfNeeded(s)
  \/ UploadBegins(s) \/ UploadEnds(s)
  \/ ChangeMode(s)
  \/ Throw(s)

CommandStep(i) == Install(i) \/ NextProject(i)

LaunchStep == CheckConnectionThrow \/ Install(Launch) \/ StartDebugger

Request ==
  \/ \E i \in Command, isOnline \in BOOLEAN, v \in Version, n \in 1..MaxProjects :
        Execute(i, isOnline, v, n)
  \/ \E i \in Command : ExecuteLost(i)
  \/ \E v \in Version : OnBeforeLaunch(v)
  \/ StopDebugger

Next == Request \/ (\E i \in Command : CommandStep(i)) \/ LaunchStep

Spec == Init /\ [][Next]_vars

(***************************************************************************)
(* What is running goes on: no call is cancelled, every remote command and *)
(* every script ends or fails.                                             *)
(***************************************************************************)
FairSpec ==
  Spec /\ (\A i \in Command : WF_vars(CommandStep(i))) /\ WF_vars(LaunchStep)

----------------------------------------------------------------------------
(***************************************************************************)
(* The command never runs twice at a time, also when its installation      *)
(* fails half-way or handles several projects: the field is set to the     *)
(* task of the execution that runs, until that one has ended.              *)
(***************************************************************************)
OneCommand == \A i \in Command : pc[i] # "idle" => task = i

(***************************************************************************)
(* An offline installation that comes to its end has replaced whatever was *)
(* in the folder, half an installation or another version, by the version  *)
(* asked for, ready to run; so has the one a launch goes on with. (Unless  *)
(* the other session has worked on the same folder or cache meanwhile, or  *)
(* the script that fills the cache had errors.)                            *)
(***************************************************************************)
OfflineInstalls ==
  \A s \in Session :
    pc[s] \in {"installed", "debugging"} /\ how[s] = "offline" /\ ~ disturbed[s]
      => debugger = version[s] /\ executable

(***************************************************************************)
(* Every installation comes to an end, whatever fails on the way.          *)
(***************************************************************************)
EveryInstallationEnds ==
  \A s \in Session : pc[s] \notin {"idle", "debugging"} ~> pc[s] \in {"idle", "debugging"}
=============================================================================
