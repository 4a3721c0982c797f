---------------------------- MODULE DotnetInstall ----------------------------
(***************************************************************************)
(* Installation of .NET on the device: InstallDotnetCommand and the online *)
(* and the offline way of SecureShellRemoteOperationsService. A session is *)
(* an instance of Visual Studio. The sessions share the download cache of  *)
(* the computer, the home directory of the device, into which an archive   *)
(* is uploaded, and the folder it is unpacked into. A payload is an        *)
(* archive: kind, release and architecture. Which one the install script   *)
(* names is up to Microsoft. One device.                                   *)
(***************************************************************************)
EXTENDS Integers

CONSTANTS Session,      \* instances of Visual Studio
          Payload,      \* archives the script may name
          NoPayload,    \* none named yet
          MaxProjects   \* bound on the projects of one command

ASSUME DotnetAssumption ==
  /\ NoPayload \notin Payload
  /\ MaxProjects \in Nat

VARIABLES
  pc,               \* per session: the step it is at
  online,           \* per session: the online way is tried
  projects,         \* per session: the projects that are left
  payload,          \* per session: the archive of the offline way
  met,              \* per session: another one has worked on the same archive
                    \* since this one began to upload or to unpack it
  spoiled,          \* history, per session: what it unpacked may have been
                    \* damaged by another one or by a command without status
  cache,            \* the download cache, per payload
  brokenOff,        \* history: the payloads whose last write broke off
  archive,          \* the device: the archives in the home directory
  dotnet            \* the device: what is unpacked

request == <<online, projects>>
computer == <<cache, brokenOff>>
device == <<archive, dotnet>>
vars == <<pc, request, payload, met, spoiled, computer, device>>

File == {"none", "part", "whole"}

OfflineSteps == {"script", "lookup", "request", "create", "write",
                 "upload", "uploading", "unpack", "unpacking", "rm"}
NotRunning == {"idle", "lost"}

TypeOK ==
  /\ pc \in [Session -> NotRunning \cup {"online", "installed", "completed", "failed"}
                          \cup OfflineSteps]
  /\ online \in [Session -> BOOLEAN]
  /\ projects \in [Session -> 0..MaxProjects]
  /\ payload \in [Session -> Payload \cup {NoPayload}]
  /\ met \in [Session -> BOOLEAN]
  /\ spoiled \in [Session -> BOOLEAN]
  /\ cache \in [Payload -> File]
  /\ brokenOff \subseteq Payload
  /\ archive \in [Payload -> File]
  /\ dotnet \in [Payload -> File]

Init ==
  /\ pc = [s \in Session |-> "idle"]
  /\ online = [s \in Session |-> TRUE]
  /\ projects = [s \in Session |-> 0]
  /\ payload = [s \in Session |-> NoPayload]
  /\ met = [s \in Session |-> FALSE]
  /\ spoiled = [s \in Session |-> FALSE]
  /\ cache = [p \in Payload |-> "none"]
  /\ brokenOff = {}
  /\ archive = [p \in Payload |-> "none"]
  /\ dotnet = [p \in Payload |-> "none"]

At(s, step) == pc[s] = step
Goto(s, step) == pc' = [pc EXCEPT ![s] = step]

\* The other sessions that have come as far with the same payload.
Others(s, steps) == {t \in Session \ {s} : payload[t] = payload[s] /\ pc[t] \in steps}

Writers(s) == Others(s, {"write"})
Readers(s) == Others(s, {"uploading"})

\* Session s changes the archive on the device, or the unpacked files.
Touch(s, own) ==
  met' = [t \in Session |->
            IF t = s THEN own
            ELSE met[t] \/ t \in Others(s, {"uploading", "unpacking"})]
Damage(s, own) ==
  spoiled' = [t \in Session |->
                IF t = s THEN own
                ELSE spoiled[t] \/ t \in Others(s, {"unpacking", "rm", "completed"})]

FirstStep(isOnline) == IF isOnline THEN "online" ELSE "script"

----------------------------------------------------------------------------
(***************************************************************************)
(* InstallDotnetCommand.Execute: one task at a time. A delegate that ends  *)
(* before RunAsync returns, or throws before its "try", leaves the field   *)
(* set: the command is lost until Visual Studio is restarted.              *)
(***************************************************************************)
Execute(s, isOnline, n) ==
  /\ At(s, "idle")
  /\ Goto(s, FirstStep(isOnline))
  /\ online' = [online EXCEPT ![s] = isOnline]
  /\ projects' = [projects EXCEPT ![s] = n]
  /\ UNCHANGED <<payload, met, spoiled, computer, device>>

ExecuteLost(s) ==
  /\ At(s, "idle")
  /\ Goto(s, "lost")
  /\ UNCHANGED <<request, payload, met, spoiled, computer, device>>

End(s) ==
  /\ Goto(s, "idle")
  /\ online' = [online EXCEPT ![s] = TRUE]
  /\ projects' = [projects EXCEPT ![s] = 0]
  /\ payload' = [payload EXCEPT ![s] = NoPayload]

EndQuietly(s) ==
  /\ End(s)
  /\ met' = [met EXCEPT ![s] = FALSE]
  /\ spoiled' = [spoiled EXCEPT ![s] = FALSE]

\* Variant: the loop runs past the last project.
NextProjectPastLast(s) ==
  /\ pc[s] \in {"installed", "completed", "failed"}
  /\ IF projects[s] >= 0
       THEN /\ projects' = [projects EXCEPT ![s] = @ - 1]
            /\ payload' = [payload EXCEPT ![s] = NoPayload]
            /\ Goto(s, FirstStep(online[s]))
            /\ UNCHANGED <<online, met, spoiled>>
       ELSE EndQuietly(s)
  /\ UNCHANGED <<computer, device>>

\* Variant: the loop does not count.
NextProjectAgain(s) ==
  /\ pc[s] \in {"installed", "completed", "failed"}
  /\ payload' = [payload EXCEPT ![s] = NoPayload]
  /\ Goto(s, FirstStep(online[s]))
  /\ UNCHANGED <<request, met, spoiled, computer, device>>

\* The loop over the projects goes on whether the installation failed or not.
NextProject(s) ==
  /\ pc[s] \in {"installed", "completed", "failed"}
  /\ IF projects[s] > 1
       THEN /\ projects' = [projects EXCEPT ![s] = @ - 1]
            /\ payload' = [payload EXCEPT ![s] = NoPayload]
            /\ Goto(s, FirstStep(online[s]))
            /\ UNCHANGED <<online, met, spoiled>>
       ELSE EndQuietly(s)
  /\ UNCHANGED <<computer, device>>

----------------------------------------------------------------------------
(***************************************************************************)
(* TryInstallDotNetOnlineAsync. External: the pipeline "curl | bash" ends  *)
(* with the exit code of "bash", 0 when "curl" delivers nothing; the       *)
(* script leaves a release that is installed alone.                        *)
(***************************************************************************)
OnlineReturnsTrue(s) ==
  /\ At(s, "online")
  /\ \/ \E p \in Payload : dotnet' = [dotnet EXCEPT ![p] = "whole"]
     \/ UNCHANGED dotnet
  /\ Goto(s, "installed")
  /\ UNCHANGED <<request, payload, met, spoiled, computer, archive>>

\* No "curl", or a SecureShellSessionException, maybe in the middle of the script.
OnlineReturnsFalse(s) ==
  /\ At(s, "online")
  /\ \/ \E p \in Payload : dotnet[p] # "whole" /\ dotnet' = [dotnet EXCEPT ![p] = "part"]
     \/ UNCHANGED dotnet
  /\ Goto(s, "script")
  /\ UNCHANGED <<request, payload, met, spoiled, computer, archive>>

----------------------------------------------------------------------------
(***************************************************************************)
(* DownloadDotnetAsync: ask the script for the archive, look it up in the  *)
(* cache, request it and write it.                                         *)
(***************************************************************************)
RunScript(s) ==
  /\ At(s, "script")
  /\ \E p \in Payload : payload' = [payload EXCEPT ![s] = p]
  /\ Goto(s, "lookup")
  /\ UNCHANGED <<request, met, spoiled, computer, device>>

LookUp(s) ==
  /\ At(s, "lookup")
  /\ Goto(s, IF cache[payload[s]] = "none" THEN "request" ELSE "upload")
  /\ UNCHANGED <<request, payload, met, spoiled, computer, device>>

\* The content is read into memory before the file is created.
GetPayload(s) ==
  /\ At(s, "request")
  /\ Goto(s, "create")
  /\ UNCHANGED <<request, payload, met, spoiled, computer, device>>

\* Variant: the file is opened with FileShare.ReadWrite.
CreateShared(s) ==
  /\ At(s, "create")
  /\ cache' = [cache EXCEPT ![payload[s]] = "part"]
  /\ Goto(s, "write")
  /\ UNCHANGED <<request, payload, met, spoiled, brokenOff, device>>

\* File.Create empties the file and lets nobody else open it.
Create(s) ==
  /\ At(s, "create")
  /\ Writers(s) \cup Readers(s) = {}
  /\ cache' = [cache EXCEPT ![payload[s]] = "part"]
  /\ Goto(s, "write")
  /\ UNCHANGED <<request, payload, met, spoiled, brokenOff, device>>

CreateIsRefused(s) ==
  /\ At(s, "create")
  /\ Writers(s) \cup Readers(s) # {}
  /\ EndQuietly(s)
  /\ UNCHANGED <<computer, device>>

Write(s) ==
  /\ At(s, "write")
  /\ cache' = [cache EXCEPT ![payload[s]] = "whole"]
  /\ brokenOff' = brokenOff \ {payload[s]}
  /\ Goto(s, "upload")
  /\ UNCHANGED <<request, payload, met, spoiled, device>>

----------------------------------------------------------------------------
(***************************************************************************)
(* InstallDotnetAsync: upload, unpack (after mkdir) and remove.            *)
(***************************************************************************)
UploadBegins(s) ==
  /\ At(s, "upload")
  /\ Writers(s) = {}
  /\ archive' = [archive EXCEPT ![payload[s]] = "part"]
  /\ Goto(s, "uploading")
  /\ Touch(s, Others(s, {"uploading"}) # {})
  /\ UNCHANGED <<request, payload, spoiled, computer, dotnet>>

\* The file cannot be read: an IOException, which the upload does not convert.
UploadIsRefused(s) ==
  /\ At(s, "upload")
  /\ Writers(s) # {}
  /\ EndQuietly(s)
  /\ UNCHANGED <<computer, device>>

\* When another session has written the same file, or removed it, the one or
\* the other may be what is there.
UploadEnds(s) ==
  /\ At(s, "uploading")
  /\ \E f \in {cache[payload[s]]} \cup (IF met[s] THEN {archive[payload[s]]} ELSE {}) :
        archive' = [archive EXCEPT ![payload[s]] = f]
  /\ Goto(s, "unpack")
  /\ Touch(s, FALSE)
  /\ UNCHANGED <<request, payload, spoiled, computer, dotnet>>

UnpackBegins(s) ==
  /\ At(s, "unpack")
  /\ Goto(s, "unpacking")
  /\ met' = [met EXCEPT ![s] = Others(s, {"uploading"}) # {}]
  /\ spoiled' = [spoiled EXCEPT ![s] = FALSE]
  /\ UNCHANGED <<request, payload, computer, device>>

\* Variant: the exit status of tar is not looked at.
UnpackSucceedsAnyway(s) ==
  /\ At(s, "unpacking")
  /\ dotnet' = [dotnet EXCEPT ![payload[s]] =
                  IF archive[payload[s]] = "whole" \/ met[s] THEN "whole" ELSE "part"]
  /\ Goto(s, "rm")
  /\ UNCHANGED <<request, payload, met, spoiled, computer, archive>>

\* tar fails at the end of half an archive, and when there is none.
UnpackSucceeds(s) ==
  /\ At(s, "unpacking")
  /\ archive[payload[s]] = "whole" \/ met[s]
  /\ \E f \in {"whole"} \cup (IF spoiled[s] THEN {dotnet[payload[s]]} ELSE {}) :
        dotnet' = [dotnet EXCEPT ![payload[s]] = f]
  /\ Goto(s, "rm")
  /\ UNCHANGED <<request, payload, met, spoiled, computer, archive>>

\* What a tar that breaks off, or comes to the end of half an archive, leaves.
UnpackPart(s) ==
  \E f \in {dotnet[payload[s]], "part"} : dotnet' = [dotnet EXCEPT ![payload[s]] = f]

\* The session goes on as after a success when tar ends without exit status.
UnpackHasNoStatus(s) ==
  /\ At(s, "unpacking")
  /\ UnpackPart(s)
  /\ Goto(s, "rm")
  /\ Damage(s, TRUE)
  /\ UNCHANGED <<request, payload, met, computer, archive>>

Remove(s) ==
  /\ At(s, "rm")
  /\ archive' = [archive EXCEPT ![payload[s]] = "none"]
  /\ Goto(s, "completed")
  /\ Touch(s, FALSE)
  /\ UNCHANGED <<request, payload, spoiled, computer, dotnet>>

(***************************************************************************)
(* A SecureShellSessionException, also one of the script, is printed: the  *)
(* installation counts as done. The archive stays where it is.             *)
(***************************************************************************)
Fail(s) ==
  /\ pc[s] \in {"script", "upload", "uploading", "unpack", "unpacking", "rm"}
  /\ Goto(s, "failed")
  /\ IF At(s, "unpacking") THEN UnpackPart(s) /\ Damage(s, FALSE)
                           ELSE UNCHANGED <<dotnet, spoiled>>
  /\ UNCHANGED <<request, payload, met, computer, archive>>

(***************************************************************************)
(* Any other exception, or the end of Visual Studio.                       *)
(***************************************************************************)
BreakOff(s) ==
  /\ ~ At(s, "idle")
  /\ End(s)
  /\ met' = [met EXCEPT ![s] = FALSE]
  /\ brokenOff' = IF At(s, "write") THEN brokenOff \cup {payload[s]} ELSE brokenOff
  /\ IF At(s, "unpacking") THEN UnpackPart(s) /\ Damage(s, FALSE)
                           ELSE spoiled' = [spoiled EXCEPT ![s] = FALSE] /\ UNCHANGED dotnet
  /\ UNCHANGED <<cache, archive>>

Download(s) ==
  \/ RunScript(s) \/ LookUp(s) \/ GetPayload(s)
  \/ Create(s) \/ CreateIsRefused(s) \/ Write(s)

Unpack(s) ==
  \/ UploadBegins(s) \/ UploadIsRefused(s) \/ UploadEnds(s)
  \/ UnpackBegins(s) \/ UnpackSucceeds(s) \/ UnpackHasNoStatus(s)
  \/ Remove(s)

Step(s) ==
  \/ OnlineReturnsTrue(s) \/ OnlineReturnsFalse(s)
  \/ Download(s) \/ Unpack(s) \/ Fail(s)
  \/ NextProject(s)

Request(s) ==
  \/ \E isOnline \in BOOLEAN, n \in 1..MaxProjects : Execute(s, isOnline, n)
  \/ ExecuteLost(s)

Next == \E s \in Session : Request(s) \/ Step(s) \/ BreakOff(s)

Spec == Init /\ [][Next]_vars

(***************************************************************************)
(* What is running goes on; exceptions never come to help.                 *)
(***************************************************************************)
FairSpec == Spec /\ \A s \in Session : WF_vars(Step(s))

----------------------------------------------------------------------------
(***************************************************************************)
(* The cache never gives a half file away: what is being uploaded was      *)
(* downloaded completely, also when another Visual Studio downloads the    *)
(* same payload at the same time. The exception is a payload whose write   *)
(* broke off, which the cache keeps.                                       *)
(***************************************************************************)
UploadsWholeFiles ==
  \A s \in Session :
    At(s, "uploading") => cache[payload[s]] = "whole" \/ payload[s] \in brokenOff

(***************************************************************************)
(* An offline installation that says it is completed has unpacked all of   *)
(* its payload, whatever half a file was in the cache or on the device and *)
(* whoever else has uploaded and removed the archive meanwhile: nothing is *)
(* compared, the exit status of tar is what tells. (Unless another session *)
(* damaged the unpacked files, or a tar was killed.)                       *)
(***************************************************************************)
CompletedMeansUnpacked ==
  \A s \in Session :
    At(s, "completed") /\ ~ spoiled[s] => dotnet[payload[s]] = "whole"

(***************************************************************************)
(* Every installation of every project comes to an end.                    *)
(***************************************************************************)
EveryInstallationEnds ==
  \A s \in Session : pc[s] \notin NotRunning ~> pc[s] \in NotRunning
=============================================================================
