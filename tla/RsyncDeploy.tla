----------------------------- MODULE RsyncDeploy -----------------------------
(***************************************************************************)
(* Deployment with rsync, SecureShellRemoteBulkCopyRsyncSessionService.    *)
(* The options decide what travels: -u leaves a file alone that is newer   *)
(* on the device, and without -t a file that arrives has the time of its   *)
(* arrival, by the clock of the device. rsync itself is external: it lists *)
(* the folder, goes through the list, and puts a file in its place when it *)
(* has all of it.                                                          *)
(***************************************************************************)
EXTENDS Integers

CONSTANTS Path,
          Content,
          NoFile,
          Garbage,      \* of FolderMirror: rsync leaves no half files
          Skews,        \* what the clock of the device may be ahead
          MaxTime       \* bound on the clock of the computer

ASSUME RsyncAssumption ==
  /\ NoFile \notin Content
  /\ Skews \subseteq Int
  /\ MaxTime \in Nat

NoTime == -1            \* not in the list of files
Unmoved == "unmoved"    \* no file is on its way

VARIABLES
  clock, skew,      \* the computer's clock, the lead of the device's
  local, remote,    \* the folders: content of a file, and its time
  localTime, remoteTime,
  pc,               \* the step of the deployment
  mode,             \* "folder" (-rvuz) or "file" (-avz)
  wanted,           \* the paths asked for: all, or the one file
  listed,           \* rsync: the times in its list of files
  pending,          \* rsync: the paths it has not come to
  moving, content,  \* rsync: the file on its way and what was read of it
  exitCode,         \* rsync: the code it will end with
  verdict,          \* what the deployment reported
  seen,             \* history: the versions a local file had since it began
  touched,          \* history: the device files somebody else wrote since
  kept,             \* history: the paths it did not look at or left alone
  killed,           \* history: rsync did not end by itself
  lastEnd,          \* history: when the last deployment ended
  odd               \* history: see OddEdit

clocks == <<clock, skew>>
folder == <<local, localTime>>
device == <<remote, remoteTime>>
rsync == <<mode, wanted, listed, pending, moving, content, exitCode>>
history == <<seen, touched, kept, killed, lastEnd, odd>>
vars == <<clocks, folder, device, pc, rsync, verdict, history>>

File == Content \cup {NoFile}
Time == 0..MaxTime

TypeOK ==
  /\ clock \in Time /\ skew \in Skews
  /\ local \in [Path -> File] /\ localTime \in [Path -> Time]
  /\ remote \in [Path -> File] /\ remoteTime \in [Path -> Int]
  /\ pc \in {"idle", "probe", "mkdir", "list", "transfer"}
  /\ mode \in {"folder", "file"}
  /\ wanted \subseteq Path /\ pending \subseteq Path
  /\ listed \in [Path -> Time \cup {NoTime}]
  /\ moving \in Path \cup {Unmoved}
  /\ content \in File
  /\ exitCode \in {0, 23, 24}
  /\ verdict \in {"none", "ok", "failed"}
  /\ seen \in [Path -> SUBSET File]
  /\ touched \subseteq Path /\ kept \subseteq Path /\ odd \subseteq Path
  /\ killed \in BOOLEAN
  /\ lastEnd \in Time \cup {NoTime}

Init ==
  /\ clock = 0 /\ skew \in Skews
  /\ local \in [Path -> File] /\ localTime = [p \in Path |-> 0]
  /\ remote = [p \in Path |-> NoFile] /\ remoteTime = [p \in Path |-> 0]
  /\ pc = "idle" /\ mode = "folder" /\ wanted = {} /\ pending = {}
  /\ listed = [p \in Path |-> NoTime]
  /\ moving = Unmoved /\ content = NoFile
  /\ exitCode = 0 /\ verdict = "none"
  /\ seen = [p \in Path |-> {local[p]}]
  /\ touched = {} /\ kept = {} /\ odd = {}
  /\ killed = FALSE /\ lastEnd = NoTime

----------------------------------------------------------------------------
(***************************************************************************)
(* UploadFolderRecursiveAsync and UploadFileAsync: is rsync there, make    *)
(* the folder, start the process. The locals of a call begin anew.         *)
(***************************************************************************)
Start(m, paths) ==
  /\ pc = "idle"
  /\ pc' = "probe"
  /\ mode' = m /\ wanted' = paths
  /\ listed' = [p \in Path |-> NoTime]
  /\ pending' = {}
  /\ moving' = Unmoved /\ content' = NoFile
  /\ exitCode' = 0
  /\ verdict' = "none"
  /\ seen' = [p \in Path |-> {local[p]}]
  /\ touched' = {} /\ kept' = {} /\ killed' = FALSE
  /\ UNCHANGED <<clocks, folder, device, lastEnd, odd>>

UploadFolder == Start("folder", Path)
UploadFile == \E p \in Path : Start("file", {p})

End(v) ==
  /\ pc' = "idle"
  /\ verdict' = v
  /\ lastEnd' = clock
  /\ UNCHANGED <<clocks, folder, device, rsync, seen, touched, kept, odd>>

\* rsync is missing on the device.
RsyncIsMissing == pc = "probe" /\ End("failed") /\ UNCHANGED killed

RsyncIsThere ==
  /\ pc = "probe"
  /\ pc' = IF mode = "folder" THEN "mkdir" ELSE "list"
  /\ UNCHANGED <<clocks, folder, device, rsync, verdict, history>>

CreateDirectoryIfNeeded ==
  /\ pc = "mkdir"
  /\ pc' = "list"
  /\ UNCHANGED <<clocks, folder, device, rsync, verdict, history>>

\* A command, or the conversion of the paths, throws.
Throw == pc \in {"probe", "mkdir", "list"} /\ End("failed") /\ UNCHANGED killed

----------------------------------------------------------------------------
(***************************************************************************)
(* rsync (external, with the options of the code).                         *)
(***************************************************************************)
ListFiles ==
  /\ pc = "list"
  /\ pc' = "transfer"
  /\ listed' = [p \in Path |->
                  IF p \in wanted /\ local[p] # NoFile THEN localTime[p] ELSE NoTime]
  /\ pending' = Path
  /\ exitCode' = IF mode = "file" /\ \A p \in wanted : local[p] = NoFile THEN 23 ELSE 0
  /\ UNCHANGED <<clocks, folder, device, mode, wanted, moving, content, verdict, history>>

\* Variant: --ignore-existing instead of -u.
IsKeptIfThere(p) == remote[p] # NoFile

\* -u, and the quick check: the same time, and the same size, which two
\* versions may have.
MustKeep(p) == mode = "folder" /\ remote[p] # NoFile /\ remoteTime[p] > listed[p]
MayKeep(p) == remote[p] # NoFile /\ remoteTime[p] = listed[p]
IsKept(p) == MustKeep(p) \/ MayKeep(p)

Turn(p) == pc = "transfer" /\ moving = Unmoved /\ p \in pending

PassOver(p) ==
  /\ Turn(p)
  /\ listed[p] = NoTime \/ IsKept(p)
  /\ pending' = pending \ {p}
  /\ kept' = kept \cup {p}
  /\ UNCHANGED <<clocks, folder, device, pc, mode, wanted, listed, moving, content,
                 exitCode, verdict, seen, touched, killed, lastEnd, odd>>

Read(p) ==
  /\ Turn(p)
  /\ listed[p] # NoTime /\ ~ MustKeep(p)
  /\ local[p] # NoFile
  /\ moving' = p /\ content' = local[p]
  /\ UNCHANGED <<clocks, folder, device, pc, mode, wanted, listed, pending, exitCode,
                 verdict, history>>

\* The file has vanished (24) or cannot be opened (23): the others still travel.
CannotRead(p) ==
  /\ Turn(p)
  /\ listed[p] # NoTime /\ ~ MustKeep(p)
  /\ exitCode' = IF local[p] = NoFile THEN 24 ELSE 23
  /\ pending' = pending \ {p}
  /\ UNCHANGED <<clocks, folder, device, pc, mode, wanted, listed, moving, content,
                 verdict, history>>

\* The file takes its place; -a keeps the time it was listed with.
Store ==
  /\ pc = "transfer" /\ moving # Unmoved
  /\ remote' = [remote EXCEPT ![moving] = content]
  /\ remoteTime' = [remoteTime EXCEPT ![moving] =
                      IF mode = "file" THEN listed[moving] ELSE clock + skew]
  /\ odd' = IF content = local[moving] THEN odd \ {moving} ELSE odd
  /\ pending' = pending \ {moving}
  /\ moving' = Unmoved /\ content' = NoFile
  /\ UNCHANGED <<clocks, folder, pc, mode, wanted, listed, exitCode, verdict,
                 seen, touched, kept, killed, lastEnd>>

----------------------------------------------------------------------------
\* Variant: a killed process is told from one that ends.
VerdictOfSignal(code) ==
  IF code > 0 THEN "failed" ELSE IF code < 0 THEN "killed" ELSE "ok"

\* Variant: a partial transfer counts as a success.
VerdictOfFatal(code) == IF code > 24 THEN "failed" ELSE "ok"

Verdict(code) == IF code > 0 THEN "failed" ELSE "ok"

RsyncExits ==
  /\ pc = "transfer" /\ pending = {}
  /\ End(Verdict(exitCode))
  /\ UNCHANGED killed

\* The connection breaks: rsync ends with the code of ssh.
ConnectionBreaks == pc = "transfer" /\ End(Verdict(255)) /\ UNCHANGED killed

\* Windows gives the process a negative code.
RsyncIsKilled == pc = "transfer" /\ End(Verdict(-1)) /\ killed' = TRUE

----------------------------------------------------------------------------
(***************************************************************************)
(* The environment. A build gives a file the current time; another         *)
(* configuration, a package or a copied asset brings an older one. An edit *)
(* is odd when -u may get it wrong: the time is an old one, the clock of   *)
(* the device is ahead, or the edit is not after the last deployment.      *)
(***************************************************************************)
OddEdit(t) == t < clock \/ skew > 0 \/ pc # "idle" \/ clock = lastEnd

\* The start of a deployment makes seen anew.
See(p, c) == seen' = IF pc = "idle" THEN seen ELSE [seen EXCEPT ![p] = @ \cup {c}]

Edit(p, c, t) ==
  /\ t <= clock
  /\ local' = [local EXCEPT ![p] = c]
  /\ localTime' = [localTime EXCEPT ![p] = t]
  /\ See(p, c)
  /\ odd' = IF OddEdit(t) THEN odd \cup {p} ELSE odd
  /\ UNCHANGED <<clocks, device, pc, rsync, verdict, touched, kept, killed, lastEnd>>

Delete(p) ==
  /\ local' = [local EXCEPT ![p] = NoFile]
  /\ See(p, NoFile)
  /\ UNCHANGED <<clocks, localTime, device, pc, rsync, verdict, touched, kept, killed,
                 lastEnd, odd>>

AppWrites(p, c) ==
  /\ remote' = [remote EXCEPT ![p] = c]
  /\ remoteTime' = [remoteTime EXCEPT ![p] = clock + skew]
  /\ touched' = touched \cup {p}
  /\ odd' = odd \cup {p}
  /\ UNCHANGED <<clocks, folder, pc, rsync, verdict, seen, kept, killed, lastEnd>>

Tick ==
  /\ clock < MaxTime
  /\ clock' = clock + 1
  /\ UNCHANGED <<skew, folder, device, pc, rsync, verdict, history>>

Deployment ==
  \/ RsyncIsMissing \/ RsyncIsThere \/ CreateDirectoryIfNeeded \/ Throw
  \/ ListFiles
  \/ (\E p \in Path : PassOver(p) \/ Read(p) \/ CannotRead(p))
  \/ Store
  \/ RsyncExits \/ ConnectionBreaks \/ RsyncIsKilled

Environment ==
  \/ \E p \in Path : \/ \E c \in Content, t \in Time : Edit(p, c, t)
                     \/ Delete(p)
                     \/ \E c \in Content : AppWrites(p, c)
  \/ Tick

Next == UploadFolder \/ UploadFile \/ Deployment \/ Environment

Spec == Init /\ [][Next]_vars

----------------------------------------------------------------------------
(***************************************************************************)
(* When is -u harmless? A deployment that succeeds leaves a version the    *)
(* project had meanwhile of every file it was asked for, if the file was   *)
(* only ever built, at the current time, between deployments, by a clock   *)
(* the device is not ahead of, and nobody wrote it on the device; one      *)
(* complete transfer makes up for all that.                                *)
(***************************************************************************)
BuiltFilesArrive ==
  verdict = "ok" /\ ~ killed =>
    \A p \in wanted \ odd : listed[p] # NoTime => remote[p] \in seen[p]

(***************************************************************************)
(* rsync implements a FolderMirror that may leave files out: the ones -u   *)
(* keeps, and the ones that are gone here, which nothing removes there. A  *)
(* killed rsync, which counts as a success, is a failure to FolderMirror.  *)
(***************************************************************************)
Mirror == INSTANCE FolderMirror WITH
  source <- local, target <- remote, running <- (pc # "idle"),
  verdict <- (IF killed THEN "failed" ELSE verdict),
  seen <- seen, foreign <- touched, unread <- kept

ImplementsFolderMirror == Mirror!Spec
=============================================================================
