------------------------- MODULE DebuggerInstallProofs -------------------------
(***************************************************************************)
(* Proofs about DebuggerInstall, for any executions of the command and any *)
(* versions: its type, OneCommand, OfflineInstalls and what becomes of a   *)
(* field that was left set.                                                *)
(***************************************************************************)
EXTENDS DebuggerInstall, TLAPS

\* A session that has begun has a version to install; one that has not
\* installed yet, no way by which it did.
HasVersion == \A s \in Session : pc[s] # "idle" => version[s] \in Version
NotYet == \A s \in Session : pc[s] \in {"idle", "connect"} => how[s] = "none"

(***************************************************************************)
(* What an offline installation has got done, step by step, as long as no  *)
(* other session works on the folder or the cache.                         *)
(***************************************************************************)
Cached == {"clean", "mkdir", "upload", "uploading"}
Progress ==
  \A s \in Session : ~ disturbed[s] =>
    /\ pc[s] \in Cached => cache = version[s]
    /\ pc[s] \in {"mkdir", "upload"} => debugger = None
    /\ pc[s] = "uploading" => debugger = Part
    /\ pc[s] = "chmod" => debugger = version[s]

InstallInv ==
  /\ TypeOK /\ HasVersion /\ NotYet
  /\ OneCommand
  /\ Progress /\ OfflineInstalls

LEMMA InstallInvInit == Init => InstallInv
<1> SUFFICES ASSUME Init
             PROVE  InstallInv
  OBVIOUS
<1>1. projects \in [Session -> 0..MaxProjects]
  BY InstallAssumption DEF Init
<1>2. folder \in BOOLEAN /\ executable \in BOOLEAN
  BY Zenon DEF Init
<1>3. TypeOK
  BY <1>1, <1>2 DEF Init, TypeOK
<1>4. HasVersion /\ NotYet /\ OneCommand /\ Progress /\ OfflineInstalls
  BY DEF Init, HasVersion, NotYet, OneCommand, Progress, Cached, OfflineInstalls, Session
<1> QED BY <1>3, <1>4 DEF InstallInv

LEMMA FirstStepType == \A isOnline \in BOOLEAN : FirstStep(isOnline) \in {"online", "download"}
  BY DEF FirstStep

LEMMA DisturbType ==
  ASSUME TypeOK, NEW s \in Session, NEW own \in BOOLEAN, Disturb(s, own)
  PROVE  /\ disturbed' \in [Session -> BOOLEAN]
         /\ disturbed'[s] = own
         /\ \A t \in Session \ {s} : disturbed'[t] <=> pc[t] # "idle"
<1>1. \A t \in Session : (IF t = s THEN own ELSE pc[t] # "idle") \in BOOLEAN
  BY Zenon
<1> QED BY <1>1, Zenon DEF Disturb

(***************************************************************************)
(* Who changes the folder or the cache disturbs all others that run.       *)
(***************************************************************************)
LEMMA OthersAreDisturbed ==
  ASSUME InstallInv, NEW s \in Session, NEW own \in BOOLEAN, Disturb(s, own),
         \A t \in Session \ {s} : pc'[t] = pc[t]
  PROVE  \A t \in Session \ {s} : ~ disturbed'[t] => pc'[t] = "idle"
  BY DisturbType DEF InstallInv

(***************************************************************************)
(* The part of the invariant that is about one session at a time: a step   *)
(* of s keeps it if it keeps it for s.                                     *)
(***************************************************************************)
OwnProgress(s) ==
  ~ disturbed[s] =>
    /\ pc[s] \in Cached => cache = version[s]
    /\ pc[s] \in {"mkdir", "upload"} => debugger = None
    /\ pc[s] = "uploading" => debugger = Part
    /\ pc[s] = "chmod" => debugger = version[s]
    /\ pc[s] \in {"installed", "debugging"} /\ how[s] = "offline"
         => debugger = version[s] /\ executable

LEMMA ChangeKeepsProgress ==
  ASSUME InstallInv, NEW s \in Session, NEW own \in BOOLEAN, Disturb(s, own),
         \A t \in Session \ {s} : pc'[t] = pc[t],
         OwnProgress(s)'
  PROVE  Progress' /\ OfflineInstalls'
<1>1. \A t \in Session \ {s} : ~ disturbed'[t] => pc'[t] = "idle"
  BY OthersAreDisturbed
<1> QED BY <1>1 DEF OwnProgress, Progress, OfflineInstalls, Cached

LEMMA NoChangeKeepsProgress ==
  ASSUME InstallInv, NEW s \in Session, UNCHANGED <<cache, debugger, executable>>,
         \A t \in Session \ {s} :
           /\ pc'[t] = pc[t] /\ version'[t] = version[t] /\ how'[t] = how[t]
           /\ disturbed'[t] = disturbed[t],
         OwnProgress(s)'
  PROVE  Progress' /\ OfflineInstalls'
  BY DEF InstallInv, OwnProgress, Progress, OfflineInstalls, Cached

(***************************************************************************)
(* The end of a session.                                                   *)
(***************************************************************************)
LEMMA EndKeeps ==
  ASSUME InstallInv, NEW s \in Session, pc[s] # "idle", End(s),
         disturbed' \in [Session -> BOOLEAN],
         cache' \in Version \cup {None, Part},
         UNCHANGED device
  PROVE  /\ TypeOK' /\ HasVersion' /\ NotYet' /\ OneCommand'
         /\ OwnProgress(s)'
         /\ \A t \in Session \ {s} :
              pc'[t] = pc[t] /\ version'[t] = version[t] /\ how'[t] = how[t]
<1> USE DEF InstallInv, device
<1>1. /\ pc' = [pc EXCEPT ![s] = "idle"] /\ online' = [online EXCEPT ![s] = TRUE]
      /\ version' = [version EXCEPT ![s] = None] /\ projects' = [projects EXCEPT ![s] = 0]
      /\ how' = [how EXCEPT ![s] = "none"]
      /\ task' = IF s \in Command THEN NoTask ELSE task
  BY DEF End, Goto
<1>2. pc'[s] = "idle" /\ how'[s] = "none"
      /\ \A t \in Session \ {s} :
           pc'[t] = pc[t] /\ version'[t] = version[t] /\ how'[t] = how[t]
  BY <1>1 DEF TypeOK
<1>3. TypeOK'
  <2>1. projects' \in [Session -> 0..MaxProjects]
    BY <1>1, InstallAssumption DEF TypeOK
  <2>2. task' \in Command \cup {NoTask}
    BY <1>1 DEF TypeOK
  <2>3. /\ online' \in [Session -> BOOLEAN]
        /\ version' \in [Session -> Version \cup {None}]
        /\ how' \in [Session -> {"none", "online", "offline"}]
    BY <1>1 DEF TypeOK
  <2> QED BY <1>1, <2>1, <2>2, <2>3 DEF TypeOK
<1>4. HasVersion' /\ NotYet'
  BY <1>2 DEF HasVersion, NotYet
<1>5. OneCommand'
  <2> SUFFICES ASSUME NEW i \in Command, pc'[i] # "idle"
               PROVE  task' = i
    BY DEF OneCommand
  <2>1. i # s /\ pc[i] # "idle"
    BY <1>2 DEF Session
  <2>2. task = i
    BY <2>1 DEF OneCommand
  <2>3. s \notin Command
    BY <2>1, <2>2 DEF OneCommand
  <2> QED BY <1>1, <2>2, <2>3
<1>6. OwnProgress(s)'
  BY <1>2 DEF OwnProgress, Cached
<1> QED BY <1>2, <1>3, <1>4, <1>5, <1>6

LEMMA EndQuietlyKeeps ==
  ASSUME InstallInv, NEW s \in Session, pc[s] # "idle", EndQuietly(s), UNCHANGED <<cache, device>>
  PROVE  InstallInv'
<1>1. disturbed' = [disturbed EXCEPT ![s] = FALSE]
  BY DEF EndQuietly
<1>2. disturbed' \in [Session -> BOOLEAN] /\ \A t \in Session \ {s} : disturbed'[t] = disturbed[t]
  BY <1>1 DEF InstallInv, TypeOK
<1>3. cache' \in Version \cup {None, Part} /\ UNCHANGED <<cache, debugger, executable>>
  BY DEF InstallInv, TypeOK, device
<1>4. /\ TypeOK' /\ HasVersion' /\ NotYet' /\ OneCommand'
      /\ OwnProgress(s)'
      /\ \A t \in Session \ {s} :
           pc'[t] = pc[t] /\ version'[t] = version[t] /\ how'[t] = how[t]
  BY <1>2, <1>3, EndKeeps DEF EndQuietly
<1>5. Progress' /\ OfflineInstalls'
  BY <1>2, <1>3, <1>4, NoChangeKeepsProgress
<1> QED BY <1>4, <1>5 DEF InstallInv

(***************************************************************************)
(* A step of an installation that goes on: the session goes to another     *)
(* step, and everything but the device, the cache, how and disturbed stays.*)
(***************************************************************************)
GoesOn(s, step, way) ==
  /\ pc' = [pc EXCEPT ![s] = step]
  /\ how' = [how EXCEPT ![s] = way]
  /\ UNCHANGED <<task, online, version, projects>>

LEMMA GoesOnKeeps ==
  ASSUME InstallInv, NEW s \in Session, pc[s] # "idle",
         NEW step \in {"online", "download", "clean", "mkdir", "upload", "uploading", "chmod",
                      "installed", "debugging"},
         NEW way \in {"none", "online", "offline"},
         GoesOn(s, step, way),
         disturbed' \in [Session -> BOOLEAN],
         cache' \in Version \cup {None, Part},
         debugger' \in Version \cup {None, Part, Mixed},
         folder' \in BOOLEAN, executable' \in BOOLEAN
  PROVE  /\ TypeOK' /\ HasVersion' /\ NotYet' /\ OneCommand'
         /\ pc'[s] = step /\ how'[s] = way /\ version'[s] = version[s] /\ version[s] \in Version
         /\ \A t \in Session \ {s} :
              pc'[t] = pc[t] /\ version'[t] = version[t] /\ how'[t] = how[t]
<1> USE DEF InstallInv, GoesOn
<1>1. /\ pc'[s] = step /\ how'[s] = way
      /\ \A t \in Session \ {s} : pc'[t] = pc[t] /\ how'[t] = how[t]
  BY DEF TypeOK
<1>2. TypeOK'
  BY DEF TypeOK
<1>3. HasVersion' /\ NotYet'
  BY <1>1 DEF HasVersion, NotYet
<1>4. OneCommand'
  BY <1>1 DEF OneCommand, Session
<1>5. version[s] \in Version
  BY DEF HasVersion
<1> QED BY <1>1, <1>2, <1>3, <1>4, <1>5

\* Both ways of an installation, step by step.
LEMMA InstallKeeps ==
  ASSUME InstallInv, NEW s \in Session, Install(s)
  PROVE  InstallInv'
<1> USE DEF At, request, device
<1> DEFINE Frame == /\ TypeOK' /\ HasVersion' /\ NotYet' /\ OneCommand'
                    /\ version'[s] = version[s] /\ version[s] \in Version
                    /\ \A t \in Session \ {s} :
                         pc'[t] = pc[t] /\ version'[t] = version[t] /\ how'[t] = how[t]
<1> HIDE DEF Frame
<1>h. how = [how EXCEPT ![s] = how[s]] /\ how[s] \in {"none", "online", "offline"}
      /\ disturbed[s] \in BOOLEAN
  BY DEF InstallInv, TypeOK
<1>t. /\ disturbed \in [Session -> BOOLEAN] /\ cache \in Version \cup {None, Part}
      /\ debugger \in Version \cup {None, Part, Mixed} /\ folder \in BOOLEAN /\ executable \in BOOLEAN
  BY DEF InstallInv, TypeOK
<1>1. CASE OnlineReturnsTrue(s)
  <2>1. Disturb(s, FALSE) /\ GoesOn(s, "installed", "online") /\ pc[s] = "online" /\ cache' = cache
    BY <1>1 DEF OnlineReturnsTrue, BeginInstall, GoesOn, Goto
  <2>2. disturbed' \in [Session -> BOOLEAN]
    BY <2>1, DisturbType DEF InstallInv
  <2>3. version[s] \in Version
    BY <2>1 DEF InstallInv, HasVersion
  <2>4. debugger' \in Version \cup {None, Part, Mixed} /\ folder' \in BOOLEAN /\ executable' \in BOOLEAN
    BY <1>1, <1>t, <2>3 DEF OnlineReturnsTrue
  <2>5. Frame /\ pc'[s] = "installed" /\ how'[s] = "online"
    BY <1>t, <2>1, <2>2, <2>4, GoesOnKeeps DEF Frame
  <2>6. OwnProgress(s)'
    BY <2>5 DEF OwnProgress, Cached
  <2> QED BY <2>1, <2>5, <2>6, ChangeKeepsProgress DEF Frame, InstallInv
<1>2. CASE OnlineReturnsFalse(s) /\ UNCHANGED <<debugger, folder, executable, disturbed>>
  <2>1. GoesOn(s, "download", how[s]) /\ pc[s] = "online" /\ cache' = cache
    BY <1>2, <1>h DEF OnlineReturnsFalse, GoesOn, Goto
  <2>2. Frame /\ pc'[s] = "download"
    BY <1>h, <1>t, <1>2, <2>1, GoesOnKeeps DEF Frame
  <2>3. OwnProgress(s)'
    BY <2>2 DEF OwnProgress, Cached
  <2>4. Progress' /\ OfflineInstalls'
    BY <1>2, <2>1, <2>2, <2>3, NoChangeKeepsProgress DEF Frame
  <2> QED BY <2>2, <2>4 DEF Frame, InstallInv
<1>3. CASE OnlineReturnsFalse(s) /\ debugger' = Part /\ folder' = TRUE /\ UNCHANGED executable
           /\ DisturbOthers(s)
  <2>1. Disturb(s, disturbed[s]) /\ GoesOn(s, "download", how[s]) /\ pc[s] = "online" /\ cache' = cache
    BY <1>3, <1>h DEF OnlineReturnsFalse, DisturbOthers, GoesOn, Goto
  <2>2. disturbed' \in [Session -> BOOLEAN]
    BY <1>h, <2>1, DisturbType DEF InstallInv
  <2>3. Frame /\ pc'[s] = "download"
    BY <1>h, <1>t, <1>3, <2>1, <2>2, GoesOnKeeps DEF Frame
  <2>4. OwnProgress(s)'
    BY <2>3 DEF OwnProgress, Cached
  <2> QED BY <1>h, <2>1, <2>3, <2>4, ChangeKeepsProgress DEF Frame, InstallInv
<1>4. CASE Download(s) /\ cache' = version[s] /\ Goto(s, "clean") /\ UNCHANGED <<task, request, how>>
  <2>1. Disturb(s, FALSE) /\ GoesOn(s, "clean", how[s]) /\ pc[s] = "download"
        /\ UNCHANGED <<debugger, folder, executable>>
    BY <1>4, <1>h DEF Download, BeginInstall, GoesOn, Goto
  <2>2. disturbed' \in [Session -> BOOLEAN] /\ cache' \in Version
    BY <1>4, <2>1, DisturbType DEF InstallInv, HasVersion
  <2>3. Frame /\ pc'[s] = "clean"
    BY <1>h, <1>t, <2>1, <2>2, GoesOnKeeps DEF Frame
  <2>4. OwnProgress(s)'
    BY <1>4, <2>3 DEF OwnProgress, Cached, Frame
  <2> QED BY <2>1, <2>3, <2>4, ChangeKeepsProgress DEF Frame, InstallInv
<1>5. CASE Download(s) /\ cache' \in {cache, Part} /\ End(s)
  <2>1. Disturb(s, FALSE) /\ pc[s] # "idle" /\ UNCHANGED device
    BY <1>5 DEF Download, BeginInstall
  <2>2. disturbed' \in [Session -> BOOLEAN] /\ cache' \in Version \cup {None, Part}
    BY <1>t, <1>5, <2>1, DisturbType DEF InstallInv
  <2>3. /\ TypeOK' /\ HasVersion' /\ NotYet' /\ OneCommand' /\ OwnProgress(s)'
        /\ \A t \in Session \ {s} : pc'[t] = pc[t]
    BY <1>5, <2>1, <2>2, EndKeeps
  <2> QED BY <2>1, <2>3, ChangeKeepsProgress DEF InstallInv
<1>14. CASE DownloadErrorsUnseen(s)
  <2>1. Disturb(s, TRUE) /\ GoesOn(s, "clean", how[s]) /\ pc[s] = "download"
        /\ UNCHANGED <<debugger, folder, executable>> /\ cache' \in {cache, Part}
    BY <1>14, <1>h DEF DownloadErrorsUnseen, GoesOn, Goto
  <2>2. disturbed' \in [Session -> BOOLEAN] /\ disturbed'[s]
    BY <2>1, DisturbType DEF InstallInv
  <2>3. Frame /\ pc'[s] = "clean"
    BY <1>h, <1>t, <2>1, <2>2, GoesOnKeeps DEF Frame
  <2>4. OwnProgress(s)'
    BY <2>2 DEF OwnProgress
  <2> QED BY <2>1, <2>3, <2>4, ChangeKeepsProgress DEF Frame, InstallInv
<1>6. CASE CleanRemoteFolder(s)
  <2>1. Disturb(s, disturbed[s]) /\ GoesOn(s, "mkdir", how[s]) /\ pc[s] = "clean"
        /\ UNCHANGED <<cache, folder>> /\ debugger' = None /\ executable' = FALSE
    BY <1>6, <1>h DEF CleanRemoteFolder, DisturbOthers, GoesOn, Goto
  <2>2. disturbed' \in [Session -> BOOLEAN] /\ disturbed'[s] = disturbed[s]
    BY <1>h, <2>1, DisturbType DEF InstallInv
  <2>3. Frame /\ pc'[s] = "mkdir"
    BY <1>h, <1>t, <2>1, <2>2, GoesOnKeeps DEF Frame
  <2>4. OwnProgress(s)'
    BY <2>1, <2>2, <2>3 DEF OwnProgress, Cached, Frame, InstallInv, Progress
  <2> QED BY <1>h, <2>1, <2>3, <2>4, ChangeKeepsProgress DEF Frame, InstallInv
<1>7. CASE CreateRemoteFolderIfNeeded(s)
  <2>1. GoesOn(s, "upload", how[s]) /\ pc[s] = "mkdir"
        /\ UNCHANGED <<cache, debugger, folder, executable, disturbed>>
    BY <1>7, <1>h DEF CreateRemoteFolderIfNeeded, GoesOn, Goto
  <2>2. Frame /\ pc'[s] = "upload"
    BY <1>h, <1>t, <2>1, GoesOnKeeps DEF Frame
  <2>3. OwnProgress(s)'
    BY <2>1, <2>2 DEF OwnProgress, Cached, Frame, InstallInv, Progress
  <2>4. Progress' /\ OfflineInstalls'
    BY <2>1, <2>2, <2>3, NoChangeKeepsProgress DEF Frame
  <2> QED BY <2>2, <2>4 DEF Frame, InstallInv
<1>8. CASE UploadBegins(s)
  <2>1. Disturb(s, disturbed[s]) /\ GoesOn(s, "uploading", how[s]) /\ pc[s] = "upload"
        /\ UNCHANGED <<cache, folder, executable>>
        /\ debugger' = IF debugger = None THEN Part ELSE Mixed
    BY <1>8, <1>h DEF UploadBegins, DisturbOthers, GoesOn, Goto
  <2>2. disturbed' \in [Session -> BOOLEAN] /\ disturbed'[s] = disturbed[s]
    BY <1>h, <2>1, DisturbType DEF InstallInv
  <2>3. Frame /\ pc'[s] = "uploading"
    BY <1>h, <1>t, <2>1, <2>2, GoesOnKeeps DEF Frame
  <2>4. OwnProgress(s)'
    BY <2>1, <2>2, <2>3 DEF OwnProgress, Cached, Frame, InstallInv, Progress
  <2> QED BY <1>h, <2>1, <2>3, <2>4, ChangeKeepsProgress DEF Frame, InstallInv
<1>9. CASE UploadEnds(s)
  <2>1. Disturb(s, disturbed[s]) /\ GoesOn(s, "chmod", how[s]) /\ pc[s] = "uploading"
        /\ UNCHANGED <<cache, folder, executable>>
    BY <1>9, <1>h DEF UploadEnds, DisturbOthers, GoesOn, Goto
  <2>2. disturbed' \in [Session -> BOOLEAN] /\ disturbed'[s] = disturbed[s]
    BY <1>h, <2>1, DisturbType DEF InstallInv
  <2>3. debugger' \in Version \cup {None, Part, Mixed}
    BY <1>9, <1>t DEF UploadEnds
  <2>4. Frame /\ pc'[s] = "chmod"
    BY <1>h, <1>t, <2>1, <2>2, <2>3, GoesOnKeeps DEF Frame
  <2>5. ~ disturbed[s] => debugger' = version[s]
    <3>1. ~ disturbed[s] => debugger = Part /\ cache = version[s]
      BY <2>1 DEF InstallInv, Progress, Cached
    <3> QED BY <1>9, <3>1 DEF UploadEnds
  <2>6. OwnProgress(s)'
    BY <2>2, <2>4, <2>5 DEF OwnProgress, Cached, Frame
  <2> QED BY <1>h, <2>1, <2>4, <2>6, ChangeKeepsProgress DEF Frame, InstallInv
<1>10. CASE ChangeMode(s)
  <2>1. Disturb(s, disturbed[s]) /\ GoesOn(s, "installed", "offline") /\ pc[s] = "chmod"
        /\ UNCHANGED <<cache, debugger, folder>> /\ executable' = TRUE
    BY <1>10, <1>h DEF ChangeMode, DisturbOthers, GoesOn, Goto
  <2>2. disturbed' \in [Session -> BOOLEAN] /\ disturbed'[s] = disturbed[s]
    BY <1>h, <2>1, DisturbType DEF InstallInv
  <2>3. Frame /\ pc'[s] = "installed"
    BY <1>t, <2>1, <2>2, GoesOnKeeps DEF Frame
  <2>4. OwnProgress(s)'
    BY <2>1, <2>2, <2>3 DEF OwnProgress, Cached, Frame, InstallInv, Progress
  <2> QED BY <1>h, <2>1, <2>3, <2>4, ChangeKeepsProgress DEF Frame, InstallInv
<1>11. CASE Throw(s)
  BY <1>11, EndQuietlyKeeps DEF Throw
<1>12. Download(s) => \/ cache' = version[s] /\ Goto(s, "clean") /\ UNCHANGED <<task, request, how>>
                      \/ cache' \in {cache, Part} /\ End(s)
  BY DEF Download
<1>13. OnlineReturnsFalse(s) =>
         \/ UNCHANGED <<debugger, folder, executable, disturbed>>
         \/ debugger' = Part /\ folder' = TRUE /\ UNCHANGED executable /\ DisturbOthers(s)
  BY DEF OnlineReturnsFalse
<1> QED
  BY <1>1, <1>2, <1>3, <1>4, <1>5, <1>6, <1>7, <1>8, <1>9, <1>10, <1>11, <1>12, <1>13,
     <1>14 DEF Install

LEMMA NextKeeps == InstallInv /\ [Next]_vars => InstallInv'
<1> SUFFICES ASSUME InstallInv, [Next]_vars
             PROVE  InstallInv'
  OBVIOUS
<1> USE DEF At, Goto, request, device
<1>1. ASSUME NEW i \in Command, NEW isOnline \in BOOLEAN, NEW v \in Version, NEW n \in 1..MaxProjects,
             Execute(i, isOnline, v, n)
      PROVE  InstallInv'
  <2> USE <1>1 DEF Execute, InstallInv
  <2>0. i \in Session /\ FirstStep(isOnline) \in {"online", "download"}
    BY FirstStepType DEF Session
  <2>1. pc'[i] \in {"online", "download"} /\ version'[i] = v
        /\ \A t \in Session \ {i} : pc'[t] = pc[t] /\ version'[t] = version[t]
    BY <2>0 DEF TypeOK
  <2>2. TypeOK'
    <3>1. projects' \in [Session -> 0..MaxProjects]
      BY <2>0, InstallAssumption DEF TypeOK
    <3> QED BY <2>0, <3>1 DEF TypeOK
  <2>3. HasVersion' /\ NotYet'
    BY <2>1 DEF HasVersion, NotYet
  <2>4. OneCommand'
    <3>1. \A j \in Command : pc[j] = "idle"
      BY InstallAssumption DEF OneCommand
    <3> QED BY <2>1, <3>1 DEF OneCommand, Session
  <2>5. OwnProgress(i)'
    BY <2>1 DEF OwnProgress, Cached
  <2>6. Progress' /\ OfflineInstalls'
    BY <2>0, <2>1, <2>5, NoChangeKeepsProgress
  <2> QED BY <2>2, <2>3, <2>4, <2>6
<1>2. ASSUME NEW i \in Command, ExecuteLost(i)
      PROVE  InstallInv'
  <2>1. \A j \in Command : pc[j] = "idle"
    BY <1>2, InstallAssumption DEF ExecuteLost, InstallInv, OneCommand
  <2> QED
    BY <1>2, <2>1 DEF ExecuteLost, InstallInv, TypeOK, HasVersion, NotYet, OneCommand, Progress,
                      OfflineInstalls
<1>3. ASSUME NEW v \in Version, OnBeforeLaunch(v)
      PROVE  InstallInv'
  <2> USE <1>3 DEF OnBeforeLaunch, InstallInv
  <2>0. Launch \in Session
    BY DEF Session
  <2>1. pc'[Launch] = "connect" /\ version'[Launch] = v
        /\ \A t \in Session \ {Launch} : pc'[t] = pc[t] /\ version'[t] = version[t]
    BY <2>0 DEF TypeOK
  <2>2. TypeOK'
    BY DEF TypeOK
  <2>3. HasVersion' /\ NotYet'
    BY <2>1 DEF HasVersion, NotYet
  <2>4. OneCommand'
    BY <2>1, InstallAssumption DEF OneCommand, Session
  <2>5. OwnProgress(Launch)'
    BY <2>1 DEF OwnProgress, Cached
  <2>6. Progress' /\ OfflineInstalls'
    BY <2>0, <2>1, <2>5, NoChangeKeepsProgress
  <2> QED BY <2>2, <2>3, <2>4, <2>6
<1>4. CASE StopDebugger \/ (CheckConnectionThrow /\ EndQuietly(Launch))
  <2>1. Launch \in Session /\ pc[Launch] # "idle" /\ EndQuietly(Launch) /\ UNCHANGED <<cache, device>>
    BY <1>4 DEF StopDebugger, CheckConnectionThrow, Session
  <2> QED BY <2>1, EndQuietlyKeeps
<1>5. CASE StartDebugger \/
           (CheckConnectionThrow /\ (\E step \in {"online", "installed"} : Goto(Launch, step))
              /\ UNCHANGED <<task, request, how, disturbed>>)
  <2>0. Launch \in Session /\ how = [how EXCEPT ![Launch] = how[Launch]]
        /\ how[Launch] \in {"none", "online", "offline"}
    BY DEF Session, InstallInv, TypeOK
  <2>1. PICK step \in {"online", "installed", "debugging"} :
          /\ GoesOn(Launch, step, how[Launch])
          /\ (pc[Launch] = "installed" /\ step = "debugging") \/ pc[Launch] = "connect"
    BY <1>5, <2>0 DEF StartDebugger, CheckConnectionThrow, GoesOn
  <2>2. UNCHANGED <<task, request, how, disturbed, cache, device>>
    BY <1>5 DEF StartDebugger, CheckConnectionThrow
  <2>3. /\ TypeOK' /\ HasVersion' /\ NotYet' /\ OneCommand'
        /\ pc'[Launch] = step /\ how'[Launch] = how[Launch] /\ version'[Launch] = version[Launch]
        /\ \A t \in Session \ {Launch} :
             pc'[t] = pc[t] /\ version'[t] = version[t] /\ how'[t] = how[t]
    <3>1. /\ disturbed' \in [Session -> BOOLEAN] /\ cache' \in Version \cup {None, Part}
          /\ debugger' \in Version \cup {None, Part, Mixed}
          /\ folder' \in BOOLEAN /\ executable' \in BOOLEAN
      BY <2>2 DEF InstallInv, TypeOK
    <3>2. pc[Launch] # "idle"
      BY <2>1
    <3> QED BY <2>0, <2>1, <3>1, <3>2, GoesOnKeeps
  <2>4. OwnProgress(Launch)'
    <3>1. CASE pc[Launch] = "connect"
      BY <2>0, <2>1, <2>3, <3>1 DEF OwnProgress, Cached, InstallInv, NotYet
    <3>2. CASE pc[Launch] = "installed" /\ step = "debugging"
      BY <2>0, <2>2, <2>3, <3>2 DEF OwnProgress, Cached, InstallInv, OfflineInstalls
    <3> QED BY <2>1, <3>1, <3>2
  <2>5. Progress' /\ OfflineInstalls'
    BY <2>0, <2>2, <2>3, <2>4, NoChangeKeepsProgress
  <2> QED BY <2>3, <2>5 DEF InstallInv
<1>6. ASSUME NEW i \in Command, NextProject(i)
      PROVE  InstallInv'
  <2>0. i \in Session
    BY DEF Session
  <2>1. CASE projects[i] > 1
    <3> USE <1>6, <2>1 DEF NextProject, InstallInv
    <3>1. FirstStep(online[i]) \in {"online", "download"}
      BY <2>0, FirstStepType DEF TypeOK
    <3>2. pc'[i] \in {"online", "download"} /\ \A t \in Session \ {i} : pc'[t] = pc[t]
      BY <2>0, <3>1 DEF TypeOK
    <3>3. TypeOK'
      <4>1. projects' \in [Session -> 0..MaxProjects]
        BY <2>0, InstallAssumption DEF TypeOK
      <4> QED BY <3>1, <4>1 DEF TypeOK
    <3>4. HasVersion' /\ NotYet' /\ OneCommand'
      BY <3>2 DEF HasVersion, NotYet, OneCommand, Session
    <3>5. OwnProgress(i)'
      BY <3>2 DEF OwnProgress, Cached
    <3>6. Progress' /\ OfflineInstalls'
      BY <2>0, <3>2, <3>5, NoChangeKeepsProgress
    <3> QED BY <3>3, <3>4, <3>6
  <2>2. CASE ~ (projects[i] > 1)
    BY <1>6, <2>0, <2>2, EndQuietlyKeeps DEF NextProject
  <2> QED BY <2>1, <2>2
<1>7. ASSUME NEW s \in Session, Install(s)
      PROVE  InstallInv'
  BY <1>7, InstallKeeps
<1>8. CASE UNCHANGED vars
  BY <1>8 DEF vars, InstallInv, TypeOK, HasVersion, NotYet, OneCommand, Progress, Cached,
         OfflineInstalls
<1>9. CheckConnectionThrow =>
        \/ EndQuietly(Launch)
        \/ (\E step \in {"online", "installed"} : Goto(Launch, step))
             /\ UNCHANGED <<task, request, how, disturbed>>
  BY DEF CheckConnectionThrow
<1> QED
  BY <1>1, <1>2, <1>3, <1>4, <1>5, <1>6, <1>7, <1>8, <1>9
     DEF Next, Request, CommandStep, LaunchStep, Session

LEMMA InstallInvariant == Spec => []InstallInv
  BY InstallInvInit, NextKeeps, PTL DEF Spec

(***************************************************************************)
(* Every variable keeps its type, with any number of projects.             *)
(***************************************************************************)
THEOREM InstallTypeCorrect == Spec => []TypeOK
<1>1. InstallInv => TypeOK
  BY DEF InstallInv
<1> QED BY <1>1, InstallInvariant, PTL

(***************************************************************************)
(* For any number of executions: never two of them at a time.              *)
(***************************************************************************)
THEOREM OneCommandCorrect == Spec => []OneCommand
<1>1. InstallInv => OneCommand
  BY DEF InstallInv
<1> QED BY <1>1, InstallInvariant, PTL

(***************************************************************************)
(* Whatever was in the folder, an offline installation that is not         *)
(* disturbed has replaced it by the version asked for.                     *)
(***************************************************************************)
THEOREM OfflineInstallsCorrect == Spec => []OfflineInstalls
<1>1. InstallInv => OfflineInstalls
  BY DEF InstallInv
<1> QED BY <1>1, InstallInvariant, PTL

----------------------------------------------------------------------------
(***************************************************************************)
(* A field that was left set is never given back: when no execution of the *)
(* command runs and the field is set (InstallDebuggerCommand.Execute finds *)
(* a task that has ended), no execution ever runs again, whatever debugger *)
(* starts do. Execute asks for the field and only a running execution      *)
(* resets it.                                                              *)
(***************************************************************************)
Lost == task # NoTask /\ \A i \in Command : pc[i] = "idle"

THEOREM LostCommandStaysLost == Spec => [][Lost => Lost']_vars
<1>1. TypeOK /\ [Next]_vars => [Lost => Lost']_vars
  <2> SUFFICES ASSUME TypeOK, Next, Lost
               PROVE  Lost'
    BY DEF vars
  <2> USE DEF Lost
  <2>0. \A i \in Command : pc[i] = "idle" /\ i # Launch
    BY InstallAssumption
  <2>1. CASE Request
    BY <2>0, <2>1 DEF Request, Execute, ExecuteLost, OnBeforeLaunch, StopDebugger,
                      EndQuietly, End, At, Goto, TypeOK, Session
  <2>2. ASSUME NEW i \in Command, CommandStep(i)
        PROVE  FALSE
    BY <2>0, <2>2 DEF CommandStep, Install, NextProject, OnlineReturnsTrue,
       OnlineReturnsFalse, Download, DownloadErrorsUnseen, CleanRemoteFolder, CreateRemoteFolderIfNeeded,
       UploadBegins, UploadEnds, ChangeMode, Throw, At
  <2>3. CASE LaunchStep
    <3>1. task' = task
      BY <2>3, InstallAssumption DEF LaunchStep, CheckConnectionThrow, Install, StartDebugger,
         OnlineReturnsTrue, OnlineReturnsFalse, Download, DownloadErrorsUnseen, CleanRemoteFolder,
         CreateRemoteFolderIfNeeded, UploadBegins, UploadEnds, ChangeMode, Throw,
         EndQuietly, End
    <3>2. \E step : pc' = [pc EXCEPT ![Launch] = step]
      BY <2>3 DEF LaunchStep, CheckConnectionThrow, Install, StartDebugger,
         OnlineReturnsTrue, OnlineReturnsFalse, Download, DownloadErrorsUnseen, CleanRemoteFolder,
         CreateRemoteFolderIfNeeded, UploadBegins, UploadEnds, ChangeMode, Throw,
         EndQuietly, End, Goto
    <3>3. \A i \in Command : pc'[i] = pc[i]
      BY <2>0, <3>2 DEF TypeOK, Session
    <3>4. QED
      BY <3>1, <3>3
  <2>4. QED
    BY <2>1, <2>2, <2>3 DEF Next
<1>2. QED
  BY <1>1, InstallTypeCorrect, PTL DEF Spec
=============================================================================
