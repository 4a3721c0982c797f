--------------------------- MODULE RsyncDeployProofs ---------------------------
(***************************************************************************)
(* Proofs about RsyncDeploy, for any files, contents, clocks and bounds:   *)
(* type correctness, that -u is harmless for files that are only built,    *)
(* and the implementation of FolderMirror with what it promises.           *)
(***************************************************************************)
EXTENDS RsyncDeploy, TLAPS

LEMMA TypeInit == Init => TypeOK
<1> SUFFICES ASSUME Init
             PROVE  TypeOK
  OBVIOUS
<1>1. 0 \in Time /\ Time \subseteq Int
  BY RsyncAssumption DEF Time
<1>2. seen \in [Path -> SUBSET File]
  BY DEF Init
<1>3. remote \in [Path -> File] /\ listed \in [Path -> Time \cup {NoTime}]
  BY DEF Init, File
<1>4. localTime \in [Path -> Time] /\ remoteTime \in [Path -> Int]
  BY <1>1 DEF Init
<1> QED BY <1>1, <1>2, <1>3, <1>4 DEF Init, TypeOK, File

\* The end of a deployment, whatever it reports.
LEMMA EndKeepsType ==
  ASSUME TypeOK, NEW v \in {"ok", "failed"}, End(v), killed' \in BOOLEAN
  PROVE  TypeOK'
  BY DEF End, TypeOK, clocks, folder, device, rsync

LEMMA TypeStep == TypeOK /\ [Next]_vars => TypeOK'
<1> SUFFICES ASSUME TypeOK, [Next]_vars
             PROVE  TypeOK'
  OBVIOUS
<1> USE DEF clocks, folder, device, rsync, history
<1>1. ASSUME NEW m \in {"folder", "file"}, NEW paths \in SUBSET Path, Start(m, paths)
      PROVE  TypeOK'
  <2>1. seen' \in [Path -> SUBSET File] /\ listed' \in [Path -> Time \cup {NoTime}]
    BY <1>1 DEF Start, TypeOK
  <2> QED BY <1>1, <2>1 DEF Start, TypeOK, File
<1>2. CASE RsyncIsMissing \/ Throw \/ RsyncExits \/ ConnectionBreaks \/ RsyncIsKilled
  <2>1. \E v \in {"ok", "failed"} : End(v) /\ killed' \in BOOLEAN
    BY <1>2 DEF RsyncIsMissing, Throw, RsyncExits, ConnectionBreaks, RsyncIsKilled, Verdict, TypeOK
  <2> QED BY <2>1, EndKeepsType
<1>3. CASE RsyncIsThere \/ CreateDirectoryIfNeeded
  BY <1>3 DEF RsyncIsThere, CreateDirectoryIfNeeded, TypeOK
<1>4. CASE ListFiles
  <2>1. listed' \in [Path -> Time \cup {NoTime}]
    BY <1>4 DEF ListFiles, TypeOK
  <2> QED BY <1>4, <2>1 DEF ListFiles, TypeOK
<1>5. ASSUME NEW p \in Path, PassOver(p) \/ CannotRead(p)
      PROVE  TypeOK'
  BY <1>5 DEF PassOver, CannotRead, Turn, TypeOK
<1>6. ASSUME NEW p \in Path, Read(p)
      PROVE  TypeOK'
  BY <1>6 DEF Read, Turn, TypeOK
<1>7. CASE Store
  <2>1. moving \in Path
    BY <1>7 DEF Store, TypeOK
  <2>2. remote' \in [Path -> File]
    BY <1>7, <2>1 DEF Store, TypeOK
  <2>3. remoteTime' \in [Path -> Int]
    <3>1. listed[moving] \in Int /\ clock + skew \in Int
      BY <2>1, RsyncAssumption DEF TypeOK, Time, NoTime
    <3> QED BY <1>7, <2>1, <3>1 DEF Store, TypeOK
  <2>4. odd' \subseteq Path /\ pending' \subseteq Path /\ moving' = Unmoved /\ content' \in File
    BY <1>7 DEF Store, TypeOK, File
  <2> QED BY <1>7, <2>2, <2>3, <2>4 DEF Store, TypeOK
<1>8. ASSUME NEW p \in Path, NEW c \in Content, NEW t \in Time, Edit(p, c, t)
      PROVE  TypeOK'
  <2>1. seen' \in [Path -> SUBSET File]
    BY <1>8 DEF Edit, See, TypeOK, File
  <2>2. odd' \subseteq Path
    BY <1>8 DEF Edit, TypeOK
  <2> QED BY <1>8, <2>1, <2>2 DEF Edit, TypeOK, File
<1>9. ASSUME NEW p \in Path, Delete(p)
      PROVE  TypeOK'
  <2>1. seen' \in [Path -> SUBSET File]
    BY <1>9 DEF Delete, See, TypeOK, File
  <2> QED BY <1>9, <2>1 DEF Delete, TypeOK, File
<1>10. ASSUME NEW p \in Path, NEW c \in Content, AppWrites(p, c)
       PROVE  TypeOK'
  <2>1. clock + skew \in Int
    BY RsyncAssumption DEF TypeOK, Time
  <2> QED BY <1>10, <2>1 DEF AppWrites, TypeOK, File
<1>11. CASE Tick
  BY <1>11, RsyncAssumption DEF Tick, TypeOK, Time
<1>12. CASE UNCHANGED vars
  BY <1>12 DEF vars, TypeOK
<1> QED
  BY <1>1, <1>2, <1>3, <1>4, <1>5, <1>6, <1>7, <1>8, <1>9, <1>10, <1>11, <1>12
     DEF Next, Deployment, Environment, UploadFolder, UploadFile

(***************************************************************************)
(* Every variable keeps its type: the exit code and the verdict above all. *)
(***************************************************************************)
THEOREM RsyncTypeCorrect == Spec => []TypeOK
  BY TypeInit, TypeStep, PTL DEF Spec

----------------------------------------------------------------------------
(***************************************************************************)
(* What is true of the times and of the file on its way. Nothing is from   *)
(* the future, if the device's clock is not; what was transferred is not   *)
(* from after the deployment that transferred it.                          *)
(***************************************************************************)
PastTimes ==
  /\ lastEnd <= clock
  /\ \A p \in Path : localTime[p] <= clock /\ listed[p] <= clock

TransferTimes ==
  skew <= 0 =>
    \A p \in Path \ odd : remote[p] # NoFile =>
      /\ remoteTime[p] <= clock
      /\ pc = "idle" => remoteTime[p] <= lastEnd

\* A deployment that runs has not reported.
NotReported == pc # "idle" => verdict = "none" /\ killed = FALSE

SeenHasLocal == pc # "idle" => \A p \in Path : local[p] \in seen[p]

\* What was read is a version that was seen, and the present one if no odd
\* edit followed.
OnItsWay ==
  /\ pc \in {"probe", "mkdir", "list"} => moving = Unmoved
  /\ pc = "transfer" /\ moving # Unmoved =>
       /\ content \in seen[moving]
       /\ moving \notin odd => local[moving] \in {NoFile, content}

WayInv == PastTimes /\ TransferTimes /\ NotReported /\ SeenHasLocal /\ OnItsWay

LEMMA WayInvInit == Init => WayInv
  BY RsyncAssumption DEF Init, WayInv, PastTimes, TransferTimes, NotReported,
     SeenHasLocal, OnItsWay, NoTime

LEMMA WayInvStep == TypeOK /\ TypeOK' /\ WayInv /\ [Next]_vars => WayInv'
<1> SUFFICES ASSUME TypeOK, TypeOK', WayInv, [Next]_vars
             PROVE  WayInv'
  OBVIOUS
<1> USE RsyncAssumption DEF WayInv, clocks, folder, device, rsync, history
<1>1. ASSUME NEW m \in {"folder", "file"}, NEW paths \in SUBSET Path, Start(m, paths)
      PROVE  WayInv'
  <2>1. PastTimes' /\ TransferTimes'
    BY <1>1 DEF Start, PastTimes, TransferTimes, TypeOK, Time, NoTime
  <2>2. NotReported' /\ SeenHasLocal' /\ OnItsWay'
    BY <1>1 DEF Start, NotReported, SeenHasLocal, OnItsWay
  <2> QED BY <2>1, <2>2
<1>2. ASSUME NEW v \in {"ok", "failed"}, End(v)
      PROVE  WayInv'
  <2>1. PastTimes' /\ TransferTimes'
    BY <1>2 DEF End, PastTimes, TransferTimes, TypeOK, Time
  <2>2. NotReported' /\ SeenHasLocal' /\ OnItsWay'
    BY <1>2 DEF End, NotReported, SeenHasLocal, OnItsWay
  <2> QED BY <2>1, <2>2
<1>3. CASE RsyncIsThere \/ CreateDirectoryIfNeeded
  <2> USE <1>3 DEF RsyncIsThere, CreateDirectoryIfNeeded
  <2>1. PastTimes' /\ TransferTimes'
    BY DEF PastTimes, TransferTimes
  <2>2. NotReported' /\ SeenHasLocal' /\ OnItsWay'
    BY DEF NotReported, SeenHasLocal, OnItsWay
  <2> QED BY <2>1, <2>2
<1>4. CASE ListFiles
  <2> USE <1>4 DEF ListFiles
  <2>1. PastTimes' /\ TransferTimes'
    BY DEF PastTimes, TransferTimes, TypeOK, Time, NoTime
  <2>2. NotReported' /\ SeenHasLocal' /\ OnItsWay'
    BY DEF NotReported, SeenHasLocal, OnItsWay
  <2> QED BY <2>1, <2>2
<1>5. ASSUME NEW p \in Path, PassOver(p) \/ CannotRead(p) \/ Read(p)
      PROVE  WayInv'
  <2> USE <1>5 DEF PassOver, CannotRead, Read, Turn
  <2>1. PastTimes' /\ TransferTimes'
    BY DEF PastTimes, TransferTimes
  <2>2. NotReported' /\ SeenHasLocal' /\ OnItsWay'
    BY DEF NotReported, SeenHasLocal, OnItsWay
  <2> QED BY <2>1, <2>2
<1>6. CASE Store
  <2> USE <1>6 DEF Store
  <2>1. moving \in Path
    BY DEF TypeOK
  <2>2. \A p \in Path \ {moving} : remote'[p] = remote[p] /\ remoteTime'[p] = remoteTime[p]
    BY <2>1 DEF TypeOK
  <2>3. skew <= 0 => remoteTime'[moving] <= clock
    BY <2>1 DEF TypeOK, Time, PastTimes
  <2>4. \A p \in Path \ {moving} : p \in odd' <=> p \in odd
    OBVIOUS
  <2>5. PastTimes' /\ TransferTimes'
    BY <2>1, <2>2, <2>3, <2>4 DEF PastTimes, TransferTimes
  <2>6. NotReported' /\ SeenHasLocal' /\ OnItsWay'
    BY DEF NotReported, SeenHasLocal, OnItsWay
  <2> QED BY <2>5, <2>6
<1>7. ASSUME NEW p \in Path, NEW c \in Content, NEW t \in Time, Edit(p, c, t)
      PROVE  WayInv'
  <2> USE <1>7 DEF Edit
  <2>1. PastTimes' /\ TransferTimes'
    BY DEF PastTimes, TransferTimes, TypeOK, Time
  <2>2. NotReported'
    BY DEF NotReported
  <2>3. pc # "idle" => p \in odd' /\ \A q \in Path : seen[q] \subseteq seen'[q]
    BY DEF OddEdit, See, TypeOK
  <2>4. SeenHasLocal'
    BY <2>3 DEF SeenHasLocal, See, TypeOK
  <2>5. OnItsWay'
    BY <2>3 DEF OnItsWay, TypeOK
  <2> QED BY <2>1, <2>2, <2>4, <2>5
<1>8. ASSUME NEW p \in Path, Delete(p)
      PROVE  WayInv'
  <2> USE <1>8 DEF Delete
  <2>1. PastTimes' /\ TransferTimes' /\ NotReported'
    BY DEF PastTimes, TransferTimes, NotReported
  <2>2. pc # "idle" => \A q \in Path : seen[q] \subseteq seen'[q]
    BY DEF See, TypeOK
  <2>3. SeenHasLocal'
    BY <2>2 DEF SeenHasLocal, See, TypeOK
  <2>4. OnItsWay'
    BY <2>2 DEF OnItsWay, TypeOK
  <2> QED BY <2>1, <2>3, <2>4
<1>9. ASSUME NEW p \in Path, NEW c \in Content, AppWrites(p, c)
      PROVE  WayInv'
  <2> USE <1>9 DEF AppWrites
  <2>1. PastTimes' /\ TransferTimes'
    BY DEF PastTimes, TransferTimes, TypeOK
  <2>2. NotReported' /\ SeenHasLocal' /\ OnItsWay'
    BY DEF NotReported, SeenHasLocal, OnItsWay
  <2> QED BY <2>1, <2>2
<1>10. CASE Tick
  <2> USE <1>10 DEF Tick
  <2>1. PastTimes' /\ TransferTimes'
    BY DEF PastTimes, TransferTimes, TypeOK, Time, NoTime
  <2>2. NotReported' /\ SeenHasLocal' /\ OnItsWay'
    BY DEF NotReported, SeenHasLocal, OnItsWay
  <2> QED BY <2>1, <2>2
<1>11. CASE UNCHANGED vars
  BY <1>11 DEF vars, PastTimes, TransferTimes, NotReported, SeenHasLocal, OnItsWay
<1>12. RsyncIsMissing \/ Throw \/ RsyncExits \/ ConnectionBreaks \/ RsyncIsKilled
         => \E v \in {"ok", "failed"} : End(v)
  BY DEF RsyncIsMissing, Throw, RsyncExits, ConnectionBreaks, RsyncIsKilled, Verdict
<1> QED
  BY <1>1, <1>2, <1>3, <1>4, <1>5, <1>6, <1>7, <1>8, <1>9, <1>10, <1>11, <1>12
     DEF Next, Deployment, Environment, UploadFolder, UploadFile

LEMMA WayInvariant == Spec => []WayInv
  BY WayInvInit, WayInvStep, RsyncTypeCorrect, PTL DEF Spec

----------------------------------------------------------------------------
(***************************************************************************)
(* What -u may pass over, and what has been dealt with.                    *)
(***************************************************************************)
KeepIsSound ==
  pc = "transfer" =>
    \A p \in pending \ odd :
      listed[p] # NoTime /\ remote[p] # NoFile /\ remoteTime[p] >= listed[p]
        => remote[p] \in seen[p]

Arrived ==
  pc = "transfer" /\ exitCode = 0 =>
    \A p \in (Path \ pending) \ odd : listed[p] # NoTime => remote[p] \in seen[p]

(***************************************************************************)
(* What makes BuiltFilesArrive hold: a file that has not arrived is older  *)
(* on the device than here, so the next deployment will not pass it over.  *)
(***************************************************************************)
DueLooksOlder ==
  \A p \in Path \ odd :
    remote[p] # NoFile /\ local[p] \notin {NoFile, remote[p]}
      => remoteTime[p] < localTime[p]

ArrivalInv == DueLooksOlder /\ KeepIsSound /\ Arrived /\ BuiltFilesArrive

LEMMA ArrivalInvInit == Init => ArrivalInv
  BY DEF Init, ArrivalInv, DueLooksOlder, KeepIsSound, Arrived, BuiltFilesArrive

LEMMA ArrivalInvStep ==
  TypeOK /\ TypeOK' /\ WayInv /\ ArrivalInv /\ [Next]_vars => ArrivalInv'
<1> SUFFICES ASSUME TypeOK, TypeOK', WayInv, ArrivalInv, [Next]_vars
             PROVE  ArrivalInv'
  OBVIOUS
<1> USE DEF ArrivalInv, clocks, folder, device, rsync, history
<1>1. ASSUME NEW m \in {"folder", "file"}, NEW paths \in SUBSET Path, Start(m, paths)
      PROVE  ArrivalInv'
  BY <1>1 DEF Start, DueLooksOlder, KeepIsSound, Arrived, BuiltFilesArrive
<1>2. ASSUME NEW v \in {"ok", "failed"}, End(v),
             v = "ok" => pc = "transfer" /\ pending = {} /\ exitCode = 0
      PROVE  ArrivalInv'
  <2>1. DueLooksOlder' /\ KeepIsSound' /\ Arrived'
    BY <1>2 DEF End, DueLooksOlder, KeepIsSound, Arrived
  <2>2. BuiltFilesArrive'
    BY <1>2 DEF End, Arrived, BuiltFilesArrive, TypeOK
  <2> QED BY <2>1, <2>2
<1>3. CASE RsyncIsThere \/ CreateDirectoryIfNeeded
  BY <1>3 DEF RsyncIsThere, CreateDirectoryIfNeeded, DueLooksOlder, KeepIsSound, Arrived,
         BuiltFilesArrive
<1>4. CASE ListFiles
  <2> USE <1>4 DEF ListFiles
  <2>1. DueLooksOlder' /\ Arrived' /\ BuiltFilesArrive'
    BY DEF DueLooksOlder, Arrived, BuiltFilesArrive, WayInv, NotReported
  <2>2. KeepIsSound'
    <3> SUFFICES ASSUME NEW p \in Path \ odd, listed'[p] # NoTime,
                        remote[p] # NoFile, remoteTime[p] >= listed'[p]
                 PROVE  remote[p] \in seen[p]
      BY DEF KeepIsSound
    <3>1. local[p] # NoFile /\ listed'[p] = localTime[p]
      OBVIOUS
    <3>2. ~ (remoteTime[p] < localTime[p])
      BY <3>1 DEF TypeOK, Time
    <3>3. remote[p] = local[p]
      BY <3>1, <3>2 DEF DueLooksOlder
    <3> QED BY <3>3 DEF WayInv, SeenHasLocal
  <2> QED BY <2>1, <2>2
<1>5. ASSUME NEW p \in Path, PassOver(p)
      PROVE  ArrivalInv'
  <2> USE <1>5 DEF PassOver, Turn
  <2>1. DueLooksOlder' /\ KeepIsSound' /\ BuiltFilesArrive'
    BY DEF DueLooksOlder, KeepIsSound, BuiltFilesArrive
  <2>2. listed[p] # NoTime => remote[p] # NoFile /\ remoteTime[p] >= listed[p]
    BY DEF IsKept, MustKeep, MayKeep, TypeOK, Time, NoTime
  <2>3. Arrived'
    BY <2>2 DEF Arrived, KeepIsSound
  <2> QED BY <2>1, <2>3
<1>6. ASSUME NEW p \in Path, CannotRead(p) \/ Read(p)
      PROVE  ArrivalInv'
  BY <1>6 DEF CannotRead, Read, Turn, DueLooksOlder, KeepIsSound, Arrived, BuiltFilesArrive,
         TypeOK
<1>7. CASE Store
  <2> USE <1>7 DEF Store
  <2>1. moving \in Path /\ content \in seen[moving]
        /\ (moving \notin odd => local[moving] \in {NoFile, content})
    BY DEF TypeOK, WayInv, OnItsWay
  <2>2. \A p \in Path \ {moving} : remote'[p] = remote[p] /\ remoteTime'[p] = remoteTime[p]
    BY <2>1 DEF TypeOK
  <2>3. remote'[moving] = content
    BY <2>1 DEF TypeOK
  <2>4. moving \notin odd' => local[moving] \in {NoFile, content}
    BY <2>1
  <2>5. \A p \in Path \ {moving} : p \in odd' <=> p \in odd
    OBVIOUS
  <2>6. DueLooksOlder'
    BY <2>2, <2>3, <2>4, <2>5 DEF DueLooksOlder
  <2>7. KeepIsSound' /\ Arrived'
    BY <2>1, <2>2, <2>3, <2>5 DEF KeepIsSound, Arrived, TypeOK
  <2>8. BuiltFilesArrive'
    BY DEF BuiltFilesArrive, WayInv, NotReported
  <2> QED BY <2>6, <2>7, <2>8
<1>8. ASSUME NEW p \in Path, NEW c \in Content, NEW t \in Time, Edit(p, c, t)
      PROVE  ArrivalInv'
  <2> USE <1>8 DEF Edit
  <2>1. \A q \in Path \ {p} : local'[q] = local[q] /\ localTime'[q] = localTime[q]
    BY DEF TypeOK
  <2>2. localTime'[p] = t /\ odd \subseteq odd' /\ \A q \in Path : seen[q] \subseteq seen'[q]
    BY DEF See, TypeOK
  <2>3. ASSUME p \notin odd', remote[p] # NoFile
        PROVE  remoteTime[p] < t
    <3>1. t = clock /\ skew <= 0 /\ pc = "idle" /\ clock # lastEnd /\ p \notin odd
      BY <2>3, RsyncAssumption DEF OddEdit, TypeOK, Time
    <3>2. remoteTime[p] <= lastEnd /\ lastEnd <= clock
      BY <2>3, <3>1 DEF WayInv, TransferTimes, PastTimes
    <3> QED BY <3>1, <3>2 DEF TypeOK, Time, NoTime
  <2>4. DueLooksOlder'
    BY <2>1, <2>2, <2>3 DEF DueLooksOlder
  <2>5. KeepIsSound' /\ Arrived'
    BY <2>2 DEF KeepIsSound, Arrived, TypeOK
  <2>6. BuiltFilesArrive'
    BY <2>2 DEF BuiltFilesArrive, TypeOK
  <2> QED BY <2>4, <2>5, <2>6
<1>9. ASSUME NEW p \in Path, Delete(p)
      PROVE  ArrivalInv'
  <2> USE <1>9 DEF Delete
  <2>1. \A q \in Path : seen[q] \subseteq seen'[q]
    BY DEF See, TypeOK
  <2>2. DueLooksOlder'
    BY DEF DueLooksOlder, TypeOK
  <2>3. KeepIsSound' /\ Arrived' /\ BuiltFilesArrive'
    BY <2>1 DEF KeepIsSound, Arrived, BuiltFilesArrive, TypeOK
  <2> QED BY <2>2, <2>3
<1>10. ASSUME NEW p \in Path, NEW c \in Content, AppWrites(p, c)
       PROVE  ArrivalInv'
  <2> USE <1>10 DEF AppWrites
  <2>1. \A q \in Path \ {p} : remote'[q] = remote[q] /\ remoteTime'[q] = remoteTime[q]
    BY DEF TypeOK
  <2>2. DueLooksOlder'
    BY <2>1 DEF DueLooksOlder
  <2>3. KeepIsSound' /\ Arrived' /\ BuiltFilesArrive'
    BY <2>1 DEF KeepIsSound, Arrived, BuiltFilesArrive, TypeOK
  <2> QED BY <2>2, <2>3
<1>11. CASE Tick
  BY <1>11 DEF Tick, DueLooksOlder, KeepIsSound, Arrived, BuiltFilesArrive
<1>12. CASE UNCHANGED vars
  BY <1>12 DEF vars, DueLooksOlder, KeepIsSound, Arrived, BuiltFilesArrive
<1>13. CASE RsyncIsMissing \/ Throw \/ ConnectionBreaks
  <2>1. End("failed")
    BY <1>13 DEF RsyncIsMissing, Throw, ConnectionBreaks, Verdict
  <2> QED BY <1>2, <2>1
<1>14. CASE RsyncExits
  <2>1. End(Verdict(exitCode)) /\ Verdict(exitCode) \in {"ok", "failed"}
        /\ (Verdict(exitCode) = "ok" => exitCode = 0)
    BY <1>14 DEF RsyncExits, Verdict, TypeOK
  <2> QED BY <1>2, <1>14, <2>1 DEF RsyncExits
<1>15. CASE RsyncIsKilled
  <2>1. End("ok")
    BY <1>15 DEF RsyncIsKilled, Verdict
  <2>2. killed' = TRUE
    BY <1>15 DEF RsyncIsKilled
  <2>3. DueLooksOlder' /\ KeepIsSound' /\ Arrived'
    BY <2>1 DEF End, DueLooksOlder, KeepIsSound, Arrived
  <2>4. BuiltFilesArrive'
    BY <2>2 DEF BuiltFilesArrive
  <2> QED BY <2>3, <2>4
<1> QED
  BY <1>1, <1>2, <1>3, <1>4, <1>5, <1>6, <1>7, <1>8, <1>9, <1>10, <1>11, <1>12, <1>13,
     <1>14, <1>15
     DEF Next, Deployment, Environment, UploadFolder, UploadFile

LEMMA ArrivalInvariant == Spec => []ArrivalInv
  BY ArrivalInvInit, ArrivalInvStep, WayInvariant, RsyncTypeCorrect, PTL DEF Spec

(***************************************************************************)
(* For any number of files, a file that was only built, between            *)
(* deployments and by a clock the device is not ahead of, looks older on   *)
(* the device as long as it has not arrived ...                            *)
(***************************************************************************)
THEOREM DueLooksOlderCorrect == Spec => []DueLooksOlder
<1>1. ArrivalInv => DueLooksOlder
  BY DEF ArrivalInv
<1> QED BY <1>1, ArrivalInvariant, PTL

(***************************************************************************)
(* ... and has arrived when rsync, run to its end, counts as a success.    *)
(***************************************************************************)
THEOREM BuiltFilesArriveCorrect == Spec => []BuiltFilesArrive
<1>1. ArrivalInv => BuiltFilesArrive
  BY DEF ArrivalInv
<1> QED BY <1>1, ArrivalInvariant, PTL

----------------------------------------------------------------------------
(***************************************************************************)
(* Every step is one of FolderMirror or leaves its variables alone.        *)
(***************************************************************************)
Delivered ==
  pc = "transfer" /\ exitCode = 0 =>
    \A p \in Path \ (pending \cup touched \cup kept) : remote[p] \in seen[p]

LEMMA DeliveredStep ==
  TypeOK /\ WayInv /\ Delivered /\ [Next]_vars => Delivered'
<1> SUFFICES ASSUME TypeOK, WayInv, Delivered, [Next]_vars
             PROVE  Delivered'
  OBVIOUS
<1> USE DEF Delivered, clocks, folder, device, rsync, history
<1>1. ASSUME pc' # "transfer"
      PROVE  Delivered'
  BY <1>1
<1>2. CASE ListFiles
  BY <1>2 DEF ListFiles
<1>3. ASSUME NEW p \in Path, PassOver(p) \/ CannotRead(p) \/ Read(p)
      PROVE  Delivered'
  BY <1>3 DEF PassOver, CannotRead, Read, Turn, TypeOK
<1>4. CASE Store
  <2>1. moving \in Path /\ content \in seen[moving]
    BY <1>4 DEF Store, TypeOK, WayInv, OnItsWay
  <2> QED BY <1>4, <2>1 DEF Store, TypeOK
<1>5. ASSUME NEW p \in Path, NEW c \in Content, NEW t \in Time, Edit(p, c, t)
      PROVE  Delivered'
  <2>1. \A q \in Path : seen[q] \subseteq seen'[q]
    BY <1>5 DEF Edit, See, TypeOK
  <2> QED BY <1>5, <2>1 DEF Edit
<1>6. ASSUME NEW p \in Path, Delete(p)
      PROVE  Delivered'
  <2>1. \A q \in Path : seen[q] \subseteq seen'[q]
    BY <1>6 DEF Delete, See, TypeOK
  <2> QED BY <1>6, <2>1 DEF Delete
<1>7. ASSUME NEW p \in Path, NEW c \in Content, AppWrites(p, c)
      PROVE  Delivered'
  BY <1>7 DEF AppWrites, TypeOK
<1>8. CASE Tick \/ UNCHANGED vars
  BY <1>8 DEF Tick, vars
<1>9. UploadFolder \/ UploadFile \/ RsyncIsMissing \/ RsyncIsThere \/ CreateDirectoryIfNeeded
        \/ Throw \/ RsyncExits \/ ConnectionBreaks \/ RsyncIsKilled
      => pc' # "transfer"
  BY DEF UploadFolder, UploadFile, Start, RsyncIsMissing, RsyncIsThere, CreateDirectoryIfNeeded,
         Throw, RsyncExits, ConnectionBreaks, RsyncIsKilled, End
<1> QED
  BY <1>1, <1>2, <1>3, <1>4, <1>5, <1>6, <1>7, <1>8, <1>9 DEF Next, Deployment, Environment

LEMMA DeliveredInvariant == Spec => []Delivered
<1>1. Init => Delivered
  BY DEF Init, Delivered
<1> QED BY <1>1, DeliveredStep, WayInvariant, RsyncTypeCorrect, PTL DEF Spec

LEMMA MirrorsInit == Init => Mirror!Init
  BY DEF Init, File, Mirror!Init, Mirror!File

LEMMA MirrorsDeployment ==
  ASSUME TypeOK, WayInv, Delivered, Deployment
  PROVE  Mirror!Next \/ UNCHANGED Mirror!mirrorVars
<1> USE DEF Mirror!mirrorVars, Mirror!Next, clocks, folder, device, rsync, history
<1>1. CASE RsyncIsThere \/ CreateDirectoryIfNeeded \/ ListFiles
  BY <1>1 DEF RsyncIsThere, CreateDirectoryIfNeeded, ListFiles
<1>2. CASE RsyncIsMissing \/ Throw \/ ConnectionBreaks \/ RsyncIsKilled
  <2>1. Mirror!GiveUp
    BY <1>2 DEF RsyncIsMissing, Throw, ConnectionBreaks, RsyncIsKilled, End, Verdict,
           Mirror!GiveUp
  <2> QED BY <2>1
<1>3. ASSUME NEW p \in Path, PassOver(p)
      PROVE  Mirror!MissSource
  BY <1>3 DEF PassOver, Turn, Mirror!MissSource
<1>4. ASSUME NEW p \in Path, CannotRead(p) \/ Read(p)
      PROVE  UNCHANGED Mirror!mirrorVars
  BY <1>4 DEF CannotRead, Read, Turn
<1>5. CASE Store
  <2>1. moving \in Path /\ content \in seen[moving] /\ content \in Mirror!File
    BY <1>5 DEF Store, TypeOK, File, Mirror!File, WayInv, OnItsWay
  <2>2. Mirror!Transfer
    BY <1>5, <2>1 DEF Store, Mirror!Transfer
  <2> QED BY <2>2
<1>6. CASE RsyncExits
  <2>1. CASE exitCode = 0
    <3>1. \A p \in Path \ (touched \cup kept) : remote[p] \in seen[p]
      BY <1>6, <2>1 DEF RsyncExits, Delivered
    <3>2. verdict' = "ok" /\ killed = FALSE /\ killed' = FALSE
      BY <1>6, <2>1 DEF RsyncExits, End, Verdict, WayInv, NotReported
    <3>3. Mirror!Succeed
      BY <1>6, <3>1, <3>2 DEF RsyncExits, End, Mirror!Succeed
    <3> QED BY <3>3
  <2>2. CASE exitCode # 0
    <3>1. Mirror!GiveUp
      BY <1>6, <2>2 DEF RsyncExits, End, Verdict, TypeOK, Mirror!GiveUp
    <3> QED BY <3>1
  <2> QED BY <2>1, <2>2
<1> QED BY <1>1, <1>2, <1>3, <1>4, <1>5, <1>6 DEF Deployment

LEMMA MirrorsChange ==
  ASSUME TypeOK, WayInv, NEW p \in Path, NEW c \in File,
         local' = [local EXCEPT ![p] = c], See(p, c),
         UNCHANGED <<remote, pc, verdict, touched, kept, killed>>
  PROVE  Mirror!ChangeSource
<1>1. local' \in [Path -> Mirror!File]
  BY DEF TypeOK, File, Mirror!File
<1>2. ASSUME pc # "idle"
      PROVE  seen' = [q \in Path |-> seen[q] \cup {local'[q]}]
  <2>1. \A q \in Path : seen'[q] = seen[q] \cup {local'[q]}
    BY <1>2 DEF See, TypeOK, WayInv, SeenHasLocal
  <2> QED BY <1>2, <2>1 DEF See, TypeOK
<1> QED BY <1>1, <1>2 DEF See, Mirror!ChangeSource

(***************************************************************************)
(* A deployment with rsync is one of FolderMirror that may leave out what  *)
(* -u keeps and what is gone here, for any number of files.                *)
(***************************************************************************)
THEOREM RsyncImplementsFolderMirror == Spec => ImplementsFolderMirror
<1>1. ASSUME TypeOK, WayInv, Delivered, [Next]_vars
      PROVE  [Mirror!Next]_Mirror!mirrorVars
  <2> USE DEF Mirror!Next, clocks, folder, device, rsync, history
  <2>1. ASSUME NEW m \in {"folder", "file"}, NEW paths \in SUBSET Path, Start(m, paths)
        PROVE  Mirror!Begin
    BY <2>1 DEF Start, Mirror!Begin
  <2>2. CASE Deployment
    BY <1>1, <2>2, MirrorsDeployment
  <2>3. ASSUME NEW p \in Path, NEW c \in Content, NEW t \in Time, Edit(p, c, t)
        PROVE  Mirror!ChangeSource
    <3>1. c \in File
      BY DEF File
    <3> QED BY <1>1, <2>3, <3>1, MirrorsChange DEF Edit
  <2>4. ASSUME NEW p \in Path, Delete(p)
        PROVE  Mirror!ChangeSource
    <3>1. NoFile \in File
      BY DEF File
    <3> QED BY <1>1, <2>4, <3>1, MirrorsChange DEF Delete
  <2>5. ASSUME NEW p \in Path, NEW c \in Content, AppWrites(p, c)
        PROVE  Mirror!ChangeTarget
    BY <2>5 DEF AppWrites, Mirror!File, Mirror!ChangeTarget
  <2>6. CASE Tick \/ UNCHANGED vars
    BY <2>6 DEF Tick, vars, Mirror!mirrorVars
  <2> QED
    BY <1>1, <2>1, <2>2, <2>3, <2>4, <2>5, <2>6
       DEF Next, Environment, UploadFolder, UploadFile
<1> QED
  BY <1>1, MirrorsInit, RsyncTypeCorrect, WayInvariant, DeliveredInvariant, PTL
     DEF Spec, ImplementsFolderMirror, Mirror!Spec

(***************************************************************************)
(* What the refinement is good for: when rsync, run to its end, counts as  *)
(* a success, every file that -u did not keep, that nobody wrote on the    *)
(* device and that is not gone here has a version there that the project   *)
(* had meanwhile. It follows from FolderMirror alone.                      *)
(***************************************************************************)
ArrivedUnlessKept ==
  verdict = "ok" /\ ~ killed => \A p \in Path \ (touched \cup kept) : remote[p] \in seen[p]

Promise ==
  /\ DOMAIN remote = Path
  /\ pc # "idle" => (IF killed THEN "failed" ELSE verdict) # "ok"
  /\ ArrivedUnlessKept

LEMMA FolderMirrorKeepsPromise == ImplementsFolderMirror => []ArrivedUnlessKept
<1>1. Mirror!Init => Promise
  BY DEF Mirror!Init, Promise, ArrivedUnlessKept
<1>2. Promise /\ [Mirror!Next]_(Mirror!mirrorVars) => Promise'
  <2> SUFFICES ASSUME Promise, [Mirror!Next]_(Mirror!mirrorVars)
               PROVE  Promise'
    OBVIOUS
  <2> USE DEF Promise, ArrivedUnlessKept
  <2>1. CASE Mirror!ChangeSource
    BY <2>1 DEF Mirror!ChangeSource
  <2>2. CASE Mirror!ChangeTarget
    BY <2>2 DEF Mirror!ChangeTarget
  <2>3. CASE Mirror!Begin
    BY <2>3 DEF Mirror!Begin
  <2>4. CASE Mirror!MissSource \/ Mirror!Transfer
    BY <2>4 DEF Mirror!MissSource, Mirror!Transfer
  <2>5. CASE Mirror!Succeed
    BY <2>5 DEF Mirror!Succeed
  <2>6. CASE Mirror!GiveUp
    BY <2>6 DEF Mirror!GiveUp
  <2>7. CASE UNCHANGED Mirror!mirrorVars
    BY <2>7 DEF Mirror!mirrorVars
  <2>8. QED
    BY <2>1, <2>2, <2>3, <2>4, <2>5, <2>6, <2>7 DEF Mirror!Next
<1>3. Promise => ArrivedUnlessKept
  BY DEF Promise
<1>4. QED
  BY <1>1, <1>2, <1>3, PTL DEF ImplementsFolderMirror, Mirror!Spec

(***************************************************************************)
(* Every deployment with rsync keeps that promise, for any files, times    *)
(* and clocks.                                                             *)
(***************************************************************************)
THEOREM ArrivedUnlessKeptCorrect == Spec => []ArrivedUnlessKept
BY RsyncImplementsFolderMirror, FolderMirrorKeepsPromise
=============================================================================
