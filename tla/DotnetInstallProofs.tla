-------------------------- MODULE DotnetInstallProofs --------------------------
(***************************************************************************)
(* Proofs about DotnetInstall, for any number of sessions, payloads and    *)
(* projects.                                                               *)
(***************************************************************************)
EXTENDS DotnetInstall, TLAPS

\* From the script's answer to the end, a session has a payload.
WithPayload == {"lookup", "request", "create", "write", "upload", "uploading",
                "unpack", "unpacking", "rm", "completed"}

HasPayload == \A s \in Session : pc[s] \in WithPayload => payload[s] \in Payload

LEMMA DotnetTypeInit == Init => TypeOK /\ HasPayload
  BY DotnetAssumption DEF Init, TypeOK, HasPayload, WithPayload, NotRunning, File

LEMMA FirstStepType == \A isOnline \in BOOLEAN : FirstStep(isOnline) \in {"online", "script"}
  BY DEF FirstStep

\* What a tar that ends early leaves on the device, and in the history.
LEMMA UnpackPartType ==
  ASSUME TypeOK, NEW s \in Session, payload[s] \in Payload, UnpackPart(s)
  PROVE  dotnet' \in [Payload -> File]
  BY DEF UnpackPart, TypeOK, File

LEMMA DamageType ==
  ASSUME TypeOK, NEW s \in Session, NEW own \in BOOLEAN, Damage(s, own)
  PROVE  spoiled' \in [Session -> BOOLEAN]
<1>1. \A t \in Session :
        (IF t = s THEN own
         ELSE spoiled[t] \/ t \in Others(s, {"unpacking", "rm", "completed"})) \in BOOLEAN
  BY Zenon DEF TypeOK
<1> QED BY <1>1, Zenon DEF Damage

LEMMA TouchType ==
  ASSUME TypeOK, NEW s \in Session, NEW own \in BOOLEAN, Touch(s, own)
  PROVE  met' \in [Session -> BOOLEAN]
<1>1. \A t \in Session :
        (IF t = s THEN own
         ELSE met[t] \/ t \in Others(s, {"uploading", "unpacking"})) \in BOOLEAN
  BY Zenon DEF TypeOK
<1> QED BY <1>1, Zenon DEF Touch

\* The end of a session, quiet or not.
LEMMA EndType ==
  ASSUME TypeOK, HasPayload, NEW s \in Session, End(s),
         met' \in [Session -> BOOLEAN], spoiled' \in [Session -> BOOLEAN],
         brokenOff' \subseteq Payload, dotnet' \in [Payload -> File],
         UNCHANGED <<cache, archive>>
  PROVE  TypeOK' /\ HasPayload'
<1>1. /\ pc' = [pc EXCEPT ![s] = "idle"] /\ online' = [online EXCEPT ![s] = TRUE]
      /\ projects' = [projects EXCEPT ![s] = 0] /\ payload' = [payload EXCEPT ![s] = NoPayload]
  BY DEF End, Goto
<1>2. projects' \in [Session -> 0..MaxProjects]
  BY <1>1, DotnetAssumption DEF TypeOK
<1>3. online' \in [Session -> BOOLEAN] /\ payload' \in [Session -> Payload \cup {NoPayload}]
  BY <1>1 DEF TypeOK
<1>4. TypeOK'
  BY <1>1, <1>2, <1>3 DEF TypeOK, NotRunning
<1>5. HasPayload'
  BY <1>1 DEF TypeOK, HasPayload, WithPayload
<1> QED BY <1>4, <1>5

LEMMA EndQuietlyType ==
  ASSUME TypeOK, HasPayload, NEW s \in Session, EndQuietly(s), UNCHANGED <<computer, device>>
  PROVE  TypeOK' /\ HasPayload'
<1>1. met' \in [Session -> BOOLEAN] /\ spoiled' \in [Session -> BOOLEAN]
  BY DEF EndQuietly, TypeOK
<1>2. UNCHANGED <<cache, brokenOff, archive, dotnet>>
  BY DEF computer, device
<1>3. brokenOff' \subseteq Payload /\ dotnet' \in [Payload -> File]
  BY <1>2 DEF TypeOK
<1> QED BY <1>1, <1>2, <1>3, EndType DEF EndQuietly

LEMMA DownloadType ==
  ASSUME TypeOK, HasPayload, NEW s \in Session, Download(s)
  PROVE  TypeOK' /\ HasPayload'
<1> USE DEF At, Goto, request, computer, device
<1>1. CASE RunScript(s)
  BY <1>1 DEF RunScript, TypeOK, HasPayload, WithPayload, NotRunning, OfflineSteps
<1>2. CASE LookUp(s) \/ GetPayload(s)
  BY <1>2 DEF LookUp, GetPayload, TypeOK, HasPayload, WithPayload, NotRunning, OfflineSteps
<1>3. CASE Create(s) \/ Write(s)
  <2>1. payload[s] \in Payload
    BY <1>3 DEF Create, Write, HasPayload, WithPayload
  <2>2. cache' \in [Payload -> File] /\ brokenOff' \subseteq Payload
    BY <1>3, <2>1 DEF Create, Write, TypeOK, File
  <2> QED
    BY <1>3, <2>1, <2>2
       DEF Create, Write, TypeOK, HasPayload, WithPayload, NotRunning, OfflineSteps
<1>4. CASE CreateIsRefused(s)
  BY <1>4, EndQuietlyType DEF CreateIsRefused
<1> QED BY <1>1, <1>2, <1>3, <1>4 DEF Download

LEMMA UnpackType ==
  ASSUME TypeOK, HasPayload, NEW s \in Session, Unpack(s)
  PROVE  TypeOK' /\ HasPayload'
<1> USE DEF At, Goto, request, computer, device
<1>1. CASE UploadBegins(s) \/ UploadEnds(s) \/ Remove(s)
  <2>1. payload[s] \in Payload
    BY <1>1 DEF UploadBegins, UploadEnds, Remove, HasPayload, WithPayload
  <2>2. archive' \in [Payload -> File]
    BY <1>1, <2>1 DEF UploadBegins, UploadEnds, Remove, TypeOK, File
  <2>3. met' \in [Session -> BOOLEAN]
    <3>1. \E own \in BOOLEAN : Touch(s, own)
      BY <1>1 DEF UploadBegins, UploadEnds, Remove
    <3> QED BY <3>1, TouchType
  <2>4. UNCHANGED <<online, projects, payload, spoiled, cache, brokenOff, dotnet>>
        /\ pc' \in {[pc EXCEPT ![s] = step] : step \in {"uploading", "unpack", "completed"}}
    BY <1>1 DEF UploadBegins, UploadEnds, Remove
  <2> QED
    BY <2>1, <2>2, <2>3, <2>4 DEF TypeOK, HasPayload, WithPayload, NotRunning, OfflineSteps
<1>2. CASE UnpackBegins(s)
  <2>1. met' \in [Session -> BOOLEAN] /\ spoiled' \in [Session -> BOOLEAN]
    BY <1>2 DEF UnpackBegins, TypeOK
  <2> QED
    BY <1>2, <2>1 DEF UnpackBegins, TypeOK, HasPayload, WithPayload, NotRunning, OfflineSteps
<1>3. CASE UnpackSucceeds(s)
  <2>1. payload[s] \in Payload
    BY <1>3 DEF UnpackSucceeds, HasPayload, WithPayload
  <2>2. dotnet' \in [Payload -> File]
    BY <1>3, <2>1 DEF UnpackSucceeds, TypeOK, File
  <2> QED
    BY <1>3, <2>1, <2>2
       DEF UnpackSucceeds, TypeOK, HasPayload, WithPayload, NotRunning, OfflineSteps
<1>4. CASE UnpackHasNoStatus(s)
  <2>1. payload[s] \in Payload
    BY <1>4 DEF UnpackHasNoStatus, HasPayload, WithPayload
  <2>2. dotnet' \in [Payload -> File] /\ spoiled' \in [Session -> BOOLEAN]
    BY <1>4, <2>1, UnpackPartType, DamageType DEF UnpackHasNoStatus
  <2> QED
    BY <1>4, <2>1, <2>2
       DEF UnpackHasNoStatus, TypeOK, HasPayload, WithPayload, NotRunning, OfflineSteps
<1>5. CASE UploadIsRefused(s)
  BY <1>5, EndQuietlyType DEF UploadIsRefused
<1> QED BY <1>1, <1>2, <1>3, <1>4, <1>5 DEF Unpack

LEMMA DotnetTypeStep == TypeOK /\ HasPayload /\ [Next]_vars => TypeOK' /\ HasPayload'
<1> SUFFICES ASSUME TypeOK, HasPayload, [Next]_vars
             PROVE  TypeOK' /\ HasPayload'
  OBVIOUS
<1> USE DEF At, Goto, request, computer, device
<1>1. ASSUME NEW s \in Session, NEW isOnline \in BOOLEAN, NEW n \in 1..MaxProjects,
             Execute(s, isOnline, n)
      PROVE  TypeOK' /\ HasPayload'
  BY <1>1, FirstStepType, DotnetAssumption
     DEF Execute, TypeOK, HasPayload, WithPayload, NotRunning, OfflineSteps
<1>2. ASSUME NEW s \in Session, ExecuteLost(s)
      PROVE  TypeOK' /\ HasPayload'
  BY <1>2 DEF ExecuteLost, TypeOK, HasPayload, WithPayload, NotRunning, OfflineSteps
<1>3. ASSUME NEW s \in Session, OnlineReturnsTrue(s) \/ OnlineReturnsFalse(s)
      PROVE  TypeOK' /\ HasPayload'
  <2>1. dotnet' \in [Payload -> File]
    BY <1>3 DEF OnlineReturnsTrue, OnlineReturnsFalse, TypeOK, File
  <2> QED
    BY <1>3, <2>1 DEF OnlineReturnsTrue, OnlineReturnsFalse, TypeOK, HasPayload, WithPayload,
                      NotRunning, OfflineSteps
<1>4. ASSUME NEW s \in Session, Download(s) \/ Unpack(s)
      PROVE  TypeOK' /\ HasPayload'
  BY <1>4, DownloadType, UnpackType
<1>5. ASSUME NEW s \in Session, Fail(s)
      PROVE  TypeOK' /\ HasPayload'
  <2>1. dotnet' \in [Payload -> File] /\ spoiled' \in [Session -> BOOLEAN]
    BY <1>5, UnpackPartType, DamageType DEF Fail, TypeOK, HasPayload, WithPayload
  <2> QED
    BY <1>5, <2>1 DEF Fail, TypeOK, HasPayload, WithPayload, NotRunning, OfflineSteps
<1>6. ASSUME NEW s \in Session, NextProject(s)
      PROVE  TypeOK' /\ HasPayload'
  <2>1. CASE projects[s] > 1
    <3>1. projects[s] - 1 \in 0..MaxProjects
      BY <2>1, DotnetAssumption DEF TypeOK
    <3>2. FirstStep(online[s]) \in {"online", "script"}
      BY FirstStepType DEF TypeOK
    <3> QED
      BY <1>6, <2>1, <3>1, <3>2
         DEF NextProject, TypeOK, HasPayload, WithPayload, NotRunning, OfflineSteps
  <2>2. CASE ~ (projects[s] > 1)
    BY <1>6, <2>2, EndQuietlyType DEF NextProject
  <2> QED BY <2>1, <2>2
<1>7. ASSUME NEW s \in Session, BreakOff(s)
      PROVE  TypeOK' /\ HasPayload'
  <2>1. met' \in [Session -> BOOLEAN] /\ brokenOff' \subseteq Payload
    BY <1>7 DEF BreakOff, TypeOK, HasPayload, WithPayload
  <2>2. dotnet' \in [Payload -> File] /\ spoiled' \in [Session -> BOOLEAN]
    BY <1>7, UnpackPartType, DamageType DEF BreakOff, TypeOK, HasPayload, WithPayload
  <2> QED BY <1>7, <2>1, <2>2, EndType DEF BreakOff
<1>8. CASE UNCHANGED vars
  BY <1>8 DEF vars, TypeOK, HasPayload
<1> QED
  BY <1>1, <1>2, <1>3, <1>4, <1>5, <1>6, <1>7, <1>8 DEF Next, Request, Step

LEMMA DotnetTypeInvariant == Spec => [](TypeOK /\ HasPayload)
  BY DotnetTypeInit, DotnetTypeStep, PTL DEF Spec

(***************************************************************************)
(* Every variable keeps its type: above all, the loop over the projects    *)
(* ends with the last one.                                                 *)
(***************************************************************************)
THEOREM DotnetTypeCorrect == Spec => []TypeOK
  BY DotnetTypeInvariant, PTL

----------------------------------------------------------------------------
(***************************************************************************)
(* Half a file in the cache is being written, or its write broke off; who  *)
(* is to upload a file has found it there or written it; nobody writes a   *)
(* file that somebody else writes or uploads.                              *)
(***************************************************************************)
HalfIsWritten ==
  \A p \in Payload : cache[p] = "part" =>
    p \in brokenOff \/ \E t \in Session : pc[t] = "write" /\ payload[t] = p

UploadsSomething ==
  \A s \in Session : pc[s] \in {"upload", "uploading"} => cache[payload[s]] # "none"

WritesAlone ==
  \A s, t \in Session :
    s # t /\ pc[s] = "write" /\ pc[t] \in {"write", "uploading"} => payload[s] # payload[t]

CacheInv == HalfIsWritten /\ UploadsSomething /\ WritesAlone

LEMMA CacheInvInit == Init => CacheInv
  BY DEF Init, CacheInv, HalfIsWritten, UploadsSomething, WritesAlone

\* A session that neither writes nor goes to upload leaves the cache alone.
LEMMA LeavesCache ==
  ASSUME TypeOK, HasPayload, CacheInv, NEW s \in Session,
         UNCHANGED <<cache, brokenOff>>,
         pc[s] # "write" /\ pc'[s] \notin {"write", "upload", "uploading"},
         \A t \in Session \ {s} : pc'[t] = pc[t] /\ payload'[t] = payload[t]
  PROVE  CacheInv'
<1>1. HalfIsWritten'
  BY DEF CacheInv, HalfIsWritten
<1>2. UploadsSomething' /\ WritesAlone'
  BY DEF CacheInv, UploadsSomething, WritesAlone
<1> QED BY <1>1, <1>2 DEF CacheInv

LEMMA CacheInvStep == TypeOK /\ HasPayload /\ CacheInv /\ [Next]_vars => CacheInv'
<1> SUFFICES ASSUME TypeOK, HasPayload, CacheInv, [Next]_vars
             PROVE  CacheInv'
  OBVIOUS
<1> USE DEF At, Goto, request, computer, device
<1>1. ASSUME NEW s \in Session, Request(s) \/ OnlineReturnsTrue(s) \/ OnlineReturnsFalse(s)
                                 \/ RunScript(s) \/ GetPayload(s)
      PROVE  CacheInv'
  <2>1. /\ UNCHANGED <<cache, brokenOff>>
        /\ pc[s] # "write" /\ pc'[s] \notin {"write", "upload", "uploading"}
        /\ \A t \in Session \ {s} : pc'[t] = pc[t] /\ payload'[t] = payload[t]
    BY <1>1 DEF Request, Execute, ExecuteLost, FirstStep, OnlineReturnsTrue, OnlineReturnsFalse,
           RunScript, GetPayload, TypeOK
  <2> QED BY <2>1, LeavesCache
<1>2. ASSUME NEW s \in Session, UnpackBegins(s) \/ UnpackSucceeds(s) \/ UnpackHasNoStatus(s)
                                 \/ UploadEnds(s) \/ Remove(s) \/ Fail(s)
      PROVE  CacheInv'
  <2>1. /\ UNCHANGED <<cache, brokenOff>>
        /\ pc[s] # "write" /\ pc'[s] \notin {"write", "upload", "uploading"}
        /\ \A t \in Session \ {s} : pc'[t] = pc[t] /\ payload'[t] = payload[t]
    BY <1>2 DEF UnpackBegins, UnpackSucceeds, UnpackHasNoStatus, UploadEnds, Remove, Fail, TypeOK
  <2> QED BY <2>1, LeavesCache
<1>3. ASSUME NEW s \in Session, CreateIsRefused(s) \/ UploadIsRefused(s) \/ NextProject(s)
      PROVE  CacheInv'
  <2>1. /\ UNCHANGED <<cache, brokenOff>>
        /\ pc[s] # "write" /\ pc'[s] \notin {"write", "upload", "uploading"}
        /\ \A t \in Session \ {s} : pc'[t] = pc[t] /\ payload'[t] = payload[t]
    BY <1>3 DEF CreateIsRefused, UploadIsRefused, NextProject, EndQuietly, End, FirstStep, TypeOK
  <2> QED BY <2>1, LeavesCache
<1>4. ASSUME NEW s \in Session, LookUp(s)
      PROVE  CacheInv'
  <2> USE <1>4 DEF LookUp
  <2>1. HalfIsWritten'
    BY DEF CacheInv, HalfIsWritten, TypeOK
  <2>2. UploadsSomething' /\ WritesAlone'
    BY DEF CacheInv, UploadsSomething, WritesAlone, TypeOK
  <2> QED BY <2>1, <2>2 DEF CacheInv
<1>5. ASSUME NEW s \in Session, Create(s)
      PROVE  CacheInv'
  <2> USE <1>5 DEF Create
  <2>1. payload[s] \in Payload /\ pc'[s] = "write"
    BY DEF HasPayload, WithPayload, TypeOK
  <2>2. \A p \in Payload : p # payload[s] => cache'[p] = cache[p]
    BY <2>1 DEF TypeOK
  <2>3. \A t \in Session \ {s} : pc'[t] = pc[t]
    BY DEF TypeOK
  <2>4. HalfIsWritten'
    BY <2>1, <2>2, <2>3 DEF CacheInv, HalfIsWritten
  <2>5. cache'[payload[s]] = "part"
    BY <2>1 DEF TypeOK
  <2>6. UploadsSomething'
    BY <2>1, <2>2, <2>3, <2>5 DEF CacheInv, UploadsSomething, HasPayload, WithPayload
  <2>7. \A t \in Session \ {s} : pc[t] \in {"write", "uploading"} => payload[t] # payload[s]
    BY DEF Writers, Readers, Others
  <2>8. WritesAlone'
    BY <2>1, <2>3, <2>7 DEF CacheInv, WritesAlone
  <2> QED BY <2>4, <2>6, <2>8 DEF CacheInv
<1>6. ASSUME NEW s \in Session, Write(s)
      PROVE  CacheInv'
  <2> USE <1>6 DEF Write
  <2>1. payload[s] \in Payload /\ pc'[s] = "upload"
    BY DEF HasPayload, WithPayload, TypeOK
  <2>2. \A p \in Payload : p # payload[s] =>
          cache'[p] = cache[p] /\ (p \in brokenOff' <=> p \in brokenOff)
    BY <2>1 DEF TypeOK
  <2>3. \A t \in Session \ {s} : pc'[t] = pc[t]
    BY DEF TypeOK
  <2>4. cache'[payload[s]] = "whole"
    BY <2>1 DEF TypeOK
  <2>5. HalfIsWritten'
    BY <2>1, <2>2, <2>3, <2>4 DEF CacheInv, HalfIsWritten
  <2>6. UploadsSomething'
    BY <2>1, <2>2, <2>3, <2>4 DEF CacheInv, UploadsSomething, HasPayload, WithPayload
  <2>7. WritesAlone'
    BY <2>1, <2>3 DEF CacheInv, WritesAlone
  <2> QED BY <2>5, <2>6, <2>7 DEF CacheInv
<1>7. ASSUME NEW s \in Session, UploadBegins(s)
      PROVE  CacheInv'
  <2> USE <1>7 DEF UploadBegins
  <2>1. pc'[s] = "uploading" /\ \A t \in Session \ {s} : pc'[t] = pc[t]
    BY DEF TypeOK
  <2>2. HalfIsWritten' /\ UploadsSomething'
    BY <2>1 DEF CacheInv, HalfIsWritten, UploadsSomething
  <2>3. \A t \in Session \ {s} : pc[t] = "write" => payload[t] # payload[s]
    BY DEF Writers, Others
  <2>4. WritesAlone'
    BY <2>1, <2>3 DEF CacheInv, WritesAlone
  <2> QED BY <2>2, <2>4 DEF CacheInv
<1>8. ASSUME NEW s \in Session, BreakOff(s)
      PROVE  CacheInv'
  <2> USE <1>8 DEF BreakOff, End
  <2>1. pc'[s] = "idle" /\ \A t \in Session \ {s} : pc'[t] = pc[t] /\ payload'[t] = payload[t]
    BY DEF TypeOK
  <2>2. brokenOff \subseteq brokenOff' /\ (pc[s] = "write" => payload[s] \in brokenOff')
    OBVIOUS
  <2>3. HalfIsWritten'
    BY <2>1, <2>2 DEF CacheInv, HalfIsWritten
  <2>4. UploadsSomething' /\ WritesAlone'
    BY <2>1 DEF CacheInv, UploadsSomething, WritesAlone
  <2> QED BY <2>3, <2>4 DEF CacheInv
<1>9. CASE UNCHANGED vars
  BY <1>9 DEF vars, CacheInv, HalfIsWritten, UploadsSomething, WritesAlone
<1> QED
  BY <1>1, <1>2, <1>3, <1>4, <1>5, <1>6, <1>7, <1>8, <1>9 DEF Next, Step, Download, Unpack

LEMMA CacheInvariant == Spec => []CacheInv
  BY CacheInvInit, CacheInvStep, DotnetTypeInvariant, PTL DEF Spec

(***************************************************************************)
(* For any number of sessions that share the cache: what is uploaded was   *)
(* downloaded completely, but for a payload whose write broke off.         *)
(***************************************************************************)
THEOREM UploadsWholeFilesCorrect == Spec => []UploadsWholeFiles
<1>1. TypeOK /\ HasPayload /\ CacheInv => UploadsWholeFiles
  <2> SUFFICES ASSUME TypeOK, HasPayload, CacheInv, NEW s \in Session, pc[s] = "uploading"
               PROVE  cache[payload[s]] = "whole" \/ payload[s] \in brokenOff
    BY DEF UploadsWholeFiles, At
  <2>1. payload[s] \in Payload
    BY DEF HasPayload, WithPayload
  <2>2. cache[payload[s]] \in {"part", "whole"}
    BY <2>1 DEF TypeOK, File, CacheInv, UploadsSomething
  <2>3. ~ \E t \in Session : pc[t] = "write" /\ payload[t] = payload[s]
    BY DEF CacheInv, WritesAlone
  <2> QED BY <2>1, <2>2, <2>3 DEF CacheInv, HalfIsWritten
<1> QED BY <1>1, DotnetTypeInvariant, CacheInvariant, PTL

----------------------------------------------------------------------------
(***************************************************************************)
(* Who has unpacked a payload and is not spoiled has unpacked all of it:   *)
(* the property, as early as tar has ended.                                *)
(***************************************************************************)
Unpacked ==
  \A s \in Session :
    pc[s] \in {"rm", "completed"} /\ ~ spoiled[s] => dotnet[payload[s]] = "whole"

\* A tar that ends early spoils what the other sessions rely on.
LEMMA DamageKeepsUnpacked ==
  ASSUME TypeOK, HasPayload, Unpacked, NEW s \in Session, NEW own \in BOOLEAN,
         payload[s] \in Payload, UnpackPart(s), Damage(s, own),
         pc'[s] \in {"rm", "completed"} => own,
         \A t \in Session \ {s} : pc'[t] = pc[t] /\ payload'[t] = payload[t]
  PROVE  Unpacked'
<1> SUFFICES ASSUME NEW t \in Session, pc'[t] \in {"rm", "completed"}, ~ spoiled'[t]
             PROVE  dotnet'[payload'[t]] = "whole"
  BY DEF Unpacked
<1>1. t # s
  BY DEF Damage
<1>2. ~ spoiled[t] /\ t \notin Others(s, {"unpacking", "rm", "completed"})
  BY <1>1 DEF Damage
<1>3. payload[t] # payload[s]
  BY <1>1, <1>2 DEF Others
<1>4. payload[t] \in Payload /\ dotnet[payload[t]] = "whole"
  BY <1>1, <1>2 DEF Unpacked, HasPayload, WithPayload
<1>5. dotnet'[payload[t]] = dotnet[payload[t]]
  BY <1>3, <1>4 DEF UnpackPart, TypeOK
<1> QED BY <1>1, <1>4, <1>5

\* A step that damages nothing and does not end an unpacking.
LEMMA LeavesUnpacked ==
  ASSUME TypeOK, HasPayload, Unpacked, NEW s \in Session,
         \A p \in Payload : dotnet[p] = "whole" => dotnet'[p] = "whole",
         pc'[s] \in {"rm", "completed"} =>
           pc[s] \in {"rm", "completed"} /\ payload'[s] = payload[s] /\ spoiled'[s] = spoiled[s],
         \A t \in Session \ {s} : pc'[t] = pc[t] /\ payload'[t] = payload[t]
                                  /\ spoiled'[t] = spoiled[t]
  PROVE  Unpacked'
  BY DEF Unpacked, HasPayload, WithPayload

LEMMA UnpackedStep == TypeOK /\ HasPayload /\ Unpacked /\ [Next]_vars => Unpacked'
<1> SUFFICES ASSUME TypeOK, HasPayload, Unpacked, [Next]_vars
             PROVE  Unpacked'
  OBVIOUS
<1> USE DEF At, Goto, request, computer, device
<1> DEFINE Whole == \A p \in Payload : dotnet[p] = "whole" => dotnet'[p] = "whole"
           Own(s) == pc'[s] \in {"rm", "completed"} =>
             pc[s] \in {"rm", "completed"} /\ payload'[s] = payload[s] /\ spoiled'[s] = spoiled[s]
           Rest(s) == \A t \in Session \ {s} : pc'[t] = pc[t] /\ payload'[t] = payload[t]
                                               /\ spoiled'[t] = spoiled[t]
<1>1. ASSUME NEW s \in Session, Request(s) \/ OnlineReturnsTrue(s) \/ OnlineReturnsFalse(s)
      PROVE  Unpacked'
  <2>1. Whole
    BY <1>1 DEF Request, Execute, ExecuteLost, OnlineReturnsTrue, OnlineReturnsFalse, TypeOK
  <2>2. Own(s) /\ Rest(s)
    BY <1>1 DEF Request, Execute, ExecuteLost, FirstStep, OnlineReturnsTrue, OnlineReturnsFalse,
           TypeOK
  <2> QED BY <2>1, <2>2, LeavesUnpacked
<1>2. ASSUME NEW s \in Session, RunScript(s) \/ LookUp(s) \/ GetPayload(s) \/ Create(s) \/ Write(s)
      PROVE  Unpacked'
  <2>1. Whole /\ Own(s) /\ Rest(s)
    BY <1>2 DEF RunScript, LookUp, GetPayload, Create, Write, TypeOK
  <2> QED BY <2>1, LeavesUnpacked
<1>3. ASSUME NEW s \in Session, UploadBegins(s) \/ UploadEnds(s) \/ UnpackBegins(s) \/ Remove(s)
      PROVE  Unpacked'
  <2>1. Whole /\ Own(s) /\ Rest(s)
    BY <1>3 DEF UploadBegins, UploadEnds, UnpackBegins, Remove, TypeOK
  <2> QED BY <2>1, LeavesUnpacked
<1>4. ASSUME NEW s \in Session, CreateIsRefused(s) \/ UploadIsRefused(s) \/ NextProject(s)
      PROVE  Unpacked'
  <2>1. Whole /\ Own(s) /\ Rest(s)
    BY <1>4 DEF CreateIsRefused, UploadIsRefused, NextProject, EndQuietly, End, FirstStep, TypeOK
  <2> QED BY <2>1, LeavesUnpacked
<1>5. ASSUME NEW s \in Session, UnpackSucceeds(s)
      PROVE  Unpacked'
  <2> USE <1>5 DEF UnpackSucceeds
  <2>1. payload[s] \in Payload /\ \A t \in Session \ {s} : pc'[t] = pc[t]
    BY DEF HasPayload, WithPayload, TypeOK
  <2>2. \A p \in Payload : dotnet[p] = "whole" => dotnet'[p] = "whole"
    BY <2>1 DEF TypeOK
  <2>3. ~ spoiled[s] => dotnet'[payload[s]] = "whole"
    BY <2>1 DEF TypeOK
  <2> QED BY <2>1, <2>2, <2>3 DEF Unpacked, HasPayload, WithPayload
<1>6. ASSUME NEW s \in Session, UnpackHasNoStatus(s)
      PROVE  Unpacked'
  <2>1. payload[s] \in Payload /\ \A t \in Session \ {s} : pc'[t] = pc[t] /\ payload'[t] = payload[t]
    BY <1>6 DEF UnpackHasNoStatus, HasPayload, WithPayload, TypeOK
  <2> QED BY <1>6, <2>1, DamageKeepsUnpacked DEF UnpackHasNoStatus
<1>7. ASSUME NEW s \in Session, Fail(s)
      PROVE  Unpacked'
  <2>1. /\ pc'[s] = "failed"
        /\ \A t \in Session \ {s} : pc'[t] = pc[t] /\ payload'[t] = payload[t]
    BY <1>7 DEF Fail, TypeOK
  <2>2. CASE pc[s] = "unpacking"
    <3>1. payload[s] \in Payload
      BY <2>2 DEF HasPayload, WithPayload
    <3> QED BY <1>7, <2>1, <2>2, <3>1, DamageKeepsUnpacked DEF Fail
  <2>3. CASE pc[s] # "unpacking"
    BY <1>7, <2>1, <2>3, LeavesUnpacked DEF Fail
  <2> QED BY <2>2, <2>3
<1>8. ASSUME NEW s \in Session, BreakOff(s)
      PROVE  Unpacked'
  <2>1. /\ pc'[s] = "idle"
        /\ \A t \in Session \ {s} : pc'[t] = pc[t] /\ payload'[t] = payload[t]
    BY <1>8 DEF BreakOff, End, TypeOK
  <2>2. CASE pc[s] = "unpacking"
    <3>1. payload[s] \in Payload
      BY <2>2 DEF HasPayload, WithPayload
    <3> QED BY <1>8, <2>1, <2>2, <3>1, DamageKeepsUnpacked DEF BreakOff
  <2>3. CASE pc[s] # "unpacking"
    <3>1. Whole /\ Own(s) /\ Rest(s)
      BY <1>8, <2>1, <2>3 DEF BreakOff, TypeOK
    <3> QED BY <3>1, LeavesUnpacked
  <2> QED BY <2>2, <2>3
<1>9. CASE UNCHANGED vars
  BY <1>9 DEF vars, Unpacked
<1> QED
  BY <1>1, <1>2, <1>3, <1>4, <1>5, <1>6, <1>7, <1>8, <1>9 DEF Next, Step, Download, Unpack

(***************************************************************************)
(* For any number of sessions that upload, unpack and remove one archive:  *)
(* a completed installation has unpacked all of it.                        *)
(***************************************************************************)
THEOREM CompletedMeansUnpackedCorrect == Spec => []CompletedMeansUnpacked
<1>1. Init => Unpacked
  BY DEF Init, Unpacked
<1>2. Unpacked => CompletedMeansUnpacked
  BY DEF Unpacked, CompletedMeansUnpacked, At
<1> QED BY <1>1, <1>2, UnpackedStep, DotnetTypeInvariant, PTL DEF Spec
=============================================================================
