--------------------------- MODULE FolderMirror ---------------------------
(***************************************************************************)
(* What a deployment of a folder that reports success promises, whatever   *)
(* way the files travel. The source folder and the target folder may both  *)
(* change under the deployment: the promise is about versions a file had   *)
(* while the deployment ran, and says nothing of the files somebody else   *)
(* wrote in the target folder since it began.                              *)
(***************************************************************************)
CONSTANTS Path, Content, NoFile,
          Garbage       \* a file that was cut off

VARIABLES
  source,       \* the folder to deploy
  target,       \* the folder on the device
  running,      \* a deployment is running
  verdict,      \* what the last one reported
  seen,         \* per file: its versions in the source since the last began
  foreign,      \* the target files somebody else has written since
  unread        \* the source files the last deployment could not read

mirrorVars == <<source, target, running, verdict, seen, foreign, unread>>

File == Content \cup {NoFile}

Init ==
  /\ source \in [Path -> File]
  /\ target \in [Path -> File]
  /\ running = FALSE
  /\ verdict = "none"
  /\ seen = [p \in Path |-> {source[p]}]
  /\ foreign = {}
  /\ unread = {}

ChangeSource ==
  /\ source' \in [Path -> File]
  /\ seen' = IF running THEN [p \in Path |-> seen[p] \cup {source'[p]}] ELSE seen
  /\ UNCHANGED <<target, running, verdict, foreign, unread>>

ChangeTarget ==
  /\ \E p \in Path, c \in File :
        target' = [target EXCEPT ![p] = c] /\ foreign' = foreign \cup {p}
  /\ UNCHANGED <<source, running, verdict, seen, unread>>

Begin ==
  /\ ~ running
  /\ running' = TRUE
  /\ verdict' = "none"
  /\ seen' = [p \in Path |-> {source[p]}]
  /\ foreign' = {}
  /\ unread' = {}
  /\ UNCHANGED <<source, target>>

(***************************************************************************)
(* A running deployment finds a file it cannot read.                       *)
(***************************************************************************)
MissSource ==
  /\ running
  /\ \E p \in Path : unread' = unread \cup {p}
  /\ UNCHANGED <<source, target, running, verdict, seen, foreign>>

(***************************************************************************)
(* A running deployment gives one target file a version the source has or  *)
(* had, or removes one it could not read in the source.                    *)
(***************************************************************************)
Transfer ==
  /\ running
  /\ \E p \in Path, c \in File :
        /\ c \in seen[p] \/ (c = NoFile /\ p \in unread)
        /\ target' = [target EXCEPT ![p] = c]
  /\ UNCHANGED <<source, running, verdict, seen, foreign, unread>>

Succeed ==
  /\ running
  /\ \A p \in Path \ (foreign \cup unread) : target[p] \in seen[p]
  /\ running' = FALSE
  /\ verdict' = "ok"
  /\ UNCHANGED <<source, target, seen, foreign, unread>>

(***************************************************************************)
(* A deployment that fails may leave one file cut off.                     *)
(***************************************************************************)
GiveUp ==
  /\ running
  /\ running' = FALSE
  /\ verdict' = "failed"
  /\ \/ target' = target
     \/ \E p \in Path : target' = [target EXCEPT ![p] = Garbage]
  /\ UNCHANGED <<source, seen, foreign, unread>>

Next ==
  \/ ChangeSource \/ ChangeTarget \/ Begin \/ MissSource
  \/ Transfer \/ Succeed \/ GiveUp

Spec == Init /\ [][Next]_mirrorVars
=============================================================================
