------------------------- MODULE LaunchProfilesProofs -------------------------
(***************************************************************************)
(* Proofs about LaunchProfiles, for any projects, profiles and commands.   *)
(***************************************************************************)
EXTENDS LaunchProfiles, TLAPS

USE ProfileAssumption

Handling == {"resolve", "work", "update"}

\* A command that has a project at hand, has one; what it works with came from
\* a factory.
HasProject ==
  \A c \in Command :
    /\ pc[c] \in Handling => project[c] \in Project
    /\ pc[c] \in {"work", "update"} => profile[c] \in Maybe(Supported)

\* What has been read from a project that is not stirred is still active.
ReadIsActive ==
  \A c \in Command :
    At(c, "resolve") /\ project[c] \notin stirred => profile[c] = active[project[c]]

\* So is what its factory is configured with, for every command that uses it.
FactoryIsActive ==
  \A c \in Command : Running(c) =>
    \A p \in projects[c] \ stirred : factory[p] = active[p]

\* A command that is not running has no projects.
NoneLeft == \A c \in Command : pc[c] \in NotRunning => projects[c] = {}

ProfileInv ==
  /\ TypeOK
  /\ HasProject
  /\ NoneLeft
  /\ ReadIsActive
  /\ FactoryIsActive
  /\ WorksWithActiveProfile
  /\ PathFitsProfile

LEMMA InitProfileInv == Init => ProfileInv
  BY DEF Init, ProfileInv, TypeOK, HasProject, NoneLeft, ReadIsActive, FactoryIsActive,
         WorksWithActiveProfile, PathFitsProfile, At, Running, NotRunning, Handling, Maybe

\* The end of a command: what the history forgets, nobody needs any more.
LEMMA EndKeeps ==
  ASSUME ProfileInv, NEW c \in Command, End(c)
  PROVE  ProfileInv'
<1> USE DEF ProfileInv
<1>1. \A d \in Command : Running(d)' => d # c /\ Running(d) /\ stirred' = stirred
  BY DEF End, Goto, Running, NotRunning, TypeOK
<1>2. TypeOK'
  BY DEF End, Goto, TypeOK, Maybe, NotRunning
<1>3. HasProject' /\ NoneLeft'
  BY DEF End, Goto, TypeOK, HasProject, NoneLeft, Handling
<1>4. ReadIsActive'
  BY <1>1 DEF End, Goto, TypeOK, ReadIsActive, At, Running, NotRunning
<1>5. FactoryIsActive'
  BY <1>1 DEF End, Goto, TypeOK, FactoryIsActive
<1>6. WorksWithActiveProfile'
  BY <1>1 DEF End, Goto, TypeOK, WorksWithActiveProfile, Running, NotRunning
<1>7. PathFitsProfile'
  BY DEF End, PathFitsProfile
<1> QED BY <1>2, <1>3, <1>4, <1>5, <1>6, <1>7

LEMMA SelectProfileKeeps ==
  ASSUME ProfileInv, NEW p \in Project, NEW a \in Maybe(Profile), SelectProfile(p, a)
  PROVE  ProfileInv'
<1> USE DEF ProfileInv, SelectProfile, locals
<1>1. CASE \E c \in Command : Running(c)
  <2>1. stirred' = stirred \cup {p} /\ \A q \in Project \ {p} : active'[q] = active[q]
    BY <1>1 DEF TypeOK
  <2>2. TypeOK' /\ HasProject' /\ NoneLeft'
    BY <2>1 DEF TypeOK, HasProject, NoneLeft
  <2>3. ReadIsActive' /\ WorksWithActiveProfile'
    BY <2>1 DEF HasProject, ReadIsActive, WorksWithActiveProfile, At, Handling
  <2>4. FactoryIsActive'
    BY <2>1 DEF TypeOK, FactoryIsActive, Running
  <2>5. PathFitsProfile'
    BY DEF PathFitsProfile
  <2> QED BY <2>2, <2>3, <2>4, <2>5
<1>2. CASE ~ \E c \in Command : Running(c)
  <2>1. TypeOK' /\ HasProject' /\ NoneLeft'
    BY <1>2 DEF TypeOK, HasProject, NoneLeft
  <2>2. ReadIsActive' /\ FactoryIsActive' /\ WorksWithActiveProfile'
    BY <1>2 DEF ReadIsActive, FactoryIsActive, WorksWithActiveProfile, At, Running, NotRunning
  <2>3. PathFitsProfile'
    BY DEF PathFitsProfile
  <2> QED BY <2>1, <2>2, <2>3
<1> QED BY <1>1, <1>2

\* The steps of a running command.
LEMMA StepKeeps ==
  ASSUME ProfileInv, NEW c \in Command, Step(c)
  PROVE  ProfileInv'
<1> USE DEF ProfileInv, Goto, At
<1>1. ASSUME NEW p \in Project, ReadActiveProfile(c, p)
      PROVE  ProfileInv'
  <2> USE <1>1 DEF ReadActiveProfile
  <2>1. TypeOK' /\ HasProject' /\ NoneLeft'
    <3>1. todo' \in [Command -> SUBSET Project] /\ active[p] \in Maybe(Profile)
      BY DEF TypeOK
    <3>2. CASE active[p] = NoProfile
      BY <3>1, <3>2 DEF TypeOK, HasProject, NoneLeft
    <3>3. CASE active[p] # NoProfile
      <4>1. project' = [project EXCEPT ![c] = p] /\ profile' = [profile EXCEPT ![c] = active[p]]
            /\ pc' = [pc EXCEPT ![c] = "resolve"]
        BY <3>3
      <4>2. TypeOK'
        BY <3>1, <4>1 DEF TypeOK, Maybe
      <4>3. HasProject' /\ NoneLeft'
        BY <4>1 DEF TypeOK, HasProject, NoneLeft, Handling, NotRunning
      <4> QED BY <4>2, <4>3
    <3> QED BY <3>2, <3>3
  <2>2. ReadIsActive'
    BY DEF TypeOK, ReadIsActive
  <2>3. FactoryIsActive'
    BY DEF TypeOK, FactoryIsActive, Running, NotRunning
  <2>4. WorksWithActiveProfile' /\ PathFitsProfile'
    BY DEF TypeOK, WorksWithActiveProfile, PathFitsProfile
  <2> QED BY <2>1, <2>2, <2>3, <2>4
<1>2. CASE Configure(c)
  <2> USE <1>2 DEF Configure
  <2>1. project[c] \in Project /\ (project[c] \notin stirred => profile[c] = active[project[c]])
    BY DEF HasProject, ReadIsActive, Handling
  <2>2. TypeOK' /\ HasProject' /\ NoneLeft'
    <3>1. factory' \in [Project -> Maybe(Supported)] /\ projects' \in [Command -> SUBSET Project]
      <4>1. CASE profile[c] \in Supported
        <5>1. factory' = [factory EXCEPT ![project[c]] = profile[c]]
              /\ projects' = [projects EXCEPT ![c] = @ \cup {project[c]}]
          BY <4>1
        <5>2. profile[c] \in Maybe(Supported) /\ projects[c] \cup {project[c]} \in SUBSET Project
          BY <2>1, <4>1 DEF TypeOK, Maybe
        <5> QED BY <5>1, <5>2 DEF TypeOK
      <4>2. CASE profile[c] \notin Supported
        BY <4>2 DEF TypeOK
      <4> QED BY <4>1, <4>2
    <3>2. pc' = [pc EXCEPT ![c] = "configure"]
          /\ UNCHANGED <<active, path, todo, project, profile, stirred, marred>>
      OBVIOUS
    <3>3. TypeOK'
      BY <3>1, <3>2 DEF TypeOK
    <3>4. HasProject'
      BY <3>2 DEF TypeOK, HasProject, Handling
    <3>5. NoneLeft'
      <4>1. \A d \in Command \ {c} : projects'[d] = projects[d]
        BY DEF TypeOK
      <4> QED BY <3>2, <4>1 DEF TypeOK, NoneLeft, NotRunning
    <3> QED BY <3>3, <3>4, <3>5
  <2>3. FactoryIsActive'
    <3>1. CASE profile[c] \in Supported
      <4>1. \A p \in Project : p = project[c] => factory'[p] = profile[c]
        BY <2>1, <3>1 DEF TypeOK
      <4>2. \A p \in Project : p # project[c] => factory'[p] = factory[p]
        BY <2>1, <3>1 DEF TypeOK
      <4>3. \A d \in Command : Running(d)' => Running(d)
        BY <3>1 DEF TypeOK, Running, NotRunning
      <4>4. \A d \in Command : projects'[d] \subseteq projects[d] \cup {project[c]}
        BY <3>1 DEF TypeOK
      <4> QED BY <2>1, <4>1, <4>2, <4>3, <4>4 DEF TypeOK, FactoryIsActive
    <3>2. CASE profile[c] \notin Supported
      BY <3>2 DEF TypeOK, FactoryIsActive, Running, NotRunning
    <3> QED BY <3>1, <3>2
  <2>4. ReadIsActive' /\ WorksWithActiveProfile' /\ PathFitsProfile'
    BY DEF TypeOK, ReadIsActive, WorksWithActiveProfile, PathFitsProfile
  <2> QED BY <2>2, <2>3, <2>4
<1>3. CASE AllConfigured(c) \/ Work(c)
  <2> USE <1>3 DEF AllConfigured, Work, locals
  <2>1. TypeOK' /\ HasProject' /\ NoneLeft'
    BY DEF TypeOK, HasProject, NoneLeft, Handling, NotRunning
  <2>2. ReadIsActive' /\ FactoryIsActive' /\ WorksWithActiveProfile' /\ PathFitsProfile'
    BY DEF TypeOK, ReadIsActive, FactoryIsActive, Running, NotRunning,
           WorksWithActiveProfile, PathFitsProfile
  <2> QED BY <2>1, <2>2
<1>4. ASSUME NEW p \in Project, GetSecureShellRemoteOperations(c, p)
      PROVE  ProfileInv'
  <2> USE <1>4 DEF GetSecureShellRemoteOperations
  <2>1. p \notin stirred => factory[p] = active[p]
    BY DEF FactoryIsActive, Running, NotRunning
  <2>2. TypeOK' /\ HasProject' /\ NoneLeft'
    BY DEF TypeOK, HasProject, NoneLeft, Handling, NotRunning, Maybe
  <2>3. ReadIsActive' /\ PathFitsProfile'
    BY DEF TypeOK, ReadIsActive, PathFitsProfile
  <2>4. FactoryIsActive'
    BY DEF TypeOK, FactoryIsActive, Running, NotRunning
  <2>5. WorksWithActiveProfile'
    BY <2>1 DEF TypeOK, WorksWithActiveProfile
  <2> QED BY <2>2, <2>3, <2>4, <2>5
<1>5. CASE c = Query /\ FindDotNetInstallPath
  <2> USE <1>5 DEF FindDotNetInstallPath, locals
  <2>1. TypeOK' /\ HasProject' /\ NoneLeft'
    BY DEF TypeOK, HasProject, NoneLeft, Handling, NotRunning
  <2>2. ReadIsActive' /\ FactoryIsActive' /\ WorksWithActiveProfile' /\ PathFitsProfile'
    BY DEF TypeOK, ReadIsActive, FactoryIsActive, Running, NotRunning,
           WorksWithActiveProfile, PathFitsProfile
  <2> QED BY <2>1, <2>2
<1>6. CASE c = Query /\ UpdateProfileProperty
  <2> USE <1>6 DEF UpdateProfileProperty, locals
  <2> DEFINE q == project[c]
  <2>1. q \in Project /\ profile[c] \in Maybe(Supported)
    BY DEF HasProject, Handling
  <2>2. q \notin stirred => profile[c] = active[q]
    BY DEF WorksWithActiveProfile
  <2>3. active[q] \in Maybe(Profile)
    BY <2>1 DEF TypeOK
  <2>4. CASE active[q] = NoProfile
    <3>1. UNCHANGED <<active, factory, path, todo, projects, project, profile, stirred, marred>>
      BY <2>4
    <3>2. TypeOK' /\ HasProject' /\ NoneLeft'
      BY <3>1 DEF TypeOK, HasProject, NoneLeft, Handling, NotRunning
    <3>3. ReadIsActive' /\ FactoryIsActive' /\ WorksWithActiveProfile' /\ PathFitsProfile'
      BY <3>1 DEF TypeOK, ReadIsActive, FactoryIsActive, Running, NotRunning,
             WorksWithActiveProfile, PathFitsProfile
    <3> QED BY <3>2, <3>3
  <2>5. CASE active[q] # NoProfile
    <3>1. active[q] \in Profile
      BY <2>3, <2>5 DEF Maybe
    <3>2. path' = [path EXCEPT ![q][active[q]] = profile[c]]
          /\ marred' = IF q \in stirred THEN marred \cup {<<q, active[q]>>}
                                        ELSE marred \ {<<q, active[q]>>}
      BY <2>5
    <3>3. UNCHANGED <<active, factory, todo, projects, project, profile, stirred>>
          /\ pc' = [pc EXCEPT ![c] = "loop"]
      BY <2>5
    <3>4. path' \in [Project -> [Profile -> Maybe(Supported)]] /\ marred' \subseteq Project \X Profile
      BY <2>1, <3>1, <3>2 DEF TypeOK
    <3>5. TypeOK'
      BY <3>3, <3>4 DEF TypeOK
    <3>6. HasProject' /\ NoneLeft'
      BY <3>3 DEF TypeOK, HasProject, NoneLeft, Handling, NotRunning
    <3>7. ReadIsActive' /\ FactoryIsActive' /\ WorksWithActiveProfile'
      BY <3>3 DEF TypeOK, ReadIsActive, FactoryIsActive, Running, NotRunning, WorksWithActiveProfile
    <3>8. PathFitsProfile'
      <4> SUFFICES ASSUME NEW p \in Project, NEW a \in Profile
                   PROVE  path'[p][a] \in {NoProfile, a} \/ <<p, a>> \in marred'
        BY DEF PathFitsProfile
      <4>1. CASE p = q /\ a = active[q]
        BY <2>1, <2>2, <3>1, <3>2, <4>1 DEF TypeOK
      <4>2. CASE ~ (p = q /\ a = active[q])
        <5>1. path'[p][a] = path[p][a]
          BY <2>1, <3>1, <3>2, <4>2 DEF TypeOK
        <5>2. <<p, a>> \in marred => <<p, a>> \in marred'
          BY <3>2, <4>2
        <5> QED BY <5>1, <5>2 DEF PathFitsProfile
      <4> QED BY <4>1, <4>2
    <3> QED BY <3>5, <3>6, <3>7, <3>8
  <2> QED BY <2>4, <2>5
<1>7. CASE NoProjectLeft(c)
  BY <1>7, EndKeeps DEF NoProjectLeft
<1> QED BY <1>1, <1>2, <1>3, <1>4, <1>5, <1>6, <1>7 DEF Step

LEMMA NextKeeps == ProfileInv /\ [Next]_vars => ProfileInv'
<1> SUFFICES ASSUME ProfileInv, [Next]_vars
             PROVE  ProfileInv'
  OBVIOUS
<1>1. ASSUME NEW c \in Command, NEW startup \in SUBSET Project, Execute(c, startup)
      PROVE  ProfileInv'
  <2> USE <1>1 DEF ProfileInv, Execute, At, Goto
  <2>1. TypeOK' /\ HasProject' /\ NoneLeft'
    BY DEF TypeOK, HasProject, NoneLeft, Handling, NotRunning
  <2>2. ReadIsActive' /\ WorksWithActiveProfile' /\ PathFitsProfile'
    BY DEF TypeOK, ReadIsActive, WorksWithActiveProfile, PathFitsProfile
  <2>3. FactoryIsActive'
    BY DEF TypeOK, FactoryIsActive, NoneLeft, Running, NotRunning
  <2> QED BY <2>1, <2>2, <2>3
<1>2. ASSUME NEW c \in Command, ExecuteLost(c)
      PROVE  ProfileInv'
  <2> USE <1>2 DEF ProfileInv, ExecuteLost, At, Goto, locals
  <2>1. TypeOK' /\ HasProject' /\ NoneLeft'
    BY DEF TypeOK, HasProject, NoneLeft, Handling, NotRunning
  <2>2. ReadIsActive' /\ FactoryIsActive' /\ WorksWithActiveProfile' /\ PathFitsProfile'
    BY DEF TypeOK, ReadIsActive, FactoryIsActive, Running, NotRunning,
           WorksWithActiveProfile, PathFitsProfile
  <2> QED BY <2>1, <2>2
<1>3. ASSUME NEW c \in Command, Step(c) \/ Throw(c)
      PROVE  ProfileInv'
  BY <1>3, StepKeeps, EndKeeps DEF Throw
<1>4. ASSUME NEW p \in Project, NEW a \in Maybe(Profile), SelectProfile(p, a)
      PROVE  ProfileInv'
  BY <1>4, SelectProfileKeeps
<1>5. CASE UNCHANGED vars
  BY <1>5 DEF vars, locals, ProfileInv, TypeOK, HasProject, NoneLeft, ReadIsActive,
         FactoryIsActive, WorksWithActiveProfile, PathFitsProfile, At, Running
<1> QED BY <1>1, <1>2, <1>3, <1>4, <1>5 DEF Next

LEMMA ProfileInvAlways == Spec => []ProfileInv
  BY InitProfileInv, NextKeeps, PTL DEF Spec

(***************************************************************************)
(* Every variable keeps its type: in particular no factory is ever         *)
(* configured with a profile of another extension.                         *)
(***************************************************************************)
THEOREM ProfilesTypeCorrect == Spec => []TypeOK
<1>1. ProfileInv => TypeOK
  BY DEF ProfileInv
<1> QED BY <1>1, ProfileInvAlways, PTL

(***************************************************************************)
(* For any number of projects, profiles and overlapping commands: a        *)
(* command works with the active profile of a project, unless the          *)
(* developer selected another one while a command was running.             *)
(***************************************************************************)
THEOREM WorksWithActiveProfileCorrect == Spec => []WorksWithActiveProfile
<1>1. ProfileInv => WorksWithActiveProfile
  BY DEF ProfileInv
<1> QED BY <1>1, ProfileInvAlways, PTL

(***************************************************************************)
(* And QueryDotnet writes the path of a device into no profile of another  *)
(* one, but for the profiles that were selected while a command ran.       *)
(***************************************************************************)
THEOREM PathFitsProfileCorrect == Spec => []PathFitsProfile
<1>1. ProfileInv => PathFitsProfile
  BY DEF ProfileInv
<1> QED BY <1>1, ProfileInvAlways, PTL
=============================================================================
