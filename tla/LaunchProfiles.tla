---------------------------- MODULE LaunchProfiles ----------------------------
(***************************************************************************)
(* Which launch profile does a command work with? The commands that do not *)
(* block Visual Studio (the installations and QueryDotnet) overlap with    *)
(* each other and with the developer, who selects profiles. Each command   *)
(* configures the one UnconfiguredPackageServiceFactory of every startup   *)
(* project from its active profile, then asks the factories one by one for *)
(* the services to work with; QueryDotnet writes what it finds into a      *)
(* profile. A profile stands for the device it names as well.              *)
(***************************************************************************)
CONSTANTS Project,
          Profile,      \* the profiles a project has
          Supported,    \* those of this extension
          NoProfile,    \* null
          Installer,    \* the commands that install
          Query         \* QueryDotnetCommand

ASSUME ProfileAssumption ==
  /\ Supported \subseteq Profile
  /\ NoProfile \notin Profile
  /\ Query \notin Installer

Command == Installer \cup {Query}
Maybe(S) == S \cup {NoProfile}

VARIABLES
  active,           \* ILaunchSettingsProvider.ActiveProfile, per project
  factory,          \* per project: the profile its factory is configured with
  path,             \* per project and profile: dotNetInstallFolderPath, by the
                    \* device on which it was found
  pc,               \* per command: the step it is at
  todo,             \* per command: the startup projects to configure
  projects,         \* per command: the ones that are configured
  project,          \* per command: the one at hand
  profile,          \* per command: the profile it has read, or works with
  stirred,          \* history: the projects whose active profile has changed
                    \* while a command was running
  marred            \* history: the profiles written to when it had

locals == <<todo, projects, project, profile>>
vars == <<active, factory, path, pc, locals, stirred, marred>>

NotRunning == {"idle", "lost"}

TypeOK ==
  /\ active \in [Project -> Maybe(Profile)]
  /\ factory \in [Project -> Maybe(Supported)]
  /\ path \in [Project -> [Profile -> Maybe(Supported)]]
  /\ pc \in [Command -> NotRunning \cup {"configure", "resolve", "loop", "work", "update"}]
  /\ todo \in [Command -> SUBSET Project]
  /\ projects \in [Command -> SUBSET Project]
  /\ project \in [Command -> Maybe(Project)]
  /\ profile \in [Command -> Maybe(Profile)]
  /\ stirred \subseteq Project
  /\ marred \subseteq Project \X Profile

Init ==
  /\ active \in [Project -> Maybe(Profile)]
  /\ factory = [p \in Project |-> NoProfile]
  /\ path = [p \in Project |-> [a \in Profile |-> NoProfile]]
  /\ pc = [c \in Command |-> "idle"]
  /\ todo = [c \in Command |-> {}]
  /\ projects = [c \in Command |-> {}]
  /\ project = [c \in Command |-> NoProfile]
  /\ profile = [c \in Command |-> NoProfile]
  /\ stirred = {}
  /\ marred = {}

At(c, step) == pc[c] = step
Goto(c, step) == pc' = [pc EXCEPT ![c] = step]
Running(c) == pc[c] \notin NotRunning

----------------------------------------------------------------------------
(***************************************************************************)
(* Execute. Each command has a joinableTask of its own, which is lost when *)
(* the delegate throws before its "try" or ends before RunAsync returns.   *)
(***************************************************************************)
Execute(c, startup) ==
  /\ At(c, "idle")
  /\ Goto(c, "configure")
  /\ todo' = [todo EXCEPT ![c] = startup]
  /\ UNCHANGED <<active, factory, path, projects, project, profile, stirred, marred>>

ExecuteLost(c) ==
  /\ At(c, "idle")
  /\ Goto(c, "lost")
  /\ UNCHANGED <<active, factory, path, locals, stirred, marred>>

\* The end of the delegate: no project is left, or an exception.
End(c) ==
  /\ Goto(c, "idle")
  /\ todo' = [todo EXCEPT ![c] = {}]
  /\ projects' = [projects EXCEPT ![c] = {}]
  /\ project' = [project EXCEPT ![c] = NoProfile]
  /\ profile' = [profile EXCEPT ![c] = NoProfile]
  /\ stirred' = IF \E d \in Command \ {c} : Running(d) THEN stirred ELSE {}
  /\ UNCHANGED <<active, factory, path, marred>>

Throw(c) == Running(c) /\ End(c)

----------------------------------------------------------------------------
(***************************************************************************)
(* GetActiveConfiguredProjectsAsync with UnconfiguredPackageServiceFactory *)
(* .ConfigureAsync: the active profile is read, its tokens are replaced    *)
(* (an await), then the fields of the factory are set.                     *)
(***************************************************************************)
ReadActiveProfile(c, p) ==
  /\ At(c, "configure")
  /\ p \in todo[c]
  /\ todo' = [todo EXCEPT ![c] = @ \ {p}]
  /\ IF active[p] = NoProfile
       THEN UNCHANGED <<pc, project, profile>>
       ELSE /\ project' = [project EXCEPT ![c] = p]
            /\ profile' = [profile EXCEPT ![c] = active[p]]
            /\ Goto(c, "resolve")
  /\ UNCHANGED <<active, factory, path, projects, stirred, marred>>

\* Variant: a factory that has a configuration counts as configured.
ConfigureKeeps(c) ==
  /\ At(c, "resolve")
  /\ IF profile[c] \in Supported \/ factory[project[c]] # NoProfile
       THEN /\ factory' = IF factory[project[c]] # NoProfile THEN factory
                          ELSE [factory EXCEPT ![project[c]] = profile[c]]
            /\ projects' = [projects EXCEPT ![c] = @ \cup {project[c]}]
       ELSE UNCHANGED <<factory, projects>>
  /\ Goto(c, "configure")
  /\ UNCHANGED <<active, path, todo, project, profile, stirred, marred>>

\* Variant: an unsupported profile does not keep the project from being used.
ConfigureAny(c) ==
  /\ At(c, "resolve")
  /\ factory' = [factory EXCEPT ![project[c]] = profile[c]]
  /\ projects' = [projects EXCEPT ![c] = @ \cup {project[c]}]
  /\ Goto(c, "configure")
  /\ UNCHANGED <<active, path, todo, project, profile, stirred, marred>>

Configure(c) ==
  /\ At(c, "resolve")
  /\ IF profile[c] \in Supported
       THEN /\ factory' = [factory EXCEPT ![project[c]] = profile[c]]
            /\ projects' = [projects EXCEPT ![c] = @ \cup {project[c]}]
       ELSE UNCHANGED <<factory, projects>>
  /\ Goto(c, "configure")
  /\ UNCHANGED <<active, path, todo, project, profile, stirred, marred>>

AllConfigured(c) ==
  /\ At(c, "configure")
  /\ todo[c] = {}
  /\ Goto(c, "loop")
  /\ UNCHANGED <<active, factory, path, locals, stirred, marred>>

----------------------------------------------------------------------------
(***************************************************************************)
(* The loop over the projects. The services get the configuration the      *)
(* factory has now, and keep it.                                           *)
(***************************************************************************)
\* Variant: the loop does not count.
GetOperationsAgain(c, p) ==
  /\ At(c, "loop")
  /\ p \in projects[c]
  /\ project' = [project EXCEPT ![c] = p]
  /\ profile' = [profile EXCEPT ![c] = factory[p]]
  /\ Goto(c, "work")
  /\ UNCHANGED <<active, factory, path, todo, projects, stirred, marred>>

GetSecureShellRemoteOperations(c, p) ==
  /\ At(c, "loop")
  /\ p \in projects[c]
  /\ projects' = [projects EXCEPT ![c] = @ \ {p}]
  /\ project' = [project EXCEPT ![c] = p]
  /\ profile' = [profile EXCEPT ![c] = factory[p]]
  /\ Goto(c, "work")
  /\ UNCHANGED <<active, factory, path, todo, stirred, marred>>

NoProjectLeft(c) ==
  /\ At(c, "loop")
  /\ projects[c] = {}
  /\ End(c)

\* An installation is done, or .NET is not found.
Work(c) ==
  /\ At(c, "work")
  /\ Goto(c, "loop")
  /\ UNCHANGED <<active, factory, path, locals, stirred, marred>>

FindDotNetInstallPath ==
  /\ At(Query, "work")
  /\ Goto(Query, "update")
  /\ UNCHANGED <<active, factory, path, locals, stirred, marred>>

(***************************************************************************)
(* LaunchProfileEditor.UpdateProfilePropertyAsync writes to the profile    *)
(* that is the active one now.                                             *)
(***************************************************************************)
UpdateProfileProperty ==
  LET p == project[Query]
      a == active[p]
  IN /\ At(Query, "update")
     /\ IF a = NoProfile
          THEN UNCHANGED <<path, marred>>
          ELSE /\ path' = [path EXCEPT ![p][a] = profile[Query]]
               /\ marred' = IF p \in stirred THEN marred \cup {<<p, a>>}
                                             ELSE marred \ {<<p, a>>}
     /\ Goto(Query, "loop")
     /\ UNCHANGED <<active, factory, locals, stirred>>

----------------------------------------------------------------------------
\* The developer selects another profile, or the project loses its last one.
SelectProfile(p, a) ==
  /\ a # active[p]
  /\ active' = [active EXCEPT ![p] = a]
  /\ stirred' = IF \E c \in Command : Running(c) THEN stirred \cup {p} ELSE stirred
  /\ UNCHANGED <<factory, path, pc, locals, marred>>

Step(c) ==
  \/ \E p \in Project : ReadActiveProfile(c, p) \/ GetSecureShellRemoteOperations(c, p)
  \/ Configure(c) \/ AllConfigured(c) \/ NoProjectLeft(c)
  \/ Work(c)
  \/ c = Query /\ (FindDotNetInstallPath \/ UpdateProfileProperty)

Next ==
  \/ \E c \in Command :
        \/ \E startup \in SUBSET Project : Execute(c, startup)
        \/ ExecuteLost(c)
        \/ Step(c)
        \/ Throw(c)
  \/ \E p \in Project, a \in Maybe(Profile) : SelectProfile(p, a)

Spec == Init /\ [][Next]_vars

(***************************************************************************)
(* Connections and commands on the device end; exceptions never help.      *)
(***************************************************************************)
FairSpec == Spec /\ \A c \in Command : WF_vars(Step(c))

----------------------------------------------------------------------------
(***************************************************************************)
(* A command works with the profile that is active for the project, also   *)
(* when another command configures the same factory between its            *)
(* configuration and its turn in the loop, and although an unsupported or  *)
(* missing profile leaves the factory with an old configuration. Unless    *)
(* the developer has selected another profile while a command was running. *)
(***************************************************************************)
WorksWithActiveProfile ==
  \A c \in Command :
    pc[c] \in {"work", "update"} /\ project[c] \notin stirred
      => profile[c] = active[project[c]]

(***************************************************************************)
(* The path in a profile is the one of the device the profile names,       *)
(* unless a profile was selected while a command was running that ended,   *)
(* or began, before the path was written.                                  *)
(***************************************************************************)
PathFitsProfile ==
  \A p \in Project, a \in Profile :
    path[p][a] \in {NoProfile, a} \/ <<p, a>> \in marred

(***************************************************************************)
(* Every command comes to its end and can be given again.                  *)
(***************************************************************************)
EveryCommandEnds == \A c \in Command : Running(c) ~> ~ Running(c)
=============================================================================
