\* Six profiles that differ in every setting, two builds.
SPECIFICATION FairSpec
CONSTANTS
  MaxBuild = 2
  Profile <- Profiles
  File <- Files
  Directory <- Directories
  Relative = {"inner"}
  Inside <- Contents
  Seen <- Names
INVARIANTS
  TypeOK
  CompleteHasAll
  CompleteHasNoLeftovers
  CompleteIsExecutable
  ExtensionLaunchesTheBuild
PROPERTIES
  PublishedBeforeTouched
  ImplementsAppDeployment
  EveryRequestEnds
