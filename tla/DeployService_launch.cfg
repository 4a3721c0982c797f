\* F5 with the "Deploy" check box and publish on deploy.
SPECIFICATION Spec
CONSTANTS
  MaxBuild = 2
  Profile <- LaunchProfiles
  File <- Files
  Directory <- Directories
  Relative = {"inner"}
  Inside <- Contents
  Seen <- Names
INVARIANT LaunchRunsTheBuild
