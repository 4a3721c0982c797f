\* The default appFolderPath, which begins with "~".
SPECIFICATION Spec
CONSTANTS
  MaxBuild = 2
  Profile <- DefaultProfiles
  File <- Files
  Directory <- Directories
  Relative = {"inner"}
  Inside <- Contents
  Seen <- Names
INVARIANT CleanedOrCreated
