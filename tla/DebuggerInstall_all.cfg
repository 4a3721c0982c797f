\* Two executions of the command and a debugger start at the same time.
SPECIFICATION FairSpec
CONSTANTS
  Command = {i1, i2}
  Launch = Launch
  NoTask = NoTask
  Version = {1, 2}
  MaxProjects = 2
INVARIANTS
  TypeOK
  OneCommand
  OfflineInstalls
PROPERTY EveryInstallationEnds
