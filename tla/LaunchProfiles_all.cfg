CONSTANTS
  Project = {p1}
  Profile = {a1, a2, a3}
  Supported = {a1, a2}
  NoProfile = NoProfile
  Installer = {install}
  Query = query
SPECIFICATION FairSpec
INVARIANTS TypeOK WorksWithActiveProfile PathFitsProfile
PROPERTY EveryCommandEnds
