\* Two names that differ in case only, three releases of the extension, with
\* fairness.
SPECIFICATION FairSpec
CONSTANTS
  Path = {p1, p2}
  Content = {c1}
  Lockable = {}
  NoFile = NoFile
  Garbage = Garbage
  Version = {1, 2, 3}
  Fold <- OneName
INVARIANTS
  ReadyHasOwnBinary
PROPERTIES
  UsableStaysUsable
  EveryDeploymentEnds
