\* Two files of any two contents, one of which can be locked.
SPECIFICATION Spec
CONSTANTS
  Path = {p1, p2}
  Content = {c1, c2}
  Lockable = {p1}
  NoFile = NoFile
  Garbage = Garbage
  Version = {1}
  Fold <- DistinctNames
SYMMETRY ContentSymmetry
INVARIANTS
  TypeOK
  MirrorOnSuccess
  DeletesOnlyGoneFiles
  OnlyDifferencesTravel
PROPERTY ImplementsFolderMirror
