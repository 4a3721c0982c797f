CONSTANTS
  Path = {p1}
  Content = {c1, c2}
  NoFile = NoFile
  Garbage = Garbage
  Skews = {0, 1}
  MaxTime = 2
SPECIFICATION Spec
INVARIANTS TypeOK BuiltFilesArrive
PROPERTY ImplementsFolderMirror
