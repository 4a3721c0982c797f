\* Two instances of Visual Studio, four root certificates, time to expire.
SPECIFICATION Spec
CONSTANTS
  Session = {vs1, vs2}
  RootLife = 1
  LeafLife = 1
  NoCertificate = NoCertificate
  Nobody = Nobody
  MaxEvents = 1
  MaxProjects = 2
INVARIANTS
  TypeOK
  SignedByTrustedRoot
  RootsAreFew
  CompletedMeansInstalled
