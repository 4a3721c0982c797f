\* One instance, a root certificate in the last part of its life.
SPECIFICATION Spec
CONSTANTS
  Session = {vs1}
  RootLife = 3
  LeafLife = 2
  NoCertificate = NoCertificate
  Nobody = Nobody
  MaxEvents = 2
  MaxProjects = 1
PROPERTIES
  FoundRootCanSign
