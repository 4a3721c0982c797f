CONSTANTS
  Session = {s1, s2}
  Payload = {p1}
  NoPayload = NoPayload
  MaxProjects = 2
SPECIFICATION FairSpec
INVARIANTS TypeOK UploadsWholeFiles CompletedMeansUnpacked
PROPERTY EveryInstallationEnds
