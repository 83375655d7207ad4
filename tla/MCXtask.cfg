CONSTANTS
  Releases <- MCReleases
  Resident = 1
  Line <- MCLine
  Pre = {5}
  Undated = {6}
  Published <- MCPublished
  Soak = 2
  Cadence = 2
  MaxDay = 8
  Ids = {"a"}
  Affects <- MCAffects
  ToolVer <- MCToolVer
  Feeds <- MCFeeds
  Upstream <- MCUpstream
  MaxMerges = 2
  Locks <- MCLocks
  Golden = {"kernel32"}
  ApiSets = {"api"}
  HighRisk = {"WinExec"}
  Dynamic = {"GetProcAddress"}
  Manifests <- MCManifests
  FirstCommit = 5
  Ceiling = 9
  Epoch = 7
  Images <- MCImages
  Pdbs = {"x", "y"}
  Dlls = {"d1", "d2", "d3", "d4", "k"}
  Exempt = {"k"}
  ImportGraphs <- MCGraphs
  Home = "LocalSystem"
  Virtual = "virtual"
  MaxTrials = 2
SPECIFICATION Spec
CHECK_DEADLOCK FALSE
INVARIANTS
  SoakShoutedOnce
  NothingUnsigned
  VerifiedIsBuilt
  ClosureExact
  AccountRecoverable
