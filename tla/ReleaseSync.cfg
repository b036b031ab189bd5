SPECIFICATION Spec
CONSTANTS
  Hosts = {"bootstrap", "apply", "none"}
  HostManifest <- MCHostManifest
  Python <- MCPython
  Unsupported <- MCUnsupported
  Published <- Manifests
  Profile <- MCProfile
  Setting <- MCSetting
  Slug = Slug
  LocalId = LocalId
  NoManifest = NoManifest
  MaxOps = 2
  MaxFaults = 2
CHECK_DEADLOCK FALSE
INVARIANTS VersionsAgree ReportedWasApplied ReportedSurvives
PROPERTIES Converges
