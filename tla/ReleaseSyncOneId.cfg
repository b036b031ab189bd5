SPECIFICATION Spec
CONSTANTS
  Hosts = {"bootstrap"}
  HostManifest <- MCHostManifest
  Python <- MCPython
  Unsupported <- MCUnsupported
  Published <- Plain
  Profile <- MCProfile
  Setting <- MCSetting
  Slug = Slug
  LocalId = Slug
  NoManifest = NoManifest
  MaxOps = 3
  MaxFaults = 0
CHECK_DEADLOCK FALSE
PROPERTIES LaterReleasesFollow
