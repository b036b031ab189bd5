SPECIFICATION Spec
CONSTANTS
  s1 = s1  s2 = s2  u1 = u1  u2 = u2  e1 = e1
  Sockets = {s1, s2}
  NoSocket = NoSocket
  Users = {u1, u2}
  NoUser = NoUser
  Enrolments = {e1}
  OwnerOf <- IssuedByFirst
  AppOwner = NoUser
  Settings <- EnrolledSetting
  Relaunches = {}
  MaxGeneration = 2
  MaxAttempts = 3
  MaxPairings = 1
  MaxGateways = 2
SYMMETRY Symmetry
INVARIANTS EnrolledReconnects
CHECK_DEADLOCK FALSE
