SPECIFICATION Spec
CONSTANTS
  s1 = s1  s2 = s2  s3 = s3
  Sockets = {s1, s2, s3}
  NoSocket = NoSocket
  MaxSessions = 3
PROPERTIES SessionKept ServedIsListed
CHECK_DEADLOCK FALSE
