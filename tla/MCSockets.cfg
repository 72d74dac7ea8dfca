SPECIFICATION PartsSpec
CONSTANTS
  None = None
  NoUser = NoUser
  Users = {u1, u2}
  Sockets = {c1, c2, c3}
  Components = {k1, k2}
  Links = {s1, s2, s3, s4}
  MaxAttempts = 1
  MaxRefreshes = 2
  MaxFaults = 2
  MaxVisits = 4
SYMMETRY Symmetry
INVARIANTS Typed HandlersKept MapsAgree ConnectedAreTracked
PROPERTY UserMapIsRegistry
CHECK_DEADLOCK FALSE
