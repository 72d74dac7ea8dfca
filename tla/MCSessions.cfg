SPECIFICATION PartsSpec
CONSTANTS
  NoUser = NoUser
  NoToken = NoToken
  NoPassword = NoPassword
  NoExecution = NoExecution
  Gone = Gone
  Lists = {"list"}
  MaxPairs = 3
  MaxReloads = 1
  Executions = {execution1}
  Sockets = {socket1}
  MaxWrites = 3
  MaxPipe = 2
  MaxDrops = 1
  Users = {user1}
  People = {u1, u2}
  Tabs = {p1, p2}
  Requests = {r1, r2}
  MaxFaults = 1
  Tokens = {t1, t2, t3}
  Passwords = {w1, w2}
SYMMETRY Symmetry
INVARIANTS Typed HeldIsUnused ExchangedOnce EndedIsOver ViewsConverge
CHECK_DEADLOCK FALSE
