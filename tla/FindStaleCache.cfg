SPECIFICATION Spec
CONSTANTS
  None = None
  Users = {u1}
  Endpoints = {"executions"}
  Callers = {c1, c2}
  Clears <- Own
  Changes <- Own
  MaxVersion = 1
  MaxLogins = 1
INVARIANTS MutationInvalidates
CHECK_DEADLOCK FALSE
