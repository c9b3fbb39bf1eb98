SPECIFICATION Spec
CONSTANTS
  Conns = {c1, c2}
  Outgoing = {c2}
  Fds = {1, 2}
  None = None
  Policies <- AllPolicies
CHECK_DEADLOCK FALSE
INVARIANTS TablesAgree EndIsAnnouncedOnce HandlersReturn
PROPERTIES EventsAreServed
