SPECIFICATION Spec
CONSTANTS
  hc = hc
  hb = hb
  t1 = t1
  t2 = t2
  t3 = t3
  Clients = {t1, t2, t3}
  Handlers = {hc, hb}
  MaxCalls = 1
  Usages <- AllUsages
CHECK_DEADLOCK FALSE
INVARIANTS OrderIsShared AnswersAreTrue CallbacksAreGuarded
PROPERTIES EverythingReturns
