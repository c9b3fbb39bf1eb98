\* Two senders and up to two readers in the programs that share nothing stale.
CONSTANTS
  r1 = r1
  r2 = r2
  Senders = {s1, s2}
  Receivers = {r1, r2}
  MaxSent = 2
  Usages <- AllUsages
SPECIFICATION FairSpec
INVARIANTS MessagesAccountedFor NobodyOversleeps FailedIsFinalUnblocked
PROPERTIES BlockedCallsReturn
