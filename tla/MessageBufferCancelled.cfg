\* close(true) empties the queue a sender waits for.
CONSTANTS
  r1 = r1
  r2 = r2
  Senders = {s1}
  Receivers = {r1, r2}
  MaxSent = 2
  Usages <- CancellingOnly
SPECIFICATION FairSpec
PROPERTY BlockedSendsReturn
