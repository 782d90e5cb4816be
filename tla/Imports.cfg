SPECIFICATION FairSpec
CONSTANTS
  m1 = m1
  m2 = m2
  u1 = u1
  s1 = s1
  s2 = s2
  t1 = t1
  t2 = t2
  NoSource = NoSource
  Messages = {m1}
  Uploads = {u1}
  Scanners = {s1, s2}
  Transports = {t1, t2}
  Asked <- MCAsked
  MaxFaults = 1
INVARIANTS TypeOK EvidenceKept SeenIsSettled AppliedOnce AmountsCounted ForwardedOnce
PROPERTIES LedgerSpec OfferedIsSettled
