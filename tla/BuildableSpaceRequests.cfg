SPECIFICATION FairSpec
CONSTANTS
  Requests = {r1, r2}
  r1 = r1
  r2 = r2
  Servers = {s1, s2}
  s1 = s1
  s2 = s2
  ServerOf <- MCServerOf
  MaxTime = 1
  MaxFaults = 2
  NoFlow = NoFlow
INVARIANT TypeOK
INVARIANT FlowsDistinct
INVARIANT VerdictsAgree
PROPERTY EveryRequestAnswered
\* Every request may have ended.
CHECK_DEADLOCK FALSE
