SPECIFICATION FairSpec
CONSTANTS
  Subscribers = {s1, s2}
  s1 = s1
  s2 = s2
  MaxEvents = 3
  MaxDrops = 1
  MaxRestarts = 1
INVARIANT TypeOK
PROPERTY ImplementsFeed
INVARIANT MissedOnlyIfErased
INVARIANT ClosedAfterTerminal
PROPERTY EverybodyServed
\* The job ends and its subscribers leave.
CHECK_DEADLOCK FALSE
