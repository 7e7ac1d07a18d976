SPECIFICATION FairSpec
CONSTANTS
  A = A
  B = B
  s1 = s1
  s2 = s2
  s3 = s3
  None = None
  Topics = {A, B}
  Subs = {s1, s2, s3}
  Pubs = {p1}
  SubTopic <- MCSubTopic
  PubTopic <- MCPubTopic
  Writers = {s1}
INVARIANTS
  TypeOK
  EntriesAreWatched
  LiveIsRegistered
  PayloadIntact
PROPERTIES
  ImplementsBroker
  WatchersEnd
CHECK_DEADLOCK FALSE
