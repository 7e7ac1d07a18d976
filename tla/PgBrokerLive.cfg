SPECIFICATION MCFairSpec
CONSTANTS
  A = A
  B = B
  s1 = s1
  s2 = s2
  s3 = s3
  None = None
  Topics = {A, B}
  Subs = {s1, s2, s3}
  Pubs = {p1}
  Conns = {c1, c2}
  SubTopic <- MCSubTopic
  PubTopic <- MCPubTopic
  PayloadLens <- MCShort
  MaxBreaks = 1
PROPERTIES
  Unsubscribed
  ConnsReturned
  Delivered
CHECK_DEADLOCK FALSE
