SPECIFICATION Spec
CONSTANTS
  A = A
  B = B
  s1 = s1
  s2 = s2
  s3 = s3
  None = None
  Topics = {A, B}
  Subs = {s1, s2, s3}
  Pubs = {p1}
  Conns = {c1}
  SubTopic <- MCSubTopic
  PubTopic <- MCPubTopic
  PayloadLens <- MCPayloadLens
  MaxBreaks = 1
PROPERTY
  JoinIsServed
CHECK_DEADLOCK FALSE
