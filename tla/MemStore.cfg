SPECIFICATION FairSpec
CONSTANTS
  a = a
  b = b
  o1 = o1
  o2 = o2
  o3 = o3
  None = None
  Keys = {a, b}
  Ops = {o1, o2, o3}
  Programs <- MCPrograms
  MaxTime = 3
INVARIANTS
  TypeOK
PROPERTIES
  SlicesStay
  ImplementsKvStore
  CallsEnd
  ExpiredGoes
CHECK_DEADLOCK FALSE
