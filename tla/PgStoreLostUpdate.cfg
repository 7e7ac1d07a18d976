SPECIFICATION SystemSpec
CONSTANTS
  a = a
  b = b
  h1 = h1
  h2 = h2
  o1 = o1
  o2 = o2
  o3 = o3
  cln = cln
  None = None
  First = First
  Keys = {a, b}
  Hashes = {h1, h2}
  Hash <- MCHash
  Ops = {o1, o2, o3, cln}
  Loops = {}
  Programs <- MCUpdates
  MaxTime = 2
PROPERTIES
  UpdateIsAtomic
CHECK_DEADLOCK FALSE
