SPECIFICATION Spec
CONSTANTS
  n = n
  d = d
  u = u
  p = p
  x = x
  version = version
  db = db
  None = None
  Fields = {n, d, u, p, x, version}
  Kind <- MCKind
  Within <- MCWithin
  Optional <- MCOptional
  Version = version
  Sources = {"tags", "env", "flags", "secrets", "custom"}
  Priority <- MCPriority
  Names <- MCNames
  Inputs <- MCInputs
INVARIANTS
  TypeOK
  Precedence
  RequiredIsSet
PROPERTIES
  FilledStays
CHECK_DEADLOCK FALSE
