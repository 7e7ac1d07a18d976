----------------------------- MODULE MCMemStore -----------------------------
(***************************************************************************)
(* Instances of MemStore for TLC: three calls on the keys a and b.         *)
(***************************************************************************)
EXTENDS MemStore

CONSTANTS a, b, o1, o2, o3

On(m, S, t) == [kind |-> m, keys |-> S, ttl |-> t]

Program(x, y, z) == [o \in Ops |-> CASE o = o1 -> x [] o = o2 -> y [] o = o3 -> z]

\* What the calls may be: two Updates of one key and a reader, expiring values
\* that are read and refreshed, a SetMany of two keys among calls on each, an
\* Update against Set and Delete, a SetMany of nothing.
MCPrograms ==
  {Program(On("update", {a}, 0), On("update", {a}, -2), On("get", {a}, 0)),
   Program(On("set", {a}, 1), On("update", {a}, 2), On("get", {a}, 0)),
   Program(On("set", {a}, 1), On("get", {a}, 0), On("set", {a}, 0)),
   Program(On("setmany", {a, b}, 1), On("keys", {a, b}, 0), On("update", {b}, 1)),
   Program(On("setmany", {a, b}, 0), On("delete", {a}, 0), On("get", {b}, 0)),
   Program(On("update", {a}, 1), On("set", {a}, 0), On("delete", {a}, 0)),
   Program(On("setmany", {}, 1), On("setmany", {a, b}, 2), On("keys", {b}, 0))}
=============================================================================
