----------------------------- MODULE MCPgStore ------------------------------
(***************************************************************************)
(* Instances of PgStore and PgCleanup for TLC.  Three calls o1, o2, o3 on  *)
(* keys a and b, and the Cleanup cln of one WithCleanup.                   *)
(***************************************************************************)
EXTENDS PgCleanup

CONSTANTS a, b, h1, h2, o1, o2, o3, cln

\* Each key has a hash of its own.
MCHash == [k \in Keys |-> IF k = a THEN h1 ELSE h2]

\* Both keys have one.
MCCollision == [k \in Keys |-> h1]

On(m, S, t) == [kind |-> m, keys |-> S, ttl |-> t]
Nothing == On("none", {}, 0)
Sweep   == On("cleanup", {}, 0)

Program(x, y, z, l) ==
  [o \in Ops |-> CASE o = o1 -> x [] o = o2 -> y [] o = o3 -> z [] o = cln -> l]

\* What the calls may be: readers and writers of one key in every order, calls
\* that take two rows each, a row that expires and is refreshed while Cleanups
\* look for it, a cleanup goroutine among the calls.
MCPrograms ==
  {Program(On("update", {a}, 0), On("set", {a}, 1), On("delete", {a}, 0), Nothing),
   Program(On("update", {a}, -2), On("update", {a}, 1), On("get", {a}, 0), Nothing),
   Program(On("setmany", {a, b}, 1), On("setmany", {a, b}, 0), On("update", {a}, 0), Nothing),
   Program(On("set", {a}, 1), On("update", {a}, 0), Sweep, Nothing),
   Program(On("setmany", {a, b}, 1), Sweep, On("keys", {a, b}, 0), Nothing),
   Program(On("set", {a}, 1), Nothing, Nothing, Sweep)}

\* Two Updates of one key.
MCUpdates == {Program(On("update", {a}, 0), On("update", {a}, 0), Nothing, Nothing)}

\* A value for each key, and a reader of the first.
MCPair == {Program(On("set", {a}, 0), On("set", {b}, 0), On("get", {a}, 0), Nothing)}
=============================================================================
