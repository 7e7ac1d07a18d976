------------------------------ MODULE KvStore -------------------------------
(***************************************************************************)
(* What the interface Store of package kv promises (src/kv/kv.go), as an   *)
(* atomic dictionary whose entries expire.                                 *)
(*                                                                         *)
(* A call takes effect in one step, an Update in two: its function runs    *)
(* between them, and no other call changes its key meanwhile.  Whether an  *)
(* entry is still there at the very moment of its expiry is left open, the *)
(* two stores differ in it.  A value is the set of the calls that went     *)
(* into it, which shows the values an Update was made from.                *)
(*                                                                         *)
(* The stores differ in two more ways, which are parameters.  A store that *)
(* is not Exclusive keeps the key of an Update from the others only if it  *)
(* was there.  A Remote one is called over a connection: it may go by the  *)
(* time at which the call was made, a call may fail, and the answer to one *)
(* that was done may be lost.                                              *)
(***************************************************************************)
EXTENDS Integers

CONSTANTS
  Keys,      \* the keys in use
  Ops,       \* names for the calls, each made once
  Programs,  \* which calls they may be: [kind, keys, ttl] for each of Ops
  MaxTime,   \* bound: when the clock stops
  None,
  Exclusive, \* whether an Update has its key to itself when it found nothing
  Remote     \* whether the store is reached over a connection

VARIABLES
  call,  \* which call each of Ops is
  now,   \* the clock
  since, \* when a call that is on its way to the store was made, else 0
  entry, \* the value of each key and when it expires (0: never), or None
  st,    \* where each call is: "fn" while the function of an Update runs
  got    \* what Get or Keys returned; what the function that runs received

vars == <<call, now, since, entry, st, got>>

Kind(o) == call[o].kind
KeyOf(o) == CHOOSE k \in call[o].keys : TRUE

\* The times a call may go by.
Times(o) == IF since[o] = 0 THEN {now} ELSE since[o]..now

\* If ttl is 0, the value never expires.
Expiry(o, t) == IF call[o].ttl > 0 THEN t + call[o].ttl ELSE 0

MustLive(e, t) == e # None /\ (e.exp = 0 \/ e.exp > t)
MayLive(e, t)  == e # None /\ (e.exp = 0 \/ e.exp >= t)

\* What a reader of k may see at t.
Readings(k, t) ==
  (IF MayLive(entry[k], t) THEN {entry[k].val} ELSE {}) \cup
  (IF MustLive(entry[k], t) THEN {} ELSE {None})

\* No other operation can modify the key during an Update: the keys that the
\* Update x keeps from the others.
Claimed(x) == IF st[x] = "fn" /\ (Exclusive \/ got[x] # None) THEN call[x].keys ELSE {}

Unclaimed(o) == \A x \in Ops \ {o} : Claimed(x) \cap call[o].keys = {}

Put(o, v) ==
  \E t \in Times(o) :
    entry' = [k \in Keys |-> IF k \in call[o].keys
                             THEN [val |-> v, exp |-> Expiry(o, t)] ELSE entry[k]]

Becomes(o, from, to) == st[o] = from /\ st' = [st EXCEPT ![o] = to]

\* A call comes to its end: with an error if it failed, or if it was done and the
\* answer got lost ("unknown").
Ends(o, from, to) == Becomes(o, from, to) /\ since' = [since EXCEPT ![o] = 0]

Answers == IF Remote THEN {"ok", "unknown"} ELSE {"ok"}

Init ==
  /\ call \in Programs
  /\ now = 1
  /\ since = [o \in Ops |-> 0]
  /\ entry = [k \in Keys |-> None]
  /\ st = [o \in Ops |-> "idle"]
  /\ got = [o \in Ops |-> None]

\* The call is made; it has still to reach the store.
Call(o) ==
  /\ Remote /\ st[o] = "idle" /\ since[o] = 0
  /\ since' = [since EXCEPT ![o] = now]
  /\ UNCHANGED <<call, now, entry, st, got>>

Get(o) ==
  /\ Kind(o) = "get" /\ Ends(o, "idle", "ok")
  /\ \E t \in Times(o) : \E v \in Readings(KeyOf(o), t) : got' = [got EXCEPT ![o] = v]
  /\ UNCHANGED <<call, now, entry>>

\* Set, and SetMany, whose keys change together.
Set(o) ==
  /\ Kind(o) \in {"set", "setmany"}
  /\ \E r \in Answers : Ends(o, "idle", r)
  /\ Unclaimed(o)
  /\ Put(o, {o})
  /\ UNCHANGED <<call, now, got>>

UpdateReads(o) ==
  /\ Kind(o) = "update" /\ Becomes(o, "idle", "fn")
  /\ \E t \in Times(o) : \E v \in Readings(KeyOf(o), t) :
       /\ Exclusive \/ v # None => Unclaimed(o)
       /\ got' = [got EXCEPT ![o] = v]
  /\ UNCHANGED <<call, now, since, entry>>

UpdateWrites(o) ==
  /\ \E r \in Answers : Ends(o, "fn", r)
  /\ Unclaimed(o)
  /\ Put(o, (IF got[o] = None THEN {} ELSE got[o]) \cup {o})
  /\ got' = [got EXCEPT ![o] = None]
  /\ UNCHANGED <<call, now>>

\* The function of an Update returns an error, or the connection fails.
Fails(o) ==
  /\ Ends(o, "fn", "failed") \/ (Remote /\ Ends(o, "idle", "failed"))
  /\ got' = [got EXCEPT ![o] = None]
  /\ UNCHANGED <<call, now, entry>>

Delete(o) ==
  /\ Kind(o) = "delete"
  /\ \E r \in Answers : Ends(o, "idle", r)
  /\ Unclaimed(o)
  /\ entry' = [entry EXCEPT ![KeyOf(o)] = None]
  /\ UNCHANGED <<call, now, got>>

ListKeys(o) ==
  /\ Kind(o) = "keys" /\ Ends(o, "idle", "ok")
  /\ \E t \in Times(o) : \E R \in SUBSET {k \in call[o].keys : MayLive(entry[k], t)} :
       /\ {k \in call[o].keys : MustLive(entry[k], t)} \subseteq R
       /\ got' = [got EXCEPT ![o] = R]
  /\ UNCHANGED <<call, now, entry>>

\* The store may drop what has expired, at any time, but not from under an Update.
Purge ==
  /\ \E S \in SUBSET {k \in Keys : entry[k] # None /\ ~MustLive(entry[k], now)} :
       /\ \A x \in Ops : Claimed(x) \cap S = {}
       /\ entry' = [k \in Keys |-> IF k \in S THEN None ELSE entry[k]]
  /\ UNCHANGED <<call, now, since, st, got>>

Tick ==
  /\ now < MaxTime
  /\ now' = now + 1
  /\ UNCHANGED <<call, since, entry, st, got>>

Next ==
  \/ \E o \in Ops : \/ Call(o) \/ Get(o) \/ Set(o) \/ Delete(o) \/ ListKeys(o)
                    \/ UpdateReads(o) \/ UpdateWrites(o) \/ Fails(o)
  \/ Purge \/ Tick

Spec == Init /\ [][Next]_vars
=============================================================================
