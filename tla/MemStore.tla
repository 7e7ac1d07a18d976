------------------------------ MODULE MemStore ------------------------------
(***************************************************************************)
(* The in-memory key-value store of package kv (src/kv/memory.go): a map   *)
(* under one lock, entries that expire by the clock, and the goroutine     *)
(* that removes them until Close.                                          *)
(*                                                                         *)
(* The work a call does under s.mu is one step where nothing it does can   *)
(* be seen from outside; Update, which runs the caller's function under    *)
(* the lock, and SetMany, which stores one item at a time, take several.   *)
(*                                                                         *)
(* A value is a slice: Set keeps the caller's and Get hands out the stored *)
(* one.  A slice is named for the call that made it; what it holds, the    *)
(* set of the calls that went into it, is in buf.  Callers do not write    *)
(* into a slice once they gave it or got it.                               *)
(***************************************************************************)
EXTENDS Integers

CONSTANTS
  Keys,     \* the keys in use
  Ops,      \* names for the calls, each made once
  Programs, \* which calls they may be
  MaxTime,  \* bound: when the clock stops
  None

\* A call: its method, its key (all of its keys for SetMany, the keys with the
\* prefix for Keys) and its ttl.
IsCall(c) ==
  /\ c \in [kind : {"get", "set", "setmany", "update", "delete", "keys"},
            keys : SUBSET Keys, ttl : Int]
  /\ c.kind \notin {"setmany", "keys"} => \E k \in Keys : c.keys = {k}

ASSUME MemAssumption ==
  /\ \A p \in Programs : DOMAIN p = Ops /\ \A o \in Ops : IsCall(p[o])
  /\ MaxTime \in Nat \ {0}
  /\ None \notin Ops /\ \A S \in (SUBSET Ops) \cup (SUBSET Keys) : None # S
  /\ None \notin [value : Ops, expiresAt : Nat] \cup [val : SUBSET Ops, exp : Nat]

VARIABLES
  call,    \* which call each of Ops is
  now,     \* the clock
  data,    \* s.data: the item of each key
  buf,     \* what the slice made by each call holds
  mu,      \* which call holds s.mu for writing
  pc,      \* where each call is, then how it ended
  res,     \* what Get or Keys returned, or Update passed to its function
  exp,     \* expiresAt as a SetMany computed it
  todo,    \* the items a SetMany has still to store
  closed,  \* s.close is closed
  cleaner  \* where the cleanup goroutine is

vars == <<call, now, data, buf, mu, pc, res, exp, todo, closed, cleaner>>
many == <<exp, todo>>
life == <<closed, cleaner>>

Ended == {"ok", "failed"}

Kind(o) == call[o].kind
KeyOf(o) == CHOOSE k \in call[o].keys : TRUE

Item == [value : Ops, expiresAt : Nat]

(***************************************************************************)
(* Fragments of the code; a mutant is a changed form in which some         *)
(* property below fails.                                                   *)
(***************************************************************************)

\* An item is kept at the very moment of its expiry.
IsExpired(i) == i.expiresAt # 0 /\ now > i.expiresAt
Found(k) == data[k] # None /\ ~IsExpired(data[k])

\* expiresAt is set only if the ttl is positive.  Mutant: it always is.
AlwaysExpires(o) == now + call[o].ttl
Expiry(o) == IF call[o].ttl > 0 THEN now + call[o].ttl ELSE 0

\* A new item replaces the stored one.  Mutant: the stored slice is written over.
Overwrite(o, k, e) ==
  IF data[k] = None
  THEN data' = [data EXCEPT ![k] = [value |-> o, expiresAt |-> e]] /\ UNCHANGED buf
  ELSE data' = [data EXCEPT ![k].expiresAt = e] /\ buf' = [buf EXCEPT ![data[k].value] = buf[o]]
Store(o, k, e) ==
  data' = [data EXCEPT ![k] = [value |-> o, expiresAt |-> e]] /\ UNCHANGED buf

\* Update holds s.mu while its function runs.  Mutant: it only reads under it.
LetGo(o) == UNCHANGED mu
Hold(o)  == mu' = o

\* The deferred s.mu.Unlock() of an Update that returns its function's error.
\* Mutant: it is not deferred.
StayLocked(o) == UNCHANGED mu
Unlock(o)     == mu' = None

\* After a tick the cleanup goroutine waits for the next.  Mutant: it returns.
TickOnce == cleaner' = "ended"
TickOn   == UNCHANGED cleaner

Init ==
  /\ call \in Programs
  /\ now = 1
  /\ data = [k \in Keys |-> None]
  /\ buf = [o \in Ops |-> IF Kind(o) \in {"set", "setmany"} THEN {o} ELSE {}]
  /\ mu = None
  /\ pc = [o \in Ops |-> "idle"]
  /\ res = [o \in Ops |-> None]
  /\ exp = [o \in Ops |-> 0]
  /\ todo = [o \in Ops |-> {}]
  /\ closed = FALSE
  /\ cleaner = "select"

-----------------------------------------------------------------------------
Goes(o, from, to) == pc[o] = from /\ pc' = [pc EXCEPT ![o] = to]

\* The call is made; it waits for s.mu.
Invoke(o) ==
  /\ Goes(o, "idle", "lock")
  /\ UNCHANGED <<call, now, data, buf, mu, res, many, life>>

Get(o) ==
  /\ Kind(o) = "get" /\ Goes(o, "lock", "ok")
  /\ mu = None
  /\ res' = [res EXCEPT ![o] = IF Found(KeyOf(o)) THEN data[KeyOf(o)].value ELSE None]
  /\ UNCHANGED <<call, now, data, buf, mu, many, life>>

Set(o) ==
  /\ Kind(o) = "set" /\ Goes(o, "lock", "ok")
  /\ mu = None
  /\ Store(o, KeyOf(o), Expiry(o))
  /\ UNCHANGED <<call, now, mu, res, many, life>>

Delete(o) ==
  /\ Kind(o) = "delete" /\ Goes(o, "lock", "ok")
  /\ mu = None
  /\ data' = [data EXCEPT ![KeyOf(o)] = None]
  /\ UNCHANGED <<call, now, buf, mu, res, many, life>>

ListKeys(o) ==
  /\ Kind(o) = "keys" /\ Goes(o, "lock", "ok")
  /\ mu = None
  /\ res' = [res EXCEPT ![o] = {k \in call[o].keys : Found(k)}]
  /\ UNCHANGED <<call, now, data, buf, mu, many, life>>

-----------------------------------------------------------------------------
SetManyEmpty(o) ==
  /\ Kind(o) = "setmany" /\ call[o].keys = {}
  /\ Goes(o, "lock", "ok")
  /\ UNCHANGED <<call, now, data, buf, mu, res, many, life>>

SetManyLocks(o) ==
  /\ Kind(o) = "setmany" /\ call[o].keys # {}
  /\ Goes(o, "lock", "items")
  /\ mu = None /\ mu' = o
  /\ exp' = [exp EXCEPT ![o] = Expiry(o)]
  /\ todo' = [todo EXCEPT ![o] = call[o].keys]
  /\ UNCHANGED <<call, now, data, buf, res, life>>

\* In Go's map order.
SetManyStores(o) ==
  /\ pc[o] = "items"
  /\ \E k \in todo[o] : /\ Store(o, k, exp[o])
                        /\ todo' = [todo EXCEPT ![o] = @ \ {k}]
  /\ UNCHANGED <<call, now, mu, pc, res, exp, life>>

SetManyReturns(o) ==
  /\ Goes(o, "items", "ok")
  /\ todo[o] = {}
  /\ mu' = None
  /\ UNCHANGED <<call, now, data, buf, res, many, life>>

-----------------------------------------------------------------------------
UpdateReads(o) ==
  /\ Kind(o) = "update" /\ Goes(o, "lock", "fn")
  /\ mu = None /\ Hold(o)
  /\ res' = [res EXCEPT ![o] = IF Found(KeyOf(o)) THEN data[KeyOf(o)].value ELSE None]
  /\ UNCHANGED <<call, now, data, buf, many, life>>

\* The function makes a slice of its own from the one it was given.
UpdateStores(o) ==
  /\ Goes(o, "fn", "ok")
  /\ mu \in {None, o} /\ mu' = None
  /\ data' = [data EXCEPT ![KeyOf(o)] = [value |-> o, expiresAt |-> Expiry(o)]]
  /\ buf' = [buf EXCEPT ![o] = (IF res[o] = None THEN {} ELSE buf[res[o]]) \cup {o}]
  /\ UNCHANGED <<call, now, res, many, life>>

UpdateFails(o) ==
  /\ Goes(o, "fn", "failed")
  /\ Unlock(o)
  /\ UNCHANGED <<call, now, data, buf, res, many, life>>

-----------------------------------------------------------------------------
(* The cleanup goroutine, Close, and the clock.                            *)

\* A tick, then removeExpired.  When s.close is closed as well, the select takes
\* either.
Sweep ==
  /\ cleaner = "select" /\ mu = None
  /\ data' = [k \in Keys |-> IF data[k] # None /\ IsExpired(data[k]) THEN None ELSE data[k]]
  /\ TickOn
  /\ UNCHANGED <<call, now, buf, mu, pc, res, many, closed>>

CleanerReturns ==
  /\ cleaner = "select" /\ closed
  /\ cleaner' = "ended"
  /\ UNCHANGED <<call, now, data, buf, mu, pc, res, many, closed>>

\* Close, called once: a second call panics.  Calls go on working after it.
Close ==
  /\ ~closed
  /\ closed' = TRUE
  /\ UNCHANGED <<call, now, data, buf, mu, pc, res, many, cleaner>>

Tick ==
  /\ now < MaxTime
  /\ now' = now + 1
  /\ UNCHANGED <<call, data, buf, mu, pc, res, many, life>>

OpStep(o) ==
  \/ Get(o) \/ Set(o) \/ Delete(o) \/ ListKeys(o)
  \/ SetManyEmpty(o) \/ SetManyLocks(o) \/ SetManyStores(o) \/ SetManyReturns(o)
  \/ UpdateReads(o) \/ UpdateStores(o) \/ UpdateFails(o)

Next ==
  \/ \E o \in Ops : Invoke(o) \/ OpStep(o)
  \/ Sweep \/ CleanerReturns \/ Close \/ Tick

Spec == Init /\ [][Next]_vars

\* s.mu is given to those that wait for it in turn, a function given to Update
\* returns, and the ticker fires until the goroutine ends.  Nobody has to call
\* Close.
Fairness ==
  /\ \A o \in Ops : SF_vars(OpStep(o))
  /\ SF_vars(Sweep) /\ WF_vars(CleanerReturns)

FairSpec == Spec /\ Fairness

-----------------------------------------------------------------------------
TypeOK ==
  /\ call \in Programs
  /\ now \in 1..MaxTime
  /\ data \in [Keys -> Item \cup {None}]
  /\ buf \in [Ops -> SUBSET Ops]
  /\ mu \in Ops \cup {None}
  /\ pc \in [Ops -> {"idle", "lock", "items", "fn"} \cup Ended]
  /\ res \in [Ops -> {None} \cup Ops \cup (SUBSET Keys)]
  /\ exp \in [Ops -> Nat]
  /\ todo \in [Ops -> SUBSET Keys]
  /\ closed \in BOOLEAN
  /\ cleaner \in {"select", "ended"}

\* A slice that Get handed out, or that Update passed to its function, keeps what
\* it holds: the store replaces items and never writes into one.
SlicesStay ==
  [][\A o \in Ops : Kind(o) \in {"get", "update"} /\ res[o] # None =>
       buf'[res[o]] = buf[res[o]]]_vars

\* Every call returns, whatever the functions of the Updates do.
CallsEnd == \A o \in Ops : (pc[o] = "lock") ~> (pc[o] \in Ended)

\* What has expired is removed or replaced, unless the store is closed.
ExpiredGoes ==
  \A k \in Keys : (data[k] # None /\ IsExpired(data[k])) ~>
                  (data[k] = None \/ ~IsExpired(data[k]) \/ closed)

-----------------------------------------------------------------------------
(* The store implements the interface: a SetMany takes effect when it has  *)
(* the lock, and a slice stands for what it holds.                         *)

Storing(k) == {o \in Ops : pc[o] = "items" /\ k \in todo[o]}

Entry(k) ==
  IF Storing(k) # {}
  THEN LET o == CHOOSE x \in Storing(k) : TRUE IN [val |-> buf[o], exp |-> exp[o]]
  ELSE IF data[k] = None THEN None
  ELSE [val |-> buf[data[k].value], exp |-> data[k].expiresAt]

Status(o) ==
  CASE pc[o] \in {"idle", "lock"} -> "idle"
    [] pc[o] \in {"items", "ok"} -> "ok"
    [] OTHER -> pc[o]

Got(o) ==
  IF Kind(o) = "update" /\ pc[o] # "fn" THEN None
  ELSE IF res[o] = None \/ Kind(o) = "keys" THEN res[o] ELSE buf[res[o]]

entry == [k \in Keys |-> Entry(k)]
st    == [o \in Ops |-> Status(o)]
got   == [o \in Ops |-> Got(o)]

Promise == INSTANCE KvStore WITH
             Exclusive <- TRUE, Remote <- FALSE, since <- [o \in Ops |-> 0],
             entry <- entry, st <- st, got <- got

ImplementsKvStore == Promise!Spec
=============================================================================
