--------------------------- MODULE MemStoreProofs ---------------------------
(***************************************************************************)
(* The in-memory store for every number of keys and calls: its types, and  *)
(* that it implements the interface.                                       *)
(***************************************************************************)
EXTENDS MemStore, TLAPS

\* The one call that runs a function or stores items holds the lock.
LockInv == \A o \in Ops : (pc[o] \in {"items", "fn"}) <=> (mu = o)

\* What each method leaves in the variables of its call.
KindInv ==
  \A o \in Ops :
    /\ pc[o] = "items" => Kind(o) = "setmany"
    /\ pc[o] = "fn" => Kind(o) = "update"
    /\ Kind(o) \in {"get", "update"} => res[o] \in Ops \cup {None}
    /\ Kind(o) = "keys" => res[o] \in {None} \cup (SUBSET Keys)
    /\ Kind(o) \in {"set", "setmany", "delete"} => res[o] = None
    /\ Kind(o) \in {"set", "setmany"} => buf[o] = {o}

\* Nobody has the slice that an Update has yet to make.
SliceInv ==
  \A o \in Ops : Kind(o) = "update" /\ pc[o] \in {"idle", "lock", "fn"} =>
    /\ \A k \in Keys : data[k] # None => data[k].value # o
    /\ \A x \in Ops : Kind(x) \in {"get", "update"} => res[x] # o

IInv == TypeOK /\ LockInv /\ KindInv /\ SliceInv

-----------------------------------------------------------------------------
(* Types.                                                                  *)

\* A call has the fields of IsCall, its key is one of Keys.
LEMMA CallFields ==
  ASSUME TypeOK, NEW o \in Ops
  PROVE  /\ Kind(o) \in {"get", "set", "setmany", "update", "delete", "keys"}
         /\ call[o].keys \in SUBSET Keys /\ call[o].ttl \in Int
         /\ Kind(o) \in {"get", "set", "update", "delete"} => KeyOf(o) \in Keys
                                                        /\ call[o].keys = {KeyOf(o)}
         /\ Expiry(o) \in Nat
  <1>1. IsCall(call[o])
    BY MemAssumption DEF TypeOK
  <1>2. /\ Kind(o) \in {"get", "set", "setmany", "update", "delete", "keys"}
        /\ call[o].keys \in SUBSET Keys /\ call[o].ttl \in Int
    BY <1>1 DEF IsCall, Kind
  <1>3. ASSUME Kind(o) \in {"get", "set", "update", "delete"}
        PROVE  KeyOf(o) \in Keys /\ call[o].keys = {KeyOf(o)}
    <2>1. PICK k \in Keys : call[o].keys = {k}
      BY <1>1, <1>3 DEF IsCall, Kind
    <2> QED BY <2>1 DEF KeyOf
  <1>4. Expiry(o) \in Nat
    BY <1>2, MemAssumption DEF TypeOK, Expiry
  <1> QED BY <1>2, <1>3, <1>4

\* Storing an item keeps the types of the map and leaves the slices alone.
LEMMA StoreType ==
  ASSUME TypeOK, NEW o \in Ops, NEW k \in Keys, NEW e \in Nat, Store(o, k, e)
  PROVE  data' \in [Keys -> Item \cup {None}] /\ buf' \in [Ops -> SUBSET Ops]
  BY DEF TypeOK, Store, Item

\* Every variable keeps its type.
LEMMA TypeStep == TypeOK /\ KindInv /\ [Next]_vars => TypeOK'
  <1> SUFFICES ASSUME TypeOK, KindInv, [Next]_vars PROVE TypeOK'
    OBVIOUS
  <1>1. ASSUME NEW o \in Ops, Invoke(o) PROVE TypeOK'
    BY <1>1 DEF TypeOK, Invoke, Goes, many, life
  <1>2. ASSUME NEW o \in Ops, Get(o) PROVE TypeOK'
    <2>1. res' \in [Ops -> {None} \cup Ops \cup (SUBSET Keys)]
      BY <1>2, CallFields DEF TypeOK, Get, Found, Item
    <2> QED BY <1>2, <2>1 DEF TypeOK, Get, Goes, many, life, Ended
  <1>3. ASSUME NEW o \in Ops, Set(o) PROVE TypeOK'
    <2>1. data' \in [Keys -> Item \cup {None}] /\ buf' \in [Ops -> SUBSET Ops]
      BY <1>3, CallFields, StoreType DEF Set
    <2> QED BY <1>3, <2>1 DEF TypeOK, Set, Goes, many, life, Ended
  <1>4. ASSUME NEW o \in Ops, Delete(o) PROVE TypeOK'
    BY <1>4 DEF TypeOK, Delete, Goes, many, life, Ended
  <1>5. ASSUME NEW o \in Ops, ListKeys(o) PROVE TypeOK'
    <2>1. {k \in call[o].keys : Found(k)} \in SUBSET Keys
      BY CallFields
    <2> QED BY <1>5, <2>1 DEF TypeOK, ListKeys, Goes, many, life, Ended
  <1>6. ASSUME NEW o \in Ops, SetManyEmpty(o) PROVE TypeOK'
    BY <1>6 DEF TypeOK, SetManyEmpty, Goes, many, life, Ended
  <1>7. ASSUME NEW o \in Ops, SetManyLocks(o) PROVE TypeOK'
    BY <1>7, CallFields DEF TypeOK, SetManyLocks, Goes, life
  <1>8. ASSUME NEW o \in Ops, SetManyStores(o) PROVE TypeOK'
    <2>1. data' \in [Keys -> Item \cup {None}] /\ buf' \in [Ops -> SUBSET Ops]
      BY <1>8, StoreType DEF SetManyStores, TypeOK
    <2>2. todo' \in [Ops -> SUBSET Keys]
      BY <1>8 DEF SetManyStores, TypeOK
    <2> QED BY <1>8, <2>1, <2>2 DEF TypeOK, SetManyStores, life
  <1>9. ASSUME NEW o \in Ops, SetManyReturns(o) PROVE TypeOK'
    BY <1>9 DEF TypeOK, SetManyReturns, Goes, many, life, Ended
  <1>10. ASSUME NEW o \in Ops, UpdateReads(o) PROVE TypeOK'
    <2>1. res' \in [Ops -> {None} \cup Ops \cup (SUBSET Keys)]
      BY <1>10, CallFields DEF TypeOK, UpdateReads, Found, Item
    <2> QED BY <1>10, <2>1 DEF TypeOK, UpdateReads, Hold, Goes, many, life
  <1>11. ASSUME NEW o \in Ops, UpdateFails(o) PROVE TypeOK'
    BY <1>11 DEF TypeOK, UpdateFails, Unlock, Goes, many, life, Ended
  <1>12. Sweep => TypeOK'
    BY DEF TypeOK, Sweep, TickOn, many, life
  <1>13. CleanerReturns \/ Close => TypeOK'
    BY DEF TypeOK, CleanerReturns, Close, many, life
  <1>14. Tick => TypeOK'
    BY MemAssumption DEF TypeOK, Tick, many, life
  <1>15. UNCHANGED vars => TypeOK'
    BY DEF TypeOK, vars
  <1>16. ASSUME NEW o \in Ops, UpdateStores(o) PROVE TypeOK'
    <2>1. /\ data' \in [Keys -> Item \cup {None}]
          /\ (IF res[o] = None THEN {} ELSE buf[res[o]]) \cup {o} \in SUBSET Ops
      <3>1. Kind(o) = "update" /\ res[o] \in Ops \cup {None}
        BY <1>16 DEF KindInv, UpdateStores, Goes
      <3>2. KeyOf(o) \in Keys /\ Expiry(o) \in Nat
        BY <3>1, CallFields
      <3> QED BY <1>16, <3>1, <3>2 DEF UpdateStores, TypeOK, Item
    <2> QED BY <1>16, <2>1 DEF TypeOK, UpdateStores, Goes, many, life, Ended
  <1> QED BY <1>1, <1>2, <1>3, <1>4, <1>5, <1>6, <1>7, <1>8, <1>9, <1>10, <1>11, <1>12,
             <1>13, <1>14, <1>15, <1>16 DEF Next, OpStep

-----------------------------------------------------------------------------
(* The invariant.                                                          *)

\* The lock changes hands only between calls: LockInv is inductive.
LEMMA LockStep == TypeOK /\ LockInv /\ [Next]_vars => LockInv'
  <1> SUFFICES ASSUME TypeOK, LockInv, [Next]_vars PROVE LockInv'
    OBVIOUS
  <1> USE MemAssumption DEF LockInv, TypeOK, Goes, Ended
  <1>1. ASSUME NEW o \in Ops, Invoke(o) PROVE LockInv'
    BY <1>1 DEF Invoke
  <1>2. ASSUME NEW o \in Ops, Get(o) \/ Set(o) \/ Delete(o) \/ ListKeys(o) PROVE LockInv'
    BY <1>2 DEF Get, Set, Delete, ListKeys
  <1>3. ASSUME NEW o \in Ops, SetManyEmpty(o) \/ SetManyLocks(o) PROVE LockInv'
    BY <1>3 DEF SetManyEmpty, SetManyLocks
  <1>4. ASSUME NEW o \in Ops, SetManyStores(o) PROVE LockInv'
    BY <1>4 DEF SetManyStores
  <1>5. ASSUME NEW o \in Ops, SetManyReturns(o) PROVE LockInv'
    BY <1>5 DEF SetManyReturns
  <1>6. ASSUME NEW o \in Ops, UpdateReads(o) PROVE LockInv'
    BY <1>6 DEF UpdateReads, Hold
  <1>7. ASSUME NEW o \in Ops, UpdateStores(o) \/ UpdateFails(o) PROVE LockInv'
    BY <1>7 DEF UpdateStores, UpdateFails, Unlock
  <1>8. Sweep \/ CleanerReturns \/ Close \/ Tick \/ UNCHANGED vars => LockInv'
    BY DEF Sweep, CleanerReturns, Close, Tick, vars
  <1> QED BY <1>1, <1>2, <1>3, <1>4, <1>5, <1>6, <1>7, <1>8 DEF Next, OpStep

\* The calls are what they are.
LEMMA CallStays ==
  ASSUME [Next]_vars, NEW o \in Ops
  PROVE  call' = call /\ Kind(o)' = Kind(o) /\ KeyOf(o)' = KeyOf(o)
  <1>1. call' = call
    BY DEF Next, OpStep, Invoke, Get, Set, Delete, ListKeys, SetManyEmpty, SetManyLocks,
           SetManyStores, SetManyReturns, UpdateReads, UpdateStores, UpdateFails, Sweep,
           CleanerReturns, Close, Tick, vars
  <1> QED BY <1>1 DEF Kind, KeyOf

\* The part of KindInv that is about one call, in the next state.
LEMMA KindStep == TypeOK /\ LockInv /\ KindInv /\ [Next]_vars => KindInv'
  <1> DEFINE Goal(x) == /\ pc'[x] = "items" => Kind(x) = "setmany"
                        /\ pc'[x] = "fn" => Kind(x) = "update"
                        /\ Kind(x) \in {"get", "update"} => res'[x] \in Ops \cup {None}
                        /\ Kind(x) = "keys" => res'[x] \in {None} \cup (SUBSET Keys)
                        /\ Kind(x) \in {"set", "setmany", "delete"} => res'[x] = None
                        /\ Kind(x) \in {"set", "setmany"} => buf'[x] = {x}
  <1> SUFFICES ASSUME TypeOK, LockInv, KindInv, [Next]_vars, NEW x \in Ops PROVE Goal(x)
    BY CallStays DEF KindInv
  <1> USE DEF KindInv, TypeOK, Goes, many, life
  <1>1. CASE \E o \in Ops : Invoke(o) \/ SetManyEmpty(o) \/ SetManyLocks(o) \/ SetManyReturns(o)
                              \/ Delete(o)
    BY <1>1 DEF Invoke, SetManyEmpty, SetManyLocks, SetManyReturns, Delete
  <1>2. ASSUME NEW o \in Ops, Get(o) \/ UpdateReads(o) PROVE Goal(x)
    <2>1. Kind(o) \in {"get", "update"} /\ (IF Found(KeyOf(o)) THEN data[KeyOf(o)].value ELSE None) \in Ops \cup {None}
      BY <1>2, CallFields DEF Get, UpdateReads, Found, Item
    <2> QED BY <1>2, <2>1 DEF Get, UpdateReads
  <1>3. ASSUME NEW o \in Ops, Set(o) \/ SetManyStores(o) PROVE Goal(x)
    BY <1>3 DEF Set, SetManyStores, Store
  <1>4. ASSUME NEW o \in Ops, ListKeys(o) PROVE Goal(x)
    <2>1. {k \in call[o].keys : Found(k)} \in SUBSET Keys
      BY CallFields
    <2> QED BY <1>4, <2>1 DEF ListKeys
  <1>5. ASSUME NEW o \in Ops, UpdateStores(o) \/ UpdateFails(o) PROVE Goal(x)
    BY <1>5 DEF UpdateStores, UpdateFails
  <1>6. CASE Sweep \/ CleanerReturns \/ Close \/ Tick \/ UNCHANGED vars
    BY <1>6 DEF Sweep, CleanerReturns, Close, Tick, vars
  <1> QED BY <1>1, <1>2, <1>3, <1>4, <1>5, <1>6 DEF Next, OpStep

\* An Update makes its slice in its last step: until then nobody has it.
LEMMA SliceStep == TypeOK /\ LockInv /\ KindInv /\ SliceInv /\ [Next]_vars => SliceInv'
  <1> DEFINE Unmade(o) == Kind(o) = "update" /\ pc'[o] \in {"idle", "lock", "fn"}
             Goal(o) == /\ \A k \in Keys : data'[k] # None => data'[k].value # o
                        /\ \A x \in Ops : Kind(x) \in {"get", "update"} => res'[x] # o
  <1> SUFFICES ASSUME TypeOK, LockInv, KindInv, SliceInv, [Next]_vars, NEW o \in Ops, Unmade(o)
               PROVE  Goal(o)
    BY CallStays DEF SliceInv
  <1> USE DEF SliceInv, KindInv, TypeOK, Goes, many, life, Ended
  <1>1. CASE \E x \in Ops : \/ Invoke(x) \/ SetManyEmpty(x) \/ SetManyLocks(x)
                             \/ SetManyReturns(x) \/ UpdateFails(x)
    BY <1>1 DEF Invoke, SetManyEmpty, SetManyLocks, SetManyReturns, UpdateFails
  <1>2. ASSUME NEW x \in Ops, Get(x) \/ UpdateReads(x) PROVE Goal(o)
    <2>1. /\ res' = [res EXCEPT ![x] = IF Found(KeyOf(x)) THEN data[KeyOf(x)].value ELSE None]
          /\ KeyOf(x) \in Keys /\ data' = data
          /\ pc[o] \in {"idle", "lock", "fn"}
      BY <1>2, CallFields DEF Get, UpdateReads
    <2>2. \A k \in Keys : data[k] # None => data[k].value # o
      BY <2>1
    <2>3. (IF Found(KeyOf(x)) THEN data[KeyOf(x)].value ELSE None) # o
      BY <2>1, <2>2, MemAssumption DEF Found
    <2> QED BY <2>1, <2>2, <2>3
  <1>3. ASSUME NEW x \in Ops, Set(x) \/ SetManyStores(x) PROVE Goal(o)
    <2>1. Kind(x) # "update" /\ pc[o] \in {"idle", "lock", "fn"} /\ res' = res
      BY <1>3 DEF Set, SetManyStores
    <2>2. PICK k \in Keys : \E e : Store(x, k, e)
      BY <1>3, CallFields DEF Set, SetManyStores
    <2> QED BY <2>1, <2>2 DEF Store
  <1>4. ASSUME NEW x \in Ops, Delete(x) PROVE Goal(o)
    BY <1>4 DEF Delete
  <1>5. ASSUME NEW x \in Ops, ListKeys(x) PROVE Goal(o)
    BY <1>5 DEF ListKeys
  <1>6. ASSUME NEW x \in Ops, UpdateStores(x) PROVE Goal(o)
    BY <1>6 DEF UpdateStores
  <1>7. CASE Sweep
    BY <1>7 DEF Sweep
  <1>8. CASE CleanerReturns \/ Close \/ Tick \/ UNCHANGED vars
    BY <1>8 DEF CleanerReturns, Close, Tick, vars
  <1> QED BY <1>1, <1>2, <1>3, <1>4, <1>5, <1>6, <1>7, <1>8 DEF Next, OpStep

\* The invariant holds before the first call.
LEMMA InitInv == Init => IInv
  <1> SUFFICES ASSUME Init PROVE IInv
    OBVIOUS
  <1>1. \A o \in Ops : Kind(o) \in {"set", "setmany"} => buf[o] = {o}
    BY DEF Init
  <1>2. TypeOK
    <2>1. now \in 1..MaxTime
      BY MemAssumption DEF Init
    <2>2. buf \in [Ops -> SUBSET Ops]
      BY DEF Init
    <2>3. /\ data \in [Keys -> Item \cup {None}]
          /\ exp \in [Ops -> Nat] /\ todo \in [Ops -> SUBSET Keys]
      BY DEF Init
    <2>4. /\ res \in [Ops -> {None} \cup Ops \cup (SUBSET Keys)]
          /\ pc \in [Ops -> {"idle", "lock", "items", "fn"} \cup Ended]
      BY DEF Init
    <2> QED BY <2>1, <2>2, <2>3, <2>4 DEF Init, TypeOK
  <1> QED BY <1>1, <1>2, MemAssumption DEF Init, IInv, LockInv, KindInv, SliceInv

\* IInv is inductive.
THEOREM Inductive == Spec => []IInv
  <1>1. IInv /\ [Next]_vars => IInv'
    BY TypeStep, LockStep, KindStep, SliceStep DEF IInv
  <1> QED BY <1>1, InitInv, PTL DEF Spec

\* The types of the store's state, for any number of keys and calls.
THEOREM TypeCorrect == Spec => []TypeOK
  <1>1. IInv => TypeOK
    BY DEF IInv
  <1> QED BY <1>1, Inductive, PTL

-----------------------------------------------------------------------------
(* Slices, and the interface.                                              *)

\* A slice that was handed out keeps what it holds: only an Update changes one, the
\* one it makes, which nobody has yet.
THEOREM SlicesKept == Spec => SlicesStay
  <1> DEFINE Kept == \A o \in Ops : Kind(o) \in {"get", "update"} /\ res[o] # None =>
                       buf'[res[o]] = buf[res[o]]
  <1>1. IInv /\ [Next]_vars => Kept
    <2> SUFFICES ASSUME IInv, [Next]_vars, NEW o \in Ops, Kind(o) \in {"get", "update"}, res[o] # None
                 PROVE  buf'[res[o]] = buf[res[o]]
      OBVIOUS
    <2>1. res[o] \in Ops
      BY DEF IInv, KindInv
    <2>2. ASSUME NEW x \in Ops, UpdateStores(x) PROVE buf'[res[o]] = buf[res[o]]
      <3>1. res[o] # x
        BY <2>2 DEF IInv, SliceInv, KindInv, UpdateStores, Goes
      <3> QED BY <2>1, <2>2, <3>1 DEF IInv, TypeOK, UpdateStores
    <2>3. CASE ~\E x \in Ops : UpdateStores(x)
      <3>1. buf' = buf
        BY <2>3 DEF Next, OpStep, Invoke, Get, Set, Store, Delete, ListKeys, SetManyEmpty,
                    SetManyLocks, SetManyStores, SetManyReturns, UpdateReads, UpdateFails,
                    Sweep, CleanerReturns, Close, Tick, vars
      <3> QED BY <3>1
    <2> QED BY <2>2, <2>3
  <1>2. [Next]_vars /\ IInv => [Kept]_vars
    BY <1>1
  <1> QED BY <1>2, Inductive, PTL DEF Spec, SlicesStay

-----------------------------------------------------------------------------
(* The refinement, action by action.  Entry(k) differs from what data has  *)
(* for k only while a SetMany that holds the lock has yet to store it.     *)

Plain(k) == IF data[k] = None THEN None
            ELSE [val |-> buf[data[k].value], exp |-> data[k].expiresAt]

\* While no SetMany runs, the entries are those of data.
NonePending ==
  (mu = None \/ \E x \in Ops : mu = x /\ pc[x] # "items") => \A k \in Keys : Entry(k) = Plain(k)

\* A SetMany that runs is the only one.
OnePending ==
  \A x \in Ops, k \in Keys : pc[x] = "items" =>
    Entry(k) = IF k \in todo[x] THEN [val |-> buf[x], exp |-> exp[x]] ELSE Plain(k)

\* The lock is held by whoever stores items: when it is not, nothing is pending.
LEMMA NoneIsPending == LockInv => NonePending
  <1> SUFFICES ASSUME LockInv, mu = None \/ \E x \in Ops : mu = x /\ pc[x] # "items",
                      NEW k \in Keys
               PROVE  Entry(k) = Plain(k)
    BY DEF NonePending
  <1>1. Storing(k) = {}
    BY MemAssumption DEF Storing, LockInv
  <1> QED BY <1>1 DEF Entry, Plain

\* A SetMany that runs holds the lock, so there is one at most.
LEMMA OneIsPending == LockInv => OnePending
  <1> SUFFICES ASSUME LockInv, NEW x \in Ops, NEW k \in Keys, pc[x] = "items"
               PROVE  Entry(k) = IF k \in todo[x] THEN [val |-> buf[x], exp |-> exp[x]]
                                 ELSE Plain(k)
    BY DEF OnePending
  <1>1. Storing(k) = IF k \in todo[x] THEN {x} ELSE {}
    BY DEF Storing, LockInv
  <1> QED BY <1>1 DEF Entry, Plain

\* Both, before and after a step.
LEMMA Pending == IInv /\ IInv' => /\ NonePending /\ NonePending'
                                  /\ OnePending /\ OnePending'
  <1>1. IInv => LockInv
    BY DEF IInv
  <1> QED BY <1>1, NoneIsPending, OneIsPending, PTL

\* The entries stay when the items, the slices and the running SetMany do.
LEMMA EntryStays ==
  ASSUME data' = data, buf' = buf, exp' = exp, todo' = todo,
         \A x \in Ops : pc'[x] = "items" <=> pc[x] = "items"
  PROVE  entry' = entry
  <1>1. ASSUME NEW k \in Keys PROVE Storing(k)' = Storing(k)
    BY DEF Storing
  <1>2. ASSUME NEW k \in Keys PROVE Entry(k)' = Entry(k)
    BY <1>1 DEF Entry
  <1> QED BY <1>2 DEF entry

\* What was returned stays when the results and the slices do, and no function
\* starts or ends.
LEMMA GotStays ==
  ASSUME [Next]_vars, res' = res, buf' = buf, \A x \in Ops : pc'[x] = "fn" <=> pc[x] = "fn"
  PROVE  got' = got
  <1>1. ASSUME NEW x \in Ops PROVE Got(x)' = Got(x)
    BY CallStays DEF Got
  <1> QED BY <1>1 DEF got

\* What a call with the lock finds under a key is a reading of it.
LEMMA Reading ==
  ASSUME IInv, NEW k \in Keys, Entry(k) = Plain(k)
  PROVE  /\ Found(k) => Promise!MayLive(Entry(k), now) /\ Entry(k).val = buf[data[k].value]
         /\ ~Found(k) => ~Promise!MustLive(Entry(k), now)
         /\ Promise!MustLive(Entry(k), now) => Found(k)
  <1>1. CASE data[k] = None
    BY <1>1 DEF Plain, Found, Promise!MustLive
  <1>2. CASE data[k] # None
    <2>1. data[k] \in Item /\ now \in Nat
      BY <1>2 DEF IInv, TypeOK
    <2>2. Entry(k) = [val |-> buf[data[k].value], exp |-> data[k].expiresAt]
      BY <1>2 DEF Plain
    <2>3. Entry(k) # None
      <3>1. Entry(k) \in [val : SUBSET Ops, exp : Nat]
        BY <2>1, <2>2 DEF Item, IInv, TypeOK
      <3> QED BY <3>1, MemAssumption
    <2> QED BY <1>2, <2>1, <2>2, <2>3 DEF Found, IsExpired, Item, Promise!MayLive, Promise!MustLive
  <1> QED BY <1>1, <1>2

\* The status that a call has at p.
Shown(p) == IF p \in {"idle", "lock"} THEN "idle" ELSE IF p \in {"items", "ok"} THEN "ok" ELSE p

\* A step of a call leaves the status of the others, and changes its own as its pc.
LEMMA StatusMoves ==
  ASSUME TypeOK, NEW o \in Ops, NEW from, NEW to, pc[o] = from, pc' = [pc EXCEPT ![o] = to]
  PROVE  /\ Promise!Becomes(o, Shown(from), Shown(to))
         /\ Promise!Ends(o, Shown(from), Shown(to))
  <1>1. pc'[o] = to /\ \A x \in Ops \ {o} : pc'[x] = pc[x]
    BY DEF TypeOK
  <1>2. \A x \in Ops \ {o} : Status(x)' = Status(x)
    BY <1>1 DEF Status
  <1>3. Status(o)' = Shown(to) /\ Status(o) = Shown(from)
    BY <1>1 DEF Status, Shown
  <1> QED BY <1>2, <1>3 DEF st, Promise!Becomes, Promise!Ends

\* A function runs under the lock: no key is kept by anybody else.
LEMMA OneHolder ==
  ASSUME IInv, NEW o, mu \in {None, o}
  PROVE  \A x \in Ops \ {o} : Promise!Claimed(x) = {}
  <1>1. ASSUME NEW x \in Ops \ {o} PROVE st[x] # "fn"
    BY <1>1, MemAssumption DEF IInv, TypeOK, LockInv, st, Status, Ended
  <1> QED BY <1>1 DEF Promise!Claimed

\* Nobody's function runs when the lock is free.
LEMMA NoneClaimed ==
  ASSUME IInv, mu = None
  PROVE  \A x \in Ops : Promise!Claimed(x) = {}
  BY OneHolder, MemAssumption

\* So the keys of a call that has the lock, or that has no keys, are nobody's.
LEMMA Claims ==
  ASSUME IInv, NEW o \in Ops, mu \in {None, o} \/ call[o].keys = {}
  PROVE  Promise!Unclaimed(o)
  BY OneHolder DEF Promise!Unclaimed

\* The calls seen by the interface are those of the store, and go by the clock.
LEMMA SameCalls ==
  ASSUME NEW o \in Ops
  PROVE  /\ Promise!Kind(o) = Kind(o) /\ Promise!KeyOf(o) = KeyOf(o)
         /\ Promise!Expiry(o, now) = Expiry(o) /\ Promise!Times(o) = {now}
  BY DEF Promise!Kind, Kind, Promise!KeyOf, KeyOf, Promise!Expiry, Expiry, Promise!Times

\* A lookup by a call with the lock: Get, and the reading half of Update.
LEMMA LookupStep ==
  ASSUME IInv, IInv', [Next]_vars, NEW o \in Ops, Kind(o) \in {"get", "update"}, mu = None,
         UNCHANGED <<call, now, data, buf, exp, todo>>,
         res' = [res EXCEPT ![o] = IF Found(KeyOf(o)) THEN data[KeyOf(o)].value ELSE None],
         pc' = [pc EXCEPT ![o] = IF Kind(o) = "get" THEN "ok" ELSE "fn"], pc[o] = "lock"
  PROVE  /\ entry' = entry
         /\ \E v \in Promise!Readings(KeyOf(o), now) : got' = [got EXCEPT ![o] = v]
  <1>1. entry' = entry
    <2>1. \A x \in Ops : pc'[x] = "items" <=> pc[x] = "items"
      BY DEF IInv, TypeOK
    <2> QED BY <2>1, EntryStays
  <1>2. KeyOf(o) \in Keys
    BY CallFields DEF IInv
  <1> DEFINE v == IF Found(KeyOf(o)) THEN buf[data[KeyOf(o)].value] ELSE None
  <1>3. v \in Promise!Readings(KeyOf(o), now)
    <2>1. Entry(KeyOf(o)) = Plain(KeyOf(o))
      BY <1>2, Pending DEF NonePending
    <2>2. entry[KeyOf(o)] = Entry(KeyOf(o))
      BY <1>2 DEF entry
    <2> QED BY <1>2, <2>1, <2>2, Reading DEF Promise!Readings
  <1>4. got' = [got EXCEPT ![o] = v]
    <2>1. ASSUME NEW x \in Ops \ {o} PROVE Got(x)' = Got(x)
      BY <2>1, CallStays DEF IInv, TypeOK, Got
    <2>2. Got(o)' = v
      <3>1. res'[o] = IF Found(KeyOf(o)) THEN data[KeyOf(o)].value ELSE None
        BY DEF IInv, TypeOK
      <3>2. Found(KeyOf(o)) => data[KeyOf(o)].value \in Ops
        BY <1>2 DEF IInv, TypeOK, Found, Item
      <3>3. Kind(o)' # "keys" /\ (Kind(o)' = "update" => pc'[o] = "fn")
        BY CallStays DEF IInv, TypeOK
      <3> QED BY <3>1, <3>2, <3>3, MemAssumption DEF Got
    <2> QED BY <2>1, <2>2 DEF got
  <1> QED BY <1>1, <1>3, <1>4

\* A Get, and the reading half of an Update, return a reading of the key.
LEMMA GetStep ==
  ASSUME IInv, IInv', [Next]_vars, NEW o \in Ops, Get(o) \/ UpdateReads(o)
  PROVE  Promise!Get(o) \/ Promise!UpdateReads(o)
  <1>1. /\ Kind(o) \in {"get", "update"} /\ mu = None /\ pc[o] = "lock"
        /\ UNCHANGED <<call, now, data, buf, exp, todo>>
        /\ res' = [res EXCEPT ![o] = IF Found(KeyOf(o)) THEN data[KeyOf(o)].value ELSE None]
    BY DEF Get, UpdateReads, Goes, many
  <1>2. pc' = [pc EXCEPT ![o] = IF Kind(o) = "get" THEN "ok" ELSE "fn"]
    BY DEF Get, UpdateReads, Goes
  <1>3. entry' = entry /\ \E v \in Promise!Readings(KeyOf(o), now) : got' = [got EXCEPT ![o] = v]
    BY <1>1, <1>2, LookupStep
  <1>4. Promise!Unclaimed(o)
    BY <1>1, Claims
  <1>5. CASE Kind(o) = "get"
    <2>1. Promise!Ends(o, "idle", "ok")
      BY <1>1, <1>2, <1>5, StatusMoves DEF IInv, Shown
    <2> QED BY <1>1, <1>3, <1>5, <2>1, SameCalls DEF Promise!Get
  <1>6. CASE Kind(o) = "update"
    <2>1. Promise!Becomes(o, "idle", "fn")
      BY <1>1, <1>2, <1>6, StatusMoves DEF IInv, Shown
    <2> QED BY <1>1, <1>3, <1>4, <1>6, <2>1, SameCalls DEF Promise!UpdateReads
  <1> QED BY <1>1, <1>5, <1>6

\* A Set changes the entry of its key, and those of other keys are what they were.
LEMMA SetStep ==
  ASSUME IInv, IInv', [Next]_vars, NEW o \in Ops, Set(o)
  PROVE  Promise!Set(o)
  <1>1. /\ Kind(o) = "set" /\ mu = None /\ mu' = None /\ buf' = buf /\ res' = res
        /\ UNCHANGED <<call, now>>
        /\ data' = [data EXCEPT ![KeyOf(o)] = [value |-> o, expiresAt |-> Expiry(o)]]
        /\ Promise!Ends(o, "idle", "ok")
        /\ \A x \in Ops : pc'[x] = "fn" <=> pc[x] = "fn"
    <2>1. pc[o] = "lock" /\ pc' = [pc EXCEPT ![o] = "ok"]
      BY DEF Set, Goes
    <2>2. Promise!Ends(o, "idle", "ok")
      BY <2>1, StatusMoves DEF IInv, Shown
    <2>3. \A x \in Ops : pc'[x] = "fn" <=> pc[x] = "fn"
      BY <2>1 DEF IInv, TypeOK
    <2> QED BY <2>2, <2>3 DEF Set, Store
  <1>2. KeyOf(o) \in Keys /\ call[o].keys = {KeyOf(o)} /\ buf[o] = {o}
    BY <1>1, CallFields DEF IInv, KindInv
  <1>3. ASSUME NEW k \in Keys
        PROVE  entry'[k] = IF k \in call[o].keys THEN [val |-> {o}, exp |-> Expiry(o)] ELSE entry[k]
    <2>1. Entry(k) = Plain(k)
      BY <1>1, Pending DEF NonePending
    <2>2. Entry(k)' = Plain(k)'
      BY <1>1, Pending DEF NonePending
    <2>3. CASE k = KeyOf(o)
      <3>1. data'[k] = [value |-> o, expiresAt |-> Expiry(o)] /\ data'[k] # None
        <4>1. [value |-> o, expiresAt |-> Expiry(o)] \in Item
          BY CallFields DEF Item, IInv
        <4> QED BY <4>1, <1>1, <2>3, MemAssumption DEF IInv, TypeOK, Item
      <3> QED BY <1>1, <1>2, <2>2, <2>3, <3>1 DEF Plain, entry
    <2>4. CASE k # KeyOf(o)
      BY <1>1, <1>2, <2>1, <2>2, <2>4 DEF Plain, entry, IInv, TypeOK
    <2> QED BY <2>3, <2>4
  <1>4. Promise!Put(o, {o})
    BY <1>3, SameCalls DEF Promise!Put, entry
  <1>5. got' = got
    BY <1>1, GotStays
  <1>6. Promise!Unclaimed(o)
    BY <1>1, Claims
  <1> QED BY <1>1, <1>4, <1>5, <1>6, SameCalls DEF Promise!Set, Promise!Answers

\* A SetMany takes effect when it has the lock, for all of its keys.
LEMMA SetManyStep ==
  ASSUME IInv, IInv', [Next]_vars, NEW o \in Ops, SetManyEmpty(o) \/ SetManyLocks(o)
  PROVE  Promise!Set(o)
  <1>1. /\ Kind(o) = "setmany" /\ pc[o] = "lock" /\ data' = data /\ buf' = buf /\ res' = res
        /\ UNCHANGED <<call, now>>
    BY DEF SetManyEmpty, SetManyLocks, Goes
  <1>2. /\ Promise!Ends(o, "idle", "ok")
        /\ \A x \in Ops : pc'[x] = "fn" <=> pc[x] = "fn"
    <2>1. pc' = [pc EXCEPT ![o] = "ok"] \/ pc' = [pc EXCEPT ![o] = "items"]
      BY DEF SetManyEmpty, SetManyLocks, Goes
    <2>2. Promise!Ends(o, "idle", "ok")
      BY <1>1, <2>1, StatusMoves DEF IInv, Shown
    <2> QED BY <1>1, <2>1, <2>2 DEF IInv, TypeOK
  <1>3. Promise!Unclaimed(o)
    BY Claims DEF SetManyEmpty, SetManyLocks
  <1>4. got' = got
    BY <1>1, <1>2, GotStays
  <1>5. ASSUME SetManyEmpty(o) PROVE Promise!Put(o, {o})
    <2>1. \A x \in Ops : pc'[x] = "items" <=> pc[x] = "items"
      BY <1>5 DEF SetManyEmpty, Goes, IInv, TypeOK
    <2>2. entry' = entry /\ call[o].keys = {}
      BY <1>5, <2>1, EntryStays DEF SetManyEmpty, many
    <2> QED BY <2>2, SameCalls DEF Promise!Put, entry
  <1>6. ASSUME SetManyLocks(o) PROVE Promise!Put(o, {o})
    <2>1. /\ mu = None /\ pc'[o] = "items" /\ todo'[o] = call[o].keys /\ exp'[o] = Expiry(o)
          /\ buf[o] = {o}
      BY <1>1, <1>6 DEF SetManyLocks, Goes, IInv, TypeOK, KindInv
    <2>2. ASSUME NEW k \in Keys
          PROVE  entry'[k] = IF k \in call[o].keys THEN [val |-> {o}, exp |-> Expiry(o)]
                             ELSE entry[k]
      <3>1. Entry(k) = Plain(k)
        BY <2>1, Pending DEF NonePending
      <3>2. Entry(k)' = IF k \in todo'[o] THEN [val |-> buf'[o], exp |-> exp'[o]] ELSE Plain(k)'
        BY <2>1, Pending DEF OnePending
      <3> QED BY <1>1, <2>1, <3>1, <3>2 DEF Plain, entry
    <2> QED BY <2>2, SameCalls DEF Promise!Put, entry
  <1> QED BY <1>1, <1>2, <1>3, <1>4, <1>5, <1>6, SameCalls DEF Promise!Set, Promise!Answers

\* A SetMany that goes on or returns shows nothing of it.
LEMMA StoringStep ==
  ASSUME IInv, IInv', [Next]_vars, NEW o \in Ops, SetManyStores(o) \/ SetManyReturns(o)
  PROVE  UNCHANGED Promise!vars
  <1>1. /\ pc[o] = "items" /\ Kind(o) = "setmany" /\ mu = o /\ buf[o] = {o}
        /\ buf' = buf /\ res' = res /\ UNCHANGED <<call, now>>
    BY DEF SetManyStores, SetManyReturns, Goes, Store, IInv, KindInv, LockInv, many
  <1>2. \A x \in Ops : pc'[x] = pc[x] \/ (x = o /\ pc'[x] = "ok")
    BY <1>1 DEF SetManyStores, SetManyReturns, Goes, IInv, TypeOK
  <1>3. got' = got /\ st' = st
    <2>1. \A x \in Ops : pc'[x] = "fn" <=> pc[x] = "fn"
      BY <1>1, <1>2
    <2> QED BY <1>1, <1>2, <2>1, GotStays DEF st, Status
  <1>4. ASSUME SetManyStores(o), NEW k \in Keys PROVE Entry(k)' = Entry(k)
    <2>1. PICK i \in todo[o] : Store(o, i, exp[o]) /\ todo' = [todo EXCEPT ![o] = @ \ {i}]
      BY <1>4 DEF SetManyStores
    <2>2. pc' = pc /\ exp' = exp
      BY <1>4 DEF SetManyStores
    <2>3. Entry(k) = IF k \in todo[o] THEN [val |-> buf[o], exp |-> exp[o]] ELSE Plain(k)
      BY <1>1, Pending DEF OnePending
    <2>4. Entry(k)' = IF k \in todo'[o] THEN [val |-> buf'[o], exp |-> exp'[o]] ELSE Plain(k)'
      BY <1>1, <2>2, Pending DEF OnePending
    <2>5. CASE k = i
      <3>1. data'[k] = [value |-> o, expiresAt |-> exp[o]] /\ k \notin todo'[o]
        BY <2>1, <2>5 DEF Store, IInv, TypeOK
      <3>2. data'[k] # None
        BY <3>1, MemAssumption DEF IInv, TypeOK
      <3> QED BY <1>1, <2>1, <2>3, <2>4, <2>5, <3>1, <3>2 DEF Plain
    <2>6. CASE k # i
      <3>1. data'[k] = data[k] /\ (k \in todo'[o] <=> k \in todo[o])
        BY <2>1, <2>6 DEF Store, IInv, TypeOK
      <3> QED BY <1>1, <2>2, <2>3, <2>4, <3>1 DEF Plain
    <2> QED BY <2>5, <2>6
  <1>5. ASSUME SetManyReturns(o), NEW k \in Keys PROVE Entry(k)' = Entry(k)
    <2>1. mu' = None /\ todo[o] = {} /\ data' = data
      BY <1>5 DEF SetManyReturns
    <2>2. Entry(k) = Plain(k)
      BY <1>1, <2>1, Pending DEF OnePending
    <2>3. Entry(k)' = Plain(k)'
      BY <2>1, Pending DEF NonePending
    <2> QED BY <1>1, <2>1, <2>2, <2>3 DEF Plain
  <1>6. entry' = entry
    BY <1>4, <1>5 DEF entry
  <1> QED BY <1>1, <1>3, <1>6 DEF Promise!vars

\* The value an Update stores is made from the one its function received.
LEMMA UpdateStep ==
  ASSUME IInv, IInv', [Next]_vars, NEW o \in Ops, UpdateStores(o)
  PROVE  Promise!UpdateWrites(o)
  <1> DEFINE made == (IF res[o] = None THEN {} ELSE buf[res[o]]) \cup {o}
  <1>1. /\ pc[o] = "fn" /\ Kind(o) = "update" /\ mu = o /\ mu' = None /\ res' = res
        /\ UNCHANGED <<call, now, exp, todo>>
        /\ data' = [data EXCEPT ![KeyOf(o)] = [value |-> o, expiresAt |-> Expiry(o)]]
        /\ buf' = [buf EXCEPT ![o] = made]
        /\ pc' = [pc EXCEPT ![o] = "ok"]
    BY DEF UpdateStores, Goes, IInv, KindInv, LockInv, many
  <1>2. KeyOf(o) \in Keys /\ call[o].keys = {KeyOf(o)} /\ Expiry(o) \in Nat
    BY <1>1, CallFields DEF IInv
  <1>3. Promise!Ends(o, "fn", "ok")
    BY <1>1, StatusMoves DEF IInv, Shown
  <1>4. made = (IF got[o] = None THEN {} ELSE got[o]) \cup {o}
    <2>1. got[o] = IF res[o] = None THEN None ELSE buf[res[o]]
      BY <1>1 DEF got, Got
    <2>2. res[o] \in Ops => buf[res[o]] # None
      BY MemAssumption DEF IInv, TypeOK
    <2>3. res[o] \in Ops \cup {None}
      BY <1>1 DEF IInv, KindInv
    <2> QED BY <2>1, <2>2, <2>3
  <1>5. ASSUME NEW k \in Keys
        PROVE  entry'[k] = IF k \in call[o].keys THEN [val |-> made, exp |-> Expiry(o)] ELSE entry[k]
    <2>1. Entry(k) = Plain(k) /\ Entry(k)' = Plain(k)'
      BY <1>1, Pending DEF NonePending
    <2>2. CASE k = KeyOf(o)
      <3>1. data'[k] = [value |-> o, expiresAt |-> Expiry(o)] /\ data'[k] # None
        <4>1. [value |-> o, expiresAt |-> Expiry(o)] # None
          BY <1>2, MemAssumption
        <4> QED BY <4>1, <1>1, <2>2 DEF IInv, TypeOK
      <3>2. buf'[o] = made
        BY <1>1 DEF IInv, TypeOK
      <3> QED BY <1>2, <2>1, <2>2, <3>1, <3>2 DEF Plain, entry
    <2>3. CASE k # KeyOf(o)
      <3>1. data'[k] = data[k]
        BY <1>1, <1>2, <2>3 DEF IInv, TypeOK
      <3>2. data[k] # None => data[k].value # o
        BY <1>1 DEF IInv, SliceInv
      <3>3. data[k] # None => buf'[data[k].value] = buf[data[k].value]
        BY <1>1, <3>2 DEF IInv, TypeOK, Item
      <3> QED BY <1>2, <2>1, <2>3, <3>1, <3>3 DEF Plain, entry
    <2> QED BY <2>2, <2>3
  <1>6. Promise!Put(o, made)
    BY <1>5, SameCalls DEF Promise!Put, entry
  <1>7. got' = [got EXCEPT ![o] = None]
    <2>1. ASSUME NEW x \in Ops \ {o} PROVE Got(x)' = Got(x)
      <3>0. pc'[x] = pc[x]
        BY <1>1 DEF IInv, TypeOK
      <3>1. CASE res[x] = None \/ Kind(x) = "keys"
        BY <1>1, <3>0, <3>1, CallStays DEF Got
      <3>2. CASE ~(res[x] = None \/ Kind(x) = "keys")
        <4>1. Kind(x) \in {"get", "update"} /\ res[x] \in Ops
          BY <3>2, CallFields DEF IInv, KindInv
        <4>2. res[x] # o
          BY <1>1, <4>1 DEF IInv, SliceInv
        <4>3. buf'[res[x]] = buf[res[x]]
          BY <1>1, <4>1, <4>2 DEF IInv, TypeOK
        <4> QED BY <1>1, <3>0, <4>3, CallStays DEF Got
      <3> QED BY <3>1, <3>2
    <2>2. Got(o)' = None
      BY <1>1, CallStays DEF Got, IInv, TypeOK
    <2> QED BY <2>1, <2>2 DEF got
  <1>8. Promise!Unclaimed(o)
    BY <1>1, Claims
  <1> QED BY <1>1, <1>3, <1>4, <1>6, <1>7, <1>8 DEF Promise!UpdateWrites, Promise!Answers

\* An Update whose function fails leaves the entries as they were.
LEMMA FailStep ==
  ASSUME IInv, IInv', [Next]_vars, NEW o \in Ops, UpdateFails(o)
  PROVE  Promise!Fails(o)
  <1>1. /\ pc[o] = "fn" /\ Kind(o) = "update" /\ pc' = [pc EXCEPT ![o] = "failed"]
        /\ UNCHANGED <<call, now, data, buf, res, exp, todo>>
    BY DEF UpdateFails, Goes, many, IInv, KindInv
  <1>2. Promise!Ends(o, "fn", "failed")
    BY <1>1, StatusMoves DEF IInv, Shown
  <1>3. \A x \in Ops : pc'[x] = "items" <=> pc[x] = "items"
    BY <1>1 DEF IInv, TypeOK
  <1>4. entry' = entry
    BY <1>1, <1>3, EntryStays
  <1>5. got' = [got EXCEPT ![o] = None]
    <2>1. \A x \in Ops \ {o} : Got(x)' = Got(x)
      BY <1>1, CallStays DEF Got, IInv, TypeOK
    <2>2. Got(o)' = None
      BY <1>1, CallStays DEF Got, IInv, TypeOK
    <2> QED BY <2>1, <2>2 DEF got
  <1> QED BY <1>1, <1>2, <1>4, <1>5 DEF Promise!Fails

\* A Delete removes its key and no other.
LEMMA DeleteStep ==
  ASSUME IInv, IInv', [Next]_vars, NEW o \in Ops, Delete(o)
  PROVE  Promise!Delete(o)
  <1>1. /\ Kind(o) = "delete" /\ mu = None /\ mu' = None /\ buf' = buf /\ res' = res
        /\ UNCHANGED <<call, now>> /\ data' = [data EXCEPT ![KeyOf(o)] = None]
        /\ pc[o] = "lock" /\ pc' = [pc EXCEPT ![o] = "ok"]
    BY DEF Delete, Goes
  <1>2. Promise!Ends(o, "idle", "ok")
    BY <1>1, StatusMoves DEF IInv, Shown
  <1>3. KeyOf(o) \in Keys
    BY <1>1, CallFields DEF IInv
  <1>4. ASSUME NEW k \in Keys
        PROVE  entry'[k] = IF k = KeyOf(o) THEN None ELSE entry[k]
    <2>1. Entry(k) = Plain(k) /\ Entry(k)' = Plain(k)'
      BY <1>1, Pending DEF NonePending
    <2> QED BY <1>1, <1>3, <2>1 DEF Plain, entry, IInv, TypeOK
  <1>5. entry' = [entry EXCEPT ![KeyOf(o)] = None]
    BY <1>4 DEF entry
  <1>6. got' = got
    <2>1. \A x \in Ops : pc'[x] = "fn" <=> pc[x] = "fn"
      BY <1>1 DEF IInv, TypeOK
    <2> QED BY <1>1, <2>1, GotStays
  <1>7. Promise!Unclaimed(o)
    BY <1>1, Claims
  <1> QED BY <1>1, <1>2, <1>5, <1>6, <1>7, SameCalls DEF Promise!Delete, Promise!Answers

\* Keys returns the keys whose entries live, without those that must be gone.
LEMMA ListStep ==
  ASSUME IInv, IInv', [Next]_vars, NEW o \in Ops, ListKeys(o)
  PROVE  Promise!ListKeys(o)
  <1> DEFINE R == {k \in call[o].keys : Found(k)}
  <1>1. /\ Kind(o) = "keys" /\ mu = None /\ res' = [res EXCEPT ![o] = R]
        /\ UNCHANGED <<call, now, data, buf, exp, todo>>
        /\ pc[o] = "lock" /\ pc' = [pc EXCEPT ![o] = "ok"]
    BY DEF ListKeys, Goes, many
  <1>2. Promise!Ends(o, "idle", "ok")
    BY <1>1, StatusMoves DEF IInv, Shown
  <1>3. entry' = entry
    <2>1. \A x \in Ops : pc'[x] = "items" <=> pc[x] = "items"
      BY <1>1 DEF IInv, TypeOK
    <2> QED BY <1>1, <2>1, EntryStays
  <1>4. got' = [got EXCEPT ![o] = R]
    <2>1. ASSUME NEW x \in Ops \ {o} PROVE Got(x)' = Got(x)
      BY <1>1, <2>1, CallStays DEF IInv, TypeOK, Got
    <2>2. Got(o)' = R
      BY <1>1, CallStays DEF IInv, TypeOK, Got
    <2> QED BY <2>1, <2>2 DEF got
  <1>5. ASSUME NEW k \in call[o].keys
        PROVE  /\ Found(k) => Promise!MayLive(entry[k], now)
               /\ Promise!MustLive(entry[k], now) => Found(k)
    <2>1. k \in Keys
      BY CallFields DEF IInv
    <2>2. Entry(k) = Plain(k) /\ entry[k] = Entry(k)
      BY <1>1, <2>1, Pending DEF NonePending, entry
    <2> QED BY <2>1, <2>2, Reading
  <1>6. R \in SUBSET {k \in call[o].keys : Promise!MayLive(entry[k], now)}
    BY <1>5
  <1>7. {k \in call[o].keys : Promise!MustLive(entry[k], now)} \subseteq R
    BY <1>5
  <1> QED BY <1>1, <1>2, <1>3, <1>4, <1>6, <1>7, SameCalls DEF Promise!ListKeys

\* removeExpired drops what has expired.
LEMMA SweepStep ==
  ASSUME IInv, IInv', [Next]_vars, Sweep
  PROVE  Promise!Purge
  <1> DEFINE S == {k \in Keys : data[k] # None /\ IsExpired(data[k])}
  <1>1. /\ mu = None /\ mu' = None /\ UNCHANGED <<call, now, buf, pc, res>>
        /\ data' = [k \in Keys |-> IF k \in S THEN None ELSE data[k]]
    BY DEF Sweep
  <1>2. ASSUME NEW k \in Keys
        PROVE  /\ k \in S => entry[k] # None /\ ~Promise!MustLive(entry[k], now)
               /\ entry'[k] = IF k \in S THEN None ELSE entry[k]
    <2>1. Entry(k) = Plain(k) /\ Entry(k)' = Plain(k)' /\ entry[k] = Entry(k) /\ entry'[k] = Entry(k)'
      BY <1>1, Pending DEF NonePending, entry
    <2>2. ASSUME k \in S PROVE entry[k] # None
      <3>1. entry[k] \in [val : SUBSET Ops, exp : Nat]
        BY <2>1, <2>2 DEF Plain, IInv, TypeOK, Item
      <3> QED BY <3>1, MemAssumption
    <2>3. ASSUME k \in S PROVE ~Promise!MustLive(entry[k], now)
      BY <2>1, <2>3, Reading DEF Found
    <2>4. entry'[k] = IF k \in S THEN None ELSE entry[k]
      BY <1>1, <2>1 DEF Plain
    <2> QED BY <2>2, <2>3, <2>4
  <1>3. S \in SUBSET {k \in Keys : entry[k] # None /\ ~Promise!MustLive(entry[k], now)}
    BY <1>2
  <1>4. entry' = [k \in Keys |-> IF k \in S THEN None ELSE entry[k]]
    BY <1>2 DEF entry
  <1>5. got' = got /\ st' = st
    BY <1>1, GotStays DEF st, Status
  <1>6. \A x \in Ops : Promise!Claimed(x) = {}
    BY <1>1, NoneClaimed
  <1> QED BY <1>1, <1>3, <1>4, <1>5, <1>6 DEF Promise!Purge

\* The steps that the interface does not show.
LEMMA HiddenStep ==
  ASSUME IInv, [Next]_vars,
         (\E o \in Ops : Invoke(o)) \/ CleanerReturns \/ Close \/ UNCHANGED vars
  PROVE  UNCHANGED Promise!vars
  <1>1. UNCHANGED <<call, now, data, buf, res, exp, todo>>
    BY DEF Invoke, CleanerReturns, Close, vars, many
  <1>2. \A x \in Ops : pc'[x] = pc[x] \/ (pc[x] = "idle" /\ pc'[x] = "lock")
    BY DEF Invoke, Goes, CleanerReturns, Close, vars, IInv, TypeOK
  <1>3. entry' = entry /\ got' = got
    <2>1. \A x \in Ops : pc'[x] = "items" <=> pc[x] = "items"
      BY <1>2
    <2>2. \A x \in Ops : pc'[x] = "fn" <=> pc[x] = "fn"
      BY <1>2
    <2> QED BY <1>1, <2>1, <2>2, EntryStays, GotStays
  <1>4. st' = st
    BY <1>2 DEF st, Status
  <1> QED BY <1>1, <1>3, <1>4 DEF Promise!vars

\* The clock is the one of the interface.
LEMMA TickStep ==
  ASSUME IInv, [Next]_vars, Tick
  PROVE  Promise!Tick
  <1>1. UNCHANGED <<call, data, buf, pc, res, exp, todo>> /\ now < MaxTime /\ now' = now + 1
    BY DEF Tick, many
  <1>2. entry' = entry /\ got' = got /\ st' = st
    BY <1>1, EntryStays, GotStays DEF st, Status
  <1> QED BY <1>1, <1>2 DEF Promise!Tick

\* An empty store is an empty dictionary.
LEMMA InitPromised == Init => Promise!Init
  <1> SUFFICES ASSUME Init PROVE Promise!Init
    OBVIOUS
  <1>1. \A k \in Keys : Entry(k) = None
    BY DEF Init, Entry, Storing
  <1>2. \A o \in Ops : Status(o) = "idle" /\ Got(o) = None
    BY DEF Init, Status, Got
  <1> QED BY <1>1, <1>2 DEF Init, Promise!Init, entry, st, got

\* The in-memory store implements Store: what a caller can see of it is what an
\* atomic dictionary with expiring entries may show.
THEOREM Implements == Spec => ImplementsKvStore
  <1>1. IInv /\ IInv' /\ [Next]_vars => [Promise!Next]_Promise!vars
    <2> SUFFICES ASSUME IInv, IInv', [Next]_vars PROVE [Promise!Next]_Promise!vars
      OBVIOUS
    <2>1. ASSUME NEW o \in Ops, OpStep(o) PROVE Promise!Next \/ UNCHANGED Promise!vars
      BY <2>1, GetStep, SetStep, SetManyStep, StoringStep, UpdateStep, FailStep, DeleteStep,
         ListStep DEF OpStep, Promise!Next
    <2>2. CASE Sweep \/ Tick
      BY <2>2, SweepStep, TickStep DEF Promise!Next
    <2>3. CASE (\E o \in Ops : Invoke(o)) \/ CleanerReturns \/ Close \/ UNCHANGED vars
      BY <2>3, HiddenStep
    <2> QED BY <2>1, <2>2, <2>3 DEF Next
  <1> QED BY <1>1, InitPromised, Inductive, PTL DEF Spec, ImplementsKvStore, Promise!Spec
=============================================================================
