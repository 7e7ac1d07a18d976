---------------------------- MODULE PgStoreProofs ----------------------------
(***************************************************************************)
(* The PostgreSQL store and its cleanup goroutines for any number of keys, *)
(* hashes (colliding ones included), calls and goroutines.                 *)
(***************************************************************************)
EXTENDS PgCleanup, TLAPS

\* Where each method can be.
Kinds(o) ==
  /\ pc[o] = "exec" => Kind(o) = "set"
  /\ pc[o] = "take" => Kind(o) \in {"setmany", "cleanup"}
  /\ pc[o] \in {"select", "fn", "upsert", "commit"} => Kind(o) = "update"

\* Only a transaction holds rows.
Holds(o) == \A h \in Hashes : lock[h] = o => pc[o] \in {"take", "fn", "upsert", "commit"}

\* The rows that a SetMany does not have yet are in its plan.
Plans(o) ==
  pc[o] = "take" =>
    /\ want[o] = None => todo[o] = {}
    /\ Kind(o) = "setmany" => \A k \in OpKeys(o) :
         lock[Hash[k]] = o \/ Hash[k] \in todo[o] \/ want[o] = Hash[k]

\* An Update that is to commit has the row, and one that read a value has had it
\* since.
Reads(o) ==
  /\ pc[o] = "commit" => lock[HashOf(o)] = o
  /\ pc[o] \in {"fn", "upsert", "commit"} /\ seen[o] # None =>
       /\ lock[HashOf(o)] = o
       /\ rows[HashOf(o)] # None /\ rows[HashOf(o)].key = KeyOf(o)
       /\ rows[HashOf(o)].val = seen[o]

\* The rows that a Cleanup has taken had expired when it began.
Sweeps(o) ==
  Kind(o) = "cleanup" /\ pc[o] = "take" =>
    /\ began[o] <= now
    /\ \A h \in Hashes : lock[h] = o => Expired(h, began[o])

OpInv(o) == Kinds(o) /\ Holds(o) /\ Plans(o) /\ Reads(o) /\ Sweeps(o)

KindInv == \A o \in Ops : Kinds(o)

\* What an Update read is a value; Keys alone leaves keys in seen.
SeenInv == \A o \in Ops : Kind(o) = "update" => seen[o] \in (SUBSET Ops) \cup {None}

IInv == TypeOK /\ SeenInv /\ \A o \in Ops : OpInv(o)

-----------------------------------------------------------------------------
(* Types.                                                                  *)

\* A call has the fields of IsCall, and but for Cleanup a key.
LEMMA CallFields ==
  ASSUME call \in Programs, NEW o \in Ops
  PROVE  /\ OpKeys(o) \subseteq Keys /\ Ttl(o) \in Int
         /\ Kind(o) \in {"get", "set", "setmany", "update", "delete", "keys", "cleanup", "none"}
         /\ Kind(o) \in {"get", "set", "setmany", "update", "delete", "keys"} =>
              KeyOf(o) \in OpKeys(o) /\ KeyOf(o) \in Keys /\ HashOf(o) \in Hashes
  <1>1. IsCall(call[o])
    BY StoreAssumption
  <1>2. /\ OpKeys(o) \subseteq Keys /\ Ttl(o) \in Int
        /\ Kind(o) \in {"get", "set", "setmany", "update", "delete", "keys", "cleanup", "none"}
    BY <1>1 DEF IsCall, OpKeys, Ttl, Kind
  <1>3. Kind(o) \in {"get", "set", "setmany", "update", "delete", "keys"} => \E k : k \in OpKeys(o)
    BY <1>1 DEF IsCall, OpKeys, Kind
  <1> QED BY <1>2, <1>3, StoreAssumption DEF KeyOf, HashOf

\* A row that is written is a row.
LEMMA UpsertType ==
  ASSUME TypeOK, NEW h \in Hashes, NEW k \in Keys, NEW v \in SUBSET Ops, NEW o \in Ops
  PROVE  Upsert(h, k, v, o) \in Row
  BY DEF TypeOK, Upsert, Row

\* What a call that ends leaves of its variables.
LEMMA DropsType ==
  ASSUME TypeOK, NEW o \in Ops, Drops(o)
  PROVE  /\ began' \in [Ops -> 0..MaxTime] /\ expires' \in [Ops -> Nat]
         /\ seen' \in [Ops -> (SUBSET Ops) \cup (SUBSET Keys) \cup {None}]
         /\ todo' \in [Ops -> SUBSET Hashes] /\ want' \in [Ops -> Hashes \cup {None}]
  BY StoreAssumption DEF TypeOK, Drops

\* A transaction that ends leaves the locks of the others.
LEMMA UnlockedType ==
  ASSUME TypeOK, NEW o \in Ops
  PROVE  Unlocked(o) \in [Hashes -> Ops \cup {None}]
  BY DEF TypeOK, Unlocked

\* The plan is made of rows.
LEMMA PlanType ==
  ASSUME TypeOK, NEW o \in Ops, NEW S \in SUBSET Hashes, NextWant(o, S)
  PROVE  todo' \in [Ops -> SUBSET Hashes] /\ want' \in [Ops -> Hashes \cup {None}]
  BY DEF TypeOK, NextWant

\* What is planned is all of S.
LEMMA PlanCovers ==
  ASSUME TypeOK, NEW o \in Ops, NEW S \in SUBSET Hashes, NextWant(o, S)
  PROVE  /\ want'[o] = None => todo'[o] = {}
         /\ \A h \in S : h \in todo'[o] \/ want'[o] = h
  BY StoreAssumption DEF TypeOK, NextWant

\* expires_at is a time, or none.
LEMMA ExpiryType == ASSUME TypeOK, NEW o \in Ops PROVE Expiry(o) \in Nat
  BY CallFields, StoreAssumption DEF TypeOK, Expiry

\* The clock is a time.
LEMMA NowType == ASSUME TypeOK PROVE now \in 0..MaxTime
  BY StoreAssumption DEF TypeOK

\* Every variable keeps its type.
LEMMA TypeStep == TypeOK /\ KindInv /\ SeenInv /\ [Next]_vars => TypeOK'
  <1> SUFFICES ASSUME TypeOK, KindInv, SeenInv, [Next]_vars PROVE TypeOK'
    OBVIOUS
  <1> USE DEF tx, plan, Ended, Begins
  <1>1. ASSUME NEW o \in Ops, Get(o) PROVE TypeOK'
    <2>1. HashOf(o) \in Hashes
      BY <1>1, CallFields DEF Get, TypeOK
    <2>2. (IF Matches(HashOf(o), KeyOf(o), now) THEN rows[HashOf(o)].val ELSE None) \in (SUBSET Ops) \cup {None}
      BY <2>1 DEF Matches, TypeOK, Row
    <2> QED BY <1>1, <2>2 DEF TypeOK, Get
  <1>2. ASSUME NEW o \in Ops, SetBegins(o) PROVE TypeOK'
    BY <1>2, ExpiryType, NowType DEF TypeOK, SetBegins
  <1>3. ASSUME NEW o \in Ops, Delete(o) PROVE TypeOK'
    BY <1>3 DEF TypeOK, Delete, Answer
  <1>4. ASSUME NEW o \in Ops, SetManyBegins(o) PROVE TypeOK'
    <2>1. {Hash[k] : k \in OpKeys(o)} \in SUBSET Hashes
      BY CallFields, StoreAssumption DEF TypeOK
    <2>2. todo' \in [Ops -> SUBSET Hashes] /\ want' \in [Ops -> Hashes \cup {None}]
      BY <1>4, <2>1, PlanType DEF SetManyBegins
    <2> QED BY <1>4, <2>2, ExpiryType, NowType DEF TypeOK, SetManyBegins
  <1>5. ASSUME NEW o \in Ops, CleanupBegins(o) PROVE TypeOK'
    <2>1. {h \in Hashes : Expired(h, now)} \in SUBSET Hashes
      OBVIOUS
    <2>2. todo' \in [Ops -> SUBSET Hashes] /\ want' \in [Ops -> Hashes \cup {None}]
      BY <1>5, <2>1, PlanType DEF CleanupBegins
    <2> QED BY <1>5, <2>2, NowType DEF TypeOK, CleanupBegins
  <1>6. ASSUME NEW o \in Ops, UpdateBegins(o) PROVE TypeOK'
    BY <1>6, NowType DEF TypeOK, UpdateBegins
  <1>7. ASSUME NEW o \in Ops, SetRuns(o) PROVE TypeOK'
    <2>1. HashOf(o) \in Hashes /\ KeyOf(o) \in Keys
      BY <1>7, CallFields DEF SetRuns, KindInv, Kinds, TypeOK
    <2>2. Upsert(HashOf(o), KeyOf(o), {o}, o) \in Row
      BY <2>1, UpsertType
    <2> QED BY <1>7, <2>1, <2>2, DropsType DEF TypeOK, SetRuns, Answer
  <1>8. ASSUME NEW o \in Ops, SetManyTakes(o) \/ CleanupTakes(o) PROVE TypeOK'
    <2>1. todo' \in [Ops -> SUBSET Hashes] /\ want' \in [Ops -> Hashes \cup {None}]
      BY <1>8, PlanType DEF SetManyTakes, CleanupTakes, TypeOK
    <2> QED BY <1>8, <2>1 DEF TypeOK, SetManyTakes, CleanupTakes
  <1>9. ASSUME NEW o \in Ops, SetManyCommits(o) PROVE TypeOK'
    <2> DEFINE new(h) == Upsert(h, CHOOSE k \in OpKeys(o) : Hash[k] = h, {o}, o)
    <2>1. ASSUME NEW h \in Hashes, \E k \in OpKeys(o) : Hash[k] = h PROVE new(h) \in Row
      <3>1. (CHOOSE k \in OpKeys(o) : Hash[k] = h) \in Keys
        BY <2>1, CallFields DEF TypeOK
      <3> QED BY <3>1, UpsertType
    <2>2. rows' = [h \in Hashes |-> IF \E k \in OpKeys(o) : Hash[k] = h THEN new(h) ELSE rows[h]]
      BY <1>9 DEF SetManyCommits
    <2> HIDE DEF new
    <2>3. rows' \in [Hashes -> Row \cup {None}]
      BY <2>1, <2>2 DEF TypeOK
    <2>4. /\ UNCHANGED <<call, now>> /\ lock' = Unlocked(o) /\ Drops(o)
          /\ \E r \in {"ok", "unknown"} : pc' = [pc EXCEPT ![o] = r]
      BY <1>9 DEF SetManyCommits, Answer
    <2> QED BY <2>3, <2>4, DropsType, UnlockedType DEF TypeOK
  <1>10. ASSUME NEW o \in Ops, CleanupCommits(o) PROVE TypeOK'
    <2>1. rows' \in [Hashes -> Row \cup {None}]
      BY <1>10 DEF CleanupCommits, TypeOK
    <2> QED BY <1>10, <2>1, DropsType, UnlockedType DEF TypeOK, CleanupCommits, Answer
  <1>11. ASSUME NEW o \in Ops, UpdateSelects(o) PROVE TypeOK'
    <2>1. HashOf(o) \in Hashes
      BY <1>11, CallFields DEF UpdateSelects, KindInv, Kinds, TypeOK
    <2>2. (IF Matches(HashOf(o), KeyOf(o), began[o]) THEN rows[HashOf(o)].val ELSE None)
            \in (SUBSET Ops) \cup {None}
      BY <2>1 DEF Matches, TypeOK, Row
    <2>3. lock' \in [Hashes -> Ops \cup {None}]
      BY <1>11 DEF UpdateSelects, SelectForUpdate, TypeOK
    <2> QED BY <1>11, <2>2, <2>3 DEF TypeOK, UpdateSelects
  <1>12. ASSUME NEW o \in Ops, UpdateCalls(o) PROVE TypeOK'
    BY <1>12, ExpiryType DEF TypeOK, UpdateCalls
  <1>13. ASSUME NEW o \in Ops, UpdateUpserts(o) PROVE TypeOK'
    BY <1>13 DEF TypeOK, UpdateUpserts
  <1>14. ASSUME NEW o \in Ops, UpdateCommits(o) PROVE TypeOK'
    <2>1. HashOf(o) \in Hashes /\ KeyOf(o) \in Keys
      BY <1>14, CallFields DEF UpdateCommits, KindInv, Kinds, TypeOK
    <2>2. (IF seen[o] = None THEN {} ELSE seen[o]) \cup {o} \in SUBSET Ops
      BY <1>14 DEF SeenInv, KindInv, Kinds, UpdateCommits
    <2>3. Upsert(HashOf(o), KeyOf(o), (IF seen[o] = None THEN {} ELSE seen[o]) \cup {o}, o) \in Row
      BY <2>1, <2>2, UpsertType
    <2> QED BY <1>14, <2>1, <2>3, DropsType, UnlockedType DEF TypeOK, UpdateCommits, Answer
  <1>15. ASSUME NEW o \in Ops, Fails(o) \/ Refused(o) PROVE TypeOK'
    BY <1>15, DropsType, UnlockedType DEF TypeOK, Fails, Refused
  <1>16. Tick => TypeOK'
    BY StoreAssumption DEF TypeOK, Tick
  <1>18. ASSUME NEW o \in Ops, ListKeys(o) PROVE TypeOK'
    <2>1. {k \in OpKeys(o) : Matches(Hash[k], k, now)} \in SUBSET Keys
      BY CallFields DEF TypeOK
    <2> QED BY <1>18, <2>1 DEF TypeOK, ListKeys
  <1>17. UNCHANGED vars => TypeOK'
    BY DEF TypeOK, vars
  <1> QED BY <1>1, <1>2, <1>3, <1>4, <1>5, <1>6, <1>7, <1>8, <1>9, <1>10, <1>11, <1>12, <1>13,
             <1>14, <1>15, <1>16, <1>17, <1>18 DEF Next, OpBegins, OpStep

-----------------------------------------------------------------------------
(* The invariant: a step of one call against the others.                   *)

\* The calls are what they are.
LEMMA CallStays ==
  ASSUME [Next]_vars, NEW o
  PROVE  /\ call' = call /\ Kind(o)' = Kind(o) /\ OpKeys(o)' = OpKeys(o)
         /\ KeyOf(o)' = KeyOf(o) /\ HashOf(o)' = HashOf(o)
  <1>1. call' = call
    BY DEF Next, OpBegins, OpStep, Get, ListKeys, SetBegins, Delete, SetManyBegins, CleanupBegins, UpdateBegins,
           SetRuns, SetManyTakes, SetManyCommits, CleanupTakes, CleanupCommits, UpdateSelects,
           UpdateCalls, UpdateUpserts, UpdateCommits, Fails, Refused, Tick, vars
  <1> QED BY <1>1 DEF Kind, OpKeys, KeyOf, HashOf

\* A step of o.
StepOf(o) == OpBegins(o) \/ OpStep(o) \/ Fails(o)

\* A step of o takes rows nobody has and gives up its own: what the others have stays.
LEMMA OthersLocks ==
  ASSUME TypeOK, NEW o \in Ops, StepOf(o), NEW x \in Ops \ {o}, NEW h \in Hashes
  PROVE  lock'[h] = x <=> lock[h] = x
  <1> USE StoreAssumption DEF TypeOK
  <1>1. CASE lock' = Unlocked(o)
    BY <1>1 DEF Unlocked
  <1>2. CASE lock' = lock
    BY <1>2
  <1>3. CASE \E g \in Hashes : lock[g] \in {None, o} /\ lock' = [lock EXCEPT ![g] = o]
    BY <1>3
  <1>4. CASE SetManyTakes(o) \/ CleanupTakes(o)
    BY <1>2, <1>3, <1>4 DEF SetManyTakes, CleanupTakes, FreeFor
  <1>5. CASE UpdateSelects(o)
    BY <1>2, <1>5 DEF UpdateSelects, SelectForUpdate
  <1>6. CASE UpdateUpserts(o)
    BY <1>6 DEF UpdateUpserts, FreeFor
  <1> QED BY <1>1, <1>2, <1>4, <1>5, <1>6
          DEF StepOf, OpBegins, OpStep, Get, ListKeys, SetBegins, Delete, SetManyBegins, CleanupBegins,
              UpdateBegins, SetRuns, SetManyCommits, CleanupCommits, UpdateCalls, UpdateCommits,
              Fails, Refused

\* A step of o changes no variable of another call.
LEMMA OthersVars ==
  ASSUME TypeOK, NEW o \in Ops, StepOf(o), NEW x \in Ops \ {o}
  PROVE  /\ pc'[x] = pc[x] /\ began'[x] = began[x] /\ seen'[x] = seen[x]
         /\ todo'[x] = todo[x] /\ want'[x] = want[x] /\ now' = now
         /\ expires'[x] = expires[x]
  <1> USE DEF TypeOK, tx, plan, Answer, Begins
  <1>1. CASE OpBegins(o)
    BY <1>1 DEF OpBegins, Get, ListKeys, SetBegins, Delete, SetManyBegins, CleanupBegins, UpdateBegins, NextWant
  <1>2. CASE SetRuns(o) \/ SetManyCommits(o) \/ CleanupCommits(o) \/ UpdateCommits(o) \/ Fails(o) \/ Refused(o)
    BY <1>2 DEF SetRuns, SetManyCommits, CleanupCommits, UpdateCommits, Fails, Refused, Drops
  <1>3. CASE SetManyTakes(o) \/ CleanupTakes(o)
    BY <1>3 DEF SetManyTakes, CleanupTakes, NextWant
  <1>4. CASE UpdateSelects(o) \/ UpdateCalls(o) \/ UpdateUpserts(o)
    BY <1>4 DEF UpdateSelects, UpdateCalls, UpdateUpserts
  <1> QED BY <1>1, <1>2, <1>3, <1>4 DEF StepOf, OpStep

\* No step of o changes a row that another call has.
LEMMA HeldRowsStay ==
  ASSUME IInv, NEW o \in Ops, StepOf(o), NEW x \in Ops \ {o}, NEW h \in Hashes, lock[h] = x
  PROVE  rows'[h] = rows[h]
  <1> USE StoreAssumption DEF IInv, TypeOK
  <1>1. CASE rows' = rows
    BY <1>1
  <1>2. CASE SetRuns(o) \/ Delete(o)
    BY <1>2 DEF SetRuns, Delete
  <1>3. CASE SetManyCommits(o)
    <2>1. \A k \in OpKeys(o) : lock[Hash[k]] = o
      BY <1>3, CallFields DEF SetManyCommits, OpInv, Plans
    <2>2. ~\E k \in OpKeys(o) : Hash[k] = h
      BY <2>1
    <2>3. rows'[h] = IF \E k \in OpKeys(o) : Hash[k] = h
                     THEN Upsert(h, CHOOSE k \in OpKeys(o) : Hash[k] = h, {o}, o) ELSE rows[h]
      BY <1>3 DEF SetManyCommits
    <2> QED BY <2>2, <2>3
  <1>4. CASE CleanupCommits(o)
    BY <1>4 DEF CleanupCommits, Held
  <1>5. CASE UpdateCommits(o)
    <2>1. lock[HashOf(o)] = o
      BY <1>5 DEF UpdateCommits, OpInv, Reads
    <2> QED BY <1>5, <2>1 DEF UpdateCommits
  <1> QED BY <1>1, <1>2, <1>3, <1>4, <1>5
          DEF StepOf, OpBegins, OpStep, Get, ListKeys, SetBegins, SetManyBegins, CleanupBegins, UpdateBegins,
              SetManyTakes, CleanupTakes, UpdateSelects, UpdateCalls, UpdateUpserts, Fails, Refused

\* So the invariant of every other call holds after a step of o.
LEMMA OthersKeep ==
  ASSUME IInv, [Next]_vars, NEW o \in Ops, StepOf(o), NEW x \in Ops \ {o}
  PROVE  OpInv(x)'
  <1>1. /\ pc'[x] = pc[x] /\ began'[x] = began[x] /\ seen'[x] = seen[x]
        /\ todo'[x] = todo[x] /\ want'[x] = want[x] /\ now' = now
    BY OthersVars DEF IInv
  <1>2. \A h \in Hashes : lock'[h] = x <=> lock[h] = x
    BY OthersLocks DEF IInv
  <1>3. \A h \in Hashes : lock[h] = x => rows'[h] = rows[h]
    BY HeldRowsStay
  <1>4. /\ Kind(x)' = Kind(x) /\ OpKeys(x)' = OpKeys(x) /\ KeyOf(x)' = KeyOf(x)
        /\ HashOf(x)' = HashOf(x) /\ OpKeys(x) \subseteq Keys
    BY CallStays, CallFields DEF IInv, TypeOK
  <1>5. OpInv(x)
    BY DEF IInv
  <1>6. Kinds(x)' /\ Holds(x)'
    BY <1>1, <1>2, <1>4, <1>5 DEF OpInv, Kinds, Holds
  <1>7. Plans(x)'
    BY <1>1, <1>2, <1>4, <1>5, StoreAssumption DEF OpInv, Plans
  <1>8. Reads(x)'
    <2>1. pc[x] \in {"fn", "upsert", "commit"} => HashOf(x) \in Hashes
      BY <1>5, CallFields DEF OpInv, Kinds, IInv, TypeOK
    <2> QED BY <1>1, <1>2, <1>3, <1>4, <1>5, <2>1 DEF OpInv, Reads
  <1>9. Sweeps(x)'
    BY <1>1, <1>2, <1>3, <1>4, <1>5 DEF OpInv, Sweeps, Expired, Live
  <1> QED BY <1>6, <1>7, <1>8, <1>9 DEF OpInv

-----------------------------------------------------------------------------
(* The invariant: a step of a call against itself.                         *)

\* A call that has ended, or not begun, holds nothing.
LEMMA EndedOp ==
  ASSUME NEW o \in Ops, pc'[o] \in Ended \cup {"idle"}, \A h \in Hashes : lock'[h] # o
  PROVE  OpInv(o)'
  BY DEF OpInv, Kinds, Holds, Plans, Reads, Sweeps, Ended

\* A call that does not hold rows before a step that takes none holds none after it.
LEMMA BeginsOwn ==
  ASSUME IInv, [Next]_vars, NEW o \in Ops, OpBegins(o)
  PROVE  OpInv(o)'
  <1>1. pc[o] = "idle" /\ lock' = lock /\ now' = now
    BY DEF OpBegins, Get, ListKeys, SetBegins, Delete, SetManyBegins, CleanupBegins, UpdateBegins
  <1>2. \A h \in Hashes : lock'[h] # o
    BY <1>1 DEF IInv, OpInv, Holds
  <1>3. Kind(o)' = Kind(o) /\ OpKeys(o)' = OpKeys(o)
    BY CallStays
  <1> USE DEF IInv, TypeOK, tx, plan, Begins
  <1>4. CASE Get(o) \/ ListKeys(o) \/ Delete(o)
    <2>1. pc'[o] \in Ended
      BY <1>4 DEF Get, ListKeys, Delete, Answer, Ended
    <2> QED BY <1>2, <2>1, EndedOp
  <1>5. CASE SetBegins(o) \/ UpdateBegins(o)
    <2>1. pc'[o] = IF Kind(o) = "set" THEN "exec" ELSE "select"
      BY <1>5 DEF SetBegins, UpdateBegins
    <2>2. Kind(o) \in {"set", "update"}
      BY <1>5 DEF SetBegins, UpdateBegins
    <2> QED BY <1>2, <1>3, <2>1, <2>2 DEF OpInv, Kinds, Holds, Plans, Reads, Sweeps
  <1>6. CASE SetManyBegins(o)
    <2> DEFINE S == {Hash[k] : k \in OpKeys(o)}
    <2>1. Kind(o) = "setmany" /\ pc'[o] = "take" /\ NextWant(o, S)
      BY <1>6 DEF SetManyBegins
    <2>2. S \in SUBSET Hashes
      BY CallFields, StoreAssumption
    <2>3. /\ want'[o] = None => todo'[o] = {}
          /\ \A h \in S : h \in todo'[o] \/ want'[o] = h
      BY <2>1, <2>2, PlanCovers
    <2> QED BY <1>2, <1>3, <2>1, <2>3 DEF OpInv, Kinds, Holds, Plans, Reads, Sweeps
  <1>7. CASE CleanupBegins(o)
    <2> DEFINE S == {h \in Hashes : Expired(h, now)}
    <2>1. /\ Kind(o) = "cleanup" /\ pc'[o] = "take" /\ NextWant(o, S)
          /\ began'[o] = now
      BY <1>7 DEF CleanupBegins
    <2>2. want'[o] = None => todo'[o] = {}
      BY <2>1, PlanCovers
    <2>3. now <= now
      BY StoreAssumption
    <2> QED BY <1>1, <1>2, <1>3, <2>1, <2>2, <2>3 DEF OpInv, Kinds, Holds, Plans, Reads, Sweeps
  <1> QED BY <1>4, <1>5, <1>6, <1>7 DEF OpBegins

\* A call that ends gives up its rows.
LEMMA EndsOwn ==
  ASSUME IInv, NEW o \in Ops,
         SetRuns(o) \/ SetManyCommits(o) \/ CleanupCommits(o) \/ UpdateCommits(o) \/ Fails(o) \/ Refused(o)
  PROVE  OpInv(o)'
  <1>1. pc'[o] \in Ended
    BY DEF SetRuns, SetManyCommits, CleanupCommits, UpdateCommits, Fails, Refused, Answer, Ended,
           IInv, TypeOK
  <1>2. CASE SetRuns(o)
    <2>1. \A h \in Hashes : lock'[h] # o
      BY <1>2 DEF SetRuns, IInv, OpInv, Holds
    <2> QED BY <1>1, <2>1, EndedOp
  <1>3. CASE lock' = Unlocked(o)
    <2>1. \A h \in Hashes : lock'[h] # o
      BY <1>3, StoreAssumption DEF Unlocked
    <2> QED BY <1>1, <2>1, EndedOp
  <1> QED BY <1>2, <1>3 DEF SetManyCommits, CleanupCommits, UpdateCommits, Fails, Refused

\* A row is taken: what is not yet taken is still planned, and a Cleanup looks at the
\* row again.
LEMMA TakesOwn ==
  ASSUME IInv, [Next]_vars, NEW o \in Ops, SetManyTakes(o) \/ CleanupTakes(o)
  PROVE  OpInv(o)'
  <1> USE DEF IInv, TypeOK
  <1>1. /\ pc[o] = "take" /\ pc' = pc /\ NextWant(o, todo[o]) /\ want[o] \in Hashes
        /\ rows' = rows /\ now' = now /\ began' = began
        /\ Kind(o)' = Kind(o) /\ OpKeys(o)' = OpKeys(o)
    BY CallStays DEF SetManyTakes, CleanupTakes, tx
  <1>2. /\ want'[o] = None => todo'[o] = {}
        /\ \A h \in todo[o] : h \in todo'[o] \/ want'[o] = h
    BY <1>1, PlanCovers
  <1>3. OpInv(o)
    OBVIOUS
  <1>4. Kinds(o)' /\ Holds(o)' /\ Reads(o)'
    BY <1>1, <1>3 DEF OpInv, Kinds, Holds, Reads
  <1>5. CASE SetManyTakes(o)
    <2>1. Kind(o) = "setmany" /\ lock'[want[o]] = o /\ \A h \in Hashes : lock[h] = o => lock'[h] = o
      BY <1>1, <1>5 DEF SetManyTakes
    <2>2. OpKeys(o) \subseteq Keys
      BY CallFields
    <2>3. Plans(o)'
      BY <1>1, <1>2, <1>3, <2>1, <2>2, StoreAssumption DEF OpInv, Plans
    <2> QED BY <1>1, <1>4, <2>1, <2>3 DEF OpInv, Sweeps
  <1>6. CASE CleanupTakes(o)
    <2>1. Kind(o) = "cleanup" /\ \A h \in Hashes : lock'[h] = o => lock[h] = o \/ Expired(h, began[o])
      BY <1>1, <1>6 DEF CleanupTakes
    <2>2. Sweeps(o)'
      BY <1>1, <1>3, <2>1 DEF OpInv, Sweeps, Expired, Live
    <2>3. Plans(o)'
      BY <1>1, <1>2, <2>1 DEF Plans
    <2> QED BY <1>4, <2>2, <2>3 DEF OpInv
  <1> QED BY <1>5, <1>6

\* An Update keeps the row it read until it ends.
LEMMA UpdateOwn ==
  ASSUME IInv, [Next]_vars, NEW o \in Ops, UpdateSelects(o) \/ UpdateCalls(o) \/ UpdateUpserts(o)
  PROVE  OpInv(o)'
  <1> USE DEF IInv, TypeOK, tx
  <1>1. /\ pc[o] \in {"select", "fn", "upsert"} /\ Kind(o) = "update"
        /\ Kind(o)' = Kind(o) /\ KeyOf(o)' = KeyOf(o) /\ HashOf(o)' = HashOf(o)
        /\ rows' = rows
    BY CallStays DEF UpdateSelects, UpdateCalls, UpdateUpserts, OpInv, Kinds
  <1>2. HashOf(o) \in Hashes
    BY <1>1, CallFields
  <1>3. pc'[o] \in {"fn", "upsert", "commit"}
    BY DEF UpdateSelects, UpdateCalls, UpdateUpserts
  <1>4. Kinds(o)' /\ Holds(o)' /\ Plans(o)' /\ Sweeps(o)'
    BY <1>1, <1>3 DEF Kinds, Holds, Plans, Sweeps
  <1>5. CASE UpdateSelects(o)
    <2>1. /\ pc'[o] = "fn"
          /\ seen'[o] = IF Matches(HashOf(o), KeyOf(o), began[o]) THEN rows[HashOf(o)].val ELSE None
          /\ Matches(HashOf(o), KeyOf(o), began[o]) => lock'[HashOf(o)] = o
      BY <1>2, <1>5 DEF UpdateSelects, SelectForUpdate
    <2>2. Reads(o)'
      BY <1>1, <2>1 DEF Reads, Matches
    <2> QED BY <1>4, <2>2 DEF OpInv
  <1>6. CASE UpdateCalls(o)
    <2>1. pc[o] = "fn" /\ pc'[o] = "upsert" /\ seen' = seen /\ lock' = lock
      BY <1>6 DEF UpdateCalls
    <2>2. Reads(o)'
      BY <1>1, <2>1 DEF OpInv, Reads
    <2> QED BY <1>4, <2>2 DEF OpInv
  <1>7. CASE UpdateUpserts(o)
    <2>1. pc[o] = "upsert" /\ pc'[o] = "commit" /\ seen' = seen /\ lock'[HashOf(o)] = o
      BY <1>2, <1>7 DEF UpdateUpserts
    <2>2. Reads(o)'
      BY <1>1, <2>1 DEF OpInv, Reads
    <2> QED BY <1>4, <2>2 DEF OpInv
  <1> QED BY <1>5, <1>6, <1>7

\* The clock only makes what has expired older.
LEMMA TickKeeps ==
  ASSUME IInv, [Next]_vars, Tick \/ UNCHANGED vars, NEW o \in Ops
  PROVE  OpInv(o)'
  <1>1. /\ rows' = rows /\ lock' = lock /\ pc' = pc /\ began' = began /\ seen' = seen
        /\ todo' = todo /\ want' = want /\ now <= now'
    BY StoreAssumption DEF Tick, vars, tx, plan, IInv, TypeOK
  <1>2. /\ Kind(o)' = Kind(o) /\ OpKeys(o)' = OpKeys(o) /\ KeyOf(o)' = KeyOf(o)
        /\ HashOf(o)' = HashOf(o)
    BY CallStays
  <1>3. OpInv(o) /\ began[o] \in Nat /\ now \in Nat /\ now' \in Nat
    BY StoreAssumption DEF IInv, TypeOK, Tick, vars
  <1>4. Kinds(o)' /\ Holds(o)' /\ Plans(o)' /\ Reads(o)'
    BY <1>1, <1>2, <1>3 DEF OpInv, Kinds, Holds, Plans, Reads
  <1>5. Sweeps(o)'
    BY <1>1, <1>2, <1>3 DEF OpInv, Sweeps, Expired, Live
  <1> QED BY <1>4, <1>5 DEF OpInv

\* Only a Keys returns keys: what an Update has read is a value.
LEMMA SeenStep == IInv /\ [Next]_vars => SeenInv'
  <1> SUFFICES ASSUME IInv, [Next]_vars, NEW x \in Ops, Kind(x) = "update"
               PROVE  seen'[x] \in (SUBSET Ops) \cup {None}
    BY CallStays DEF SeenInv
  <1> USE DEF IInv, TypeOK, SeenInv, tx
  <1>1. ASSUME NEW o \in Ops, StepOf(o), o # x PROVE seen'[x] = seen[x]
    BY <1>1, OthersVars
  <1>2. CASE OpBegins(x)
    BY <1>2 DEF OpBegins, Get, ListKeys, SetBegins, Delete, SetManyBegins, CleanupBegins, UpdateBegins
  <1>3. CASE UpdateSelects(x)
    <2>1. HashOf(x) \in Hashes
      BY CallFields
    <2> QED BY <1>3, <2>1 DEF UpdateSelects, Matches, Row
  <1>4. CASE (OpStep(x) /\ ~UpdateSelects(x)) \/ Fails(x)
    BY <1>4 DEF OpStep, SetRuns, SetManyTakes, SetManyCommits, CleanupTakes, CleanupCommits,
                UpdateCalls, UpdateUpserts, UpdateCommits, Refused, Fails, Drops
  <1>5. CASE Tick \/ UNCHANGED vars
    BY <1>5 DEF Tick, vars
  <1> QED BY <1>1, <1>2, <1>3, <1>4, <1>5 DEF Next, StepOf

\* The invariant is inductive.
LEMMA Invariance == IInv /\ [Next]_vars => IInv'
  <1> SUFFICES ASSUME IInv, [Next]_vars PROVE IInv'
    OBVIOUS
  <1>1. TypeOK'
    BY TypeStep DEF IInv, KindInv, OpInv
  <1>4. SeenInv'
    BY SeenStep
  <1>2. ASSUME NEW o \in Ops, StepOf(o), NEW x \in Ops PROVE OpInv(x)'
    <2>1. CASE x # o
      BY <1>2, <2>1, OthersKeep
    <2>2. OpInv(o)'
      BY <1>2, BeginsOwn, EndsOwn, TakesOwn, UpdateOwn DEF StepOf, OpStep
    <2> QED BY <2>1, <2>2
  <1>3. ASSUME Tick \/ UNCHANGED vars, NEW x \in Ops PROVE OpInv(x)'
    BY <1>3, TickKeeps
  <1> QED BY <1>1, <1>2, <1>3, <1>4 DEF IInv, Next, StepOf

\* The invariant holds before the first call.
LEMMA InitInv == Init => IInv
  <1> SUFFICES ASSUME Init PROVE IInv
    OBVIOUS
  <1>1. TypeOK
    BY StoreAssumption DEF Init, TypeOK
  <1>2. \A o \in Ops : OpInv(o)
    BY StoreAssumption DEF Init, OpInv, Kinds, Holds, Plans, Reads, Sweeps
  <1> QED BY <1>1, <1>2 DEF Init, IInv, SeenInv

\* IInv is inductive: who holds which rows, and what was read under them.
THEOREM Inductive == Spec => []IInv
  BY InitInv, Invariance, PTL DEF Spec

\* The types of the store's state, whatever the calls and the hashes are.
THEOREM TypeCorrect == Spec => []TypeOK
  <1>1. IInv => TypeOK
    BY DEF IInv
  <1> QED BY <1>1, Inductive, PTL

\* The value that an Update read stays the current one until it commits: the row it
\* found is locked from the read on.
THEOREM ReadsStable == Spec => []ReadIsStable
  <1>1. IInv => ReadIsStable
    BY DEF IInv, OpInv, Reads, ReadIsStable
  <1> QED BY <1>1, Inductive, PTL

\* Cleanup removes only what had expired, though it waits for rows that others
\* refresh: what it holds it has looked at again, and nobody changes it since.
THEOREM KeepsLive == Spec => CleanupKeepsLive
  <1> DEFINE Kept == \A h \in Hashes, o \in Ops :
                       /\ Kind(o) = "cleanup" /\ pc[o] = "take" /\ pc'[o] # "take"
                       /\ rows[h] # None /\ rows'[h] = None
                       => ~Live(rows[h], now)
  <1>1. IInv /\ [Next]_vars => Kept
    <2> SUFFICES ASSUME IInv, [Next]_vars, NEW h \in Hashes, NEW o \in Ops,
                        Kind(o) = "cleanup", pc[o] = "take", pc'[o] # "take",
                        rows[h] # None, rows'[h] = None
                 PROVE  ~Live(rows[h], now)
      OBVIOUS
    <2>1. ASSUME CleanupCommits(o) PROVE ~Live(rows[h], now)
      <3>1. lock[h] = o
        BY <2>1 DEF CleanupCommits, Held
      <3>2. Expired(h, began[o]) /\ began[o] <= now
        BY <3>1 DEF IInv, OpInv, Sweeps
      <3>3. began[o] \in Nat /\ now \in Nat /\ rows[h].exp \in Nat
        BY StoreAssumption DEF IInv, TypeOK, Row
      <3> QED BY <3>2, <3>3 DEF Expired, Live
    <2>2. StepOf(o)
      <3>1. ASSUME NEW x \in Ops, x # o, StepOf(x) PROVE FALSE
        BY <3>1, OthersVars DEF IInv
      <3>2. CASE Tick \/ UNCHANGED vars
        BY <3>2 DEF Tick, vars
      <3> QED BY <3>1, <3>2 DEF Next, StepOf
    <2>3. CASE ~CleanupCommits(o)
      <3>1. rows' = rows
        BY <2>2, <2>3 DEF StepOf, OpBegins, OpStep, Get, ListKeys, SetBegins, Delete, SetManyBegins,
           CleanupBegins, UpdateBegins, SetRuns, SetManyTakes, SetManyCommits, CleanupTakes,
           UpdateSelects, UpdateCalls, UpdateUpserts, UpdateCommits, Fails, Refused
      <3> QED BY <3>1
    <2> QED BY <2>1, <2>3
  <1> QED BY <1>1, Inductive, PTL DEF Spec, CleanupKeepsLive

-----------------------------------------------------------------------------
(* The cleanup goroutines.                                                 *)

\* A store with its goroutines and its Close is a store: they call it as anybody does.
THEOREM Composes == SystemSpec => Spec
  <1>1. SystemInit => Init
    BY DEF SystemInit
  <1>2. [SystemNext]_allVars => [Next]_vars
    <2> SUFFICES ASSUME [SystemNext]_allVars PROVE [Next]_vars
      OBVIOUS
    <2>1. CASE StoreStep
      BY <2>1 DEF StoreStep, Next
    <2>2. ASSUME NEW l \in Loops, LoopStep(l) PROVE [Next]_vars
      <3>1. CASE Ticks(l)
        BY <3>1, CleanupAssumption DEF Ticks, Next, OpBegins
      <3>2. CASE ~Ticks(l)
        BY <2>2, <3>2 DEF LoopStep, Resets, Defers, Swept, Returns
      <3> QED BY <3>1, <3>2
    <2>3. CASE CloseSignals \/ CloseStep
      BY <2>3 DEF CloseSignals, CloseStep, CloseReads, CloseReturns
    <2>4. CASE UNCHANGED allVars
      BY <2>4 DEF allVars, vars
    <2> QED BY <2>1, <2>2, <2>3, <2>4 DEF SystemNext
  <1> QED BY <1>1, <1>2, PTL DEF SystemSpec, Spec

\* The goroutine makes one channel, which is the field's value from then on, and
\* closes it when it ends.
ChannelInv ==
  OneOption =>
    /\ ~panicked
    /\ \A l \in Options :
         /\ lpc[l] = "select" \/ lpc[l] = "sweep" => deferred[l] = l
         /\ lpc[l] = "made" => cleanupDone = l
         /\ l \in shut => lpc[l] = "ended"

\* Outside of a sweep the goroutine's Cleanup is over or has not begun.
QuietInv == \A l \in Options : lpc[l] # "sweep" => pc[l] \in Ended \cup {"idle"}

\* The goroutines are those of the options, and each that runs its loop has a channel
\* to close.
LoopKinds ==
  \A l \in Loops : /\ lpc[l] # "none" => l \in Options
                   /\ lpc[l] \in {"select", "sweep"} => deferred[l] # None

WaitInv == cpc = "returned" => waitOn \in shut

SystemInv == TypeOK /\ LoopTypeOK /\ LoopKinds /\ ChannelInv /\ QuietInv /\ WaitInv

\* The options are what they are.
LEMMA OptionsStay ==
  ASSUME [Next]_vars
  PROVE  Options' = Options
  <1>1. \A l \in Loops : Kind(l)' = Kind(l)
    BY CallStays
  <1> QED BY <1>1 DEF Options

\* The variables of the goroutines and of Close keep their types.
LEMMA LoopTypeStep == LoopTypeOK /\ LoopKinds /\ [SystemNext]_allVars => LoopTypeOK'
  <1> SUFFICES ASSUME LoopTypeOK, LoopKinds, [SystemNext]_allVars PROVE LoopTypeOK'
    OBVIOUS
  <1> USE DEF LoopTypeOK, loopVars, closeVars
  <1>1. CASE StoreStep \/ CloseSignals
    BY <1>1 DEF StoreStep, CloseSignals
  <1>2. ASSUME NEW l \in Loops, LoopStep(l) PROVE LoopTypeOK'
    <2>1. CASE Resets(l) \/ Defers(l)
      BY <2>1 DEF Resets, NewChannel, Defers
    <2>2. CASE Ticks(l) \/ Swept(l)
      BY <2>2 DEF Ticks, Swept
    <2>3. CASE Returns(l)
      BY <2>3 DEF Returns, CloseDone, LoopKinds
    <2> QED BY <1>2, <2>1, <2>2, <2>3 DEF LoopStep
  <1>3. CASE CloseStep
    BY <1>3 DEF CloseStep, CloseReads, CloseReturns
  <1>4. CASE UNCHANGED allVars
    BY <1>4 DEF allVars
  <1> QED BY <1>1, <1>2, <1>3, <1>4 DEF SystemNext

\* The steps of the store move no goroutine.
LEMMA StoreFrame ==
  ASSUME StoreStep
  PROVE  /\ lpc' = lpc /\ cleanupDone' = cleanupDone /\ deferred' = deferred /\ shut' = shut
         /\ panicked' = panicked /\ cpc' = cpc /\ waitOn' = waitOn /\ cleanupClose' = cleanupClose
  BY DEF StoreStep, loopVars, closeVars

\* Only goroutines of the options run, and each has its channel when it loops.
LEMMA LoopKindsStep == LoopTypeOK /\ LoopKinds /\ [SystemNext]_allVars /\ [Next]_vars => LoopKinds'
  <1> SUFFICES ASSUME LoopTypeOK, LoopKinds, [SystemNext]_allVars, [Next]_vars PROVE LoopKinds'
    OBVIOUS
  <1> USE OptionsStay DEF LoopKinds
  <1>1. CASE StoreStep
    BY <1>1, StoreFrame
  <1>2. ASSUME NEW l \in Loops, LoopStep(l) PROVE LoopKinds'
    <2>1. \A c \in Loops \cup {First} : c # None
      BY CleanupAssumption, StoreAssumption
    <2>2. CASE Defers(l)
      BY <2>1, <2>2 DEF LoopTypeOK, Defers
    <2>3. CASE Resets(l) \/ Ticks(l) \/ Swept(l) \/ Returns(l)
      BY <2>3 DEF LoopTypeOK, Resets, Ticks, Swept, Returns
    <2> QED BY <1>2, <2>2, <2>3 DEF LoopStep
  <1>3. CASE CloseSignals \/ CloseStep \/ UNCHANGED allVars
    BY <1>3 DEF CloseSignals, CloseStep, CloseReads, CloseReturns, allVars, loopVars
  <1> QED BY <1>1, <1>2, <1>3 DEF SystemNext

\* A single goroutine closes the channel it made, once.
LEMMA ChannelStep ==
  LoopTypeOK /\ LoopKinds /\ ChannelInv /\ [SystemNext]_allVars /\ [Next]_vars => ChannelInv'
  <1> SUFFICES ASSUME LoopTypeOK, LoopKinds, ChannelInv, [SystemNext]_allVars, [Next]_vars, OneOption
               PROVE  ChannelInv'
    BY OptionsStay DEF ChannelInv, OneOption
  <1> USE OptionsStay DEF ChannelInv
  <1>1. CASE StoreStep
    BY <1>1, StoreFrame
  <1>2. ASSUME NEW l \in Loops, LoopStep(l) PROVE ChannelInv'
    <2>1. l \in Options /\ \A k \in Options : k = l
      BY <1>2 DEF LoopStep, Resets, Defers, Ticks, Swept, Returns, LoopKinds, OneOption
    <2>2. CASE Resets(l) \/ Defers(l)
      BY <2>1, <2>2 DEF Resets, NewChannel, Defers, LoopTypeOK
    <2>3. CASE Ticks(l) \/ Swept(l)
      BY <2>1, <2>3 DEF Ticks, Swept, LoopTypeOK
    <2>4. CASE Returns(l)
      BY <2>1, <2>4 DEF Returns, CloseDone, LoopTypeOK
    <2> QED BY <1>2, <2>2, <2>3, <2>4 DEF LoopStep
  <1>3. CASE CloseSignals \/ CloseStep \/ UNCHANGED allVars
    BY <1>3 DEF CloseSignals, CloseStep, CloseReads, CloseReturns, allVars, loopVars
  <1> QED BY <1>1, <1>2, <1>3 DEF SystemNext

\* Nobody but the goroutine begins its Cleanup.
LEMMA QuietStep ==
  TypeOK /\ LoopTypeOK /\ LoopKinds /\ QuietInv /\ [SystemNext]_allVars /\ [Next]_vars => QuietInv'
  <1> SUFFICES ASSUME TypeOK, LoopTypeOK, LoopKinds, QuietInv, [SystemNext]_allVars, [Next]_vars,
                      NEW l \in Options, lpc'[l] # "sweep"
               PROVE  pc'[l] \in Ended \cup {"idle"}
    BY OptionsStay DEF QuietInv
  <1> USE DEF QuietInv
  <1>0. l \in Loops /\ l \in Ops
    BY CleanupAssumption DEF Options
  <1>1. CASE StoreStep
    <2>1. pc[l] \in Ended \cup {"idle"}
      BY <1>1, StoreFrame
    <2>2. ASSUME NEW o \in Ops, o # l, StepOf(o) PROVE pc'[l] = pc[l]
      BY <1>0, <2>2, OthersVars
    <2>3. ASSUME OpStep(l) \/ Fails(l) PROVE pc'[l] \in Ended
      BY <1>0, <2>1, <2>3 DEF OpStep, SetRuns, SetManyTakes, SetManyCommits, CleanupTakes, CleanupCommits,
         UpdateSelects, UpdateCalls, UpdateUpserts, UpdateCommits, Refused, Fails, Ended, TypeOK
    <2>4. CASE Tick
      BY <2>1, <2>4 DEF Tick
    <2> QED BY <1>0, <1>1, <2>1, <2>2, <2>3, <2>4 DEF StoreStep, StepOf
  <1>2. ASSUME NEW k \in Loops, LoopStep(k) PROVE pc'[l] \in Ended \cup {"idle"}
    <2>1. CASE Ticks(k)
      <3>1. k # l
        BY <1>0, <2>1 DEF Ticks, LoopTypeOK
      <3>2. pc'[l] = pc[l] /\ lpc'[l] = lpc[l]
        BY <1>0, <2>1, <3>1 DEF Ticks, CleanupBegins, Begins, TypeOK, LoopTypeOK
      <3> QED BY <3>2
    <2>2. CASE Swept(k)
      BY <1>0, <2>2 DEF Swept, vars, LoopTypeOK
    <2>3. CASE Resets(k) \/ Defers(k) \/ Returns(k)
      BY <1>0, <2>3 DEF Resets, Defers, Returns, vars, LoopTypeOK
    <2> QED BY <1>2, <2>1, <2>2, <2>3 DEF LoopStep
  <1>3. CASE CloseSignals \/ CloseStep \/ UNCHANGED allVars
    BY <1>3 DEF CloseSignals, CloseStep, CloseReads, CloseReturns, allVars, vars, loopVars
  <1> QED BY <1>1, <1>2, <1>3 DEF SystemNext

\* Close waits for a channel to be closed, and none is opened again.
LEMMA WaitStep == LoopTypeOK /\ WaitInv /\ [SystemNext]_allVars => WaitInv'
  <1> SUFFICES ASSUME LoopTypeOK, WaitInv, [SystemNext]_allVars PROVE WaitInv'
    OBVIOUS
  <1> USE DEF WaitInv
  <1>1. CASE StoreStep
    BY <1>1, StoreFrame
  <1>2. ASSUME NEW l \in Loops, LoopStep(l) PROVE WaitInv'
    BY <1>2 DEF LoopStep, Resets, Defers, Ticks, Swept, Returns, CloseDone, closeVars
  <1>3. CASE CloseSignals \/ CloseStep \/ UNCHANGED allVars
    BY <1>3 DEF CloseSignals, CloseStep, CloseReads, CloseReturns, WaitForDone, allVars, loopVars
  <1> QED BY <1>1, <1>2, <1>3 DEF SystemNext

\* The invariant of the goroutines holds in a new store.
LEMMA SystemInitInv == SystemInit => LoopTypeOK /\ LoopKinds /\ ChannelInv /\ QuietInv /\ WaitInv
  <1> SUFFICES ASSUME SystemInit PROVE LoopTypeOK /\ LoopKinds /\ ChannelInv /\ QuietInv /\ WaitInv
    OBVIOUS
  <1> USE CleanupAssumption DEF SystemInit, ClosedDone, Options
  <1>1. LoopTypeOK /\ LoopKinds /\ WaitInv
    BY DEF LoopTypeOK, LoopKinds, WaitInv
  <1>2. ChannelInv
    BY DEF ChannelInv
  <1>3. QuietInv
    BY DEF QuietInv, Init
  <1> QED BY <1>1, <1>2, <1>3

\* The invariant of the store with its goroutines and its Close.
THEOREM SystemInductive == SystemSpec => []SystemInv
  <1> DEFINE J == LoopTypeOK /\ LoopKinds /\ ChannelInv /\ QuietInv /\ WaitInv
  <1>1. TypeOK /\ [Next]_vars /\ J /\ [SystemNext]_allVars => J'
    BY LoopTypeStep, LoopKindsStep, ChannelStep, QuietStep, WaitStep
  <1>2. SystemInit => J
    BY SystemInitInv
  <1>3. TypeOK /\ J => SystemInv
    BY DEF SystemInv
  <1>4. SystemSpec => Spec
    BY Composes
  <1>5. Spec => []TypeOK
    BY TypeCorrect
  <1> HIDE DEF J
  <1> QED BY <1>1, <1>2, <1>3, <1>4, <1>5, PTL DEF SystemSpec, Spec

\* The types of the store with its goroutines and its Close, for any number of
\* options.
THEOREM SystemTypeCorrect == SystemSpec => []SystemTypeOK
  <1>1. SystemInv => SystemTypeOK
    BY DEF SystemInv, SystemTypeOK
  <1> QED BY <1>1, SystemInductive, PTL

\* With one WithCleanup no channel is closed twice, whenever Close comes.
THEOREM ClosedOnce == SystemSpec => []NoDoubleClose
  <1>1. SystemInv => NoDoubleClose
    BY DEF SystemInv, ChannelInv, OneOption, NoDoubleClose
  <1> QED BY <1>1, SystemInductive, PTL

\* With one WithCleanup, a Close that found the goroutine's channel returns after the
\* goroutine.
THEOREM CloseWaited == SystemSpec => []CloseWaits
  <1>1. SystemInv => CloseWaits
    BY DEF SystemInv, ChannelInv, QuietInv, WaitInv, CloseWaits
  <1> QED BY <1>1, SystemInductive, PTL
=============================================================================
