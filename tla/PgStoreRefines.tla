--------------------------- MODULE PgStoreRefines ---------------------------
(***************************************************************************)
(* The PostgreSQL store implements the interface Store, for every number   *)
(* of keys and calls, where no two keys share a hash.  Where some do, what *)
(* it hands out for a key comes from calls on keys with its hash.          *)
(***************************************************************************)
EXTENDS PgStoreProofs

\* hashKey tells the keys apart.
OneToOne == \A j, k \in Keys : Hash[j] = Hash[k] => j = k

\* A call that is under way.
UnderWay(o) == pc[o] \in {"exec", "take", "select", "fn", "upsert", "commit"}

\* Where expires_at has been computed.
Dated(o) == \/ pc[o] \in {"exec", "upsert", "commit"}
            \/ pc[o] = "take" /\ Kind(o) = "setmany"

\* expires_at of o by the clock at t.
ExpiryAt(o, t) == IF Ttl(o) > 0 THEN t + Ttl(o) ELSE 0

\* A call has begun when it is under way, and it computed its expires_at since.
TimeInv ==
  \A o \in Ops :
    /\ pc[o] = "idle" => began[o] = 0
    /\ UnderWay(o) => began[o] \in 1..now
    /\ Dated(o) => \E t \in began[o]..now : expires[o] = ExpiryAt(o, t)

\* What was returned or read is that of a call that got as far as that.
FreshInv ==
  \A o \in Ops :
    /\ pc[o] \in {"idle", "exec", "take", "select"} => seen[o] = None
    /\ Kind(o) \in {"set", "setmany", "delete", "cleanup", "none"} => seen[o] = None

\* A row is under the hash of its key.
RowInv == \A h \in Hashes : rows[h] # None => Hash[rows[h].key] = h

RInv == TimeInv /\ FreshInv /\ RowInv

-----------------------------------------------------------------------------
(* The invariant that the refinement needs.                                *)

\* The times of a call that makes no step: the clock does not go back.
LEMMA OldTimes ==
  ASSUME IInv, TimeInv, [Next]_vars, NEW o \in Ops, now' \in Nat, now <= now',
         pc'[o] = pc[o], began'[o] = began[o], expires'[o] = expires[o]
  PROVE  /\ pc'[o] = "idle" => began'[o] = 0
         /\ UnderWay(o)' => began'[o] \in 1..now'
         /\ Dated(o)' => \E t \in began'[o]..now' : expires'[o] = ExpiryAt(o, t)'
  <1>1. now \in Nat /\ began[o] \in Nat
    BY StoreAssumption DEF IInv, TypeOK
  <1>2. (UnderWay(o)' <=> UnderWay(o)) /\ (Dated(o)' <=> Dated(o))
    BY CallStays DEF UnderWay, Dated
  <1>3. ASSUME Dated(o) PROVE \E t \in began'[o]..now' : expires'[o] = ExpiryAt(o, t)'
    <2>1. PICK t \in began[o]..now : expires[o] = ExpiryAt(o, t)
      BY <1>3 DEF TimeInv
    <2>2. t \in began[o]..now'
      BY <1>1, <2>1
    <2>3. ExpiryAt(o, t)' = ExpiryAt(o, t)
      BY CallStays DEF ExpiryAt, Ttl, Kind
    <2> QED BY <2>1, <2>2, <2>3
  <1> QED BY <1>1, <1>2, <1>3 DEF TimeInv

\* The times of a call that makes a step.
LEMMA OwnTimes ==
  ASSUME IInv, TimeInv, [Next]_vars, NEW o \in Ops, StepOf(o)
  PROVE  /\ pc'[o] = "idle" => began'[o] = 0
         /\ UnderWay(o)' => began'[o] \in 1..now'
         /\ Dated(o)' => \E t \in began'[o]..now' : expires'[o] = ExpiryAt(o, t)'
  <1> USE DEF TypeOK, IInv
  <1>1. /\ now \in Nat /\ now >= 1 /\ began[o] \in Nat /\ now' = now
        /\ Kind(o)' = Kind(o) /\ \A t : ExpiryAt(o, t)' = ExpiryAt(o, t)
    <2>1. now' = now
      BY DEF StepOf, OpBegins, OpStep, Get, ListKeys, SetBegins, Delete, SetManyBegins, CleanupBegins,
             UpdateBegins, SetRuns, SetManyTakes, SetManyCommits, CleanupTakes, CleanupCommits,
             UpdateSelects, UpdateCalls, UpdateUpserts, UpdateCommits, Fails, Refused
    <2>2. Kind(o)' = Kind(o) /\ call' = call
      BY CallStays
    <2>3. ASSUME NEW t PROVE ExpiryAt(o, t)' = ExpiryAt(o, t)
      BY <2>2 DEF ExpiryAt, Ttl
    <2>4. now \in Nat /\ now >= 1 /\ began[o] \in Nat
      BY StoreAssumption
    <2> QED BY <2>1, <2>2, <2>3, <2>4
  <1>2. CASE pc'[o] \in Ended
    BY <1>2 DEF Ended, UnderWay, Dated
  <1>3. CASE SetBegins(o) \/ SetManyBegins(o)
    <2>1. /\ began'[o] = now /\ expires'[o] = ExpiryAt(o, now) /\ pc'[o] \in {"exec", "take"}
      BY <1>3 DEF SetBegins, SetManyBegins, Begins, Expiry, ExpiryAt
    <2> QED BY <1>1, <2>1 DEF UnderWay, Dated
  <1>4. CASE CleanupBegins(o) \/ UpdateBegins(o)
    <2>1. /\ began'[o] = now
          /\ (Kind(o) = "cleanup" /\ pc'[o] = "take") \/ pc'[o] = "select"
      BY <1>4 DEF CleanupBegins, UpdateBegins, Begins
    <2> QED BY <1>1, <2>1 DEF UnderWay, Dated
  <1>5. CASE SetManyTakes(o) \/ CleanupTakes(o)
    <2>1. pc' = pc /\ began' = began /\ expires' = expires
      BY <1>5 DEF SetManyTakes, CleanupTakes, tx
    <2> QED BY <1>1, <2>1, OldTimes
  <1>6. CASE UpdateSelects(o)
    <2>1. pc[o] = "select" /\ pc'[o] = "fn" /\ began'[o] = began[o]
      BY <1>6 DEF UpdateSelects
    <2> QED BY <1>1, <2>1 DEF UnderWay, Dated, TimeInv
  <1>7. CASE UpdateCalls(o)
    <2>1. /\ pc[o] = "fn" /\ pc'[o] = "upsert" /\ began'[o] = began[o]
          /\ expires'[o] = ExpiryAt(o, now)
      BY <1>7 DEF UpdateCalls, Expiry, ExpiryAt
    <2>2. began[o] \in 1..now
      BY <2>1 DEF TimeInv, UnderWay
    <2> QED BY <1>1, <2>1, <2>2 DEF UnderWay, Dated
  <1>8. CASE UpdateUpserts(o)
    <2>1. /\ pc[o] = "upsert" /\ pc'[o] = "commit" /\ began'[o] = began[o]
          /\ expires'[o] = expires[o]
      BY <1>8 DEF UpdateUpserts, tx
    <2> QED BY <1>1, <2>1 DEF UnderWay, Dated, TimeInv
  <1>9. CASE \/ Get(o) \/ ListKeys(o) \/ Delete(o) \/ SetRuns(o) \/ SetManyCommits(o)
             \/ CleanupCommits(o) \/ UpdateCommits(o) \/ Fails(o) \/ Refused(o)
    BY <1>2, <1>9 DEF Get, ListKeys, Delete, SetRuns, SetManyCommits, CleanupCommits,
                      UpdateCommits, Fails, Refused, Answer, Ended
  <1> QED BY <1>3, <1>4, <1>5, <1>6, <1>7, <1>8, <1>9 DEF StepOf, OpBegins, OpStep

\* So the times of every call.
LEMMA TimeStep == IInv /\ TimeInv /\ [Next]_vars => TimeInv'
  <1> SUFFICES ASSUME IInv, TimeInv, [Next]_vars, NEW x \in Ops
               PROVE  /\ pc'[x] = "idle" => began'[x] = 0
                      /\ UnderWay(x)' => began'[x] \in 1..now'
                      /\ Dated(x)' => \E t \in began'[x]..now' : expires'[x] = ExpiryAt(x, t)'
    BY DEF TimeInv
  <1>1. now \in Nat
    BY StoreAssumption DEF IInv, TypeOK
  <1>2. ASSUME NEW o \in Ops, StepOf(o)
        PROVE  x = o \/ (/\ now' = now /\ pc'[x] = pc[x] /\ began'[x] = began[x]
                         /\ expires'[x] = expires[x])
    BY <1>2, OthersVars DEF IInv
  <1>3. CASE Tick \/ UNCHANGED vars
    <2>1. now' \in Nat /\ now <= now' /\ pc' = pc /\ began' = began /\ expires' = expires
      BY <1>1, <1>3 DEF Tick, vars, tx
    <2> QED BY <2>1, OldTimes
  <1>4. ASSUME NEW o \in Ops, StepOf(o), x # o
        PROVE  now' \in Nat /\ now <= now' /\ pc'[x] = pc[x] /\ began'[x] = began[x] /\ expires'[x] = expires[x]
    BY <1>1, <1>2, <1>4
  <1>5. CASE StepOf(x)
    BY <1>5, OwnTimes
  <1>6. CASE \E o \in Ops : StepOf(o) /\ x # o
    <2>1. /\ now' \in Nat /\ now <= now' /\ pc'[x] = pc[x] /\ began'[x] = began[x]
          /\ expires'[x] = expires[x]
      BY <1>4, <1>6
    <2> QED BY <2>1, OldTimes
  <1> QED BY <1>3, <1>5, <1>6 DEF Next, StepOf

\* Only a Get, a Keys or an Update leaves something in seen.
LEMMA FreshStep == IInv /\ FreshInv /\ [Next]_vars => FreshInv'
  <1> DEFINE Goal(x) == /\ pc'[x] \in {"idle", "exec", "take", "select"} => seen'[x] = None
                        /\ Kind(x) \in {"set", "setmany", "delete", "cleanup", "none"} => seen'[x] = None
  <1> SUFFICES ASSUME IInv, FreshInv, [Next]_vars, NEW x \in Ops PROVE Goal(x)
    BY CallStays DEF FreshInv
  <1> USE DEF IInv, TypeOK, FreshInv, tx
  <1>1. ASSUME NEW o \in Ops, StepOf(o), o # x PROVE Goal(x)
    <2>1. seen'[x] = seen[x] /\ pc'[x] = pc[x]
      BY <1>1, OthersVars
    <2> QED BY <2>1
  <1>2. CASE OpBegins(x)
    BY <1>2 DEF OpBegins, Get, ListKeys, SetBegins, Delete, SetManyBegins, CleanupBegins,
                UpdateBegins, Begins
  <1>3. CASE UpdateSelects(x)
    <2>1. Kind(x) = "update" /\ pc'[x] = "fn"
      BY <1>3 DEF UpdateSelects, OpInv, Kinds
    <2> QED BY <2>1
  <1>4. CASE (OpStep(x) /\ ~UpdateSelects(x)) \/ Fails(x)
    BY <1>4 DEF OpStep, SetRuns, SetManyTakes, SetManyCommits, CleanupTakes, CleanupCommits,
                UpdateCalls, UpdateUpserts, UpdateCommits, Refused, Fails, Drops
  <1>5. CASE Tick \/ UNCHANGED vars
    BY <1>5 DEF Tick, vars
  <1> QED BY <1>1, <1>2, <1>3, <1>4, <1>5 DEF Next, StepOf

\* A write keeps the key of the row, or makes a row under the hash of its key.
LEMMA RowStep == IInv /\ RowInv /\ [Next]_vars => RowInv'
  <1> SUFFICES ASSUME IInv, RowInv, [Next]_vars, NEW h \in Hashes, rows'[h] # None
               PROVE  Hash[rows'[h].key] = h
    BY DEF RowInv
  <1> USE DEF IInv, TypeOK, RowInv
  <1>1. CASE rows'[h] = rows[h]
    BY <1>1
  <1>2. ASSUME NEW k, NEW v, NEW o, rows'[h] = Upsert(h, k, v, o), Hash[k] = h
        PROVE  Hash[rows'[h].key] = h
    BY <1>2 DEF Upsert
  <1>3. ASSUME NEW o \in Ops, SetRuns(o) \/ UpdateCommits(o) PROVE Hash[rows'[h].key] = h
    <2>1. rows'[h] = rows[h] \/ (h = HashOf(o) /\ \E v : rows'[h] = Upsert(h, KeyOf(o), v, o))
      BY <1>3 DEF SetRuns, UpdateCommits
    <2> QED BY <1>1, <1>2, <2>1 DEF HashOf
  <1>4. ASSUME NEW o \in Ops, SetManyCommits(o) PROVE Hash[rows'[h].key] = h
    <2> DEFINE k == CHOOSE k \in OpKeys(o) : Hash[k] = h
    <2>1. rows'[h] = IF \E j \in OpKeys(o) : Hash[j] = h THEN Upsert(h, k, {o}, o) ELSE rows[h]
      BY <1>4 DEF SetManyCommits
    <2>2. (\E j \in OpKeys(o) : Hash[j] = h) => Hash[k] = h
      OBVIOUS
    <2> HIDE DEF k
    <2> QED BY <1>1, <1>2, <2>1, <2>2
  <1>5. ASSUME NEW o \in Ops, Delete(o) \/ CleanupCommits(o) PROVE Hash[rows'[h].key] = h
    BY <1>1, <1>5 DEF Delete, CleanupCommits
  <1>6. CASE ~\E o \in Ops : \/ SetRuns(o) \/ UpdateCommits(o) \/ SetManyCommits(o)
                              \/ Delete(o) \/ CleanupCommits(o)
    <2>1. rows' = rows
      BY <1>6 DEF Next, OpBegins, OpStep, Get, ListKeys, SetBegins, SetManyBegins, CleanupBegins,
                  UpdateBegins, SetManyTakes, CleanupTakes, UpdateSelects, UpdateCalls,
                  UpdateUpserts, Fails, Refused, Tick, vars
    <2> QED BY <1>1, <2>1
  <1> QED BY <1>3, <1>4, <1>5, <1>6

\* RInv is invariant, with or without collisions of hashes.
THEOREM RefInductive == Spec => []RInv
  <1>1. Init => RInv
    BY DEF Init, RInv, TimeInv, FreshInv, RowInv, UnderWay, Dated
  <1>2. IInv /\ RInv /\ [Next]_vars => RInv'
    BY TimeStep, FreshStep, RowStep DEF RInv
  <1> QED BY <1>1, <1>2, Inductive, PTL DEF Spec

-----------------------------------------------------------------------------
(* What the interface sees of the store.                                   *)

\* What is known before and after a step.
Known == IInv /\ IInv' /\ RInv /\ RInv' /\ [Next]_vars

\* The calls seen by the interface are those of the store.
LEMMA SameCalls ==
  ASSUME NEW o \in Ops
  PROVE  /\ Promise!Kind(o) = Kind(o) /\ Promise!KeyOf(o) = KeyOf(o) /\ call[o].keys = OpKeys(o)
         /\ \A t : Promise!Expiry(o, t) = ExpiryAt(o, t)
  BY DEF Promise!Kind, Kind, Promise!KeyOf, KeyOf, OpKeys, Promise!Expiry, ExpiryAt, Ttl

\* A call of one key has that key alone.
LEMMA OneKey ==
  ASSUME TypeOK, NEW o \in Ops, Kind(o) \in {"get", "set", "update", "delete"}
  PROVE  OpKeys(o) = {KeyOf(o)}
  <1>1. IsCall(call[o])
    BY StoreAssumption DEF TypeOK
  <1>2. KeyOf(o) \in OpKeys(o)
    BY CallFields DEF TypeOK
  <1>3. \A j, k \in OpKeys(o) : j = k
    BY <1>1 DEF IsCall, Kind, OpKeys
  <1> QED BY <1>2, <1>3

\* A step of o shows of the calls what it does to o.
LEMMA Frame ==
  ASSUME Known, NEW o \in Ops, StepOf(o)
  PROVE  /\ call' = call /\ now' = now
         /\ st' = [st EXCEPT ![o] = Status(o)']
         /\ since' = [since EXCEPT ![o] = since'[o]]
         /\ seen' = [seen EXCEPT ![o] = seen'[o]]
         /\ Caller(o)' = Caller(o)
  <1>1. call' = call /\ \A x \in Ops : Kind(x)' = Kind(x)
    BY CallStays DEF Known
  <1>2. now' = now
    BY DEF StepOf, OpBegins, OpStep, Get, ListKeys, SetBegins, Delete, SetManyBegins, CleanupBegins,
           UpdateBegins, SetRuns, SetManyTakes, SetManyCommits, CleanupTakes, CleanupCommits,
           UpdateSelects, UpdateCalls, UpdateUpserts, UpdateCommits, Fails, Refused
  <1>3. ASSUME NEW x \in Ops \ {o}
        PROVE  pc'[x] = pc[x] /\ began'[x] = began[x] /\ seen'[x] = seen[x]
    BY OthersVars DEF Known, IInv
  <1>4. ASSUME NEW x \in Ops \ {o} PROVE Status(x)' = Status(x) /\ since'[x] = since[x]
    BY <1>1, <1>3 DEF Status, since, Caller
  <1>5. seen' = [seen EXCEPT ![o] = seen'[o]]
    BY <1>3 DEF Known, IInv, TypeOK
  <1> QED BY <1>1, <1>2, <1>4, <1>5 DEF st, since, Caller

\* The status of a caller's call.
LEMMA StatusOf ==
  ASSUME NEW o, Caller(o)
  PROVE  /\ pc[o] \in {"idle", "exec", "take", "select"} => Status(o) = "idle"
         /\ pc[o] \in {"fn", "upsert", "commit"} => Status(o) = "fn"
         /\ pc[o] = "aborted" => Status(o) = "failed"
         /\ pc[o] \in {"ok", "unknown"} => Status(o) = pc[o]
  BY DEF Status

\* And that is how the interface sees it move.
LEMMA Moves ==
  ASSUME Known, NEW o \in Ops, StepOf(o), NEW from, NEW to, Status(o) = from, Status(o)' = to
  PROVE  /\ Promise!Becomes(o, from, to)
         /\ since'[o] = 0 => Promise!Ends(o, from, to)
  BY Frame DEF st, Promise!Becomes, Promise!Ends

\* What a row is to the interface.
Shown(r) == IF r = None THEN None ELSE [val |-> r.val, exp |-> r.exp]

\* Without collisions, the row of a key's hash is that of the key.
LEMMA EntryOf ==
  ASSUME OneToOne, TypeOK, RowInv, NEW k \in Keys
  PROVE  /\ entry[k] = Shown(rows[Hash[k]])
         /\ Hash[k] \in Hashes
         /\ rows[Hash[k]] # None => rows[Hash[k]] \in Row /\ rows[Hash[k]].key = k /\ entry[k] # None
  <1>1. Hash[k] \in Hashes
    BY StoreAssumption
  <1>2. rows[Hash[k]] # None => rows[Hash[k]] \in Row
    BY <1>1 DEF TypeOK
  <1>3. rows[Hash[k]] # None => rows[Hash[k]].key = k
    BY <1>1, <1>2 DEF RowInv, OneToOne, Row
  <1>4. entry[k] = Shown(rows[Hash[k]])
    BY <1>3 DEF entry, Entry, Shown
  <1>5. rows[Hash[k]] # None => Shown(rows[Hash[k]]) # None
    <2>1. rows[Hash[k]] # None => Shown(rows[Hash[k]]) \in [val : SUBSET Ops, exp : Nat]
      BY <1>2 DEF Shown, Row
    <2> QED BY <2>1, StoreAssumption
  <1> QED BY <1>1, <1>2, <1>3, <1>4, <1>5

\* All entries, before and after a step.
EntryInv == \A k \in Keys : entry[k] = Shown(rows[Hash[k]])

\* They are in the next state because they are in every state.
LEMMA EntryAlways == ASSUME OneToOne PROVE TypeOK' /\ RowInv' => EntryInv'
  <1>1. TypeOK /\ RowInv => EntryInv
    BY EntryOf DEF EntryInv
  <1> QED BY <1>1, PTL

\* The entry of one key after a step.
LEMMA EntryAfter ==
  ASSUME OneToOne, Known, NEW k \in Keys
  PROVE  entry'[k] = Shown(rows'[Hash[k]])
  BY EntryAlways DEF EntryInv, Known, IInv, RInv, Shown

\* An Update that keeps its key from the others has read it, and holds the row.
LEMMA KeptRow ==
  ASSUME IInv, NEW x \in Ops, NEW k \in Promise!Claimed(x)
  PROVE  /\ k = KeyOf(x) /\ k \in Keys
         /\ lock[Hash[k]] = x /\ rows[Hash[k]] # None /\ rows[Hash[k]].key = k
  <1>1. st[x] = "fn" /\ seen[x] # None /\ k \in call[x].keys
    BY DEF Promise!Claimed
  <1>2. pc[x] \in {"fn", "upsert", "commit"}
    <2>1. /\ pc[x] \notin {"idle", "exec", "take", "select", "aborted", "ok", "unknown"}
      BY <1>1 DEF st, Status
    <2> QED BY <2>1 DEF IInv, TypeOK, Ended
  <1>3. Kind(x) = "update"
    BY <1>2 DEF IInv, OpInv, Kinds
  <1>4. k = KeyOf(x) /\ k \in Keys
    BY <1>1, <1>3, OneKey, CallFields DEF IInv, TypeOK, OpKeys
  <1> QED BY <1>1, <1>2, <1>4 DEF IInv, OpInv, Reads, HashOf

\* A call whose rows nobody else holds, or are not there, changes no key of an Update.
LEMMA RowsFree ==
  ASSUME IInv, NEW o \in Ops,
         \A k \in OpKeys(o) : lock[Hash[k]] \in {None, o} \/ rows[Hash[k]] = None
  PROVE  Promise!Unclaimed(o)
  <1>1. ASSUME NEW x \in Ops \ {o}, NEW k \in Promise!Claimed(x), k \in call[o].keys PROVE FALSE
    <2>1. lock[Hash[k]] = x /\ rows[Hash[k]] # None
      BY <1>1, KeptRow
    <2> QED BY <1>1, <2>1, StoreAssumption DEF OpKeys
  <1> QED BY <1>1 DEF Promise!Unclaimed

\* A step that leaves the rows leaves the entries.
LEMMA SameRows == ASSUME rows' = rows PROVE entry' = entry
  BY DEF entry, Entry

-----------------------------------------------------------------------------
(* The refinement, action by action.                                       *)

\* A call that has to reach the server is made.
LEMMA CallStep ==
  ASSUME Known, NEW o \in Ops, SetBegins(o) \/ SetManyBegins(o) \/ UpdateBegins(o)
  PROVE  Promise!Call(o)
  <1>1. /\ StepOf(o) /\ Kind(o) \in {"set", "setmany", "update"} /\ pc[o] = "idle"
        /\ pc'[o] \in {"exec", "take", "select"} /\ began'[o] = now
        /\ rows' = rows /\ seen' = seen
    BY DEF SetBegins, SetManyBegins, UpdateBegins, Begins, StepOf, OpBegins, Known, IInv, TypeOK
  <1>2. Caller(o) /\ Caller(o)'
    BY <1>1, Frame DEF Caller
  <1>3. st[o] = "idle" /\ Status(o)' = "idle"
    BY <1>1, <1>2 DEF st, Status
  <1>4. since[o] = 0 /\ since'[o] = now
    BY <1>1, <1>2 DEF since, Known, RInv, TimeInv
  <1>5. st' = st
    BY <1>1, <1>3, Frame DEF st
  <1> QED BY <1>1, <1>3, <1>4, <1>5, Frame, SameRows DEF Promise!Call

\* Steps of a call that the interface does not show: rows are taken, expires_at is
\* computed, and all that a Cleanup does before its commit.
LEMMA HiddenStep ==
  ASSUME Known, NEW o \in Ops,
         \/ CleanupBegins(o) \/ SetManyTakes(o) \/ CleanupTakes(o) \/ UpdateCalls(o) \/ UpdateUpserts(o)
  PROVE  UNCHANGED Promise!vars
  <1>1. StepOf(o) /\ rows' = rows /\ seen' = seen
    BY DEF CleanupBegins, SetManyTakes, CleanupTakes, UpdateCalls, UpdateUpserts, StepOf, OpBegins,
           OpStep, tx
  <1>2. Caller(o) => began' = began
    BY DEF Caller, CleanupBegins, SetManyTakes, CleanupTakes, UpdateCalls, UpdateUpserts, tx
  <1>3. since'[o] = since[o]
    BY <1>1, <1>2, Frame DEF since
  <1>4. Status(o)' = Status(o)
    <2>1. \/ ~Caller(o) \/ pc'[o] = pc[o]
          \/ pc[o] \in {"fn", "upsert"} /\ pc'[o] \in {"upsert", "commit"}
      BY DEF Caller, CleanupBegins, SetManyTakes, CleanupTakes, UpdateCalls, UpdateUpserts, Known, IInv, TypeOK
    <2> QED BY <1>1, <2>1, Frame DEF Status
  <1>5. st' = st /\ since' = since
    BY <1>1, <1>3, <1>4, Frame DEF st, since
  <1> QED BY <1>1, <1>5, Frame, SameRows DEF Promise!vars

\* A reader finds the value of the live row of its key, at the time it goes by.
LEMMA Reading ==
  ASSUME OneToOne, Known, NEW k \in Keys, NEW t \in Nat
  PROVE  /\ (IF Matches(Hash[k], k, t) THEN rows[Hash[k]].val ELSE None) \in Promise!Readings(k, t)
         /\ Matches(Hash[k], k, t) => Promise!MayLive(entry[k], t)
         /\ Promise!MustLive(entry[k], t) => Matches(Hash[k], k, t)
  <1>1. /\ entry[k] = Shown(rows[Hash[k]])
        /\ rows[Hash[k]] # None => rows[Hash[k]] \in Row /\ rows[Hash[k]].key = k /\ entry[k] # None
    BY EntryOf DEF Known, IInv, RInv
  <1>2. CASE rows[Hash[k]] = None
    BY <1>1, <1>2 DEF Matches, Shown, Promise!Readings, Promise!MustLive
  <1>3. CASE rows[Hash[k]] # None
    <2>1. rows[Hash[k]].exp \in Nat
      BY <1>1, <1>3 DEF Row
    <2> QED BY <1>1, <1>3, <2>1 DEF Matches, Live, Shown, Promise!Readings, Promise!MustLive, Promise!MayLive
  <1> QED BY <1>2, <1>3

\* Get returns a reading of its key, by the clock.
LEMMA GetStep ==
  ASSUME OneToOne, Known, NEW o \in Ops, Get(o)
  PROVE  Promise!Get(o)
  <1> DEFINE v == IF Matches(HashOf(o), KeyOf(o), now) THEN rows[HashOf(o)].val ELSE None
  <1>1. /\ StepOf(o) /\ Kind(o) = "get" /\ pc[o] = "idle" /\ pc'[o] = "ok" /\ rows' = rows
        /\ began' = began /\ seen' = [seen EXCEPT ![o] = v]
    BY DEF Get, StepOf, OpBegins, Known, IInv, TypeOK
  <1>2. Caller(o) /\ Caller(o)' /\ began[o] = 0
    BY <1>1, Frame DEF Caller, Known, RInv, TimeInv
  <1>3. since[o] = 0 /\ since'[o] = 0
    BY <1>1, <1>2 DEF since
  <1>4. Status(o) = "idle" /\ Status(o)' = "ok"
    BY <1>1, <1>2 DEF Status
  <1>5. Promise!Ends(o, "idle", "ok")
    BY <1>1, <1>3, <1>4, Moves
  <1>6. v \in Promise!Readings(KeyOf(o), now)
    <2>1. KeyOf(o) \in Keys /\ now \in Nat
      BY <1>1, CallFields, StoreAssumption DEF Known, IInv, TypeOK
    <2> QED BY <2>1, Reading DEF HashOf
  <1>7. now \in Promise!Times(o)
    BY <1>3 DEF Promise!Times
  <1> HIDE DEF v
  <1> QED BY <1>1, <1>5, <1>6, <1>7, Frame, SameRows, SameCalls DEF Promise!Get

\* Keys returns the keys of the live rows.
LEMMA ListStep ==
  ASSUME OneToOne, Known, NEW o \in Ops, ListKeys(o)
  PROVE  Promise!ListKeys(o)
  <1> DEFINE R == {k \in OpKeys(o) : Matches(Hash[k], k, now)}
  <1>1. /\ StepOf(o) /\ Kind(o) = "keys" /\ pc[o] = "idle" /\ pc'[o] = "ok" /\ rows' = rows
        /\ began' = began /\ seen' = [seen EXCEPT ![o] = R]
    BY DEF ListKeys, StepOf, OpBegins, Known, IInv, TypeOK
  <1>2. Caller(o) /\ Caller(o)' /\ began[o] = 0
    BY <1>1, Frame DEF Caller, Known, RInv, TimeInv
  <1>3. since[o] = 0 /\ since'[o] = 0
    BY <1>1, <1>2 DEF since
  <1>4. Status(o) = "idle" /\ Status(o)' = "ok"
    BY <1>1, <1>2 DEF Status
  <1>5. Promise!Ends(o, "idle", "ok")
    BY <1>1, <1>3, <1>4, Moves
  <1>6. ASSUME NEW k \in OpKeys(o)
        PROVE  /\ Matches(Hash[k], k, now) => Promise!MayLive(entry[k], now)
               /\ Promise!MustLive(entry[k], now) => Matches(Hash[k], k, now)
    <2>1. k \in Keys /\ now \in Nat
      BY CallFields, StoreAssumption DEF Known, IInv, TypeOK
    <2> QED BY <2>1, Reading
  <1>7. /\ R \in SUBSET {k \in OpKeys(o) : Promise!MayLive(entry[k], now)}
        /\ {k \in OpKeys(o) : Promise!MustLive(entry[k], now)} \subseteq R
    BY <1>6
  <1>8. now \in Promise!Times(o)
    BY <1>3 DEF Promise!Times
  <1> HIDE DEF R
  <1> QED BY <1>1, <1>5, <1>7, <1>8, Frame, SameRows, SameCalls DEF Promise!ListKeys

\* A call whose statement ran has been answered, or the answer got lost.
LEMMA AnswerStep ==
  ASSUME Known, NEW o \in Ops, StepOf(o), Caller(o), Answer(o), since'[o] = 0
  PROVE  /\ pc[o] \in {"idle", "exec", "take", "select"} =>
              \E r \in Promise!Answers : Promise!Ends(o, "idle", r)
         /\ pc[o] \in {"fn", "upsert", "commit"} =>
              \E r \in Promise!Answers : Promise!Ends(o, "fn", r)
  <1>1. PICK r \in {"ok", "unknown"} : pc'[o] = r
    BY DEF Answer, Known, IInv, TypeOK
  <1>2. Status(o)' = r /\ r \in Promise!Answers
    BY <1>1, Frame DEF Status, Promise!Answers
  <1>3. pc[o] \in {"idle", "exec", "take", "select"} => Promise!Ends(o, "idle", r)
    <2>1. pc[o] \in {"idle", "exec", "take", "select"} => Status(o) = "idle"
      BY StatusOf
    <2> QED BY <1>2, <2>1, Moves
  <1>4. pc[o] \in {"fn", "upsert", "commit"} => Promise!Ends(o, "fn", r)
    <2>1. pc[o] \in {"fn", "upsert", "commit"} => Status(o) = "fn"
      BY StatusOf
    <2> QED BY <1>2, <2>1, Moves
  <1> QED BY <1>2, <1>3, <1>4

\* A call that drops what it computed has left the connection.
LEMMA DropsSince ==
  ASSUME Known, NEW o \in Ops, Drops(o)
  PROVE  since'[o] = 0 /\ seen' = [seen EXCEPT ![o] = None]
  BY DEF Drops, since, Known, IInv, TypeOK

\* Upserts of the keys of o are a Put, with the expires_at that o has computed.
LEMMA PutStep ==
  ASSUME OneToOne, Known, NEW o \in Ops, Caller(o), Dated(o), call' = call, NEW v \in SUBSET Ops,
         \A k \in Keys : rows'[Hash[k]] = IF k \in OpKeys(o) THEN Upsert(Hash[k], k, v, o)
                                         ELSE rows[Hash[k]]
  PROVE  Promise!Put(o, v)
  <1>1. began[o] \in 1..now
    BY DEF Dated, UnderWay, Known, RInv, TimeInv
  <1>2. PICK t \in began[o]..now : expires[o] = ExpiryAt(o, t)
    BY DEF Known, RInv, TimeInv
  <1>3. t \in Promise!Times(o)
    <2>1. since[o] = began[o] /\ began[o] # 0
      BY <1>1 DEF since
    <2> QED BY <1>2, <2>1 DEF Promise!Times
  <1>4. ASSUME NEW k \in Keys
        PROVE  entry'[k] = IF k \in OpKeys(o) THEN [val |-> v, exp |-> ExpiryAt(o, t)] ELSE entry[k]
    <2>1. entry'[k] = Shown(rows'[Hash[k]]) /\ entry[k] = Shown(rows[Hash[k]]) /\ Hash[k] \in Hashes
      BY EntryAfter, EntryOf DEF Known, IInv, RInv
    <2>2. Upsert(Hash[k], k, v, o) # None
      <3>1. Upsert(Hash[k], k, v, o) \in Row
        BY <2>1, UpsertType DEF Known, IInv
      <3> QED BY <3>1, StoreAssumption DEF Row
    <2>3. /\ Upsert(Hash[k], k, v, o).val = v
          /\ Upsert(Hash[k], k, v, o).exp = ExpiryAt(o, t)
      BY <1>2 DEF Upsert
    <2> QED BY <2>1, <2>2, <2>3 DEF Shown
  <1>5. entry' = [k \in Keys |-> IF k \in OpKeys(o) THEN [val |-> v, exp |-> ExpiryAt(o, t)]
                                 ELSE entry[k]]
    BY <1>4 DEF entry
  <1> QED BY <1>3, <1>5, SameCalls DEF Promise!Put

\* A Set takes effect when its statement runs.
LEMMA SetStep ==
  ASSUME OneToOne, Known, NEW o \in Ops, SetRuns(o)
  PROVE  Promise!Set(o)
  <1>1. /\ StepOf(o) /\ pc[o] = "exec" /\ Kind(o) = "set" /\ lock[HashOf(o)] = None
        /\ Answer(o) /\ Drops(o)
        /\ rows' = [rows EXCEPT ![HashOf(o)] = Upsert(HashOf(o), KeyOf(o), {o}, o)]
    BY DEF SetRuns, StepOf, OpStep, Known, IInv, OpInv, Kinds
  <1>2. Caller(o) /\ Dated(o)
    BY <1>1 DEF Caller, Dated
  <1>3. OpKeys(o) = {KeyOf(o)} /\ KeyOf(o) \in Keys /\ HashOf(o) \in Hashes
    BY <1>1, OneKey, CallFields DEF Known, IInv, TypeOK
  <1>4. Promise!Put(o, {o})
    <2>1. ASSUME NEW k \in Keys
          PROVE  rows'[Hash[k]] = IF k \in OpKeys(o) THEN Upsert(Hash[k], k, {o}, o) ELSE rows[Hash[k]]
      <3>1. Hash[k] = HashOf(o) <=> k = KeyOf(o)
        BY <1>3 DEF OneToOne, HashOf
      <3> QED BY <1>1, <1>3, <3>1 DEF Known, IInv, TypeOK, HashOf
    <2> QED BY <1>1, <1>2, <2>1, Frame, PutStep
  <1>5. Promise!Unclaimed(o)
    BY <1>1, <1>3, RowsFree DEF Known, HashOf
  <1>6. \E r \in Promise!Answers : Promise!Ends(o, "idle", r)
    BY <1>1, <1>2, DropsSince, AnswerStep
  <1>7. seen' = seen
    BY <1>1, DropsSince DEF Known, RInv, FreshInv, IInv, TypeOK
  <1> QED BY <1>1, <1>4, <1>5, <1>6, <1>7, Frame, SameCalls DEF Promise!Set

\* A SetMany takes effect for all of its keys when it commits.
LEMMA SetManyStep ==
  ASSUME OneToOne, Known, NEW o \in Ops, SetManyCommits(o)
  PROVE  Promise!Set(o)
  <1>1. /\ StepOf(o) /\ pc[o] = "take" /\ Kind(o) = "setmany" /\ want[o] = None
        /\ Answer(o) /\ Drops(o)
    BY DEF SetManyCommits, StepOf, OpStep
  <1>2. Caller(o) /\ Dated(o)
    BY <1>1 DEF Caller, Dated
  <1>3. Promise!Put(o, {o})
    <2>1. ASSUME NEW k \in Keys
          PROVE  rows'[Hash[k]] = IF k \in OpKeys(o) THEN Upsert(Hash[k], k, {o}, o) ELSE rows[Hash[k]]
      <3> DEFINE mine(h) == \E j \in OpKeys(o) : Hash[j] = h
                 key(h) == CHOOSE j \in OpKeys(o) : Hash[j] = h
      <3>1. OpKeys(o) \subseteq Keys /\ Hash[k] \in Hashes
        BY CallFields, StoreAssumption DEF Known, IInv, TypeOK
      <3>2. rows'[Hash[k]] = IF mine(Hash[k]) THEN Upsert(Hash[k], key(Hash[k]), {o}, o)
                             ELSE rows[Hash[k]]
        BY <3>1 DEF SetManyCommits
      <3>3. mine(Hash[k]) <=> k \in OpKeys(o)
        BY <3>1 DEF OneToOne
      <3>4. ASSUME k \in OpKeys(o) PROVE key(Hash[k]) = k
        <4>1. key(Hash[k]) \in OpKeys(o) /\ Hash[key(Hash[k])] = Hash[k]
          BY <3>4
        <4> QED BY <3>1, <4>1 DEF OneToOne
      <3> HIDE DEF mine, key
      <3> QED BY <3>2, <3>3, <3>4
    <2> QED BY <1>1, <1>2, <2>1, Frame, PutStep
  <1>4. Promise!Unclaimed(o)
    <2>1. Plans(o) /\ \A k \in OpKeys(o) : Hash[k] \in Hashes
      BY CallFields, StoreAssumption DEF Known, IInv, OpInv, TypeOK
    <2>2. \A k \in OpKeys(o) : lock[Hash[k]] = o
      BY <1>1, <2>1, StoreAssumption DEF Plans
    <2> QED BY <2>2, RowsFree DEF Known
  <1>5. \E r \in Promise!Answers : Promise!Ends(o, "idle", r)
    BY <1>1, <1>2, DropsSince, AnswerStep
  <1>6. seen' = seen
    BY <1>1, DropsSince DEF Known, RInv, FreshInv, IInv, TypeOK
  <1> QED BY <1>1, <1>3, <1>4, <1>5, <1>6, Frame, SameCalls DEF Promise!Set

\* An Update reads its key by the time its transaction began; a row that it finds
\* nobody holds.
LEMMA SelectStep ==
  ASSUME OneToOne, Known, NEW o \in Ops, UpdateSelects(o)
  PROVE  Promise!UpdateReads(o)
  <1> DEFINE found == Matches(HashOf(o), KeyOf(o), began[o])
             v == IF found THEN rows[HashOf(o)].val ELSE None
  <1>1. /\ StepOf(o) /\ pc[o] = "select" /\ pc'[o] = "fn" /\ Kind(o) = "update"
        /\ began' = began /\ rows' = rows /\ seen' = [seen EXCEPT ![o] = v]
        /\ found => lock[HashOf(o)] = None
    BY DEF UpdateSelects, SelectForUpdate, StepOf, OpStep, Known, IInv, TypeOK, OpInv, Kinds
  <1>2. /\ Caller(o) /\ Caller(o)' /\ began[o] \in 1..now
        /\ OpKeys(o) = {KeyOf(o)} /\ KeyOf(o) \in Keys /\ now \in Nat
    <2>1. Caller(o) /\ Caller(o)'
      BY <1>1, Frame DEF Caller
    <2>2. began[o] \in 1..now
      BY <1>1 DEF Known, RInv, TimeInv, UnderWay
    <2>3. OpKeys(o) = {KeyOf(o)} /\ KeyOf(o) \in Keys
      BY <1>1, OneKey, CallFields DEF Known, IInv, TypeOK
    <2>4. now \in Nat
      BY StoreAssumption DEF Known, IInv, TypeOK
    <2> QED BY <2>1, <2>2, <2>3, <2>4
  <1>3. Promise!Becomes(o, "idle", "fn")
    <2>1. Status(o) = "idle" /\ Status(o)' = "fn"
      BY <1>1, <1>2 DEF Status
    <2> QED BY <1>1, <2>1, Moves
  <1>4. began[o] \in Promise!Times(o) /\ since' = since
    <2>1. since[o] = began[o] /\ since'[o] = since[o] /\ began[o] # 0
      BY <1>1, <1>2 DEF since
    <2>2. since' = since
      BY <1>1, <2>1, Frame DEF since
    <2> QED BY <1>2, <2>1, <2>2 DEF Promise!Times
  <1>5. v \in Promise!Readings(KeyOf(o), began[o])
    BY <1>2, Reading DEF HashOf
  <1>6. ASSUME v # None PROVE Promise!Unclaimed(o)
    BY <1>1, <1>2, <1>6, RowsFree DEF Known, HashOf
  <1> HIDE DEF v
  <1> QED BY <1>1, <1>3, <1>4, <1>5, <1>6, Frame, SameRows, SameCalls DEF Promise!UpdateReads

\* And it writes what its function made of that, when it commits.
LEMMA CommitStep ==
  ASSUME OneToOne, Known, NEW o \in Ops, UpdateCommits(o)
  PROVE  Promise!UpdateWrites(o)
  <1> DEFINE v == (IF seen[o] = None THEN {} ELSE seen[o]) \cup {o}
  <1>1. /\ StepOf(o) /\ pc[o] = "commit" /\ Kind(o) = "update" /\ lock[HashOf(o)] = o
        /\ Answer(o) /\ Drops(o)
        /\ rows' = [rows EXCEPT ![HashOf(o)] = Upsert(HashOf(o), KeyOf(o), v, o)]
    BY DEF UpdateCommits, StepOf, OpStep, Known, IInv, OpInv, Kinds, Reads
  <1>2. Caller(o) /\ Dated(o)
    BY <1>1 DEF Caller, Dated
  <1>3. OpKeys(o) = {KeyOf(o)} /\ KeyOf(o) \in Keys /\ HashOf(o) \in Hashes /\ v \in SUBSET Ops
    BY <1>1, OneKey, CallFields DEF Known, IInv, TypeOK, SeenInv
  <1> HIDE DEF v
  <1>4. Promise!Put(o, v)
    <2>1. ASSUME NEW k \in Keys
          PROVE  rows'[Hash[k]] = IF k \in OpKeys(o) THEN Upsert(Hash[k], k, v, o) ELSE rows[Hash[k]]
      <3>1. Hash[k] = HashOf(o) <=> k = KeyOf(o)
        BY <1>3 DEF OneToOne, HashOf
      <3> QED BY <1>1, <1>3, <3>1 DEF Known, IInv, TypeOK, HashOf
    <2> QED BY <1>1, <1>2, <1>3, <2>1, Frame, PutStep
  <1>5. Promise!Unclaimed(o)
    BY <1>1, <1>3, RowsFree DEF Known, HashOf
  <1>6. \E r \in Promise!Answers : Promise!Ends(o, "fn", r)
    BY <1>1, <1>2, DropsSince, AnswerStep
  <1>7. seen' = [seen EXCEPT ![o] = None]
    BY <1>1, DropsSince
  <1> QED BY <1>1, <1>4, <1>5, <1>6, <1>7, Frame DEF Promise!UpdateWrites, v

\* A Delete removes its key, unless it is not there.
LEMMA DeleteStep ==
  ASSUME OneToOne, Known, NEW o \in Ops, Delete(o)
  PROVE  Promise!Delete(o)
  <1>1. /\ StepOf(o) /\ pc[o] = "idle" /\ Kind(o) = "delete" /\ Answer(o)
        /\ began' = began /\ seen' = seen
    BY DEF Delete, StepOf, OpBegins, tx
  <1>2. Caller(o) /\ Caller(o)' /\ began[o] = 0
    BY <1>1, Frame DEF Caller, Known, RInv, TimeInv
  <1>3. OpKeys(o) = {KeyOf(o)} /\ KeyOf(o) \in Keys /\ HashOf(o) \in Hashes
    BY <1>1, OneKey, CallFields DEF Known, IInv, TypeOK
  <1>4. rows[HashOf(o)] # None => rows[HashOf(o)].key = KeyOf(o)
    BY <1>3, EntryOf DEF Known, IInv, RInv, HashOf
  <1>5. /\ lock[HashOf(o)] = None \/ rows[HashOf(o)] = None
        /\ rows' = [rows EXCEPT ![HashOf(o)] = None]
    BY <1>3, <1>4 DEF Delete, Known, IInv, TypeOK
  <1>6. entry' = [entry EXCEPT ![KeyOf(o)] = None]
    <2>1. ASSUME NEW k \in Keys PROVE entry'[k] = IF k = KeyOf(o) THEN None ELSE entry[k]
      <3>1. entry'[k] = Shown(rows'[Hash[k]]) /\ entry[k] = Shown(rows[Hash[k]]) /\ Hash[k] \in Hashes
        BY EntryAfter, EntryOf DEF Known, IInv, RInv
      <3>2. Hash[k] = HashOf(o) <=> k = KeyOf(o)
        BY <1>3 DEF OneToOne, HashOf
      <3> QED BY <1>3, <1>5, <3>1, <3>2 DEF Shown, Known, IInv, TypeOK
    <2> QED BY <2>1 DEF entry
  <1>7. Promise!Unclaimed(o)
    BY <1>3, <1>5, RowsFree DEF Known, HashOf
  <1>8. \E r \in Promise!Answers : Promise!Ends(o, "idle", r)
    <2>1. since'[o] = 0
      BY <1>1, <1>2 DEF since
    <2> QED BY <1>1, <1>2, <2>1, AnswerStep
  <1> QED BY <1>1, <1>6, <1>7, <1>8, Frame, SameCalls DEF Promise!Delete

\* Cleanup drops what has expired, and nothing that an Update has read.
LEMMA CleanupStep ==
  ASSUME OneToOne, Known, NEW o \in Ops, CleanupCommits(o)
  PROVE  Promise!Purge
  <1> DEFINE S == {k \in Keys : lock[Hash[k]] = o}
  <1>1. /\ StepOf(o) /\ pc[o] = "take" /\ Kind(o) = "cleanup" /\ Drops(o)
        /\ rows' = [h \in Hashes |-> IF lock[h] = o THEN None ELSE rows[h]]
    BY DEF CleanupCommits, StepOf, OpStep, Held
  <1>2. ~Caller(o) /\ ~Caller(o)' /\ seen[o] = None
    BY <1>1, Frame DEF Caller, Known, RInv, FreshInv
  <1>3. st' = st /\ since' = since /\ seen' = seen
    <2>1. Status(o)' = st[o] /\ since'[o] = since[o]
      BY <1>2 DEF Status, st, since
    <2>2. seen' = seen
      BY <1>1, <1>2, DropsSince DEF Known, IInv, TypeOK
    <2> QED BY <1>1, <2>1, <2>2, Frame DEF st, since
  <1>4. ASSUME NEW k \in Keys
        PROVE  /\ entry'[k] = IF k \in S THEN None ELSE entry[k]
               /\ k \in S => entry[k] # None /\ ~Promise!MustLive(entry[k], now)
    <2>1. /\ entry'[k] = Shown(rows'[Hash[k]]) /\ entry[k] = Shown(rows[Hash[k]]) /\ Hash[k] \in Hashes
          /\ rows[Hash[k]] # None => rows[Hash[k]] \in Row /\ entry[k] # None
      BY EntryAfter, EntryOf DEF Known, IInv, RInv
    <2>2. ASSUME k \in S PROVE entry[k] # None /\ ~Promise!MustLive(entry[k], now)
      <3>1. Expired(Hash[k], began[o]) /\ began[o] <= now
        BY <1>1, <2>1, <2>2 DEF Known, IInv, OpInv, Sweeps
      <3>2. began[o] \in Nat /\ now \in Nat /\ rows[Hash[k]] # None /\ rows[Hash[k]].exp \in Nat
        BY <2>1, <3>1, StoreAssumption DEF Known, IInv, TypeOK, Row, Expired
      <3> QED BY <2>1, <3>1, <3>2 DEF Expired, Live, Shown, Promise!MustLive
    <2> QED BY <1>1, <2>1, <2>2 DEF Shown
  <1>5. \A x \in Ops : Promise!Claimed(x) \cap S = {}
    <2>1. ASSUME NEW x \in Ops, NEW k \in Promise!Claimed(x), k \in S PROVE FALSE
      <3>1. x = o
        BY <2>1, KeptRow DEF Known
      <3>2. st[x] # "fn"
        BY <1>2, <3>1 DEF st, Status
      <3> QED BY <2>1, <3>2 DEF Promise!Claimed
    <2> QED BY <2>1
  <1>6. entry' = [k \in Keys |-> IF k \in S THEN None ELSE entry[k]]
    BY <1>4 DEF entry
  <1>7. S \in SUBSET {k \in Keys : entry[k] # None /\ ~Promise!MustLive(entry[k], now)}
    BY <1>4
  <1> HIDE DEF S
  <1> QED BY <1>1, <1>3, <1>5, <1>6, <1>7, Frame DEF Promise!Purge

\* A transaction that the server refuses is under way: it waits for another.
LEMMA Refusal ==
  ASSUME NEW o \in Ops, Refused(o)
  PROVE  pc[o] \in {"take", "select", "upsert"}
  <1>1. ASSUME Deadlocked(o) PROVE pc[o] \in {"take", "select", "upsert"}
    <2>1. Blocker(o) \in Ops
      BY <1>1 DEF Deadlocked
    <2> QED BY <2>1, StoreAssumption DEF Blocker
  <1> QED BY <1>1 DEF Refused

\* A call that fails leaves the entries as they were.
LEMMA FailStep ==
  ASSUME Known, NEW o \in Ops, Fails(o) \/ Refused(o)
  PROVE  Promise!Fails(o) \/ UNCHANGED Promise!vars
  <1>1. /\ StepOf(o) /\ pc[o] \notin Ended /\ pc'[o] = "aborted" /\ rows' = rows /\ Drops(o)
    BY Refusal DEF Fails, Refused, StepOf, OpStep, Ended, Known, IInv, TypeOK
  <1>2. since'[o] = 0 /\ seen' = [seen EXCEPT ![o] = None]
    BY <1>1, DropsSince
  <1>3. CASE Caller(o)
    <2>1. Status(o)' = "failed" /\ Status(o) \in {"idle", "fn"}
      BY <1>1, <1>3, Frame DEF Status, Known, IInv, TypeOK, Ended
    <2>2. Promise!Ends(o, "idle", "failed") \/ Promise!Ends(o, "fn", "failed")
      BY <1>1, <1>2, <2>1, Moves
    <2> QED BY <1>1, <1>2, <2>2, Frame, SameRows DEF Promise!Fails
  <1>4. CASE ~Caller(o)
    <2>1. Status(o)' = st[o] /\ since'[o] = since[o]
      BY <1>1, <1>4, Frame DEF Status, st, since
    <2>2. seen[o] = None
      BY <1>4 DEF Caller, Known, RInv, FreshInv
    <2>3. st' = st /\ since' = since
      BY <1>1, <2>1, Frame DEF st, since
    <2>4. seen' = seen
      BY <1>2, <2>2 DEF Known, IInv, TypeOK
    <2> QED BY <1>1, <2>3, <2>4, Frame, SameRows DEF Promise!vars
  <1> QED BY <1>3, <1>4

\* The clock is the one of the interface.
LEMMA TickStep ==
  ASSUME [Next]_vars, Tick
  PROVE  Promise!Tick
  BY SameRows DEF Tick, tx, Promise!Tick, st, Status, since, Caller, Kind

\* A new table is an empty dictionary.
LEMMA InitPromised == Init => Promise!Init
  <1> SUFFICES ASSUME Init PROVE Promise!Init
    OBVIOUS
  <1>1. \A k \in Keys : Entry(k) = None
    BY StoreAssumption DEF Init, Entry
  <1>2. \A o \in Ops : Status(o) = "idle" /\ since[o] = 0
    BY DEF Init, Status, since
  <1> QED BY <1>1, <1>2 DEF Init, Promise!Init, entry, st, since

\* The PostgreSQL store implements Store where hashes do not collide, as a remote
\* store which keeps the key of an Update from the others if it was there: every
\* answer is one that an atomic dictionary with expiring entries may give, whatever
\* waits, fails, deadlocks or is cleaned up.
THEOREM Implements == ASSUME OneToOne PROVE Spec => ImplementsKvStore
  <1>1. IInv /\ IInv' /\ RInv /\ RInv' /\ [Next]_vars => [Promise!Next]_Promise!vars
    <2> SUFFICES ASSUME Known PROVE Promise!Next \/ UNCHANGED Promise!vars
      BY DEF Known
    <2>1. ASSUME NEW o \in Ops, StepOf(o) PROVE Promise!Next \/ UNCHANGED Promise!vars
      <3>1. CASE SetBegins(o) \/ SetManyBegins(o) \/ UpdateBegins(o)
        BY <3>1, CallStep DEF Promise!Next
      <3>2. CASE Get(o) \/ ListKeys(o) \/ Delete(o)
        BY <3>2, GetStep, ListStep, DeleteStep DEF Promise!Next
      <3>3. CASE SetRuns(o) \/ SetManyCommits(o) \/ CleanupCommits(o)
        BY <3>3, SetStep, SetManyStep, CleanupStep DEF Promise!Next
      <3>4. CASE UpdateSelects(o) \/ UpdateCommits(o)
        BY <3>4, SelectStep, CommitStep DEF Promise!Next
      <3>5. CASE Fails(o) \/ Refused(o)
        BY <3>5, FailStep DEF Promise!Next
      <3>6. CASE \/ CleanupBegins(o) \/ SetManyTakes(o) \/ CleanupTakes(o) \/ UpdateCalls(o)
                 \/ UpdateUpserts(o)
        BY <3>6, HiddenStep
      <3> QED BY <2>1, <3>1, <3>2, <3>3, <3>4, <3>5, <3>6 DEF StepOf, OpBegins, OpStep
    <2>2. CASE Tick
      BY <2>2, TickStep DEF Known, Promise!Next
    <2>3. CASE UNCHANGED vars
      BY <2>3, SameRows DEF vars, Promise!vars, st, Status, since, Caller, Kind
    <2> QED BY <2>1, <2>2, <2>3 DEF Known, Next, StepOf
  <1> QED BY <1>1, InitPromised, Inductive, RefInductive, PTL
          DEF Spec, ImplementsKvStore, Promise!Spec

\* So does a store with its cleanup goroutines and its Close.
THEOREM SystemImplements == ASSUME OneToOne PROVE SystemSpec => ImplementsKvStore
  BY Implements, Composes

-----------------------------------------------------------------------------
(* Where values come from, with collisions of hashes too.                  *)

\* Each call that contributed to v wrote to a key with the hash h.
OfHash(v, h) == \A x \in v : \E k \in OpKeys(x) : Hash[k] = h

\* Get returns, and the function of an Update is given, what was stored for the key itself
\* or for one with its hash, through any number of writes, each of which may have
\* read what another key had stored.
OnlyCollisionsMix ==
  \A o \in Ops : Kind(o) \in {"get", "update"} /\ seen[o] # None => OfHash(seen[o], HashOf(o))

\* The same of what is in the rows.
HashInv == \A h \in Hashes : rows[h] # None => OfHash(rows[h].val, h)

\* A row is as it was, is gone, or holds what calls on keys with its hash wrote.
LEMMA HashStep == ASSUME IInv, HashInv, OnlyCollisionsMix, [Next]_vars PROVE HashInv'
  <1> SUFFICES ASSUME NEW h \in Hashes, rows'[h] # None PROVE OfHash(rows'[h].val, h)
    BY CallStays DEF HashInv, OfHash, OpKeys
  <1>1. CASE rows'[h] = rows[h]
    BY <1>1 DEF HashInv
  <1>2. ASSUME NEW o, NEW k, NEW v, rows'[h] = Upsert(h, k, v, o), OfHash(v, h)
        PROVE  OfHash(rows'[h].val, h)
    BY <1>2 DEF Upsert
  <1>3. ASSUME NEW o \in Ops, SetRuns(o) PROVE OfHash(rows'[h].val, h)
    <2>1. rows'[h] = rows[h] \/ (h = HashOf(o) /\ rows'[h] = Upsert(h, KeyOf(o), {o}, o))
      BY <1>3 DEF SetRuns, IInv, TypeOK
    <2>2. KeyOf(o) \in OpKeys(o)
      BY <1>3, CallFields DEF SetRuns, IInv, TypeOK, OpInv, Kinds
    <2>3. h = HashOf(o) => OfHash({o}, h)
      BY <2>2 DEF OfHash, HashOf
    <2> QED BY <1>1, <1>2, <2>1, <2>3
  <1>4. ASSUME NEW o \in Ops, UpdateCommits(o) PROVE OfHash(rows'[h].val, h)
    <2> DEFINE v == (IF seen[o] = None THEN {} ELSE seen[o]) \cup {o}
    <2>1. rows'[h] = rows[h] \/ (h = HashOf(o) /\ rows'[h] = Upsert(h, KeyOf(o), v, o))
      BY <1>4 DEF UpdateCommits, IInv, TypeOK
    <2>2. KeyOf(o) \in OpKeys(o) /\ Kind(o) = "update"
      BY <1>4, CallFields DEF UpdateCommits, IInv, TypeOK, OpInv, Kinds
    <2>3. h = HashOf(o) => OfHash(v, h)
      BY <2>2 DEF OnlyCollisionsMix, OfHash, HashOf
    <2> HIDE DEF v
    <2> QED BY <1>1, <1>2, <2>1, <2>3
  <1>5. ASSUME NEW o \in Ops, SetManyCommits(o) PROVE OfHash(rows'[h].val, h)
    <2> DEFINE k == CHOOSE k \in OpKeys(o) : Hash[k] = h
    <2>1. rows'[h] = IF \E j \in OpKeys(o) : Hash[j] = h THEN Upsert(h, k, {o}, o) ELSE rows[h]
      BY <1>5 DEF SetManyCommits
    <2>2. (\E j \in OpKeys(o) : Hash[j] = h) => OfHash({o}, h)
      BY DEF OfHash
    <2> HIDE DEF k
    <2> QED BY <1>1, <1>2, <2>1, <2>2
  <1>6. ASSUME NEW o \in Ops, Delete(o) \/ CleanupCommits(o) PROVE OfHash(rows'[h].val, h)
    BY <1>1, <1>6 DEF Delete, CleanupCommits, IInv, TypeOK
  <1>7. CASE ~\E o \in Ops : \/ SetRuns(o) \/ UpdateCommits(o) \/ SetManyCommits(o)
                              \/ Delete(o) \/ CleanupCommits(o)
    <2>1. rows' = rows
      BY <1>7 DEF Next, OpBegins, OpStep, Get, ListKeys, SetBegins, SetManyBegins, CleanupBegins,
                  UpdateBegins, SetManyTakes, CleanupTakes, UpdateSelects, UpdateCalls,
                  UpdateUpserts, Fails, Refused, Tick, vars
    <2> QED BY <1>1, <2>1
  <1> QED BY <1>3, <1>4, <1>5, <1>6, <1>7

\* What a Get returns and an Update reads is in the row of its key's hash.
LEMMA SeenOfHash ==
  ASSUME IInv, HashInv, OnlyCollisionsMix, [Next]_vars
  PROVE  OnlyCollisionsMix'
  <1> SUFFICES ASSUME NEW o \in Ops, Kind(o) \in {"get", "update"}, seen'[o] # None
               PROVE  OfHash(seen'[o], HashOf(o))
    <2>1. \A x : OpKeys(x)' = OpKeys(x) /\ Kind(x)' = Kind(x)
      BY CallStays DEF OpKeys, Kind
    <2>2. \A x : HashOf(x)' = HashOf(x)
      BY <2>1 DEF HashOf, KeyOf
    <2> QED BY <2>1, <2>2 DEF OnlyCollisionsMix, OfHash
  <1> USE DEF IInv, TypeOK
  <1>1. CASE seen'[o] = seen[o]
    BY <1>1 DEF OnlyCollisionsMix
  <1>2. ASSUME NEW t, Matches(HashOf(o), KeyOf(o), t), seen'[o] = rows[HashOf(o)].val
        PROVE  OfHash(seen'[o], HashOf(o))
    <2>1. HashOf(o) \in Hashes
      BY CallFields, StoreAssumption DEF HashOf
    <2> QED BY <1>2, <2>1 DEF HashInv, Matches
  <1>3. CASE Get(o)
    BY <1>2, <1>3 DEF Get
  <1>4. CASE UpdateSelects(o)
    BY <1>2, <1>4 DEF UpdateSelects
  <1>5. CASE StepOf(o) /\ ~Get(o) /\ ~UpdateSelects(o)
    <2>1. seen'[o] = seen[o] \/ seen'[o] = None
      BY <1>5 DEF StepOf, OpBegins, ListKeys, SetBegins, Delete, SetManyBegins, CleanupBegins,
                  UpdateBegins, OpStep, SetRuns, SetManyTakes, SetManyCommits, CleanupTakes,
                  CleanupCommits, UpdateCalls, UpdateUpserts, UpdateCommits, Refused, Fails, Drops, tx
    <2> QED BY <1>1, <2>1
  <1>6. ASSUME NEW y \in Ops, StepOf(y), y # o PROVE OfHash(seen'[o], HashOf(o))
    <2>1. seen'[o] = seen[o]
      BY <1>6, OthersVars
    <2> QED BY <1>1, <2>1
  <1>7. CASE Tick \/ UNCHANGED vars
    BY <1>1, <1>7 DEF Tick, vars, tx
  <1> QED BY <1>3, <1>4, <1>5, <1>6, <1>7 DEF Next, StepOf

\* Whatever keys collide, a Get returns and an Update is given what calls on its own key,
\* or on one with its hash, stored: the rows of two hashes never mix.
THEOREM MixedByCollision == Spec => []OnlyCollisionsMix
  <1>1. Init => HashInv /\ OnlyCollisionsMix
    BY DEF Init, HashInv, OnlyCollisionsMix
  <1>2. IInv /\ HashInv /\ OnlyCollisionsMix /\ [Next]_vars => HashInv' /\ OnlyCollisionsMix'
    BY HashStep, SeenOfHash
  <1> QED BY <1>1, <1>2, Inductive, PTL DEF Spec
=============================================================================
