------------------------------- MODULE PgStore -------------------------------
(***************************************************************************)
(* The PostgreSQL key-value store of package kv (src/kv/postgres.go):      *)
(* concurrent calls on one table, from any number of processes.            *)
(*                                                                         *)
(* The code is the statements it sends; what they do is the database's at  *)
(* READ COMMITTED, modelled from its use: a statement sees committed rows  *)
(* only, a write waits for the transaction that holds the row and looks at *)
(* the row again when that is over, NOW() is when the transaction began,   *)
(* an INSERT ... ON CONFLICT owns its key_hash until the transaction ends, *)
(* and one of the transactions in a cycle of waits is rolled back.         *)
(*                                                                         *)
(* A single-row statement is one step, taken when no transaction holds the *)
(* row; Update, SetMany and Cleanup take and keep one row at a time.  A    *)
(* value is the set of the calls that went into it, so that it shows which *)
(* calls it has seen; encryption, which is undone on every read, is left   *)
(* out but for its failures.                                               *)
(***************************************************************************)
EXTENDS Integers

CONSTANTS
  Keys,     \* the keys in use
  Hashes,   \* the values of key_hash
  Hash,     \* hashKey
  Ops,      \* names for the calls, each made once
  Programs, \* which calls they may be
  MaxTime,  \* bound: when the clock stops
  None

\* A call: its method, its key (its keys if it is a SetMany, those with the
\* prefix if it is a Keys, none if it is a Cleanup) and its ttl.  "none" is the
\* name of no call.
IsCall(c) ==
  /\ c \in [kind : {"get", "set", "setmany", "update", "delete", "keys", "cleanup", "none"},
            keys : SUBSET Keys, ttl : Int]
  /\ IF c.kind \in {"cleanup", "none"} THEN c.keys = {}
     ELSE c.keys # {} /\ (c.kind \notin {"setmany", "keys"} => \A j, k \in c.keys : j = k)

ASSUME StoreAssumption ==
  /\ Hash \in [Keys -> Hashes]
  /\ \A p \in Programs : DOMAIN p = Ops /\ \A o \in Ops : IsCall(p[o])
  /\ MaxTime \in Nat \ {0}
  /\ None \notin Ops \cup Hashes /\ \A S \in (SUBSET Ops) \cup (SUBSET Keys) : None # S
  /\ None \notin [key : Keys, val : SUBSET Ops, exp : Nat] \cup [val : SUBSET Ops, exp : Nat]

VARIABLES
  call,    \* which call each of Ops is
  now,     \* the clock, that of the processes and that of the server
  rows,    \* the committed row of each key_hash
  lock,    \* the transaction that holds each key_hash
  pc,      \* where each call is, then how it ended
  began,   \* when each call that is under way began: NOW() in its transaction
  expires, \* expires_at as computed by each writing call
  seen,    \* the value Get returned or Update read, None if there was none; what
           \* Keys returned
  todo,    \* the rows SetMany or Cleanup has still to take
  want     \* the one it is about to take

tx   == <<began, expires, seen>>
plan == <<todo, want>>
vars == <<call, now, rows, lock, pc, began, expires, seen, todo, want>>

Ended == {"ok", "aborted", "unknown"}

Kind(o)   == call[o].kind
OpKeys(o) == call[o].keys
Ttl(o)    == call[o].ttl

KeyOf(o) == CHOOSE k \in OpKeys(o) : TRUE
HashOf(o) == Hash[KeyOf(o)]

Row == [key : Keys, val : SUBSET Ops, exp : Nat]

(***************************************************************************)
(* Fragments of the statements; a mutant is a changed form in which some   *)
(* property below fails.                                                   *)
(***************************************************************************)

\* expires_at IS NULL OR expires_at > t, of a row that exists.
Live(r, t) == r.exp = 0 \/ r.exp > t

\* WHERE key_hash = $1 AND key = $2 AND it is live.
Matches(h, k, t) == rows[h] # None /\ rows[h].key = k /\ Live(rows[h], t)

\* WHERE expires_at IS NOT NULL AND expires_at <= NOW().  Mutant: without the
\* comparison.
HasExpiry(h, t) == rows[h] # None /\ rows[h].exp # 0
Expired(h, t)   == rows[h] # None /\ ~Live(rows[h], t)

\* INSERT ... ON CONFLICT (key_hash) DO UPDATE: an existing row keeps its key.
Upsert(h, k, v, o) ==
  [key |-> IF rows[h] = None THEN k ELSE rows[h].key, val |-> v, exp |-> expires[o]]

\* expires_at is set only if the ttl is positive.  Mutant: it always is.
AlwaysExpires(o) == now + Ttl(o)
Expiry(o) == IF Ttl(o) > 0 THEN now + Ttl(o) ELSE 0

Held(o) == {h \in Hashes : lock[h] = o}
FreeFor(o, h) == lock[h] \in {None, o}

\* SELECT ... FOR UPDATE takes the row it finds.  Mutant: a plain SELECT.
SelectOnly(o) == UNCHANGED lock
SelectForUpdate(o) ==
  LET h == HashOf(o) IN
  IF Matches(h, KeyOf(o), began[o])
  THEN lock[h] = None /\ lock' = [lock EXCEPT ![h] = o]
  ELSE UNCHANGED lock

\* A call that ends drops what it had computed; what Get and Keys return stays in
\* seen.
Drops(o) ==
  /\ began' = [began EXCEPT ![o] = 0]
  /\ expires' = [expires EXCEPT ![o] = 0]
  /\ seen' = [seen EXCEPT ![o] = None]
  /\ todo' = [todo EXCEPT ![o] = {}]
  /\ want' = [want EXCEPT ![o] = None]

\* What a transaction that ends leaves of the locks.  Mutant: tx.Rollback is
\* not deferred.
KeepLocks(o) == lock
Unlocked(o)  == [h \in Hashes |-> IF lock[h] = o THEN None ELSE lock[h]]

Init ==
  /\ call \in Programs
  /\ now = 1
  /\ rows = [h \in Hashes |-> None]
  /\ lock = [h \in Hashes |-> None]
  /\ pc = [o \in Ops |-> "idle"]
  /\ began = [o \in Ops |-> 0]
  /\ expires = [o \in Ops |-> 0]
  /\ seen = [o \in Ops |-> None]
  /\ todo = [o \in Ops |-> {}]
  /\ want = [o \in Ops |-> None]

-----------------------------------------------------------------------------
(* Get, Keys, Set and Delete: one statement each.                          *)

Get(o) ==
  LET h == HashOf(o) IN
  /\ Kind(o) = "get" /\ pc[o] = "idle"
  /\ seen' = [seen EXCEPT ![o] = IF Matches(h, KeyOf(o), now) THEN rows[h].val ELSE None]
  /\ pc' = [pc EXCEPT ![o] = "ok"]
  /\ UNCHANGED <<call, now, rows, lock, began, expires, plan>>

ListKeys(o) ==
  /\ Kind(o) = "keys" /\ pc[o] = "idle"
  /\ seen' = [seen EXCEPT ![o] = {k \in OpKeys(o) : Matches(Hash[k], k, now)}]
  /\ pc' = [pc EXCEPT ![o] = "ok"]
  /\ UNCHANGED <<call, now, rows, lock, began, expires, plan>>

Begins(o, at) == began' = [began EXCEPT ![o] = now] /\ pc' = [pc EXCEPT ![o] = at]

\* expires_at is computed here; the statement may have to wait before it runs.
SetBegins(o) ==
  /\ Kind(o) = "set" /\ pc[o] = "idle"
  /\ Begins(o, "exec")
  /\ expires' = [expires EXCEPT ![o] = Expiry(o)]
  /\ UNCHANGED <<call, now, rows, lock, seen, plan>>

\* The answer may be lost: the caller gets an error for a write that was done.
Answer(o) == \E r \in {"ok", "unknown"} : pc' = [pc EXCEPT ![o] = r]

SetRuns(o) ==
  LET h == HashOf(o) IN
  /\ pc[o] = "exec"
  /\ lock[h] = None
  /\ rows' = [rows EXCEPT ![h] = Upsert(h, KeyOf(o), {o}, o)]
  /\ Answer(o)
  /\ Drops(o)
  /\ UNCHANGED <<call, now, lock>>

Delete(o) ==
  LET h == HashOf(o) IN
  /\ Kind(o) = "delete" /\ pc[o] = "idle"
  /\ IF rows[h] # None /\ rows[h].key = KeyOf(o)
     THEN lock[h] = None /\ rows' = [rows EXCEPT ![h] = None]
     ELSE UNCHANGED rows
  /\ Answer(o)
  /\ UNCHANGED <<call, now, lock, tx, plan>>

-----------------------------------------------------------------------------
(* SetMany and Cleanup: one statement on several rows, taken one by one in *)
(* an order nobody chose (Go's map order, the server's scan).              *)

NextWant(o, S) ==
  IF S = {}
  THEN want' = [want EXCEPT ![o] = None] /\ todo' = [todo EXCEPT ![o] = {}]
  ELSE \E h \in S : /\ want' = [want EXCEPT ![o] = h]
                    /\ todo' = [todo EXCEPT ![o] = S \ {h}]

\* Two keys of one hash: the server refuses to write a row twice.
TwoForOneRow(o) == \E j, k \in OpKeys(o) : j # k /\ Hash[j] = Hash[k]

SetManyBegins(o) ==
  /\ Kind(o) = "setmany" /\ pc[o] = "idle"
  /\ Begins(o, "take")
  /\ expires' = [expires EXCEPT ![o] = Expiry(o)]
  /\ NextWant(o, {Hash[k] : k \in OpKeys(o)})
  /\ UNCHANGED <<call, now, rows, lock, seen>>

SetManyTakes(o) ==
  /\ Kind(o) = "setmany" /\ pc[o] = "take"
  /\ want[o] # None /\ FreeFor(o, want[o])
  /\ lock' = [lock EXCEPT ![want[o]] = o]
  /\ NextWant(o, todo[o])
  /\ UNCHANGED <<call, now, rows, pc, tx>>

SetManyCommits(o) ==
  /\ Kind(o) = "setmany" /\ pc[o] = "take"
  /\ want[o] = None /\ ~TwoForOneRow(o)
  /\ rows' = [h \in Hashes |->
                IF \E k \in OpKeys(o) : Hash[k] = h
                THEN Upsert(h, CHOOSE k \in OpKeys(o) : Hash[k] = h, {o}, o)
                ELSE rows[h]]
  /\ lock' = Unlocked(o)
  /\ Answer(o)
  /\ Drops(o)
  /\ UNCHANGED <<call, now>>

CleanupBegins(o) ==
  /\ Kind(o) = "cleanup" /\ pc[o] = "idle"
  /\ Begins(o, "take")
  /\ NextWant(o, {h \in Hashes : Expired(h, now)})
  /\ UNCHANGED <<call, now, rows, lock, expires, seen>>

\* The row is looked at again once it is free.
CleanupTakes(o) ==
  /\ Kind(o) = "cleanup" /\ pc[o] = "take"
  /\ want[o] # None /\ FreeFor(o, want[o])
  /\ lock' = IF Expired(want[o], began[o]) THEN [lock EXCEPT ![want[o]] = o] ELSE lock
  /\ NextWant(o, todo[o])
  /\ UNCHANGED <<call, now, rows, pc, tx>>

CleanupCommits(o) ==
  /\ Kind(o) = "cleanup" /\ pc[o] = "take"
  /\ want[o] = None
  /\ rows' = [h \in Hashes |-> IF h \in Held(o) THEN None ELSE rows[h]]
  /\ lock' = Unlocked(o)
  /\ Answer(o)
  /\ Drops(o)
  /\ UNCHANGED <<call, now>>

-----------------------------------------------------------------------------
(* Update: a transaction around the caller's function.                     *)

UpdateBegins(o) ==
  /\ Kind(o) = "update" /\ pc[o] = "idle"
  /\ Begins(o, "select")
  /\ UNCHANGED <<call, now, rows, lock, expires, seen, plan>>

UpdateSelects(o) ==
  LET h == HashOf(o) IN
  /\ pc[o] = "select"
  /\ SelectForUpdate(o)
  /\ seen' = [seen EXCEPT ![o] =
                IF Matches(h, KeyOf(o), began[o]) THEN rows[h].val ELSE None]
  /\ pc' = [pc EXCEPT ![o] = "fn"]
  /\ UNCHANGED <<call, now, rows, began, expires, plan>>

UpdateCalls(o) ==
  /\ pc[o] = "fn"
  /\ expires' = [expires EXCEPT ![o] = Expiry(o)]
  /\ pc' = [pc EXCEPT ![o] = "upsert"]
  /\ UNCHANGED <<call, now, rows, lock, began, seen, plan>>

UpdateUpserts(o) ==
  /\ pc[o] = "upsert"
  /\ FreeFor(o, HashOf(o))
  /\ lock' = [lock EXCEPT ![HashOf(o)] = o]
  /\ pc' = [pc EXCEPT ![o] = "commit"]
  /\ UNCHANGED <<call, now, rows, tx, plan>>

UpdateCommits(o) ==
  LET h == HashOf(o)
      v == (IF seen[o] = None THEN {} ELSE seen[o]) \cup {o}
  IN
  /\ pc[o] = "commit"
  /\ rows' = [rows EXCEPT ![h] = Upsert(h, KeyOf(o), v, o)]
  /\ lock' = Unlocked(o)
  /\ Answer(o)
  /\ Drops(o)
  /\ UNCHANGED <<call, now>>

-----------------------------------------------------------------------------
(* What goes wrong, and the clock.                                         *)

\* An error before a commit: of the function, the encryptor, the context or
\* the connection.  The transaction is rolled back.
Fails(o) ==
  /\ pc[o] \notin Ended
  /\ lock' = Unlocked(o)
  /\ pc' = [pc EXCEPT ![o] = "aborted"]
  /\ Drops(o)
  /\ UNCHANGED <<call, now, rows>>

\* The transaction o waits for.
Blocker(o) ==
  LET h == IF pc[o] = "take" THEN want[o] ELSE HashOf(o) IN
  IF \/ pc[o] = "take" /\ want[o] # None
     \/ pc[o] = "select" /\ Matches(h, KeyOf(o), began[o])
     \/ pc[o] = "upsert"
  THEN IF lock[h] = o THEN None ELSE lock[h]
  ELSE None

Deadlocked(o) ==
  \E S \in SUBSET Ops : o \in S /\ S = {Blocker(x) : x \in S}

\* The server rolls back one transaction of a deadlock, and a SetMany that
\* names a row twice.
Refused(o) ==
  /\ \/ Deadlocked(o)
     \/ pc[o] = "take" /\ TwoForOneRow(o)
  /\ lock' = Unlocked(o)
  /\ pc' = [pc EXCEPT ![o] = "aborted"]
  /\ Drops(o)
  /\ UNCHANGED <<call, now, rows>>

Tick ==
  /\ now < MaxTime
  /\ now' = now + 1
  /\ UNCHANGED <<call, rows, lock, pc, tx, plan>>

OpStep(o) ==
  \/ SetRuns(o)
  \/ SetManyTakes(o) \/ SetManyCommits(o)
  \/ CleanupTakes(o) \/ CleanupCommits(o)
  \/ UpdateSelects(o) \/ UpdateCalls(o) \/ UpdateUpserts(o) \/ UpdateCommits(o)
  \/ Refused(o)

OpBegins(o) ==
  \/ Get(o) \/ ListKeys(o) \/ SetBegins(o) \/ Delete(o)
  \/ SetManyBegins(o) \/ CleanupBegins(o) \/ UpdateBegins(o)

Next ==
  \/ \E o \in Ops : OpBegins(o) \/ OpStep(o) \/ Fails(o)
  \/ Tick

Spec == Init /\ [][Next]_vars

\* A call that began goes on; the server serves those that wait for a row in turn.
Fairness == \A o \in Ops : SF_vars(OpStep(o))

FairSpec == Spec /\ Fairness

-----------------------------------------------------------------------------
TypeOK ==
  /\ call \in Programs
  /\ now \in 1..MaxTime
  /\ rows \in [Hashes -> Row \cup {None}]
  /\ lock \in [Hashes -> Ops \cup {None}]
  /\ pc \in [Ops -> {"idle", "exec", "take", "select", "fn", "upsert", "commit"} \cup Ended]
  /\ began \in [Ops -> 0..MaxTime]
  /\ expires \in [Ops -> Nat]
  /\ seen \in [Ops -> (SUBSET Ops) \cup (SUBSET Keys) \cup {None}]
  /\ todo \in [Ops -> SUBSET Hashes]
  /\ want \in [Ops -> Hashes \cup {None}]

\* While an Update that found its key is under way, the value it read stays the
\* current one: the caller's function works on what will be replaced.
ReadIsStable ==
  \A o \in Ops : pc[o] \in {"fn", "upsert", "commit"} /\ seen[o] # None =>
    LET r == rows[HashOf(o)] IN r # None /\ r.key = KeyOf(o) /\ r.val = seen[o]

\* Cleanup removes no entry that is live, though it chose its rows before it
\* waited for them.
CleanupKeepsLive ==
  [][\A h \in Hashes, o \in Ops :
       /\ Kind(o) = "cleanup" /\ pc[o] = "take" /\ pc'[o] # "take"
       /\ rows[h] # None /\ rows'[h] = None
       => ~Live(rows[h], now)]_vars

\* Every call ends, deadlocks of several-row statements included.
CallsEnd == \A o \in Ops : (pc[o] # "idle") ~> (pc[o] \in Ended)

-----------------------------------------------------------------------------
(* The store implements the interface as far as hashes do not collide: a   *)
(* write takes effect when it commits, an Update reads when its SELECT     *)
(* runs, and a Cleanup is nobody's call.                                   *)

Caller(o) == Kind(o) \notin {"cleanup", "none"}

since == [o \in Ops |-> IF Caller(o) THEN began[o] ELSE 0]

\* The row of the hash of k if it is that of k.
Entry(k) ==
  LET r == rows[Hash[k]] IN
  IF r # None /\ r.key = k THEN [val |-> r.val, exp |-> r.exp] ELSE None

entry == [k \in Keys |-> Entry(k)]

Status(o) ==
  CASE ~Caller(o) \/ pc[o] \in {"idle", "exec", "take", "select"} -> "idle"
    [] Caller(o) /\ pc[o] \in {"fn", "upsert", "commit"} -> "fn"
    [] Caller(o) /\ pc[o] = "aborted" -> "failed"
    [] Caller(o) /\ pc[o] \in {"ok", "unknown"} -> pc[o]

st == [o \in Ops |-> Status(o)]

Promise == INSTANCE KvStore WITH
             Exclusive <- FALSE, Remote <- TRUE,
             since <- since, entry <- entry, st <- st, got <- seen

ImplementsKvStore == Promise!Spec

-----------------------------------------------------------------------------
(* What the documentation says and the code does not keep.                 *)

\* Get verifies the key to handle collisions of hashes: nobody is given what was
\* stored for another key.
ValueIsOfKey ==
  \A o \in Ops : Kind(o) \in {"get", "update"} /\ seen[o] # None =>
    \A x \in seen[o] : KeyOf(o) \in OpKeys(x)

\* Update replaces the current value by what its function makes of the current
\* value: of the row at the commit, or of none if there is none or it expired.
UpdateIsAtomic ==
  [][\A o \in Ops : pc[o] = "commit" /\ rows'[HashOf(o)] # rows[HashOf(o)] =>
       LET r == rows[HashOf(o)] IN
       \/ r # None /\ rows'[HashOf(o)].val = r.val \cup {o}
       \/ (r = None \/ ~Live(r, now)) /\ rows'[HashOf(o)].val = {o}]_vars
=============================================================================
