------------------------------ MODULE PgCleanup ------------------------------
(***************************************************************************)
(* The life of one PostgresStore value around the calls of PgStore: the    *)
(* goroutines that WithCleanup starts, each of which runs Cleanup when its *)
(* ticker fires, and Close (src/kv/postgres.go).                           *)
(*                                                                         *)
(* The field cleanupDone is written by a goroutine and read by Close with  *)
(* no lock between them: a read finds the channel from before or after the *)
(* write.  A channel is named for the goroutine that makes it; First is    *)
(* the one NewPostgresStore makes and closes.                              *)
(***************************************************************************)
EXTENDS PgStore

CONSTANTS
  Loops,  \* the Cleanup calls that cleanup goroutines make: one tick for each
  First   \* the channel of NewPostgresStore

ASSUME CleanupAssumption ==
  /\ Loops \subseteq Ops
  /\ First \notin Loops \cup {None}

VARIABLES
  lpc,          \* where each cleanup goroutine is
  cleanupDone,  \* s.cleanupDone
  deferred,     \* the channel that the deferred close of each goroutine is about
  shut,         \* the channels that are closed
  cleanupClose, \* s.cleanupClose is closed
  cpc,          \* where the call of Close is
  waitOn,       \* the channel it waits for
  panicked      \* a closed channel was closed

loopVars == <<lpc, deferred, shut, panicked>>
closeVars == <<cleanupClose, cpc, waitOn>>
allVars == <<call, now, rows, lock, pc, began, expires, seen, todo, want, lpc,
             cleanupDone, deferred, shut, cleanupClose, cpc, waitOn, panicked>>

\* The goroutines of this program: an option WithCleanup for each.
Options == {l \in Loops : Kind(l) = "cleanup"}

(***************************************************************************)
(* Fragments of the code; a mutant is a changed form in which some         *)
(* property below fails.                                                   *)
(***************************************************************************)

\* NewPostgresStore makes a channel and closes it.
ClosedDone == cleanupDone = First /\ shut = {First}

\* s.cleanupDone = make(chan struct{}).  Mutant: the first channel is kept.
KeepChannel(l) == UNCHANGED cleanupDone
NewChannel(l)  == cleanupDone' = l

\* The deferred close(s.cleanupDone).  Mutant: it is not deferred.
CloseNothing(l) == UNCHANGED <<shut, panicked>>
CloseDone(l)    == shut' = shut \cup {deferred[l]} /\ panicked' = (deferred[l] \in shut)

\* <-s.cleanupDone.  Mutant: Close does not wait.
WaitForNothing == TRUE
WaitForDone    == waitOn \in shut

-----------------------------------------------------------------------------
(* cleanupLoop.                                                            *)

Resets(l) ==
  /\ ~panicked /\ lpc[l] = "spawned"
  /\ NewChannel(l)
  /\ lpc' = [lpc EXCEPT ![l] = "made"]
  /\ UNCHANGED <<vars, closeVars, deferred, shut, panicked>>

\* The argument of the deferred close is the field's value now.
Defers(l) ==
  /\ ~panicked /\ lpc[l] = "made"
  /\ deferred' = [deferred EXCEPT ![l] = cleanupDone]
  /\ lpc' = [lpc EXCEPT ![l] = "select"]
  /\ UNCHANGED <<vars, closeVars, cleanupDone, shut, panicked>>

\* Bound: the ticker fires once.  When cleanupClose is closed as well, the select
\* takes either.
Ticks(l) ==
  /\ ~panicked /\ lpc[l] = "select"
  /\ CleanupBegins(l)
  /\ lpc' = [lpc EXCEPT ![l] = "sweep"]
  /\ UNCHANGED <<closeVars, cleanupDone, deferred, shut, panicked>>

\* Cleanup is over, with an error or without: the loop looks at neither.
Swept(l) ==
  /\ ~panicked /\ lpc[l] = "sweep" /\ pc[l] \in Ended
  /\ lpc' = [lpc EXCEPT ![l] = "select"]
  /\ UNCHANGED <<vars, closeVars, cleanupDone, deferred, shut, panicked>>

Returns(l) ==
  /\ ~panicked /\ lpc[l] = "select" /\ cleanupClose
  /\ CloseDone(l)
  /\ lpc' = [lpc EXCEPT ![l] = "ended"]
  /\ UNCHANGED <<vars, closeVars, cleanupDone, deferred>>

-----------------------------------------------------------------------------
(* Close, called once, and of a store with a cleanup goroutine: without    *)
(* one it finds First closed and returns.                                  *)

CloseSignals ==
  /\ ~panicked /\ cpc = "idle" /\ Options # {}
  /\ cleanupClose' = TRUE
  /\ cpc' = "signalled"
  /\ UNCHANGED <<vars, loopVars, cleanupDone, waitOn>>

CloseReads ==
  /\ ~panicked /\ cpc = "signalled"
  /\ waitOn' = cleanupDone
  /\ cpc' = "waits"
  /\ UNCHANGED <<vars, loopVars, cleanupDone, cleanupClose>>

CloseReturns ==
  /\ ~panicked /\ cpc = "waits" /\ WaitForDone
  /\ cpc' = "returned"
  /\ UNCHANGED <<vars, loopVars, cleanupDone, cleanupClose, waitOn>>

-----------------------------------------------------------------------------
SystemInit ==
  /\ Init
  /\ lpc = [l \in Loops |-> IF l \in Options THEN "spawned" ELSE "none"]
  /\ ClosedDone
  /\ deferred = [l \in Loops |-> None]
  /\ cleanupClose = FALSE /\ cpc = "idle" /\ waitOn = None
  /\ panicked = FALSE

LoopStep(l) == Resets(l) \/ Defers(l) \/ Ticks(l) \/ Swept(l) \/ Returns(l)
CloseStep == CloseReads \/ CloseReturns

\* A Cleanup that is no goroutine's is called by anybody, like the other calls.
StoreStep ==
  /\ \/ \E o \in Ops : (o \notin Options /\ OpBegins(o)) \/ OpStep(o) \/ Fails(o)
     \/ Tick
  /\ UNCHANGED <<loopVars, closeVars, cleanupDone>>

SystemNext ==
  \/ StoreStep
  \/ \E l \in Loops : LoopStep(l)
  \/ CloseSignals
  \/ CloseStep

SystemSpec == SystemInit /\ [][SystemNext]_allVars

\* A call that began goes on; the server serves those that wait for a row in
\* turn; the goroutines run.  Nobody has to call Close.
SystemFairness ==
  /\ \A o \in Ops : SF_allVars(OpStep(o) /\ UNCHANGED <<loopVars, closeVars, cleanupDone>>)
  /\ \A l \in Loops : WF_allVars(LoopStep(l))
  /\ WF_allVars(CloseStep)

FairSystemSpec == SystemSpec /\ SystemFairness

-----------------------------------------------------------------------------
LoopTypeOK ==
  /\ lpc \in [Loops -> {"none", "spawned", "made", "select", "sweep", "ended"}]
  /\ cleanupDone \in Loops \cup {First}
  /\ deferred \in [Loops -> Loops \cup {First, None}]
  /\ shut \subseteq Loops \cup {First}
  /\ cleanupClose \in BOOLEAN /\ panicked \in BOOLEAN
  /\ cpc \in {"idle", "signalled", "waits", "returned"}
  /\ waitOn \in Loops \cup {First, None}

\* The types of the store, its goroutines and its Close.
SystemTypeOK == TypeOK /\ LoopTypeOK

\* One option WithCleanup at most.
OneOption == \A k, l \in Options : k = l

\* With one WithCleanup, no channel is closed twice: the goroutine closes the one
\* it made, whenever Close comes.
NoDoubleClose == OneOption => ~panicked

\* And a Close that found the channel of the cleanup goroutine returns after that
\* goroutine: no row is removed on behalf of the store from then on.
CloseWaits ==
  OneOption /\ cpc = "returned" /\ waitOn \in Options =>
    lpc[waitOn] = "ended" /\ pc[waitOn] \in Ended \cup {"idle"}

\* Close returns, and every cleanup goroutine ends, the late ones too.
CloseEnds ==
  cleanupClose ~> (cpc = "returned" /\ \A l \in Options : lpc[l] = "ended")
=============================================================================
