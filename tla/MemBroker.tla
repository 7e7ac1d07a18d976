------------------------------ MODULE MemBroker ------------------------------
(***************************************************************************)
(* The in-memory broker of package pubsub (src/pubsub/inmemory.go).        *)
(*                                                                         *)
(* Publish walks over the subscriptions with the read lock of m.mu held,   *)
(* and starts a goroutine for each handler.  Subscribe, removeSubscription *)
(* and Close hold the write lock and do not block under it: each is one    *)
(* step, taken when nobody reads.  Every subscription has a watcher that   *)
(* waits for its context or for closedCh.                                  *)
(***************************************************************************)
EXTENDS Naturals

CONSTANTS
  Topics, Subs, Pubs,
  SubTopic, PubTopic,  \* the topic of each Subscribe and each Publish call
  Writers,             \* the subscriptions whose handler writes into its payload
  None                 \* no subscription

ASSUME MemBrokerAssumption ==
  /\ SubTopic \in [Subs -> Topics]
  /\ PubTopic \in [Pubs -> Topics]
  /\ Writers \subseteq Subs
  /\ None \notin Subs

VARIABLES
  closed,     \* m.closed, and closedCh being closed
  subs,       \* m.subs of each topic (the order plays no part)
  userDone,   \* Subscribe calls whose caller's context is done
  cancelled,  \* subscriptions on which sub.cancel() was called
  pubDone,    \* Publish calls whose context is done
  spc,        \* how each Subscribe call returned
  wpc,        \* where each watchSubscription goroutine is
  ppc,        \* where each Publish call is, then how it returned
  todo,       \* the subscriptions a Publish call has not looked at yet
  cur,        \* the one whose context it found live and is about to start
  got,        \* how many times each handler was started with each payload
  ran,        \* the handler calls that looked at their payload
  spoiled,    \* those of them that found it changed
  dirty,      \* the slices written to since Publish was called
  audience    \* history: the live subscriptions a Publish call started out with

data  == <<ran, spoiled, dirty>>
pubs  == <<pubDone, ppc, todo, cur, got, audience>>
state == <<closed, subs, userDone, cancelled, spc, wpc>>
vars  == <<closed, subs, userDone, cancelled, pubDone, spc, wpc, ppc, todo, cur, got,
           ran, spoiled, dirty, audience>>

\* sub.ctx.Err() # nil
Done(s) == s \in userDone \cup cancelled

Live == {s \in Subs : spc[s] = "ok" /\ ~Done(s)}

(***************************************************************************)
(* Fragments of the code that several actions share, or that have a        *)
(* mutant: a changed form in which some property below fails.              *)
(***************************************************************************)

\* The write lock can be had: no Publish holds the read lock.  Mutant: a return
\* without m.mu.RUnlock().
NoReadersLeak == \A p \in Pubs : ppc[p] \notin {"loop", "start", "ok"}
NoReaders     == \A p \in Pubs : ppc[p] \notin {"loop", "start"}

\* An empty m.subs.  Mutant: a nil map.
NilMap          == [t \in {} |-> {}]
NoSubscriptions == [t \in Topics |-> {}]

\* go m.watchSubscription(topic, sub).  Mutant: not started.
NoWatch(s) == UNCHANGED wpc
Watch(s)   == wpc' = [wpc EXCEPT ![s] = "select"]

\* What removeSubscription makes of m.subs.  Mutant: the topic is deleted
\* without looking whether subscriptions are left.
WithoutTopic(s) == [subs EXCEPT ![SubTopic[s]] = {}]
Without(s)      == [subs EXCEPT ![SubTopic[s]] = @ \ {s}]

\* The slice the handlers are given: the copy all of them share.  Mutant: the
\* caller's own.
CallersSlice(p) == <<"payload", p>>
Slice(p)        == <<"payloadCopy", p>>

\* sub.cancel().
CancelAll(S) == cancelled' = cancelled \cup S

\* What is left to look at after s.  Mutant: the loop ends at the first
\* subscription that is done.
BreakAfter(p, s)    == {}
ContinueAfter(p, s) == todo[p] \ {s}

Init ==
  /\ closed = FALSE
  /\ subs = NoSubscriptions
  /\ userDone = {} /\ cancelled = {} /\ pubDone = {}
  /\ spc = [s \in Subs |-> "idle"]
  /\ wpc = [s \in Subs |-> "none"]
  /\ ppc = [p \in Pubs |-> "idle"]
  /\ todo = [p \in Pubs |-> {}]
  /\ cur = [p \in Pubs |-> None]
  /\ got = [s \in Subs |-> [p \in Pubs |-> 0]]
  /\ ran = {} /\ spoiled = {} /\ dirty = {}
  /\ audience = [p \in Pubs |-> {}]

-----------------------------------------------------------------------------
(* Subscribe, the watcher, and Close.                                      *)

SubscribeClosed(s) ==
  /\ spc[s] = "idle" /\ NoReaders
  /\ closed
  /\ spc' = [spc EXCEPT ![s] = "errClosed"]
  /\ UNCHANGED <<closed, subs, userDone, cancelled, wpc, pubs, data>>

Subscribe(s) ==
  /\ spc[s] = "idle" /\ NoReaders
  /\ ~closed
  /\ subs' = [subs EXCEPT ![SubTopic[s]] = @ \cup {s}]
  /\ spc' = [spc EXCEPT ![s] = "ok"]
  /\ Watch(s)
  /\ UNCHANGED <<closed, userDone, cancelled, pubs, data>>

\* When both channels are ready the select takes either.
WatchDone(s) ==
  /\ wpc[s] = "select"
  /\ Done(s)
  /\ wpc' = [wpc EXCEPT ![s] = "remove"]
  /\ UNCHANGED <<closed, subs, userDone, cancelled, spc, pubs, data>>

WatchClosed(s) ==
  /\ wpc[s] = "select"
  /\ closed
  /\ CancelAll({s})
  /\ wpc' = [wpc EXCEPT ![s] = "end"]
  /\ UNCHANGED <<closed, subs, userDone, spc, pubs, data>>

RemoveSubscription(s) ==
  /\ wpc[s] = "remove" /\ NoReaders
  /\ subs' = Without(s)
  /\ CancelAll(subs[SubTopic[s]] \cap {s})
  /\ wpc' = [wpc EXCEPT ![s] = "end"]
  /\ UNCHANGED <<closed, userDone, spc, pubs, data>>

\* A second Close returns ErrClosed and changes nothing.
Close ==
  /\ NoReaders
  /\ ~closed
  /\ closed' = TRUE
  /\ CancelAll(UNION {subs[t] : t \in Topics})
  /\ subs' = NoSubscriptions
  /\ UNCHANGED <<userDone, spc, wpc, pubs, data>>

-----------------------------------------------------------------------------
(* Publish.                                                                *)

\* m.closed, or ctx.Err() of the publisher's context.
PublishFails(p) ==
  /\ ppc[p] = "idle"
  /\ closed \/ p \in pubDone
  /\ ppc' = [ppc EXCEPT ![p] = "error"]
  /\ UNCHANGED <<state, pubDone, todo, cur, got, audience, data>>

\* From here to PublishReturns the read lock is held.  A topic without
\* subscriptions makes the loop an empty one.
PublishBegins(p) ==
  /\ ppc[p] = "idle"
  /\ ~closed /\ p \notin pubDone
  /\ todo' = [todo EXCEPT ![p] = subs[PubTopic[p]]]
  /\ audience' = [audience EXCEPT ![p] = subs[PubTopic[p]] \cap Live]
  /\ ppc' = [ppc EXCEPT ![p] = "loop"]
  /\ UNCHANGED <<state, pubDone, cur, got, data>>

Skip(p, s) ==
  /\ ppc[p] = "loop"
  /\ s \in todo[p] /\ Done(s)
  /\ todo' = [todo EXCEPT ![p] = ContinueAfter(p, s)]
  /\ UNCHANGED <<state, pubDone, ppc, cur, got, audience, data>>

Check(p, s) ==
  /\ ppc[p] = "loop"
  /\ s \in todo[p] /\ ~Done(s)
  /\ todo' = [todo EXCEPT ![p] = @ \ {s}]
  /\ cur' = [cur EXCEPT ![p] = s]
  /\ ppc' = [ppc EXCEPT ![p] = "start"]
  /\ UNCHANGED <<state, pubDone, got, audience, data>>

\* go sub.handler(payloadCopy), whatever became of the context since.
Start(p) ==
  /\ ppc[p] = "start"
  /\ got' = [got EXCEPT ![cur[p]][p] = @ + 1]
  /\ cur' = [cur EXCEPT ![p] = None]
  /\ ppc' = [ppc EXCEPT ![p] = "loop"]
  /\ UNCHANGED <<state, pubDone, todo, audience, data>>

PublishReturns(p) ==
  /\ ppc[p] = "loop"
  /\ todo[p] = {}
  /\ ppc' = [ppc EXCEPT ![p] = "ok"]
  /\ UNCHANGED <<state, pubDone, todo, cur, got, audience, data>>

-----------------------------------------------------------------------------
(* The callers: contexts end, a handler's goroutine looks at its payload   *)
(* and may write into it, a publisher uses its slice again.                *)

UserCancel(s) ==
  /\ s \notin userDone
  /\ userDone' = userDone \cup {s}
  /\ UNCHANGED <<closed, subs, cancelled, spc, wpc, pubs, data>>

PublisherCancel(p) ==
  /\ ppc[p] = "idle" /\ p \notin pubDone
  /\ pubDone' = pubDone \cup {p}
  /\ UNCHANGED <<state, ppc, todo, cur, got, audience, data>>

RunHandler(s, p) ==
  /\ got[s][p] > 0 /\ <<s, p>> \notin ran
  /\ ran' = ran \cup {<<s, p>>}
  /\ spoiled' = IF Slice(p) \in dirty THEN spoiled \cup {<<s, p>>} ELSE spoiled
  /\ dirty' = IF s \in Writers THEN dirty \cup {Slice(p)} ELSE dirty
  /\ UNCHANGED <<state, pubs>>

ReusePayload(p) ==
  /\ ppc[p] = "ok"
  /\ CallersSlice(p) \notin dirty
  /\ dirty' = dirty \cup {CallersSlice(p)}
  /\ UNCHANGED <<state, pubs, ran, spoiled>>

-----------------------------------------------------------------------------
WatchStep(s) == WatchDone(s) \/ WatchClosed(s) \/ RemoveSubscription(s)

PublishStep(p) ==
  \/ PublishFails(p) \/ PublishBegins(p) \/ Start(p) \/ PublishReturns(p)
  \/ \E s \in Subs : Skip(p, s) \/ Check(p, s)

Next ==
  \/ \E s \in Subs : SubscribeClosed(s) \/ Subscribe(s) \/ WatchStep(s) \/ UserCancel(s)
  \/ \E p \in Pubs : PublishStep(p) \/ PublisherCancel(p) \/ ReusePayload(p)
  \/ \E s \in Subs, p \in Pubs : RunHandler(s, p)
  \/ Close

Spec == Init /\ [][Next]_vars

\* The watchers and the Publish calls in progress go on.  A writer waiting for
\* m.mu keeps new readers out (sync.RWMutex), so that it gets the lock.
Fairness ==
  /\ \A s \in Subs : WF_vars(WatchDone(s) \/ WatchClosed(s)) /\ SF_vars(RemoveSubscription(s))
  /\ \A p \in Pubs : WF_vars(ppc[p] # "idle" /\ PublishStep(p))

FairSpec == Spec /\ Fairness

-----------------------------------------------------------------------------
TypeOK ==
  /\ closed \in BOOLEAN
  /\ subs \in [Topics -> SUBSET Subs]
  /\ userDone \subseteq Subs /\ cancelled \subseteq Subs /\ pubDone \subseteq Pubs
  /\ spc \in [Subs -> {"idle", "ok", "errClosed"}]
  /\ wpc \in [Subs -> {"none", "select", "remove", "end"}]
  /\ ppc \in [Pubs -> {"idle", "loop", "start", "ok", "error"}]
  /\ todo \in [Pubs -> SUBSET Subs]
  /\ cur \in [Pubs -> Subs \cup {None}]
  /\ got \in [Subs -> [Pubs -> Nat]]
  /\ ran \subseteq Subs \X Pubs /\ spoiled \subseteq ran
  /\ dirty \subseteq {"payload", "payloadCopy"} \X Pubs
  /\ audience \in [Pubs -> SUBSET Subs]

\* The broker keeps the promises of the interface: see module Broker.
sub == [s \in Subs |-> IF spc[s] = "ok" THEN IF Done(s) THEN "ended" ELSE "active" ELSE spc[s]]
pub == [p \in Pubs |-> IF ppc[p] \in {"loop", "start"} THEN "sending" ELSE ppc[p]]

due == {x \in Subs \X Pubs : ppc[x[2]] = "start" /\ cur[x[2]] = x[1]}

Abstract == INSTANCE Broker WITH
              Remote <- FALSE, sub <- sub, pub <- pub, due <- due, audience <- audience

ImplementsBroker == Abstract!Spec

\* Every entry of m.subs is watched by a goroutine that will take it out, and
\* every live subscription has an entry: Close and Publish reach all of them.
EntriesAreWatched ==
  \A t \in Topics : \A s \in subs[t] : SubTopic[s] = t /\ wpc[s] \in {"select", "remove"}

LiveIsRegistered == \A s \in Live : s \in subs[SubTopic[s]]

\* What a handler finds changed in its payload was written by another handler of the
\* same Publish: not by the publisher, that uses its slice again when Publish
\* has returned, and not by the handler of another payload.
PayloadIntact ==
  \A x \in spoiled : \E w \in Writers : w # x[1] /\ <<w, x[2]>> \in ran

\* A subscription that is over is removed and its watcher ends; after Close
\* every watcher does.
WatchersEnd == \A s \in Subs : (spc[s] = "ok" /\ (Done(s) \/ closed)) ~> (wpc[s] = "end")

-----------------------------------------------------------------------------
(* What the documentation says and the code does not keep: inmemory.go:55, *)
(* 'Copy payload so handlers can't mutate it', and pubsub.go:39, 'each     *)
(* receive a copy of every message'.  One copy is made per Publish and     *)
(* handed to every handler.                                                *)

\* A handler finds the payload that was published, whatever other handlers do.
HandlersHaveCopies == spoiled = {}
=============================================================================
