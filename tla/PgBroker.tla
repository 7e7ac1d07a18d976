------------------------------ MODULE PgBroker ------------------------------
(***************************************************************************)
(* The PostgreSQL broker of package pubsub (src/pubsub/postgres.go).       *)
(*                                                                         *)
(* One Postgres value p is shared by goroutines that call Subscribe,       *)
(* Publish and Close.  The first Subscribe on a topic acquires a           *)
(* connection of the pool, executes LISTEN on it and starts the listen     *)
(* goroutine, which keeps the connection; later calls on the topic only    *)
(* append a handler.  Every subscription has a watchHandler goroutine that *)
(* removes the handler when its context is done, and the last removal      *)
(* cancels the listener.                                                   *)
(*                                                                         *)
(* p.mu is held over network calls only by a Subscribe that creates a      *)
(* listener: `mu' names that call.  Every other critical section of p.mu   *)
(* and of tl.mu neither blocks nor performs I/O, and is one step.          *)
(*                                                                         *)
(* External code, modelled from its use: the pgx pool (a fixed number of   *)
(* connection slots; Release puts a healthy connection back as it is, with *)
(* the LISTEN registrations of its session, and drops a broken one) and    *)
(* the server (NOTIFY reaches every session that LISTENs on the channel).  *)
(***************************************************************************)
EXTENDS Naturals, FiniteSets

CONSTANTS
  Topics,      \* topic names, the channels of LISTEN and NOTIFY
  Subs,        \* the Subscribe calls; a listener is named by the call creating it
  Pubs,        \* the Publish calls, each also standing for its payload
  Conns,       \* the connection slots of the pool (MaxConns of them)
  SubTopic,    \* the topic of each Subscribe call
  PubTopic,    \* the topic of each Publish call
  PayloadLens, \* the lengths, in bytes, a payload may have
  MaxBreaks,   \* bound: how many connections may fail
  None         \* no listener, no owner, no lock holder

ASSUME BrokerAssumption ==
  /\ SubTopic \in [Subs -> Topics]
  /\ PubTopic \in [Pubs -> Topics]
  /\ PayloadLens \subseteq Nat
  /\ MaxBreaks \in Nat
  /\ Subs \cap Pubs = {}
  /\ None \notin Subs \cup Pubs \cup Conns

VARIABLES
  closed,     \* p.closed
  mu,         \* the Subscribe call that holds p.mu over its network calls
  listeners,  \* p.listeners: the topicListener of each topic, None if absent
  handlers,   \* tl.handlers of each topicListener (the order plays no part)
  userDone,   \* calls whose caller's context is done
  stopped,    \* subscriptions on which h.cancel() was called
  ended,      \* listeners on which tl.cancel() was called
  watching,   \* subscriptions whose watchHandler goroutine runs
  spc,        \* where each Subscribe call is, then how it returned
  ppc,        \* where each Publish call is, then how it returned
  lpc,        \* where each listen goroutine is
  lmsg,       \* the payload a listen goroutine is dispatching
  snap,       \* its copy of the handlers, those not yet looked at
  cur,        \* the handler whose context it found live and is about to start
  got,        \* how many times each payload was handed to each handler
  owner,      \* who holds each connection; None when it is in the pool
  listening,  \* the channels each connection's session LISTENs on
  inbox,      \* notifications sent to each connection and not yet read
  broken,     \* held connections whose socket failed
  breaks      \* number of failures so far

calls    == <<spc, ppc>>
registry == <<closed, listeners, handlers, watching>>
contexts == <<userDone, stopped, ended>>
loop     == <<lpc, lmsg, snap, cur, got>>
net      == <<owner, listening, inbox, broken, breaks>>
vars     == <<closed, mu, listeners, handlers, userDone, stopped, ended,
              watching, spc, ppc, lpc, lmsg, snap, cur, got,
              owner, listening, inbox, broken, breaks>>

MaxPayload  == 8000   \* the length Publish accepts at most
NotifyLimit == 8000   \* the server wants a payload shorter than this

SubReturns == {"ok", "errClosed", "error"}
PubReturns == {"ok", "errClosed", "tooLarge", "error"}

\* h.ctx.Err() # nil: the handler's own context or the caller's one above it.
HandlerDone(s) == s \in userDone \cup stopped

Free(c) == owner[c] = None

\* The listen goroutine of l runs and has not left its loop.
Running(l) == lpc[l] \in {"wait", "dispatch", "start"}

\* A payload's length is settled where it matters: when Publish looks at it, and
\* when the server does.
Accepted == {n \in PayloadLens : n <= MaxPayload}

Notified(p) == {c \in Conns : PubTopic[p] \in listening[c]}

(***************************************************************************)
(* Fragments of the code that several actions share, or that have a        *)
(* mutant: a changed form in which some property below fails.              *)
(***************************************************************************)

\* An empty p.listeners.  Mutant: a nil map.
NilMap      == [t \in {} |-> None]
NoListeners == [t \in Topics |-> None]

\* h.cancel() and tl.cancel().  Mutants: the calls are missing.
KeepHandlers(H)   == UNCHANGED stopped
CancelHandlers(H) == stopped' = stopped \cup H

KeepListeners(L)   == UNCHANGED ended
CancelListeners(L) == ended' = ended \cup L

\* go p.watchHandler(topic, h).  Mutant: the goroutine is not started.
NoWatch(s) == UNCHANGED watching
Watch(s)   == watching' = watching \cup {s}

\* Whether a listener is stopped when H is what removeHandler leaves of its
\* handlers.  Mutant: it always is.
AnyLeft(H)  == TRUE
NoneLeft(H) == H = {}

\* The copy of the handlers.
CopyHandlers(l) == snap' = [snap EXCEPT ![l] = handlers[l]]

\* The rest of the dispatch loop after h.  Mutant: it stays at h.
SameAgain(l, h) == snap[l]
Rest(l, h)      == snap[l] \ {h}

\* continue, after a handler whose context is done.  Mutant: the loop ends there.
BreakAfter(l, h)    == {}
ContinueAfter(l, h) == Rest(l, h)

\* WaitForNotification hands out p.
Take(c, p) == p \in inbox[c] /\ inbox' = [inbox EXCEPT ![c] = @ \ {p}]

\* The connection c goes back to the pool; ib is the inbox function the step
\* leaves behind for the other connections.
Release(c, ib) ==
  /\ owner' = [owner EXCEPT ![c] = None]
  /\ broken' = broken \ {c}
  /\ IF c \in broken
     THEN /\ listening' = [listening EXCEPT ![c] = {}]
          /\ inbox' = [ib EXCEPT ![c] = {}]
     ELSE /\ inbox' = ib
          /\ UNCHANGED listening
  /\ UNCHANGED breaks

\* conn.Release() of a listener's connection.  Mutant: not called.
KeepConn(c) == UNCHANGED net
GiveBack(c) == Release(c, inbox)

Init ==
  /\ closed = FALSE
  /\ mu = None
  /\ listeners = NoListeners
  /\ handlers = [s \in Subs |-> {}]
  /\ userDone = {} /\ stopped = {} /\ ended = {} /\ watching = {}
  /\ spc = [s \in Subs |-> "idle"]
  /\ ppc = [p \in Pubs |-> "idle"]
  /\ lpc = [s \in Subs |-> "none"]
  /\ lmsg = [s \in Subs |-> None]
  /\ snap = [s \in Subs |-> {}]
  /\ cur = [s \in Subs |-> None]
  /\ got = [s \in Subs |-> [p \in Pubs |-> 0]]
  /\ owner = [c \in Conns |-> None]
  /\ listening = [c \in Conns |-> {}]
  /\ inbox = [c \in Conns |-> {}]
  /\ broken = {} /\ breaks = 0

-----------------------------------------------------------------------------
(* Subscribe and createTopicListener.                                      *)

SubscribeClosed(s) ==
  /\ spc[s] = "idle" /\ mu = None
  /\ closed
  /\ spc' = [spc EXCEPT ![s] = "errClosed"]
  /\ UNCHANGED <<mu, registry, contexts, ppc, loop, net>>

\* The topic has an entry: append the handler and start its watcher.
SubscribeJoin(s) ==
  LET l == listeners[SubTopic[s]] IN
  /\ spc[s] = "idle" /\ mu = None
  /\ ~closed
  /\ l # None
  /\ handlers' = [handlers EXCEPT ![l] = @ \cup {s}]
  /\ Watch(s)
  /\ spc' = [spc EXCEPT ![s] = "ok"]
  /\ UNCHANGED <<closed, mu, listeners, contexts, ppc, loop, net>>

\* The topic has none: go on to pool.Acquire with p.mu held.
SubscribeCreate(s) ==
  /\ spc[s] = "idle" /\ mu = None
  /\ ~closed
  /\ listeners[SubTopic[s]] = None
  /\ mu' = s
  /\ spc' = [spc EXCEPT ![s] = "acquire"]
  /\ UNCHANGED <<registry, contexts, ppc, loop, net>>

SubscribeAcquire(s, c) ==
  /\ spc[s] = "acquire"
  /\ s \notin userDone
  /\ Free(c)
  /\ owner' = [owner EXCEPT ![c] = s]
  /\ spc' = [spc EXCEPT ![s] = "listen"]
  /\ UNCHANGED <<mu, registry, contexts, ppc, loop, listening, inbox, broken, breaks>>

\* Mutant: p.mu is not unlocked.
SubscribeAbortLocked(s) ==
  /\ CancelHandlers({s})
  /\ spc' = [spc EXCEPT ![s] = "error"]
  /\ UNCHANGED mu

\* The error returns: cancel() of the handler's context, then p.mu is unlocked.
SubscribeAbort(s) ==
  /\ CancelHandlers({s})
  /\ mu' = None
  /\ spc' = [spc EXCEPT ![s] = "error"]

\* Acquire fails: the caller's context is done, or a slot is free and the
\* connection for it cannot be made.  A full pool makes the call wait.
SubscribeNoConn(s) ==
  /\ spc[s] = "acquire"
  /\ s \in userDone \/ \E c \in Conns : Free(c)
  /\ SubscribeAbort(s)
  /\ UNCHANGED <<registry, userDone, ended, ppc, loop, net>>

\* LISTEN succeeds and the listen goroutine starts; the listener has no
\* handler and no entry in p.listeners yet.
ListenOk(s, c) ==
  /\ spc[s] = "listen"
  /\ owner[c] = s /\ c \notin broken
  /\ listening' = [listening EXCEPT ![c] = @ \cup {SubTopic[s]}]
  /\ lpc' = [lpc EXCEPT ![s] = "wait"]
  /\ spc' = [spc EXCEPT ![s] = "register"]
  /\ UNCHANGED <<mu, registry, contexts, ppc, lmsg, snap, cur, got,
                 owner, inbox, broken, breaks>>

\* The connection failed, or the server refuses the statement.
ListenFails(s, c) ==
  /\ spc[s] = "listen"
  /\ owner[c] = s
  /\ GiveBack(c)
  /\ CancelListeners({s})
  /\ SubscribeAbort(s)
  /\ UNCHANGED <<registry, userDone, ppc, loop>>

\* Back in Subscribe: enter the listener, append the handler, start the watcher.
Register(s) ==
  /\ spc[s] = "register"
  /\ listeners' = [listeners EXCEPT ![SubTopic[s]] = s]
  /\ handlers' = [handlers EXCEPT ![s] = @ \cup {s}]
  /\ Watch(s)
  /\ mu' = None
  /\ spc' = [spc EXCEPT ![s] = "ok"]
  /\ UNCHANGED <<closed, contexts, ppc, loop, net>>

-----------------------------------------------------------------------------
(* The listen goroutine.                                                   *)

\* WaitForNotification returns a payload and the handlers are copied under
\* tl.mu.  The channel of the notification is not looked at.  Which payload comes
\* first plays no part: handlers run in goroutines of their own.
Receive(l, c) ==
  /\ lpc[l] = "wait"
  /\ owner[c] = l /\ c \notin broken
  /\ \E p \in Pubs : Take(c, p) /\ lmsg' = [lmsg EXCEPT ![l] = p]
  /\ CopyHandlers(l)
  /\ lpc' = [lpc EXCEPT ![l] = "dispatch"]
  /\ UNCHANGED <<mu, registry, contexts, calls, cur, got,
                 owner, listening, broken, breaks>>

\* A round of the dispatch loop skips a handler whose context is done.
Skip(l, h) ==
  /\ lpc[l] = "dispatch"
  /\ h \in snap[l] /\ HandlerDone(h)
  /\ snap' = [snap EXCEPT ![l] = ContinueAfter(l, h)]
  /\ UNCHANGED <<mu, registry, contexts, calls, lpc, lmsg, cur, got, net>>

\* The context is live: the check, under no lock.
Check(l, h) ==
  /\ lpc[l] = "dispatch"
  /\ h \in snap[l] /\ ~HandlerDone(h)
  /\ snap' = [snap EXCEPT ![l] = Rest(l, h)]
  /\ cur' = [cur EXCEPT ![l] = h]
  /\ lpc' = [lpc EXCEPT ![l] = "start"]
  /\ UNCHANGED <<mu, registry, contexts, calls, lmsg, got, net>>

\* go h.fn(payload), whatever became of the context since.
Start(l) ==
  /\ lpc[l] = "start"
  /\ got' = [got EXCEPT ![cur[l]][lmsg[l]] = @ + 1]
  /\ cur' = [cur EXCEPT ![l] = None]
  /\ lpc' = [lpc EXCEPT ![l] = "dispatch"]
  /\ UNCHANGED <<mu, registry, contexts, calls, lmsg, snap, net>>

DispatchEnd(l) ==
  /\ lpc[l] = "dispatch"
  /\ snap[l] = {}
  /\ lmsg' = [lmsg EXCEPT ![l] = None]
  /\ lpc' = [lpc EXCEPT ![l] = "wait"]
  /\ UNCHANGED <<mu, registry, contexts, calls, snap, cur, got, net>>

\* WaitForNotification fails: tl.cancel() and conn.Release() are deferred.
\* The entry in p.listeners is left alone.
ListenExit(l, c) ==
  /\ lpc[l] = "wait"
  /\ owner[c] = l
  /\ l \in ended \/ c \in broken
  /\ CancelListeners({l})
  /\ GiveBack(c)
  /\ lpc' = [lpc EXCEPT ![l] = "exited"]
  /\ UNCHANGED <<mu, registry, userDone, stopped, calls, lmsg, snap, cur, got>>

-----------------------------------------------------------------------------
(* watchHandler and removeHandler.                                         *)

\* The topic has no entry any more: the watcher just ends.
RemoveNothing(s) ==
  /\ s \in watching /\ HandlerDone(s) /\ mu = None
  /\ listeners[SubTopic[s]] = None
  /\ watching' = watching \ {s}
  /\ UNCHANGED <<closed, mu, listeners, handlers, contexts, calls, loop, net>>

RemoveHandler(s) ==
  LET t    == SubTopic[s]
      l    == listeners[t]
      left == handlers[l] \ {s}
  IN
  /\ s \in watching /\ HandlerDone(s) /\ mu = None
  /\ l # None
  /\ watching' = watching \ {s}
  /\ handlers' = [handlers EXCEPT ![l] = left]
  /\ CancelHandlers(handlers[l] \cap {s})
  /\ IF NoneLeft(left)
     THEN /\ CancelListeners({l})
          /\ listeners' = [listeners EXCEPT ![t] = None]
     ELSE UNCHANGED <<ended, listeners>>
  /\ UNCHANGED <<closed, mu, userDone, calls, loop, net>>

-----------------------------------------------------------------------------
(* Close.  A second Close returns ErrClosed and changes nothing.           *)

Close ==
  LET open == {listeners[t] : t \in Topics} \ {None} IN
  /\ mu = None
  /\ ~closed
  /\ closed' = TRUE
  /\ CancelListeners(open)
  /\ CancelHandlers(UNION {handlers[l] : l \in open})
  /\ listeners' = NoListeners
  /\ UNCHANGED <<mu, handlers, watching, userDone, calls, loop, net>>

-----------------------------------------------------------------------------
(* Publish.                                                                *)

PublishClosed(p) ==
  /\ ppc[p] = "idle" /\ mu = None
  /\ closed
  /\ ppc' = [ppc EXCEPT ![p] = "errClosed"]
  /\ UNCHANGED <<mu, registry, contexts, spc, loop, net>>

PublishTooLarge(p) ==
  /\ ppc[p] = "idle" /\ mu = None
  /\ ~closed
  /\ PayloadLens \ Accepted # {}
  /\ ppc' = [ppc EXCEPT ![p] = "tooLarge"]
  /\ UNCHANGED <<mu, registry, contexts, spc, loop, net>>

\* p.closed was read under RLock; the lock is released before pool.Exec.
PublishBegin(p) ==
  /\ ppc[p] = "idle" /\ mu = None
  /\ ~closed
  /\ Accepted # {}
  /\ ppc' = [ppc EXCEPT ![p] = "acquire"]
  /\ UNCHANGED <<mu, registry, contexts, spc, loop, net>>

PublishAcquire(p, c) ==
  /\ ppc[p] = "acquire"
  /\ Free(c)
  /\ owner' = [owner EXCEPT ![c] = p]
  /\ ppc' = [ppc EXCEPT ![p] = "exec"]
  /\ UNCHANGED <<mu, registry, contexts, spc, loop, listening, inbox, broken, breaks>>

\* No connection: the publisher's context is done, or none can be made.
PublishNoConn(p) ==
  /\ ppc[p] = "acquire"
  /\ ppc' = [ppc EXCEPT ![p] = "error"]
  /\ UNCHANGED <<mu, registry, contexts, spc, loop, net>>

\* pg_notify runs: every session listening on the channel is sent the payload,
\* idle connections of the pool included.
PublishNotify(p, c) ==
  /\ ppc[p] = "exec"
  /\ owner[c] = p /\ c \notin broken
  /\ \E n \in Accepted : n < NotifyLimit
  /\ Release(c, [d \in Conns |-> IF d \in Notified(p) THEN inbox[d] \cup {p}
                                                      ELSE inbox[d]])
  /\ ppc' = [ppc EXCEPT ![p] = "ok"]
  /\ UNCHANGED <<mu, registry, contexts, spc, loop>>

\* The server refuses the payload.
PublishRefused(p, c) ==
  /\ ppc[p] = "exec"
  /\ owner[c] = p /\ c \notin broken
  /\ \E n \in Accepted : n >= NotifyLimit
  /\ Release(c, inbox)
  /\ ppc' = [ppc EXCEPT ![p] = "error"]
  /\ UNCHANGED <<mu, registry, contexts, spc, loop>>

\* The connection failed under the call: the server ran pg_notify or did not.
PublishLost(p, c) ==
  /\ ppc[p] = "exec"
  /\ owner[c] = p /\ c \in broken
  /\ \E reached \in SUBSET Conns :
       /\ \/ reached = {}
          \/ reached = Notified(p) /\ \E n \in Accepted : n < NotifyLimit
       /\ Release(c, [d \in Conns |-> IF d \in reached THEN inbox[d] \cup {p}
                                                       ELSE inbox[d]])
  /\ ppc' = [ppc EXCEPT ![p] = "error"]
  /\ UNCHANGED <<mu, registry, contexts, spc, loop>>

-----------------------------------------------------------------------------
(* The environment: callers cancel their contexts, connections fail.       *)

UserCancel(s) ==
  /\ s \notin userDone
  /\ userDone' = userDone \cup {s}
  /\ UNCHANGED <<mu, registry, stopped, ended, calls, loop, net>>

\* The session is gone with its registrations.  The holder of the connection
\* meets the error at its next use; the pool replaces an idle connection.
Break(c) ==
  /\ breaks < MaxBreaks
  /\ c \notin broken
  /\ breaks' = breaks + 1
  /\ broken' = IF Free(c) THEN broken ELSE broken \cup {c}
  /\ listening' = [listening EXCEPT ![c] = {}]
  /\ inbox' = [inbox EXCEPT ![c] = {}]
  /\ UNCHANGED <<mu, registry, contexts, calls, loop, owner>>

-----------------------------------------------------------------------------
SubscribeStep(s) ==
  \/ SubscribeClosed(s) \/ SubscribeJoin(s) \/ SubscribeCreate(s)
  \/ \E c \in Conns : SubscribeAcquire(s, c)
  \/ SubscribeNoConn(s)
  \/ \E c \in Conns : ListenOk(s, c)
  \/ \E c \in Conns : ListenFails(s, c)
  \/ Register(s)

ListenStep(l) ==
  \/ \E c \in Conns : Receive(l, c)
  \/ \E h \in Subs : Skip(l, h) \/ Check(l, h)
  \/ Start(l)
  \/ DispatchEnd(l)
  \/ \E c \in Conns : ListenExit(l, c)

WatchStep(s) == RemoveNothing(s) \/ RemoveHandler(s)

PublishStep(p) ==
  \/ PublishClosed(p) \/ PublishTooLarge(p) \/ PublishBegin(p)
  \/ \E c \in Conns : PublishAcquire(p, c)
  \/ PublishNoConn(p)
  \/ \E c \in Conns : PublishNotify(p, c)
  \/ \E c \in Conns : PublishRefused(p, c)
  \/ \E c \in Conns : PublishLost(p, c)

Next ==
  \/ \E s \in Subs : SubscribeStep(s) \/ ListenStep(s) \/ WatchStep(s)
  \/ \E p \in Pubs : PublishStep(p)
  \/ Close
  \/ \E s \in Subs : UserCancel(s)
  \/ \E c \in Conns : Break(c)

Spec == Init /\ [][Next]_vars

(***************************************************************************)
(* A call in progress and a goroutine that can go on do so.  Nobody has to *)
(* call Subscribe, Publish or Close, to cancel, or to lose a connection.   *)
(* Every call happens once, so behaviours are finite: they end when no     *)
(* call and no goroutine can go on.  Weak fairness of all of them together *)
(* is then weak fairness of each, and all that the FIFO queues of Go's     *)
(* mutex and of the pool amount to here.                                   *)
(***************************************************************************)
GoOn ==
  \/ \E s \in Subs : spc[s] # "idle" /\ SubscribeStep(s)
  \/ \E s \in Subs : ListenStep(s) \/ WatchStep(s)
  \/ \E p \in Pubs : ppc[p] # "idle" /\ PublishStep(p)

Fairness == WF_vars(GoOn)

FairSpec == Spec /\ Fairness

-----------------------------------------------------------------------------
TypeOK ==
  /\ closed \in BOOLEAN
  /\ mu \in Subs \cup {None}
  /\ listeners \in [Topics -> Subs \cup {None}]
  /\ handlers \in [Subs -> SUBSET Subs]
  /\ userDone \subseteq Subs /\ stopped \subseteq Subs
  /\ ended \subseteq Subs /\ watching \subseteq Subs
  /\ spc \in [Subs -> {"idle", "acquire", "listen", "register"} \cup SubReturns]
  /\ ppc \in [Pubs -> {"idle", "acquire", "exec"} \cup PubReturns]
  /\ lpc \in [Subs -> {"none", "wait", "dispatch", "start", "exited"}]
  /\ lmsg \in [Subs -> Pubs \cup {None}]
  /\ snap \in [Subs -> SUBSET Subs]
  /\ cur \in [Subs -> Subs \cup {None}]
  /\ got \in [Subs -> [Pubs -> Nat]]
  /\ owner \in [Conns -> Subs \cup Pubs \cup {None}]
  /\ listening \in [Conns -> SUBSET Topics]
  /\ inbox \in [Conns -> SUBSET Pubs]
  /\ broken \subseteq Conns
  /\ breaks \in 0..MaxBreaks

\* The calls and goroutines that are between an Acquire and its Release.
Holders == {s \in Subs : spc[s] = "listen" \/ Running(s)}
             \cup {p \in Pubs : ppc[p] = "exec"}

\* No connection leaks and none is shared: a connection is out of the pool
\* exactly while one call or listen goroutine holds it, on every error path too.
ConnAccounting ==
  /\ \A c \in Conns : owner[c] # None => owner[c] \in Holders
  /\ \A h \in Holders : \E c \in Conns : owner[c] = h
  /\ \A c, d \in Conns : owner[c] = owner[d] /\ owner[c] # None => c = d

\* A listen goroutine nobody told to stop is the registered one of its topic, or
\* about to be by the call that holds p.mu: a topic never has two listeners, and
\* no goroutine keeps its connection with nobody left to cancel it.
NoOrphanListener ==
  \A l \in Subs : Running(l) /\ l \notin ended =>
    \/ listeners[SubTopic[l]] = l
    \/ mu = l /\ spc[l] = "register"

\* A registered listener has handlers, and each has a watcher that will take it
\* out again: the entry cannot outlive its last subscription unnoticed.
RegisteredAreWatched ==
  \A t \in Topics : LET l == listeners[t] IN
    l # None => /\ SubTopic[l] = t
                /\ handlers[l] # {}
                /\ handlers[l] \subseteq watching \ stopped

\* A subscription that returned nil and was not cancelled is in the registered
\* listener of its topic, so that Close and removeHandler find it.
ActiveIsRegistered ==
  \A s \in Subs : spc[s] = "ok" /\ ~HandlerDone(s) =>
    LET l == listeners[SubTopic[s]] IN l # None /\ s \in handlers[l]

\* Close leaves nothing behind: no entry, every subscription cancelled, every
\* listen goroutine told to stop, and no call past the check of p.closed.
CloseStopsAll ==
  closed => /\ \A t \in Topics : listeners[t] = None
            /\ \A s \in Subs : spc[s] = "ok" => HandlerDone(s)
            /\ \A l \in Subs : Running(l) => l \in ended
            /\ mu = None

\* A handler is started at most once for each Publish, though a session can
\* LISTEN on a topic twice and connections change hands with unread payloads.
AtMostOnce == \A s \in Subs, p \in Pubs : got[s][p] <= 1

\* After Close no handler passes the check of its context any more (one that
\* passed before may still be started).
NoDispatchAfterClose ==
  [][closed => \A l \in Subs : lpc[l] # "start" => lpc'[l] # "start"]_vars

\* A subscription whose context is done is removed: removeHandler gets p.mu, though
\* a Subscribe may hold it over its network calls.  Nobody comes back once removed,
\* so that time and again none is left to be removed.
Unsubscribed == []<>(\A s \in watching : ~HandlerDone(s))

\* After Close every connection of a listener goes back to the pool.
ConnsReturned == closed ~> (\A c \in Conns : owner[c] = None)

\* A payload that reached the connection of a topic's listener gets to every
\* handler it had, those behind a cancelled one too, unless the handler itself is
\* cancelled or the connection is lost.
Delivered ==
  \A s \in Subs, p \in Pubs :
    (\E l \in Subs : /\ s \in handlers[l] /\ lpc[l] = "wait"
                     /\ \E c \in Conns : owner[c] = l /\ p \in inbox[c])
    ~> (got[s][p] > 0 \/ HandlerDone(s) \/ \E l \in Subs : s \in handlers[l] /\ lpc[l] = "exited")

-----------------------------------------------------------------------------
(* The broker keeps the promises of the interface for one with a server in *)
(* between: see module Broker.  A call that waits for a connection or for  *)
(* its LISTEN has not subscribed yet.                                      *)

sub == [s \in Subs |->
          CASE spc[s] = "ok" -> IF HandlerDone(s) THEN "ended" ELSE "active"
            [] spc[s] \in {"errClosed", "error"} -> spc[s]
            [] OTHER -> "idle"]

pub == [p \in Pubs |-> IF ppc[p] \in {"acquire", "exec"} THEN "sending" ELSE ppc[p]]

audience == [p \in Pubs |-> IF ppc[p] \in {"idle", "errClosed", "tooLarge"} THEN {} ELSE Subs]

due == {x \in Subs \X Pubs : \E l \in Subs : lpc[l] = "start" /\ cur[l] = x[1] /\ lmsg[l] = x[2]}

Abstract == INSTANCE Broker WITH
              Remote <- TRUE, sub <- sub, pub <- pub, due <- due, audience <- audience

ImplementsBroker == Abstract!Spec

-----------------------------------------------------------------------------
(* What the documentation says and the code does not keep.                 *)

\* A handler is only given payloads published to its topic.
TopicIsolation ==
  \A s \in Subs, p \in Pubs : got[s][p] > 0 => PubTopic[p] = SubTopic[s]

\* A Subscribe that joins a listener finds its goroutine running: if the topic
\* has no listening connection, one is created.
JoinIsServed ==
  [][\A s \in Subs : spc[s] = "idle" /\ spc'[s] = "ok" =>
       Running(listeners[SubTopic[s]])]_vars
=============================================================================
