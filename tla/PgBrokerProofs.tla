--------------------------- MODULE PgBrokerProofs ---------------------------
(***************************************************************************)
(* Safety of the PostgreSQL broker for every number of topics, calls and   *)
(* connections: type correctness, and the invariants of PgBroker.          *)
(***************************************************************************)
EXTENDS PgBroker, TLAPS

\* One step, action by action: the shape of every proof that Next preserves
\* something.
LEMMA NextCases ==
  ASSUME Next
  PROVE  \/ \E s \in Subs : SubscribeClosed(s)
         \/ \E s \in Subs : SubscribeJoin(s)
         \/ \E s \in Subs : SubscribeCreate(s)
         \/ \E s \in Subs, c \in Conns : SubscribeAcquire(s, c)
         \/ \E s \in Subs : SubscribeNoConn(s)
         \/ \E s \in Subs, c \in Conns : ListenOk(s, c)
         \/ \E s \in Subs, c \in Conns : ListenFails(s, c)
         \/ \E s \in Subs : Register(s)
         \/ \E l \in Subs, c \in Conns : Receive(l, c)
         \/ \E l \in Subs, h \in Subs : Skip(l, h)
         \/ \E l \in Subs, h \in Subs : Check(l, h)
         \/ \E l \in Subs : Start(l)
         \/ \E l \in Subs : DispatchEnd(l)
         \/ \E l \in Subs, c \in Conns : ListenExit(l, c)
         \/ \E s \in Subs : RemoveNothing(s)
         \/ \E s \in Subs : RemoveHandler(s)
         \/ Close
         \/ \E p \in Pubs : PublishClosed(p) \/ PublishTooLarge(p)
                              \/ PublishBegin(p) \/ PublishNoConn(p)
         \/ \E p \in Pubs, c \in Conns : PublishAcquire(p, c)
         \/ \E p \in Pubs, c \in Conns : PublishNotify(p, c) \/ PublishRefused(p, c)
                                           \/ PublishLost(p, c)
         \/ \E s \in Subs : UserCancel(s)
         \/ \E c \in Conns : Break(c)
  BY DEF Next, SubscribeStep, ListenStep, WatchStep, PublishStep

\* Releasing a connection keeps the types of the network's variables.
LEMMA ReleaseType ==
  ASSUME TypeOK, NEW c \in Conns, NEW ib \in [Conns -> SUBSET Pubs], Release(c, ib)
  PROVE  /\ owner' \in [Conns -> Subs \cup Pubs \cup {None}]
         /\ listening' \in [Conns -> SUBSET Topics]
         /\ inbox' \in [Conns -> SUBSET Pubs]
         /\ broken' \subseteq Conns
         /\ breaks' \in 0..MaxBreaks
  <1>1. CASE c \in broken
    BY <1>1 DEF TypeOK, Release
  <1>2. CASE c \notin broken
    BY <1>2 DEF TypeOK, Release
  <1> QED BY <1>1, <1>2

\* Adding one to an entry keeps a function's type.
LEMMA IncrementType ==
  ASSUME NEW f \in [Pubs -> Nat], NEW x
  PROVE  [f EXCEPT ![x] = @ + 1] \in [Pubs -> Nat]
  <1>1. \A p \in Pubs : [f EXCEPT ![x] = @ + 1][p] \in Nat
    <2>1. ASSUME NEW p \in Pubs PROVE [f EXCEPT ![x] = @ + 1][p] \in Nat
      BY f[p] \in Nat, [f EXCEPT ![x] = @ + 1][p] = IF p = x THEN f[p] + 1 ELSE f[p]
    <2> QED BY <2>1
  <1> QED BY <1>1

\* NewPostgres returns a broker of the declared types.
LEMMA TypeInit == Init => TypeOK
  <1> SUFFICES ASSUME Init PROVE TypeOK
    OBVIOUS
  <1>1. breaks \in 0..MaxBreaks
    BY BrokerAssumption DEF Init
  <1>2. got \in [Subs -> [Pubs -> Nat]]
    <2>1. [p \in Pubs |-> 0] \in [Pubs -> Nat]
      OBVIOUS
    <2> QED BY <2>1 DEF Init
  <1>3. lmsg \in [Subs -> Pubs \cup {None}] /\ cur \in [Subs -> Subs \cup {None}]
    BY DEF Init
  <1>4. inbox \in [Conns -> SUBSET Pubs] /\ listening \in [Conns -> SUBSET Topics]
    BY DEF Init
  <1>5. /\ owner \in [Conns -> Subs \cup Pubs \cup {None}]
        /\ listeners \in [Topics -> Subs \cup {None}]
    BY DEF Init, NoListeners
  <1>6. handlers \in [Subs -> SUBSET Subs] /\ snap \in [Subs -> SUBSET Subs]
    BY DEF Init
  <1> QED BY <1>1, <1>2, <1>3, <1>4, <1>5, <1>6 DEF Init, TypeOK

\* Every method, goroutine step and failure keeps every variable in its type.
LEMMA TypeStep == TypeOK /\ [Next]_vars => TypeOK'
  <1> SUFFICES ASSUME TypeOK, [Next]_vars PROVE TypeOK'
    OBVIOUS
  <1> USE BrokerAssumption DEF TypeOK, SubReturns, PubReturns,
          registry, contexts, calls, loop, net,
          Watch, CancelHandlers, CancelListeners
  <1>0. CASE UNCHANGED vars
    BY <1>0 DEF vars
  <1>1. ASSUME NEW s \in Subs, SubscribeClosed(s) PROVE TypeOK'
    BY <1>1 DEF SubscribeClosed
  <1>2. ASSUME NEW s \in Subs, SubscribeJoin(s) PROVE TypeOK'
    BY <1>2 DEF SubscribeJoin
  <1>3. ASSUME NEW s \in Subs, SubscribeCreate(s) PROVE TypeOK'
    BY <1>3 DEF SubscribeCreate
  <1>4. ASSUME NEW s \in Subs, NEW c \in Conns, SubscribeAcquire(s, c) PROVE TypeOK'
    BY <1>4 DEF SubscribeAcquire
  <1>5. ASSUME NEW s \in Subs, SubscribeNoConn(s) PROVE TypeOK'
    BY <1>5 DEF SubscribeNoConn, SubscribeAbort
  <1>6. ASSUME NEW s \in Subs, NEW c \in Conns, ListenOk(s, c) PROVE TypeOK'
    BY <1>6 DEF ListenOk
  <1>7. ASSUME NEW s \in Subs, NEW c \in Conns, ListenFails(s, c) PROVE TypeOK'
    BY <1>7, ReleaseType DEF ListenFails, SubscribeAbort, GiveBack
  <1>8. ASSUME NEW s \in Subs, Register(s) PROVE TypeOK'
    BY <1>8 DEF Register
  <1>9. ASSUME NEW l \in Subs, NEW c \in Conns, Receive(l, c) PROVE TypeOK'
    BY <1>9 DEF Receive, Take, CopyHandlers
  <1>10. ASSUME NEW l \in Subs, NEW h \in Subs, Skip(l, h) PROVE TypeOK'
    BY <1>10 DEF Skip, Rest, ContinueAfter
  <1>11. ASSUME NEW l \in Subs, NEW h \in Subs, Check(l, h) PROVE TypeOK'
    BY <1>11 DEF Check, Rest, ContinueAfter
  <1>12. ASSUME NEW l \in Subs, Start(l) PROVE TypeOK'
    <2>1. \A h \in Subs : got[h] \in [Pubs -> Nat]
      OBVIOUS
    <2>2. ASSUME NEW h \in Subs
          PROVE  [got[h] EXCEPT ![lmsg[l]] = @ + 1] \in [Pubs -> Nat]
      BY <2>1, IncrementType
    <2>3. got' \in [Subs -> [Pubs -> Nat]]
      BY <1>12, <2>1, <2>2 DEF Start
    <2> QED BY <1>12, <2>3 DEF Start
  <1>13. ASSUME NEW l \in Subs, DispatchEnd(l) PROVE TypeOK'
    BY <1>13 DEF DispatchEnd
  <1>14. ASSUME NEW l \in Subs, NEW c \in Conns, ListenExit(l, c) PROVE TypeOK'
    BY <1>14, ReleaseType DEF ListenExit, GiveBack
  <1>15. ASSUME NEW s \in Subs, RemoveNothing(s) PROVE TypeOK'
    BY <1>15 DEF RemoveNothing
  <1>16. ASSUME NEW s \in Subs, RemoveHandler(s) PROVE TypeOK'
    BY <1>16 DEF RemoveHandler
  <1>17. CASE Close
    BY <1>17 DEF Close, NoListeners
  <1>18. ASSUME NEW p \in Pubs,
                PublishClosed(p) \/ PublishTooLarge(p) \/ PublishBegin(p) \/ PublishNoConn(p)
         PROVE  TypeOK'
    BY <1>18 DEF PublishClosed, PublishTooLarge, PublishBegin, PublishNoConn
  <1>19. ASSUME NEW p \in Pubs, NEW c \in Conns, PublishAcquire(p, c) PROVE TypeOK'
    BY <1>19 DEF PublishAcquire
  <1>20. ASSUME NEW p \in Pubs, NEW c \in Conns,
                PublishNotify(p, c) \/ PublishRefused(p, c) \/ PublishLost(p, c)
         PROVE  TypeOK'
    <2>1. CASE PublishRefused(p, c)
      BY <2>1, ReleaseType DEF PublishRefused
    <2>2. ASSUME NEW D \in SUBSET Conns,
            Release(c, [d \in Conns |-> IF d \in D THEN inbox[d] \cup {p} ELSE inbox[d]]),
            ppc' \in [Pubs -> {"idle", "acquire", "exec"} \cup PubReturns],
            UNCHANGED <<mu, registry, contexts, spc, loop>>
          PROVE TypeOK'
      <3>1. [d \in Conns |-> IF d \in D THEN inbox[d] \cup {p} ELSE inbox[d]]
              \in [Conns -> SUBSET Pubs]
        OBVIOUS
      <3> QED BY <2>2, <3>1, ReleaseType
    <2>3. CASE PublishNotify(p, c)
      <3>1. Notified(p) \in SUBSET Conns
        BY DEF Notified
      <3> QED BY <2>2, <2>3, <3>1 DEF PublishNotify
    <2>4. CASE PublishLost(p, c)
      <3>1. ppc' \in [Pubs -> {"idle", "acquire", "exec"} \cup PubReturns]
        BY <2>4 DEF PublishLost
      <3> QED BY <2>2, <2>4, <3>1 DEF PublishLost
    <2> QED BY <1>20, <2>1, <2>3, <2>4
  <1>21. ASSUME NEW s \in Subs, UserCancel(s) PROVE TypeOK'
    BY <1>21 DEF UserCancel
  <1>22. ASSUME NEW c \in Conns, Break(c) PROVE TypeOK'
    BY <1>22 DEF Break
  <1> QED
    BY NextCases, <1>0, <1>1, <1>2, <1>3, <1>4, <1>5, <1>6, <1>7, <1>8, <1>9, <1>10,
       <1>11, <1>12, <1>13, <1>14, <1>15, <1>16, <1>17, <1>18, <1>19, <1>20, <1>21, <1>22

\* Every variable keeps its type.
THEOREM TypeCorrect == Spec => []TypeOK
  BY TypeInit, TypeStep, PTL DEF Spec

-----------------------------------------------------------------------------
(***************************************************************************)
(* The registry: p.listeners, the handlers of each listener, the watchers  *)
(* and the lock.  The invariants that PgBroker states are not inductive    *)
(* by themselves: what is missing is who holds p.mu, which calls can have  *)
(* a goroutine or a handler, and which topic a handler belongs to.         *)
(***************************************************************************)
Busy == {"acquire", "listen", "register"}

\* p.mu is held over I/O by the one call in progress, which found neither
\* p.closed nor an entry for its topic.
LockInv ==
  /\ mu # None => spc[mu] \in Busy
  /\ \A s \in Subs : spc[s] \in Busy =>
       mu = s /\ ~closed /\ listeners[SubTopic[s]] = None

\* A listen goroutine exists once LISTEN succeeded.
GoroutineInv ==
  \A s \in Subs : lpc[s] # "none" => spc[s] \in {"register", "ok"}

\* Handlers are of calls that returned nil, and of their listener's topic.
HandlersInv ==
  \A l, s \in Subs : s \in handlers[l] =>
    spc[s] = "ok" /\ spc[l] = "ok" /\ SubTopic[s] = SubTopic[l]

\* h.cancel() is called on errors and on registered handlers only.
StoppedInv == \A s \in stopped : spc[s] \in {"ok", "error"}

ListenersInv ==
  /\ closed => \A t \in Topics : listeners[t] = None
  /\ \A t \in Topics : listeners[t] # None => spc[listeners[t]] = "ok"

RegistryInv ==
  /\ LockInv
  /\ GoroutineInv
  /\ HandlersInv
  /\ StoppedInv
  /\ ListenersInv
  /\ RegisteredAreWatched
  /\ ActiveIsRegistered
  /\ NoOrphanListener

-----------------------------------------------------------------------------
(***************************************************************************)
(* Delivery: where a payload can still be, and which handlers it can still *)
(* reach.                                                                  *)
(***************************************************************************)

\* The handlers a listener may start a goroutine for, now or later.
Host(l) == handlers[l] \cup snap[l] \cup ({cur[l]} \ {None})

\* A handler belongs to one listener for good.
HostInv ==
  /\ \A l, s \in Subs : s \in Host(l) => spc[s] = "ok" /\ spc[l] = "ok"
  /\ \A l, m, s \in Subs : s \in Host(l) /\ s \in Host(m) => l = m

\* What a listen goroutine's variables say in each part of its loop.
LoopInv ==
  \A l \in Subs :
    /\ lmsg[l] # None <=> lpc[l] \in {"dispatch", "start"}
    /\ cur[l] # None <=> lpc[l] = "start"
    /\ snap[l] # {} => lpc[l] \in {"dispatch", "start"}
    /\ cur[l] \notin snap[l]

\* Nothing is on its way before the NOTIFY, or reaches a call that has not returned.
SentInv ==
  /\ \A p \in Pubs : ppc[p] \notin {"ok", "error"} =>
       /\ \A c \in Conns : p \notin inbox[c]
       /\ \A l \in Subs : lmsg[l] # p
       /\ \A s \in Subs : got[s][p] = 0
  /\ \A s \in Subs, p \in Pubs : spc[s] # "ok" => got[s][p] = 0

\* A payload given to a handler is not given to it again by its listener.
SeenInv ==
  \A l, s \in Subs, p \in Pubs : s \in Host(l) /\ got[s][p] # 0 =>
    /\ lmsg[l] = p => s \notin snap[l] /\ cur[l] # s
    /\ \A c \in Conns : owner[c] = l => p \notin inbox[c]

\* The payload being dispatched is no longer in the connection's buffer.
TakenInv ==
  \A l \in Subs, p \in Pubs, c \in Conns :
    lmsg[l] = p /\ owner[c] = l => p \notin inbox[c]

DeliveryInv == HostInv /\ LoopInv /\ SentInv /\ SeenInv /\ TakenInv /\ AtMostOnce

IInv == TypeOK /\ RegistryInv /\ ConnAccounting /\ DeliveryInv

-----------------------------------------------------------------------------
\* A new broker has an empty registry that nobody holds the lock of.
LEMMA RegistryInit == Init => RegistryInv
  BY BrokerAssumption
  DEF Init, NoListeners, RegistryInv, LockInv, GoroutineInv, HandlersInv, StoppedInv,
      ListenersInv, RegisteredAreWatched, ActiveIsRegistered, NoOrphanListener,
      Busy, Running

\* What a step of the network, of the publishers or of the dispatch loop does
\* not touch is all the registry's invariant speaks of.
LEMMA RegistryFrame ==
  ASSUME RegistryInv,
         UNCHANGED <<closed, mu, listeners, handlers, stopped, watching, spc>>,
         userDone \subseteq userDone', ended \subseteq ended',
         \A l \in Subs : lpc'[l] # lpc[l] => Running(l)
  PROVE  RegistryInv'
  <1> USE DEF RegistryInv, HandlerDone
  <1>1. LockInv' /\ HandlersInv' /\ StoppedInv' /\ ListenersInv'
    BY DEF LockInv, HandlersInv, StoppedInv, ListenersInv
  <1>2. GoroutineInv'
    BY DEF GoroutineInv, Running
  <1>3. RegisteredAreWatched' /\ ActiveIsRegistered'
    BY DEF RegisteredAreWatched, ActiveIsRegistered
  <1>4. NoOrphanListener'
    BY DEF NoOrphanListener, Running
  <1> QED BY <1>1, <1>2, <1>3, <1>4

\* Every step keeps the registry in order: Subscribe, removeHandler and Close
\* change p.listeners and the contexts only as the invariant allows.
LEMMA RegistryStep == TypeOK /\ RegistryInv /\ [Next]_vars => RegistryInv'
  <1> SUFFICES ASSUME TypeOK, RegistryInv, [Next]_vars PROVE RegistryInv'
    OBVIOUS
  <1> USE BrokerAssumption DEF registry, contexts, calls, loop, net
  <1> USE DEF TypeOK, RegistryInv, LockInv, GoroutineInv, HandlersInv, StoppedInv,
          ListenersInv, RegisteredAreWatched, ActiveIsRegistered, NoOrphanListener,
          Busy, Running, HandlerDone
  <1>0. CASE UNCHANGED vars
    BY <1>0, RegistryFrame DEF vars
  <1>1. ASSUME NEW s \in Subs, SubscribeClosed(s) PROVE RegistryInv'
    BY <1>1 DEF SubscribeClosed
  <1>2. ASSUME NEW s \in Subs, SubscribeJoin(s) PROVE RegistryInv'
    BY <1>2 DEF SubscribeJoin, Watch
  <1>3. ASSUME NEW s \in Subs, SubscribeCreate(s) PROVE RegistryInv'
    BY <1>3 DEF SubscribeCreate
  <1>4. ASSUME NEW s \in Subs, NEW c \in Conns, SubscribeAcquire(s, c) PROVE RegistryInv'
    BY <1>4 DEF SubscribeAcquire
  <1>5. ASSUME NEW s \in Subs, SubscribeAbort(s), spc[s] \in {"acquire", "listen"},
               UNCHANGED <<registry, userDone, lpc>>, ended \subseteq ended'
        PROVE  RegistryInv'
    BY <1>5 DEF SubscribeAbort, CancelHandlers
  <1>6. ASSUME NEW s \in Subs, SubscribeNoConn(s) PROVE RegistryInv'
    BY <1>5, <1>6 DEF SubscribeNoConn
  <1>7. ASSUME NEW s \in Subs, NEW c \in Conns, ListenOk(s, c) PROVE RegistryInv'
    BY <1>7 DEF ListenOk
  <1>8. ASSUME NEW s \in Subs, NEW c \in Conns, ListenFails(s, c) PROVE RegistryInv'
    BY <1>5, <1>8 DEF ListenFails, CancelListeners, GiveBack
  <1>9. ASSUME NEW s \in Subs, Register(s) PROVE RegistryInv'
    BY <1>9 DEF Register, Watch
  <1>10. ASSUME NEW l \in Subs, NEW c \in Conns, Receive(l, c) PROVE RegistryInv'
    BY <1>10, RegistryFrame DEF Receive
  <1>11. ASSUME NEW l \in Subs, NEW h \in Subs, Skip(l, h) \/ Check(l, h) PROVE RegistryInv'
    BY <1>11, RegistryFrame DEF Skip, Check, Rest, ContinueAfter
  <1>12. ASSUME NEW l \in Subs, Start(l) \/ DispatchEnd(l) PROVE RegistryInv'
    BY <1>12, RegistryFrame DEF Start, DispatchEnd
  <1>13. ASSUME NEW l \in Subs, NEW c \in Conns, ListenExit(l, c) PROVE RegistryInv'
    BY <1>13, RegistryFrame DEF ListenExit, CancelListeners, GiveBack
  <1>14. ASSUME NEW s \in Subs, RemoveNothing(s) PROVE RegistryInv'
    BY <1>14 DEF RemoveNothing
  <1>15. ASSUME NEW s \in Subs, RemoveHandler(s) PROVE RegistryInv'
    <2> DEFINE l == listeners[SubTopic[s]]
    <2> USE <1>15 DEF RemoveHandler, CancelHandlers, CancelListeners, NoneLeft
    <2>1. l \in Subs /\ SubTopic[l] = SubTopic[s] /\ spc[l] = "ok"
      OBVIOUS
    <2>2. \A m \in Subs : handlers'[m] = IF m = l THEN handlers[l] \ {s} ELSE handlers[m]
      BY <2>1
    <2>3. LockInv' /\ GoroutineInv' /\ HandlersInv' /\ StoppedInv' /\ ListenersInv'
      BY <2>1, <2>2
    <2>4. RegisteredAreWatched'
      <3>1. ASSUME NEW t \in Topics, listeners'[t] # None
            PROVE  /\ listeners'[t] = listeners[t]
                   /\ handlers'[listeners[t]] # {}
                   /\ s \notin handlers'[listeners[t]]
        BY <2>1, <2>2, <3>1
      <3> QED BY <2>1, <2>2, <3>1
    <2>5. ActiveIsRegistered'
      BY <2>1, <2>2
    <2>6. NoOrphanListener'
      BY <2>1
    <2> QED BY <2>3, <2>4, <2>5, <2>6
  <1>16. CASE Close
    BY <1>16 DEF Close, CancelHandlers, CancelListeners, NoListeners
  <1>17. ASSUME NEW p \in Pubs,
                PublishClosed(p) \/ PublishTooLarge(p) \/ PublishBegin(p) \/ PublishNoConn(p)
         PROVE  RegistryInv'
    BY <1>17, RegistryFrame DEF PublishClosed, PublishTooLarge, PublishBegin, PublishNoConn
  <1>18. ASSUME NEW p \in Pubs, NEW c \in Conns,
                \/ PublishAcquire(p, c) \/ PublishNotify(p, c)
                \/ PublishRefused(p, c) \/ PublishLost(p, c)
         PROVE  RegistryInv'
    BY <1>18, RegistryFrame DEF PublishAcquire, PublishNotify, PublishRefused, PublishLost
  <1>19. ASSUME NEW s \in Subs, UserCancel(s) PROVE RegistryInv'
    BY <1>19, RegistryFrame DEF UserCancel
  <1>20. ASSUME NEW c \in Conns, Break(c) PROVE RegistryInv'
    BY <1>20, RegistryFrame DEF Break
  <1> QED
    BY NextCases, <1>0, <1>1, <1>2, <1>3, <1>4, <1>6, <1>7, <1>8, <1>9, <1>10,
       <1>11, <1>12, <1>13, <1>14, <1>15, <1>16, <1>17, <1>18, <1>19, <1>20

-----------------------------------------------------------------------------
\* A new broker holds no connection.
LEMMA ConnInit == Init => ConnAccounting
  BY BrokerAssumption DEF Init, ConnAccounting, Holders, Running

\* A step that moves no connection and leaves the holders as they are.
LEMMA ConnFrame ==
  ASSUME ConnAccounting, UNCHANGED owner, Holders' = Holders
  PROVE  ConnAccounting'
  BY DEF ConnAccounting

\* A call becomes the holder of a free connection.
LEMMA ConnAcquire ==
  ASSUME TypeOK, ConnAccounting, NEW c \in Conns, owner[c] = None,
         NEW h \in Subs \cup Pubs, h \notin Holders,
         Holders' = Holders \cup {h}, owner' = [owner EXCEPT ![c] = h]
  PROVE  ConnAccounting'
  BY BrokerAssumption DEF ConnAccounting, TypeOK, Holders

\* A holder gives its connection back and is done.
LEMMA ConnRelease ==
  ASSUME TypeOK, ConnAccounting, NEW c \in Conns, NEW h \in Subs \cup Pubs, owner[c] = h,
         Holders' = Holders \ {h}, owner' = [owner EXCEPT ![c] = None]
  PROVE  ConnAccounting'
  BY BrokerAssumption DEF ConnAccounting, TypeOK, Holders

\* Every step keeps owners and holders in step: each Acquire makes a holder, each
\* Release ends one, and nothing else touches either.
LEMMA ConnStep == TypeOK /\ RegistryInv /\ ConnAccounting /\ [Next]_vars => ConnAccounting'
  <1> SUFFICES ASSUME TypeOK, RegistryInv, ConnAccounting, [Next]_vars PROVE ConnAccounting'
    OBVIOUS
  <1> USE BrokerAssumption
      DEF registry, contexts, calls, loop, net, TypeOK, Holders, Running, Release, Free
  <1>0. CASE UNCHANGED vars
    BY <1>0, ConnFrame DEF vars
  <1>1. ASSUME NEW s \in Subs,
               \/ SubscribeClosed(s) \/ SubscribeJoin(s) \/ SubscribeCreate(s)
               \/ SubscribeNoConn(s) \/ Register(s) \/ UserCancel(s)
               \/ RemoveNothing(s) \/ RemoveHandler(s)
        PROVE  ConnAccounting'
    <2>1. owner' = owner /\ lpc' = lpc /\ ppc' = ppc
      BY <1>1 DEF SubscribeClosed, SubscribeJoin, SubscribeCreate, SubscribeNoConn,
                  Register, UserCancel, RemoveNothing, RemoveHandler
    <2>2. \A h \in Subs : spc[h] = "listen" <=> spc'[h] = "listen"
      BY <1>1 DEF SubscribeClosed, SubscribeJoin, SubscribeCreate, SubscribeNoConn,
                  SubscribeAbort, Register, UserCancel, RemoveNothing, RemoveHandler
    <2> QED BY <2>1, <2>2, ConnFrame
  <1>2. ASSUME NEW s \in Subs, NEW c \in Conns, SubscribeAcquire(s, c)
        PROVE  ConnAccounting'
    <2>1. lpc[s] = "none"
      BY <1>2 DEF SubscribeAcquire, RegistryInv, GoroutineInv
    <2>2. s \notin Holders /\ Holders' = Holders \cup {s}
      BY <1>2, <2>1 DEF SubscribeAcquire
    <2> QED BY <1>2, <2>2, ConnAcquire DEF SubscribeAcquire
  <1>3. ASSUME NEW s \in Subs, NEW c \in Conns, ListenOk(s, c) PROVE ConnAccounting'
    <2>1. Holders' = Holders
      BY <1>3 DEF ListenOk
    <2> QED BY <1>3, <2>1, ConnFrame DEF ListenOk
  <1>4. ASSUME NEW s \in Subs, NEW c \in Conns, ListenFails(s, c) PROVE ConnAccounting'
    <2>1. lpc[s] = "none"
      BY <1>4 DEF ListenFails, RegistryInv, GoroutineInv, GiveBack
    <2>2. Holders' = Holders \ {s}
      BY <1>4, <2>1 DEF ListenFails, SubscribeAbort, GiveBack
    <2> QED BY <1>4, <2>2, ConnRelease DEF ListenFails, GiveBack
  <1>5. ASSUME NEW l \in Subs, NEW h \in Subs,
               Skip(l, h) \/ Check(l, h) \/ Start(l) \/ DispatchEnd(l)
        PROVE  ConnAccounting'
    <2>1. owner' = owner /\ Holders' = Holders
      BY <1>5 DEF Skip, Check, Start, DispatchEnd, Rest, ContinueAfter
    <2> QED BY <2>1, ConnFrame
  <1>12. ASSUME NEW l \in Subs, NEW c \in Conns, Receive(l, c) PROVE ConnAccounting'
    <2>1. owner' = owner /\ Holders' = Holders
      BY <1>12 DEF Receive
    <2> QED BY <2>1, ConnFrame
  <1>6. ASSUME NEW l \in Subs, NEW c \in Conns, ListenExit(l, c) PROVE ConnAccounting'
    <2>1. spc[l] # "listen"
      BY <1>6 DEF ListenExit, RegistryInv, GoroutineInv, GiveBack
    <2>2. Holders' = Holders \ {l}
      BY <1>6, <2>1 DEF ListenExit, GiveBack
    <2> QED BY <1>6, <2>2, ConnRelease DEF ListenExit, GiveBack
  <1>7. ASSUME NEW c \in Conns, Break(c) PROVE ConnAccounting'
    BY <1>7, ConnFrame DEF Break
  <1>8. CASE Close
    BY <1>8, ConnFrame DEF Close
  <1>9. ASSUME NEW p \in Pubs,
               PublishClosed(p) \/ PublishTooLarge(p) \/ PublishBegin(p) \/ PublishNoConn(p)
        PROVE  ConnAccounting'
    <2>1. owner' = owner /\ Holders' = Holders
      BY <1>9 DEF PublishClosed, PublishTooLarge, PublishBegin, PublishNoConn
    <2> QED BY <2>1, ConnFrame
  <1>10. ASSUME NEW p \in Pubs, NEW c \in Conns, PublishAcquire(p, c) PROVE ConnAccounting'
    <2>1. p \notin Holders /\ Holders' = Holders \cup {p}
      BY <1>10 DEF PublishAcquire
    <2> QED BY <1>10, <2>1, ConnAcquire DEF PublishAcquire
  <1>11. ASSUME NEW p \in Pubs, NEW c \in Conns,
                PublishNotify(p, c) \/ PublishRefused(p, c) \/ PublishLost(p, c)
         PROVE  ConnAccounting'
    <2>1. owner[c] = p /\ owner' = [owner EXCEPT ![c] = None]
      BY <1>11 DEF PublishNotify, PublishRefused, PublishLost
    <2>2. Holders' = Holders \ {p}
      BY <1>11 DEF PublishNotify, PublishRefused, PublishLost
    <2> QED BY <2>1, <2>2, ConnRelease
  <1> QED
    BY NextCases, <1>0, <1>1, <1>2, <1>3, <1>4, <1>5, <1>6, <1>7, <1>8, <1>9, <1>10, <1>11, <1>12

-----------------------------------------------------------------------------
\* Nothing was sent or delivered.
LEMMA DeliveryInit == Init => DeliveryInv
  BY BrokerAssumption
  DEF Init, DeliveryInv, HostInv, LoopInv, SentInv, SeenInv, TakenInv, AtMostOnce, Host

\* A step that takes nothing out of a buffer, adds nothing to one, and gives no
\* handler to a listener and no connection to a running one.
LEMMA DeliveryFrame ==
  ASSUME TypeOK, DeliveryInv,
         UNCHANGED <<lmsg, snap, cur, got, lpc>>,
         \A l \in Subs : handlers'[l] \subseteq handlers[l],
         \A s \in Subs : spc[s] = "ok" <=> spc'[s] = "ok",
         \A p \in Pubs : ppc'[p] \notin {"ok", "error"} => ppc[p] \notin {"ok", "error"},
         \A c \in Conns : inbox'[c] \subseteq inbox[c],
         \A c \in Conns : owner'[c] \in Subs =>
           \/ owner'[c] = owner[c]
           \/ spc[owner'[c]] # "ok" /\ lmsg[owner'[c]] = None
  PROVE  DeliveryInv'
  <1> USE DEF DeliveryInv
  <1>1. \A l \in Subs : Host(l)' \subseteq Host(l)
    BY DEF Host
  <1>2. HostInv'
    BY <1>1 DEF HostInv
  <1>3. LoopInv' /\ AtMostOnce'
    BY DEF LoopInv, AtMostOnce
  <1>4. SentInv'
    BY DEF SentInv, TypeOK
  <1>5. TakenInv'
    BY BrokerAssumption DEF TakenInv, TypeOK
  <1>6. SeenInv'
    BY <1>1 DEF SeenInv, HostInv, TypeOK
  <1> QED BY <1>2, <1>3, <1>4, <1>5, <1>6

\* A call that returns nil enters a listener's handlers.
LEMMA DeliveryJoin ==
  ASSUME TypeOK, DeliveryInv, NEW s \in Subs, NEW l \in Subs,
         UNCHANGED <<loop, ppc, owner, inbox>>,
         spc[s] # "ok", spc' = [spc EXCEPT ![s] = "ok"], l = s \/ spc[l] = "ok",
         handlers' = [handlers EXCEPT ![l] = @ \cup {s}]
  PROVE  DeliveryInv'
  <1> USE DEF DeliveryInv, loop, TypeOK
  <1>1. \A m, h \in Subs : h \in Host(m)' <=> h \in Host(m) \/ (h = s /\ m = l)
    BY BrokerAssumption DEF Host
  <1>2. \A m \in Subs : s \notin Host(m)
    BY DEF HostInv
  <1>3. HostInv'
    <2>1. ASSUME NEW m \in Subs, NEW h \in Subs, h \in Host(m)'
          PROVE  spc'[h] = "ok" /\ spc'[m] = "ok"
      BY <1>1, <2>1 DEF HostInv
    <2>2. ASSUME NEW m \in Subs, NEW n \in Subs, NEW h \in Subs,
                 h \in Host(m)', h \in Host(n)'
          PROVE  m = n
      <3>1. CASE h = s
        <4>1. \A k \in Subs : s \in Host(k)' => k = l
          BY <1>1, <1>2
        <4> QED BY <2>2, <3>1, <4>1
      <3>2. CASE h # s
        <4>1. h \in Host(m) /\ h \in Host(n)
          BY <1>1, <2>2, <3>2
        <4> QED BY <4>1 DEF HostInv
      <3> QED BY <3>1, <3>2
    <2> QED BY <2>1, <2>2 DEF HostInv
  <1>4. LoopInv' /\ AtMostOnce' /\ TakenInv'
    BY DEF LoopInv, AtMostOnce, TakenInv
  <1>5. SentInv'
    BY DEF SentInv
  <1>6. SeenInv'
    BY <1>1, <1>2 DEF SeenInv, SentInv
  <1> QED BY <1>3, <1>4, <1>5, <1>6

\* A round of the dispatch loop: fewer handlers wait, and no other variable of
\* delivery changes.
LEMMA DeliverySkip ==
  ASSUME TypeOK, DeliveryInv, NEW l \in Subs, NEW h \in Subs,
         Skip(l, h) \/ Check(l, h)
  PROVE  DeliveryInv'
  <1> USE BrokerAssumption DEF DeliveryInv, TypeOK, registry, contexts, calls, net
  <1>1. UNCHANGED <<lmsg, got, handlers, owner, inbox, spc, ppc>>
    BY DEF Skip, Check, Rest, ContinueAfter
  <1>2. \A m, s \in Subs : s \in Host(m)' => s \in Host(m)
    <2>1. CASE Skip(l, h)
      BY <2>1 DEF Skip, Host, Rest, ContinueAfter
    <2>2. CASE Check(l, h)
      BY <2>2 DEF Check, Host, Rest, ContinueAfter
    <2> QED BY <2>1, <2>2
  <1>3. HostInv'
    BY <1>1, <1>2 DEF HostInv
  <1>4. LoopInv'
    BY DEF LoopInv, Skip, Check, Rest, ContinueAfter
  <1>5. SentInv' /\ TakenInv' /\ AtMostOnce'
    BY <1>1 DEF SentInv, TakenInv, AtMostOnce
  <1>6. SeenInv'
    <2>1. ASSUME NEW m \in Subs, NEW s \in Subs, NEW p \in Pubs,
                 s \in Host(m), got[s][p] # 0, lmsg[m] = p
          PROVE  s \notin snap'[m] /\ cur'[m] # s
      <3>1. s \notin snap[m] /\ cur[m] # s
        BY <2>1 DEF SeenInv
      <3>2. CASE Skip(l, h)
        BY <3>1, <3>2 DEF Skip, Rest, ContinueAfter
      <3>3. CASE Check(l, h)
        BY <3>1, <3>3 DEF Check, Rest, ContinueAfter
      <3> QED BY <3>2, <3>3
    <2> QED BY <1>1, <1>2, <2>1 DEF SeenInv
  <1> QED BY <1>3, <1>4, <1>5, <1>6

\* The handler that passed the check is started, for the first time with this
\* payload.
LEMMA DeliveryStart ==
  ASSUME TypeOK, DeliveryInv, NEW l \in Subs, Start(l)
  PROVE  DeliveryInv'
  <1> USE BrokerAssumption DEF DeliveryInv, TypeOK, registry, contexts, calls, net
  <1>1. PICK h \in Subs, p \in Pubs : h = cur[l] /\ p = lmsg[l]
    BY DEF Start, LoopInv
  <1>2. UNCHANGED <<lmsg, snap, handlers, owner, inbox, spc, ppc>>
    BY DEF Start
  <1>3. \A s \in Subs, q \in Pubs :
          got'[s][q] = IF s = h /\ q = p THEN got[s][q] + 1 ELSE got[s][q]
    BY <1>1 DEF Start
  <1>4. h \in Host(l) /\ h \notin snap[l]
    BY <1>1 DEF Host, LoopInv
  <1>5. got[h][p] = 0
    BY <1>1, <1>4 DEF SeenInv
  <1>6. \A m, s \in Subs : s \in Host(m)' => s \in Host(m)
    BY <1>2 DEF Start, Host
  <1>7. HostInv'
    BY <1>2, <1>6 DEF HostInv
  <1>8. LoopInv'
    BY DEF Start, LoopInv
  <1>9. SentInv'
    <2>1. spc[h] = "ok" /\ ppc[p] \in {"ok", "error"}
      BY <1>1, <1>4 DEF HostInv, SentInv
    <2>2. ASSUME NEW s \in Subs, NEW q \in Pubs,
                 ppc[q] \notin {"ok", "error"} \/ spc[s] # "ok"
          PROVE  got'[s][q] = 0
      <3>1. got[s][q] = 0
        BY <2>2 DEF SentInv
      <3>2. ~(s = h /\ q = p)
        BY <2>1, <2>2
      <3> QED BY <1>3, <3>1, <3>2
    <2> QED BY <1>2, <2>2 DEF SentInv
  <1>10. TakenInv'
    BY <1>2 DEF TakenInv
  <1>11. AtMostOnce'
    <2>1. ASSUME NEW s \in Subs, NEW q \in Pubs PROVE got'[s][q] <= 1
      <3>1. got[s][q] <= 1
        BY DEF AtMostOnce
      <3> QED BY <1>3, <1>5, <3>1
    <2> QED BY <2>1 DEF AtMostOnce
  <1>12. SeenInv'
    <2>1. ASSUME NEW m \in Subs, NEW s \in Subs, NEW q \in Pubs,
                 s \in Host(m)', got'[s][q] # 0
          PROVE  /\ lmsg'[m] = q => s \notin snap'[m] /\ cur'[m] # s
                 /\ \A c \in Conns : owner'[c] = m => q \notin inbox'[c]
      <3>1. CASE s = h /\ q = p
        <4>1. m = l
          BY <1>4, <1>6, <2>1, <3>1 DEF HostInv
        <4>2. cur'[l] = None
          BY DEF Start
        <4>3. \A c \in Conns : owner[c] = l => p \notin inbox[c]
          BY <1>1 DEF TakenInv
        <4> QED BY <1>2, <1>4, <3>1, <4>1, <4>2, <4>3
      <3>2. CASE ~(s = h /\ q = p)
        <4>1. got[s][q] # 0 /\ s \in Host(m)
          BY <1>3, <1>6, <2>1, <3>2
        <4>2. /\ lmsg[m] = q => s \notin snap[m] /\ cur[m] # s
              /\ \A c \in Conns : owner[c] = m => q \notin inbox[c]
          BY <4>1 DEF SeenInv
        <4>3. cur'[m] = cur[m] \/ cur'[m] = None
          BY DEF Start
        <4> QED BY <1>2, <4>2, <4>3
      <3> QED BY <3>1, <3>2
    <2> QED BY <2>1 DEF SeenInv
  <1> QED BY <1>7, <1>8, <1>9, <1>10, <1>11, <1>12

\* A payload leaves the buffer of the listener's connection: no handler of the
\* listener was given it before.
LEMMA DeliveryReceive ==
  ASSUME TypeOK, ConnAccounting, DeliveryInv, NEW l \in Subs, NEW c \in Conns, Receive(l, c)
  PROVE  DeliveryInv'
  <1> USE BrokerAssumption DEF DeliveryInv, TypeOK, registry, contexts, calls
  <1>1. PICK p \in Pubs : /\ p \in inbox[c]
                          /\ inbox' = [inbox EXCEPT ![c] = @ \ {p}]
                          /\ lmsg' = [lmsg EXCEPT ![l] = p]
    BY DEF Receive, Take
  <1>2. /\ UNCHANGED <<handlers, owner, spc, ppc, got, cur>>
        /\ snap' = [snap EXCEPT ![l] = handlers[l]]
        /\ lpc[l] = "wait" /\ lpc' = [lpc EXCEPT ![l] = "dispatch"]
        /\ owner[c] = l
    BY DEF Receive, CopyHandlers
  <1>3. cur[l] = None /\ lmsg[l] = None
    BY <1>2 DEF LoopInv
  <1>4. \A m, s \in Subs : s \in Host(m)' => s \in Host(m)
    BY <1>2 DEF Host
  <1>5. HostInv'
    BY <1>2, <1>4 DEF HostInv
  <1>6. LoopInv'
    BY <1>1, <1>2, <1>3 DEF LoopInv
  <1>7. SentInv'
    BY <1>1, <1>2 DEF SentInv
  <1>8. \A d \in Conns : owner[d] = l => d = c
    BY <1>2 DEF ConnAccounting
  <1>9. TakenInv'
    BY <1>1, <1>2, <1>8 DEF TakenInv
  <1>10. AtMostOnce'
    BY <1>2 DEF AtMostOnce
  <1>11. SeenInv'
    <2>1. ASSUME NEW m \in Subs, NEW s \in Subs, NEW q \in Pubs,
                 s \in Host(m)', got'[s][q] # 0
          PROVE  /\ lmsg'[m] = q => s \notin snap'[m] /\ cur'[m] # s
                 /\ \A d \in Conns : owner'[d] = m => q \notin inbox'[d]
      <3>1. s \in Host(m) /\ got[s][q] # 0
        BY <1>2, <1>4, <2>1
      <3>2. /\ lmsg[m] = q => s \notin snap[m] /\ cur[m] # s
            /\ \A d \in Conns : owner[d] = m => q \notin inbox[d]
        BY <3>1 DEF SeenInv
      <3>3. m = l => q # p
        BY <1>1, <1>2, <3>2
      <3> QED BY <1>1, <1>2, <3>2, <3>3
    <2> QED BY <2>1 DEF SeenInv
  <1> QED BY <1>5, <1>6, <1>7, <1>9, <1>10, <1>11

\* The loop goes back to waiting.
LEMMA DeliveryEnd ==
  ASSUME TypeOK, DeliveryInv, NEW l \in Subs, DispatchEnd(l)
  PROVE  DeliveryInv'
  <1> USE BrokerAssumption DEF DeliveryInv, TypeOK, registry, contexts, calls, net
  <1>1. \A m, s \in Subs : s \in Host(m)' <=> s \in Host(m)
    BY DEF DispatchEnd, Host
  <1>2. HostInv' /\ LoopInv'
    BY <1>1 DEF HostInv, LoopInv, DispatchEnd
  <1>3. SentInv' /\ TakenInv' /\ AtMostOnce'
    BY DEF SentInv, TakenInv, AtMostOnce, DispatchEnd
  <1>4. SeenInv'
    BY <1>1 DEF SeenInv, DispatchEnd
  <1> QED BY <1>2, <1>3, <1>4

\* LISTEN succeeds or the goroutine ends: the loop's program counter moves
\* between values that mean nothing to delivery.
LEMMA DeliveryLoop ==
  ASSUME TypeOK, DeliveryInv, NEW l \in Subs, lpc[l] \in {"none", "wait"},
         NEW v \in {"wait", "exited"}, lpc' = [lpc EXCEPT ![l] = v],
         UNCHANGED <<lmsg, snap, cur, got, handlers, ppc>>,
         \A s \in Subs : spc[s] = "ok" <=> spc'[s] = "ok",
         \A d \in Conns : inbox'[d] \subseteq inbox[d],
         \A d \in Conns : owner'[d] \in Subs => owner'[d] = owner[d]
  PROVE  DeliveryInv'
  <1> USE DEF DeliveryInv, TypeOK
  <1>1. \A m \in Subs : Host(m)' = Host(m)
    BY DEF Host
  <1>2. HostInv' /\ LoopInv'
    BY <1>1 DEF HostInv, LoopInv
  <1>3. SentInv' /\ TakenInv' /\ AtMostOnce'
    BY DEF SentInv, TakenInv, AtMostOnce
  <1>4. SeenInv'
    BY <1>1 DEF SeenInv
  <1> QED BY <1>2, <1>3, <1>4

\* NOTIFY puts a payload into buffers for the first time.
LEMMA DeliverySend ==
  ASSUME TypeOK, DeliveryInv, NEW p \in Pubs, ppc[p] = "exec",
         ppc' \in {[ppc EXCEPT ![p] = "ok"], [ppc EXCEPT ![p] = "error"]},
         UNCHANGED <<loop, handlers, spc>>,
         \A d \in Conns : inbox'[d] \subseteq inbox[d] \cup {p},
         \A d \in Conns : owner'[d] \in Subs => owner'[d] = owner[d]
  PROVE  DeliveryInv'
  <1> USE DEF DeliveryInv, TypeOK, loop
  <1>1. \A l \in Subs : Host(l)' = Host(l)
    BY DEF Host
  <1>2. HostInv' /\ LoopInv' /\ AtMostOnce'
    BY <1>1 DEF HostInv, LoopInv, AtMostOnce
  <1>3. /\ \A l \in Subs : lmsg[l] # p
        /\ \A s \in Subs : got[s][p] = 0
    BY DEF SentInv
  <1>4. \A q \in Pubs : ppc'[q] \notin {"ok", "error"} => q # p /\ ppc[q] \notin {"ok", "error"}
    OBVIOUS
  <1>5. SentInv'
    BY <1>4 DEF SentInv
  <1>6. TakenInv'
    BY <1>3, BrokerAssumption DEF TakenInv
  <1>7. SeenInv'
    <2>1. ASSUME NEW l \in Subs, NEW s \in Subs, NEW q \in Pubs,
                 s \in Host(l), got[s][q] # 0, NEW d \in Conns, owner'[d] = l
          PROVE  q \notin inbox'[d]
      <3>1. q # p
        BY <1>3, <2>1
      <3>2. q \notin inbox[d]
        BY <2>1 DEF SeenInv
      <3> QED BY <3>1, <3>2
    <2>2. ASSUME NEW l \in Subs, NEW s \in Subs, NEW q \in Pubs,
                 s \in Host(l), got[s][q] # 0, lmsg[l] = q
          PROVE  s \notin snap[l] /\ cur[l] # s
      BY <2>2 DEF SeenInv
    <2> QED BY <1>1, <2>1, <2>2 DEF SeenInv
  <1> QED BY <1>2, <1>5, <1>6, <1>7

\* The connection is free again; no buffer gains by its release.
LEMMA ReleaseEffect ==
  ASSUME TypeOK, NEW c \in Conns, NEW ib \in [Conns -> SUBSET Pubs], Release(c, ib)
  PROVE  /\ \A d \in Conns : owner'[d] \in Subs => owner'[d] = owner[d]
         /\ \A d \in Conns : inbox'[d] \subseteq ib[d]
  <1>1. \A d \in Conns : owner'[d] \in Subs => owner'[d] = owner[d]
    BY BrokerAssumption DEF Release, TypeOK
  <1>2. CASE c \in broken
    BY <1>1, <1>2 DEF Release
  <1>3. CASE c \notin broken
    BY <1>1, <1>3 DEF Release
  <1> QED BY <1>2, <1>3

\* Every step keeps the delivery invariant; the step of a listen goroutine, of a
\* Subscribe that returns and of a NOTIFY are the ones that matter.
LEMMA DeliveryStep ==
  TypeOK /\ RegistryInv /\ ConnAccounting /\ DeliveryInv /\ [Next]_vars => DeliveryInv'
  <1> SUFFICES ASSUME TypeOK, RegistryInv, ConnAccounting, DeliveryInv, [Next]_vars
               PROVE  DeliveryInv'
    OBVIOUS
  <1> USE BrokerAssumption DEF registry, contexts, calls, loop, net
  <1>0. CASE UNCHANGED vars
    BY <1>0, DeliveryFrame DEF vars
  <1>1. ASSUME NEW s \in Subs,
               \/ SubscribeClosed(s) \/ SubscribeCreate(s) \/ SubscribeNoConn(s)
               \/ RemoveNothing(s) \/ RemoveHandler(s) \/ UserCancel(s)
        PROVE  DeliveryInv'
    <2>1. UNCHANGED <<loop, net, ppc>>
      BY <1>1 DEF SubscribeClosed, SubscribeCreate, SubscribeNoConn,
                  RemoveNothing, RemoveHandler, UserCancel
    <2>2. \A h \in Subs : spc[h] = "ok" <=> spc'[h] = "ok"
      BY <1>1 DEF SubscribeClosed, SubscribeCreate, SubscribeNoConn, SubscribeAbort,
                  RemoveNothing, RemoveHandler, UserCancel, TypeOK
    <2>3. \A l \in Subs : handlers'[l] \subseteq handlers[l]
      BY <1>1 DEF SubscribeClosed, SubscribeCreate, SubscribeNoConn,
                  RemoveNothing, RemoveHandler, UserCancel, TypeOK
    <2> QED BY <2>1, <2>2, <2>3, DeliveryFrame
  <1>2. ASSUME NEW s \in Subs, SubscribeJoin(s) PROVE DeliveryInv'
    <2>1. listeners[SubTopic[s]] \in Subs /\ spc[listeners[SubTopic[s]]] = "ok"
      BY <1>2 DEF SubscribeJoin, TypeOK, RegistryInv, ListenersInv
    <2> QED BY <1>2, <2>1, DeliveryJoin DEF SubscribeJoin
  <1>3. ASSUME NEW s \in Subs, NEW c \in Conns, SubscribeAcquire(s, c) PROVE DeliveryInv'
    <2>1. lmsg[s] = None
      BY <1>3 DEF SubscribeAcquire, RegistryInv, GoroutineInv, DeliveryInv, LoopInv
    <2>2. \A h \in Subs : spc[h] = "ok" <=> spc'[h] = "ok"
      BY <1>3 DEF SubscribeAcquire, TypeOK
    <2>3. \A d \in Conns : owner'[d] = owner[d] \/ owner'[d] = s
      BY <1>3 DEF SubscribeAcquire, TypeOK
    <2> QED BY <1>3, <2>1, <2>2, <2>3, DeliveryFrame DEF SubscribeAcquire
  <1>4. ASSUME NEW s \in Subs, NEW c \in Conns, ListenOk(s, c) PROVE DeliveryInv'
    <2>1. lpc[s] = "none"
      BY <1>4 DEF ListenOk, RegistryInv, GoroutineInv
    <2> QED BY <1>4, <2>1, DeliveryLoop DEF ListenOk, TypeOK
  <1>5. ASSUME NEW s \in Subs, NEW c \in Conns, ListenFails(s, c) PROVE DeliveryInv'
    <2>1. /\ \A d \in Conns : owner'[d] \in Subs => owner'[d] = owner[d]
          /\ \A d \in Conns : inbox'[d] \subseteq inbox[d]
      BY <1>5, ReleaseEffect DEF ListenFails, TypeOK, GiveBack
    <2>3. \A h \in Subs : spc[h] = "ok" <=> spc'[h] = "ok"
      BY <1>5 DEF ListenFails, SubscribeAbort, TypeOK, GiveBack
    <2> QED BY <1>5, <2>1, <2>3, DeliveryFrame DEF ListenFails, GiveBack
  <1>6. ASSUME NEW s \in Subs, Register(s) PROVE DeliveryInv'
    BY <1>6, DeliveryJoin DEF Register
  <1>7. ASSUME NEW l \in Subs, NEW c \in Conns, Receive(l, c) PROVE DeliveryInv'
    BY <1>7, DeliveryReceive
  <1>8. ASSUME NEW l \in Subs, NEW h \in Subs, Skip(l, h) \/ Check(l, h) PROVE DeliveryInv'
    BY <1>8, DeliverySkip
  <1>9. ASSUME NEW l \in Subs, Start(l) \/ DispatchEnd(l) PROVE DeliveryInv'
    BY <1>9, DeliveryStart, DeliveryEnd
  <1>10. ASSUME NEW l \in Subs, NEW c \in Conns, ListenExit(l, c) PROVE DeliveryInv'
    <2>1. /\ \A d \in Conns : owner'[d] \in Subs => owner'[d] = owner[d]
          /\ \A d \in Conns : inbox'[d] \subseteq inbox[d]
      BY <1>10, ReleaseEffect DEF ListenExit, TypeOK, GiveBack
    <2> QED BY <1>10, <2>1, DeliveryLoop DEF ListenExit, GiveBack
  <1>11. CASE Close
    BY <1>11, DeliveryFrame DEF Close
  <1>12. ASSUME NEW p \in Pubs,
                PublishClosed(p) \/ PublishTooLarge(p) \/ PublishBegin(p) \/ PublishNoConn(p)
         PROVE  DeliveryInv'
    <2>1. UNCHANGED <<registry, loop, net, spc>>
      BY <1>12 DEF PublishClosed, PublishTooLarge, PublishBegin, PublishNoConn
    <2>2. \A q \in Pubs : ppc'[q] \notin {"ok", "error"} => ppc[q] \notin {"ok", "error"}
      BY <1>12 DEF PublishClosed, PublishTooLarge, PublishBegin, PublishNoConn, TypeOK
    <2> QED BY <2>1, <2>2, DeliveryFrame
  <1>13. ASSUME NEW p \in Pubs, NEW c \in Conns, PublishAcquire(p, c) PROVE DeliveryInv'
    <2>1. \A d \in Conns : owner'[d] \in Subs => owner'[d] = owner[d]
      BY <1>13 DEF PublishAcquire, TypeOK
    <2>2. \A q \in Pubs : ppc'[q] \notin {"ok", "error"} => ppc[q] \notin {"ok", "error"}
      BY <1>13 DEF PublishAcquire, TypeOK
    <2> QED BY <1>13, <2>1, <2>2, DeliveryFrame DEF PublishAcquire
  <1>14. ASSUME NEW p \in Pubs, NEW c \in Conns,
                PublishNotify(p, c) \/ PublishRefused(p, c) \/ PublishLost(p, c)
         PROVE  DeliveryInv'
    <2>1. PICK ib \in [Conns -> SUBSET Pubs] :
            Release(c, ib) /\ \A d \in Conns : ib[d] \subseteq inbox[d] \cup {p}
      <3>1. inbox \in [Conns -> SUBSET Pubs]
        BY DEF TypeOK
      <3>2. CASE PublishNotify(p, c)
        <4> DEFINE ib == [d \in Conns |-> IF d \in Notified(p) THEN inbox[d] \cup {p}
                                                               ELSE inbox[d]]
        <4>1. ib \in [Conns -> SUBSET Pubs] /\ \A d \in Conns : ib[d] \subseteq inbox[d] \cup {p}
          BY <3>1
        <4>2. Release(c, ib)
          BY <3>2 DEF PublishNotify
        <4> HIDE DEF ib
        <4> QED BY <4>1, <4>2
      <3>3. CASE PublishRefused(p, c)
        BY <3>1, <3>3 DEF PublishRefused
      <3>4. CASE PublishLost(p, c)
        <4>1. PICK reached \in SUBSET Conns :
                Release(c, [d \in Conns |-> IF d \in reached THEN inbox[d] \cup {p}
                                                             ELSE inbox[d]])
          BY <3>4 DEF PublishLost
        <4> DEFINE ib == [d \in Conns |-> IF d \in reached THEN inbox[d] \cup {p}
                                                            ELSE inbox[d]]
        <4>2. ib \in [Conns -> SUBSET Pubs] /\ \A d \in Conns : ib[d] \subseteq inbox[d] \cup {p}
          BY <3>1
        <4>3. Release(c, ib)
          BY <4>1
        <4> HIDE DEF ib
        <4> QED BY <4>2, <4>3
      <3> QED BY <1>14, <3>2, <3>3, <3>4
    <2>2. /\ \A d \in Conns : owner'[d] \in Subs => owner'[d] = owner[d]
          /\ \A d \in Conns : inbox'[d] \subseteq inbox[d] \cup {p}
      BY <2>1, ReleaseEffect
    <2> QED BY <1>14, <2>2, DeliverySend DEF PublishNotify, PublishRefused, PublishLost
  <1>15. ASSUME NEW c \in Conns, Break(c) PROVE DeliveryInv'
    <2>1. \A d \in Conns : inbox'[d] \subseteq inbox[d]
      BY <1>15 DEF Break, TypeOK
    <2> QED BY <1>15, <2>1, DeliveryFrame DEF Break
  <1> QED
    BY NextCases, <1>0, <1>1, <1>2, <1>3, <1>4, <1>5, <1>6, <1>7, <1>8, <1>9, <1>10,
       <1>11, <1>12, <1>13, <1>14, <1>15

-----------------------------------------------------------------------------
(***************************************************************************)
(* The theorems.                                                           *)
(***************************************************************************)

\* The inductive invariant holds in every reachable state.
THEOREM Inductive == Spec => []IInv
  <1>1. Init => IInv
    BY TypeInit, RegistryInit, ConnInit, DeliveryInit DEF IInv
  <1>2. IInv /\ [Next]_vars => IInv'
    BY TypeStep, RegistryStep, ConnStep, DeliveryStep DEF IInv
  <1> QED BY <1>1, <1>2, PTL DEF Spec

\* Whatever fails, a connection is out of the pool exactly while one call or
\* goroutine holds it (createTopicListener, listen, Publish).
THEOREM ConnectionsAccounted == Spec => []ConnAccounting
  <1>1. IInv => ConnAccounting
    BY DEF IInv
  <1> QED BY <1>1, Inductive, PTL

\* A topic never has two listeners, and no listen goroutine is forgotten.
THEOREM NoListenerOrphaned == Spec => []NoOrphanListener
  <1>1. IInv => NoOrphanListener
    BY DEF IInv, RegistryInv
  <1> QED BY <1>1, Inductive, PTL

\* A registered listener has handlers, each with a watcher (Subscribe and
\* removeHandler together).
THEOREM RegisteredWatched == Spec => []RegisteredAreWatched
  <1>1. IInv => RegisteredAreWatched
    BY DEF IInv, RegistryInv
  <1> QED BY <1>1, Inductive, PTL

\* A live subscription is registered where Close and removeHandler look for it.
THEOREM ActiveRegistered == Spec => []ActiveIsRegistered
  <1>1. IInv => ActiveIsRegistered
    BY DEF IInv, RegistryInv
  <1> QED BY <1>1, Inductive, PTL

\* Close stops every listener and every subscription, those being set up included.
THEOREM ClosedStopsAll == Spec => []CloseStopsAll
  <1>1. IInv => CloseStopsAll
    BY BrokerAssumption
    DEF IInv, TypeOK, RegistryInv, CloseStopsAll, LockInv, ListenersInv, NoOrphanListener,
        ActiveIsRegistered, Busy
  <1> QED BY <1>1, Inductive, PTL

\* A handler is started at most once for each Publish.
THEOREM DeliveredAtMostOnce == Spec => []AtMostOnce
  <1>1. IInv => AtMostOnce
    BY DEF IInv, DeliveryInv
  <1> QED BY <1>1, Inductive, PTL

\* After Close no handler passes the check of its context (listen).
THEOREM SilentAfterClose == Spec => NoDispatchAfterClose
  <1>1. IInv /\ CloseStopsAll /\ [Next]_vars =>
          [closed => \A l \in Subs : lpc[l] # "start" => lpc'[l] # "start"]_vars
    <2> SUFFICES ASSUME IInv, CloseStopsAll, Next, closed,
                        NEW l \in Subs, lpc[l] # "start", lpc'[l] = "start"
                 PROVE  FALSE
      BY DEF vars
    <2> USE DEF registry, contexts, calls, loop, net
    <2>1. PICK h \in Subs : Check(l, h)
      <3>1. ASSUME lpc' = lpc PROVE FALSE
        BY <3>1
      <3>2. ASSUME NEW m \in Subs, NEW v \in {"wait", "dispatch", "exited"},
                   lpc' = [lpc EXCEPT ![m] = v]
            PROVE  FALSE
        BY <3>2 DEF IInv, TypeOK
      <3>3. ASSUME NEW s \in Subs,
                   \/ SubscribeClosed(s) \/ SubscribeJoin(s) \/ SubscribeCreate(s)
                   \/ SubscribeNoConn(s) \/ Register(s)
                   \/ RemoveNothing(s) \/ RemoveHandler(s) \/ UserCancel(s)
            PROVE  FALSE
        BY <3>1, <3>3 DEF SubscribeClosed, SubscribeJoin, SubscribeCreate, SubscribeNoConn,
                          Register, RemoveNothing, RemoveHandler, UserCancel
      <3>4. ASSUME NEW s \in Subs, NEW c \in Conns,
                   SubscribeAcquire(s, c) \/ ListenFails(s, c)
            PROVE  FALSE
        BY <3>1, <3>4 DEF SubscribeAcquire, ListenFails, GiveBack
      <3>5. ASSUME NEW m \in Subs, NEW c \in Conns,
                   ListenOk(m, c) \/ Receive(m, c) \/ ListenExit(m, c)
            PROVE  FALSE
        BY <3>2, <3>5 DEF ListenOk, Receive, ListenExit, GiveBack
      <3>6. ASSUME NEW m \in Subs, Start(m) \/ DispatchEnd(m) PROVE FALSE
        BY <3>2, <3>6 DEF Start, DispatchEnd
      <3>7. ASSUME NEW m \in Subs, NEW h \in Subs, Skip(m, h) PROVE FALSE
        BY <3>1, <3>7 DEF Skip, Rest, ContinueAfter
      <3>8. ASSUME NEW m \in Subs, NEW h \in Subs, Check(m, h) PROVE m = l
        BY <3>8 DEF Check, IInv, TypeOK, Rest, ContinueAfter
      <3>9. ASSUME NEW p \in Pubs,
                   PublishClosed(p) \/ PublishTooLarge(p) \/ PublishBegin(p) \/ PublishNoConn(p)
            PROVE  FALSE
        BY <3>1, <3>9 DEF PublishClosed, PublishTooLarge, PublishBegin, PublishNoConn
      <3>10. ASSUME NEW p \in Pubs, NEW c \in Conns,
                    \/ PublishAcquire(p, c) \/ PublishNotify(p, c)
                    \/ PublishRefused(p, c) \/ PublishLost(p, c)
             PROVE  FALSE
        BY <3>1, <3>10 DEF PublishAcquire, PublishNotify, PublishRefused, PublishLost
      <3>11. ASSUME NEW c \in Conns, Break(c) PROVE FALSE
        BY <3>1, <3>11 DEF Break
      <3>12. ~Close
        BY DEF Close
      <3> QED BY NextCases, <3>3, <3>4, <3>5, <3>6, <3>7, <3>8, <3>9, <3>10, <3>11, <3>12
    <2>2. spc[h] = "ok"
      BY <2>1 DEF Check, IInv, DeliveryInv, HostInv, Host, Rest, ContinueAfter
    <2> QED BY <2>1, <2>2 DEF Check, CloseStopsAll, Rest, ContinueAfter
  <1> QED BY <1>1, Inductive, ClosedStopsAll, PTL DEF Spec, NoDispatchAfterClose

-----------------------------------------------------------------------------
(***************************************************************************)
(* Where no connection fails, a registered listener listens: what is told  *)
(* to stop is out of the registry by then, or never got in.                *)
(***************************************************************************)
ServedInv ==
  /\ broken = {}
  /\ \A l \in Subs : l \in ended => spc[l] \in {"ok", "error"}
  /\ \A l \in Subs : spc[l] = "register" => Running(l)
  /\ \A t \in Topics : listeners[t] # None =>
       Running(listeners[t]) /\ listeners[t] \notin ended

\* A step that registers nothing, stops nothing and ends no call.
LEMMA ServedFrame ==
  ASSUME TypeOK, ServedInv, UNCHANGED <<ended, listeners>>, broken' = {},
         \A l \in Subs : Running(l) => Running(l)',
         \A l \in Subs : spc[l] \in {"ok", "error"} => spc'[l] = spc[l],
         \A l \in Subs : spc'[l] = "register" => Running(l)'
  PROVE  ServedInv'
  <1>1. \A t \in Topics : listeners'[t] # None =>
          Running(listeners[t])' /\ listeners'[t] \notin ended'
    BY DEF ServedInv, TypeOK
  <1> QED BY <1>1 DEF ServedInv, Running

\* Release leaves no connection broken that was not.
LEMMA ReleaseSound == ASSUME NEW c, NEW ib, Release(c, ib), broken = {} PROVE broken' = {}
  BY DEF Release

\* No step registers a listener that stopped, or stops one that stays registered.
LEMMA ServedStep == MaxBreaks = 0 /\ IInv /\ ServedInv /\ [Next]_vars => ServedInv'
  <1> SUFFICES ASSUME MaxBreaks = 0, IInv, ServedInv, [Next]_vars PROVE ServedInv'
    OBVIOUS
  <1> USE BrokerAssumption DEF IInv, TypeOK
  <1>0. CASE UNCHANGED vars
    BY <1>0 DEF vars, ServedInv, Running
  <1>1. ASSUME NEW s \in Subs,
               \/ SubscribeClosed(s) \/ SubscribeJoin(s) \/ SubscribeCreate(s)
               \/ SubscribeNoConn(s) \/ \E c \in Conns : SubscribeAcquire(s, c)
        PROVE  ServedInv'
    <2>1. /\ UNCHANGED <<ended, listeners, lpc, broken>> /\ spc[s] \notin {"ok", "error"}
          /\ \E v \in {"ok", "error", "errClosed", "acquire", "listen"} :
               spc' = [spc EXCEPT ![s] = v]
      BY <1>1 DEF SubscribeClosed, SubscribeJoin, SubscribeCreate, SubscribeNoConn, SubscribeAbort,
                  SubscribeAcquire, registry, contexts, loop, net
    <2>2. PICK v \in {"ok", "error", "errClosed", "acquire", "listen"} :
            spc' = [spc EXCEPT ![s] = v]
      BY <2>1
    <2>3. \A l \in Subs : /\ spc[l] \in {"ok", "error"} => spc'[l] = spc[l]
                          /\ spc'[l] = "register" => spc[l] = "register"
      BY <2>1, <2>2
    <2> QED BY <2>1, <2>3, ServedFrame DEF ServedInv, Running
  <1>2. ASSUME NEW s \in Subs, NEW c \in Conns, ListenOk(s, c) PROVE ServedInv'
    BY <1>2 DEF ListenOk, ServedInv, Running, registry, contexts
  <1>3. ASSUME NEW s \in Subs, NEW c \in Conns, ListenFails(s, c) PROVE ServedInv'
    <2>1. /\ spc[s] = "listen" /\ spc' = [spc EXCEPT ![s] = "error"] /\ ended' = ended \cup {s}
          /\ listeners' = listeners /\ lpc' = lpc
      BY <1>3 DEF ListenFails, CancelListeners, SubscribeAbort, registry, loop
    <2>2. broken' = {}
      BY <1>3, ReleaseSound DEF ListenFails, GiveBack, ServedInv
    <2>3. ASSUME NEW t \in Topics PROVE listeners[t] # s
      <3>1. listeners[t] # None => spc[listeners[t]] = "ok"
        BY DEF RegistryInv, ListenersInv
      <3>2. s # None /\ spc[s] # "ok"
        BY <2>1
      <3> QED BY <3>1, <3>2
    <2>4. \A l \in Subs : l \in ended' => spc'[l] \in {"ok", "error"}
      BY <2>1 DEF ServedInv
    <2>5. \A l \in Subs : spc'[l] = "register" => Running(l)'
      BY <2>1 DEF ServedInv, Running
    <2>6. \A t \in Topics : listeners'[t] # None => Running(listeners[t])' /\ listeners'[t] \notin ended'
      BY <2>1, <2>3 DEF ServedInv, Running
    <2> QED BY <2>2, <2>4, <2>5, <2>6 DEF ServedInv
  <1>4. ASSUME NEW s \in Subs, Register(s) PROVE ServedInv'
    BY <1>4 DEF Register, ServedInv, Running, contexts, loop, net
  <1>5. ASSUME NEW l \in Subs,
               \/ \E c \in Conns : Receive(l, c)
               \/ \E h \in Subs : Skip(l, h) \/ Check(l, h)
               \/ Start(l) \/ DispatchEnd(l)
        PROVE  ServedInv'
    <2>1. UNCHANGED <<ended, listeners, spc, broken>> /\ lpc[l] \in {"wait", "dispatch", "start"}
      BY <1>5 DEF Receive, Skip, Check, Start, DispatchEnd, registry, contexts, calls, net
    <2>2. \E v \in {"wait", "dispatch", "start"} : lpc' = lpc \/ lpc' = [lpc EXCEPT ![l] = v]
      BY <1>5 DEF Receive, Skip, Check, Start, DispatchEnd
    <2>3. \A x \in Subs : Running(x) => Running(x)'
      BY <2>1, <2>2 DEF Running
    <2> QED BY <2>1, <2>3, ServedFrame DEF ServedInv
  <1>6. ASSUME NEW l \in Subs, NEW c \in Conns, ListenExit(l, c) PROVE ServedInv'
    <2>1. /\ lpc' = [lpc EXCEPT ![l] = "exited"] /\ ended' = ended \cup {l}
          /\ UNCHANGED <<listeners, spc>> /\ l \in ended
      BY <1>6 DEF ListenExit, CancelListeners, registry, calls, ServedInv
    <2>2. broken' = {}
      BY <1>6, ReleaseSound DEF ListenExit, GiveBack, ServedInv
    <2> QED BY <2>1, <2>2 DEF ServedInv, Running
  <1>7. ASSUME NEW s \in Subs, RemoveNothing(s) \/ UserCancel(s) PROVE ServedInv'
    BY <1>7 DEF RemoveNothing, UserCancel, ServedInv, Running, registry, contexts, calls, loop, net
  <1>8. ASSUME NEW s \in Subs, RemoveHandler(s) PROVE ServedInv'
    <2> DEFINE l == listeners[SubTopic[s]]
    <2>1. /\ UNCHANGED <<spc, lpc, broken>> /\ l # None /\ SubTopic[s] \in Topics
          /\ \/ UNCHANGED <<ended, listeners>>
             \/ ended' = ended \cup {l} /\ listeners' = [listeners EXCEPT ![SubTopic[s]] = None]
      BY <1>8 DEF RemoveHandler, CancelListeners, calls, loop, net
    <2>2. spc[l] = "ok" /\ \A t \in Topics : listeners[t] = l => t = SubTopic[s]
      BY <2>1 DEF RegistryInv, ListenersInv, RegisteredAreWatched
    <2> HIDE DEF l
    <2> QED BY <2>1, <2>2 DEF ServedInv, Running
  <1>9. CASE Close
    <2>1. /\ UNCHANGED <<spc, lpc, broken>> /\ \A t \in Topics : listeners'[t] = None
          /\ ended' = ended \cup ({listeners[t] : t \in Topics} \ {None})
      BY <1>9 DEF Close, CancelListeners, NoListeners, calls, loop, net
    <2>2. \A t \in Topics : listeners[t] # None => spc[listeners[t]] = "ok"
      BY DEF RegistryInv, ListenersInv
    <2> QED BY <2>1, <2>2 DEF ServedInv, Running
  <1>10. ASSUME NEW p \in Pubs,
                \/ PublishClosed(p) \/ PublishTooLarge(p) \/ PublishBegin(p) \/ PublishNoConn(p)
                \/ \E c \in Conns : PublishAcquire(p, c)
         PROVE  ServedInv'
    BY <1>10 DEF PublishClosed, PublishTooLarge, PublishBegin, PublishNoConn, PublishAcquire,
                 ServedInv, Running, registry, contexts, loop, net
  <1>11. ASSUME NEW p \in Pubs, NEW c \in Conns,
                PublishNotify(p, c) \/ PublishRefused(p, c) \/ PublishLost(p, c)
         PROVE  ServedInv'
    <2>1. UNCHANGED <<listeners, ended, spc, lpc>>
      BY <1>11 DEF PublishNotify, PublishRefused, PublishLost, registry, contexts, loop
    <2>2. \E ib : Release(c, ib)
      BY <1>11 DEF PublishNotify, PublishRefused, PublishLost
    <2>3. broken' = {}
      BY <2>2, ReleaseSound DEF ServedInv
    <2> QED BY <2>1, <2>3 DEF ServedInv, Running
  <1>12. ASSUME NEW c \in Conns, Break(c) PROVE FALSE
    BY <1>12 DEF Break
  <1> QED BY NextCases, <1>0, <1>1, <1>2, <1>3, <1>4, <1>5, <1>6, <1>7, <1>8, <1>9, <1>10, <1>11,
             <1>12

\* Where no connection fails, a Subscribe that joins a listener finds it running:
\* what the run dead_listener shows takes a failure.
THEOREM JoinsAreServed == ASSUME MaxBreaks = 0 PROVE Spec => JoinIsServed
  <1> DEFINE Served == \A s \in Subs : spc[s] = "idle" /\ spc'[s] = "ok" =>
                         Running(listeners[SubTopic[s]])
  <1>1. Init => ServedInv
    BY BrokerAssumption DEF Init, ServedInv, NoListeners
  <1>2. IInv /\ ServedInv /\ [Next]_vars => [Served]_vars
    <2> SUFFICES ASSUME IInv, ServedInv, Next, NEW s \in Subs, spc[s] = "idle", spc'[s] = "ok"
                 PROVE  Running(listeners[SubTopic[s]])
      BY DEF vars
    <2> USE DEF IInv, TypeOK
    <2>1. SubscribeJoin(s)
      <3>1. ASSUME NEW x \in Subs, NEW v, spc' = [spc EXCEPT ![x] = v] PROVE x = s /\ v = "ok"
        BY <3>1
      <3>2. spc' # spc
        BY DEF IInv
      <3>3. ASSUME NEW x \in Subs,
                   \/ SubscribeClosed(x) \/ SubscribeCreate(x) \/ SubscribeNoConn(x) \/ Register(x)
                   \/ \E c \in Conns : SubscribeAcquire(x, c) \/ ListenOk(x, c) \/ ListenFails(x, c)
            PROVE  FALSE
        <4>1. ASSUME NEW v \in {"acquire", "listen", "register", "error", "errClosed"},
                     spc' = [spc EXCEPT ![x] = v]
              PROVE  FALSE
          BY <3>1, <4>1
        <4>2. CASE Register(x)
          BY <3>1, <4>2 DEF Register
        <4>3. CASE SubscribeClosed(x) \/ SubscribeCreate(x) \/ SubscribeNoConn(x)
          BY <4>1, <4>3 DEF SubscribeClosed, SubscribeCreate, SubscribeNoConn, SubscribeAbort
        <4>4. CASE \E c \in Conns : SubscribeAcquire(x, c) \/ ListenOk(x, c) \/ ListenFails(x, c)
          BY <4>1, <4>4 DEF SubscribeAcquire, ListenOk, ListenFails, SubscribeAbort
        <4> QED BY <3>3, <4>2, <4>3, <4>4
      <3>4. ASSUME NEW x \in Subs, SubscribeJoin(x) PROVE x = s
        BY <3>1, <3>4 DEF SubscribeJoin
      <3>5. ASSUME NEW l \in Subs,
                   \/ \E c \in Conns : Receive(l, c) \/ ListenExit(l, c)
                   \/ \E h \in Subs : Skip(l, h) \/ Check(l, h)
                   \/ Start(l) \/ DispatchEnd(l)
                   \/ RemoveNothing(l) \/ RemoveHandler(l) \/ UserCancel(l)
            PROVE  FALSE
        BY <3>2, <3>5 DEF Receive, ListenExit, Skip, Check, Start, DispatchEnd, RemoveNothing,
                          RemoveHandler, UserCancel, calls
      <3>6. ASSUME NEW p \in Pubs,
                   \/ PublishClosed(p) \/ PublishTooLarge(p) \/ PublishBegin(p) \/ PublishNoConn(p)
                   \/ \E c \in Conns : \/ PublishAcquire(p, c) \/ PublishNotify(p, c)
                                       \/ PublishRefused(p, c) \/ PublishLost(p, c)
            PROVE  FALSE
        BY <3>2, <3>6 DEF PublishClosed, PublishTooLarge, PublishBegin, PublishNoConn,
                          PublishAcquire, PublishNotify, PublishRefused, PublishLost
      <3>7. ~Close /\ \A c \in Conns : ~Break(c)
        BY <3>2 DEF Close, Break, calls
      <3> QED BY NextCases, <3>3, <3>4, <3>5, <3>6, <3>7
    <2> QED BY <2>1, BrokerAssumption DEF SubscribeJoin, ServedInv
  <1> QED BY <1>1, <1>2, ServedStep, Inductive, PTL DEF Spec, JoinIsServed
=============================================================================
