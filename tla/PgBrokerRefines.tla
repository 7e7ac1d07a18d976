--------------------------- MODULE PgBrokerRefines ---------------------------
(***************************************************************************)
(* The PostgreSQL broker keeps the promises of the interface for a broker  *)
(* with a server in between, for any number of topics, calls and           *)
(* connections, whatever connections fail.                                 *)
(***************************************************************************)
EXTENDS PgBrokerProofs

\* What the interface sees of one subscription.
View(s) ==
  CASE spc[s] = "ok" -> IF HandlerDone(s) THEN "ended" ELSE "active"
    [] spc[s] \in {"errClosed", "error"} -> spc[s]
    [] OTHER -> "idle"

\* A step that leaves the calls' returns, the contexts of the subscribed and the
\* handlers about to be started as they are.
Quiet ==
  /\ UNCHANGED <<closed, got>> /\ due' = due
  /\ \A s \in Subs : View(s)' = View(s)
  /\ \A p \in Pubs : \/ ppc'[p] = ppc[p]
                     \/ ppc[p] = "acquire" /\ ppc'[p] = "exec"

-----------------------------------------------------------------------------
(* What the interface sees.                                                *)

\* The active subscriptions are those that returned nil and are not done.
LEMMA Seen ==
  /\ Abstract!Active = {s \in Subs : spc[s] = "ok" /\ ~HandlerDone(s)}
  /\ sub = [s \in Subs |-> View(s)]
  /\ \A s \in Subs : spc[s] \notin {"ok", "errClosed", "error"} => sub[s] = "idle"
  <1>1. \A s \in Subs : View(s) = "active" <=> spc[s] = "ok" /\ ~HandlerDone(s)
    BY DEF View
  <1>2. sub = [s \in Subs |-> View(s)]
    BY DEF sub, View
  <1>3. \A s \in Subs : spc[s] \notin {"ok", "errClosed", "error"} => View(s) = "idle"
    BY DEF View
  <1> QED BY <1>1, <1>2, <1>3 DEF Abstract!Active

\* A quiet step is not seen.
LEMMA Unseen == ASSUME Quiet PROVE UNCHANGED Abstract!vars
  <1>1. sub' = sub
    BY DEF Quiet, sub, View
  <1>2. pub' = pub /\ audience' = audience
    BY DEF Quiet, pub, audience
  <1> QED BY <1>1, <1>2 DEF Quiet, Abstract!vars

\* A step of a Subscribe call on its contexts and its return changes its own state.
LEMMA OwnView ==
  ASSUME TypeOK, NEW s \in Subs, NEW v, spc' = [spc EXCEPT ![s] = v], userDone' = userDone,
         stopped' \in {stopped, stopped \cup {s}}
  PROVE  sub' = [sub EXCEPT ![s] = View(s)']
  <1>1. \A x \in Subs \ {s} : View(x)' = View(x)
    BY DEF TypeOK, View, HandlerDone
  <1>2. sub' = [x \in Subs |-> View(x)']
    BY DEF sub, View
  <1> QED BY <1>1, <1>2, Seen

\* A step of a listen goroutine around the start of a handler.
LEMMA SameDue ==
  ASSUME NEW l \in Subs, lpc[l] # "start", lpc'[l] # "start",
         \A x \in Subs \ {l} : lpc'[x] = lpc[x] /\ cur'[x] = cur[x] /\ lmsg'[x] = lmsg[x]
  PROVE  due' = due
  <1>1. ASSUME NEW x \in Subs \X Pubs
        PROVE  (\E m \in Subs : lpc[m] = "start" /\ cur[m] = x[1] /\ lmsg[m] = x[2]) <=>
               (\E m \in Subs : lpc'[m] = "start" /\ cur'[m] = x[1] /\ lmsg'[m] = x[2])
    OBVIOUS
  <1> QED BY <1>1 DEF due

\* What leaves the listen goroutines alone leaves that alone.
LEMMA LoopStays == ASSUME UNCHANGED <<lpc, cur, lmsg>> PROVE due' = due
  BY DEF due

\* A listener about to start a handler is the only one that has it.
LEMMA OnlyHost ==
  ASSUME IInv, NEW l \in Subs, NEW m \in Subs, NEW h \in Subs,
         h \in Host(l), lpc[m] = "start", cur[m] = h
  PROVE  l = m
  BY BrokerAssumption DEF IInv, DeliveryInv, HostInv, Host

-----------------------------------------------------------------------------
(* The refinement, action by action.                                       *)

\* The calls that return from Subscribe.
LEMMA SubscribeReturns ==
  ASSUME IInv, NEW s \in Subs,
         \/ SubscribeClosed(s) \/ SubscribeJoin(s) \/ Register(s) \/ SubscribeNoConn(s)
         \/ \E c \in Conns : ListenFails(s, c)
  PROVE  Abstract!Subscribe(s)
  <1> DEFINE v == spc'[s]
  <1>1. /\ UNCHANGED <<closed, ppc, got, lpc, cur, lmsg, userDone>>
        /\ stopped' \in {stopped, stopped \cup {s}}
        /\ spc[s] \in {"idle", "acquire", "listen", "register"}
        /\ v \in {"ok", "error", "errClosed"} /\ spc' = [spc EXCEPT ![s] = v]
    BY DEF SubscribeClosed, SubscribeJoin, Register, SubscribeNoConn, ListenFails, SubscribeAbort,
           CancelHandlers, registry, contexts, loop, calls, IInv, TypeOK
  <1>2. v = "errClosed" <=> closed
    <2>1. CASE SubscribeClosed(s) \/ SubscribeJoin(s)
      BY <2>1 DEF SubscribeClosed, SubscribeJoin, IInv, TypeOK
    <2>2. CASE Register(s) \/ SubscribeNoConn(s) \/ \E c \in Conns : ListenFails(s, c)
      <3>1. spc[s] \in Busy /\ v \in {"ok", "error"}
        BY <2>2 DEF Register, SubscribeNoConn, ListenFails, SubscribeAbort, Busy, IInv, TypeOK
      <3> QED BY <3>1 DEF IInv, RegistryInv, LockInv
    <2> QED BY <2>1, <2>2
  <1>3. sub' = [sub EXCEPT ![s] = View(s)'] /\ sub[s] = "idle"
    BY <1>1, OwnView, Seen DEF IInv
  <1>4. View(s)' \in {"active", "ended", "error", "errClosed"} /\ (View(s)' = "errClosed" <=> closed)
    BY <1>1, <1>2 DEF View
  <1>5. UNCHANGED <<closed, pub, audience, due, got>>
    BY <1>1, LoopStays DEF pub, audience
  <1> QED BY <1>3, <1>4, <1>5 DEF Abstract!Subscribe

\* The end of a context ends an active subscription, and is not seen otherwise.
LEMMA CancelStep ==
  ASSUME IInv, NEW s \in Subs, UserCancel(s)
  PROVE  Abstract!Cancel(s) \/ UNCHANGED Abstract!vars
  <1>1. UNCHANGED <<closed, ppc, got, lpc, cur, lmsg, spc, stopped>> /\ userDone' = userDone \cup {s}
    BY DEF UserCancel, registry, calls, loop
  <1>2. due' = due /\ pub' = pub /\ audience' = audience
    BY <1>1, LoopStays DEF pub, audience
  <1>3. \A x \in Subs \ {s} : View(x)' = View(x)
    BY <1>1 DEF View, HandlerDone
  <1>4. CASE View(s) = "active"
    <2>1. View(s)' = "ended"
      BY <1>1, <1>4 DEF View, HandlerDone
    <2>2. sub[s] = "active" /\ sub' = [sub EXCEPT ![s] = "ended"]
      BY <1>3, <1>4, <2>1, Seen DEF sub, View
    <2> QED BY <1>1, <1>2, <2>2 DEF Abstract!Cancel
  <1>5. CASE View(s) # "active"
    <2>1. View(s)' = View(s)
      BY <1>1, <1>5 DEF View, HandlerDone
    <2> QED BY <1>1, <1>2, <1>3, <2>1, Unseen DEF Quiet
  <1> QED BY <1>4, <1>5

\* Close ends every active subscription: all of them are in a registered listener.
LEMMA CloseStep ==
  ASSUME IInv, Close
  PROVE  Abstract!Close
  <1> DEFINE open == {listeners[t] : t \in Topics} \ {None}
  <1>1. /\ UNCHANGED <<ppc, got, lpc, cur, lmsg, spc, userDone>> /\ ~closed /\ closed' = TRUE
        /\ stopped' = stopped \cup UNION {handlers[l] : l \in open}
    BY DEF Close, CancelHandlers, calls, loop
  <1>2. ASSUME NEW s \in Subs, spc[s] = "ok", ~HandlerDone(s) PROVE HandlerDone(s)'
    <2>1. SubTopic[s] \in Topics
      BY BrokerAssumption
    <2>2. listeners[SubTopic[s]] # None /\ s \in handlers[listeners[SubTopic[s]]]
      BY <1>2 DEF IInv, RegistryInv, ActiveIsRegistered
    <2> QED BY <1>1, <2>1, <2>2 DEF HandlerDone
  <1>3. ASSUME NEW s \in Subs PROVE View(s)' = IF s \in Abstract!Active THEN "ended" ELSE View(s)
    <2>1. HandlerDone(s) => HandlerDone(s)'
      BY <1>1 DEF HandlerDone
    <2> QED BY <1>1, <1>2, <2>1, Seen DEF View
  <1>4. sub' = [s \in Subs |-> IF s \in Abstract!Active THEN "ended" ELSE sub[s]]
    <2>1. sub' = [s \in Subs |-> View(s)']
      BY DEF sub, View
    <2> QED BY <1>3, <2>1, Seen
  <1>5. due' = due /\ pub' = pub /\ audience' = audience
    BY <1>1, LoopStays DEF pub, audience
  <1> QED BY <1>1, <1>4, <1>5 DEF Abstract!Close

\* A Publish returns at once, begins, or returns from the pool.
LEMMA PublishMoves ==
  ASSUME IInv, NEW p \in Pubs,
         \/ PublishClosed(p) \/ PublishTooLarge(p) \/ PublishBegin(p) \/ PublishNoConn(p)
         \/ \E c \in Conns : PublishNotify(p, c) \/ PublishRefused(p, c) \/ PublishLost(p, c)
  PROVE  Abstract!PublishFails(p) \/ Abstract!PublishBegins(p) \/ Abstract!PublishReturns(p)
  <1> DEFINE v == ppc'[p]
  <1>1. /\ UNCHANGED <<closed, got, lpc, cur, lmsg, spc, userDone, stopped>>
        /\ ppc' = [ppc EXCEPT ![p] = v]
        /\ \/ ppc[p] = "idle" /\ v = "errClosed" /\ closed
           \/ ppc[p] = "idle" /\ v \in {"tooLarge", "acquire"} /\ ~closed
           \/ ppc[p] \in {"acquire", "exec"} /\ v \in {"ok", "error"}
    BY DEF PublishClosed, PublishTooLarge, PublishBegin, PublishNoConn, PublishNotify,
           PublishRefused, PublishLost, registry, contexts, loop, IInv, TypeOK
  <1> DEFINE told(x) == IF x \in {"acquire", "exec"} THEN "sending" ELSE x
             whom(x) == IF x \in {"idle", "errClosed", "tooLarge"} THEN {} ELSE Subs
  <1>2. /\ pub[p] = told(ppc[p]) /\ pub' = [pub EXCEPT ![p] = told(v)]
        /\ audience' = [audience EXCEPT ![p] = whom(v)] /\ audience[p] = whom(ppc[p])
        /\ whom(v) = whom(ppc[p]) => audience' = audience
    BY <1>1 DEF pub, audience, IInv, TypeOK
  <1>3. sub' = sub /\ due' = due
    BY <1>1, LoopStays DEF sub, HandlerDone
  <1>4. CASE ppc[p] = "idle" /\ v \in {"errClosed", "tooLarge"}
    BY <1>1, <1>2, <1>3, <1>4 DEF Abstract!PublishFails
  <1>5. CASE ppc[p] = "idle" /\ v = "acquire"
    BY <1>1, <1>2, <1>3, <1>5 DEF Abstract!PublishBegins
  <1>6. CASE ppc[p] \in {"acquire", "exec"} /\ v \in {"ok", "error"}
    BY <1>1, <1>2, <1>3, <1>6 DEF Abstract!PublishReturns
  <1> QED BY <1>1, <1>4, <1>5, <1>6

\* A handler is picked when its context is found live: Close did not happen, the
\* NOTIFY did, and nobody gave it the payload before or is about to.
LEMMA PickStep ==
  ASSUME IInv, NEW l \in Subs, NEW h \in Subs, Check(l, h)
  PROVE  lmsg[l] \in Pubs /\ Abstract!Pick(lmsg[l], h)
  <1> DEFINE p == lmsg[l]
  <1>1. /\ UNCHANGED <<closed, ppc, got, lmsg, spc, userDone, stopped>>
        /\ lpc[l] = "dispatch" /\ lpc' = [lpc EXCEPT ![l] = "start"]
        /\ cur' = [cur EXCEPT ![l] = h] /\ h \in snap[l] /\ ~HandlerDone(h)
    BY DEF Check, registry, contexts, calls
  <1>2. h \in Host(l) /\ spc[h] = "ok" /\ p \in Pubs
    BY <1>1, BrokerAssumption DEF IInv, TypeOK, DeliveryInv, HostInv, LoopInv, Host
  <1>3. pub[p] \in {"ok", "error"} /\ audience[p] = Subs
    <2>1. ppc[p] \in {"ok", "error"}
      BY <1>2 DEF IInv, DeliveryInv, SentInv
    <2> QED BY <1>2, <2>1 DEF pub, audience
  <1>4. got[h][p] = 0
    BY <1>1, <1>2 DEF IInv, DeliveryInv, SeenInv
  <1>5. <<h, p>> \notin due
    <2>1. ASSUME NEW m \in Subs, lpc[m] = "start", cur[m] = h PROVE FALSE
      BY <1>1, <1>2, <2>1, OnlyHost
    <2> QED BY <2>1 DEF due
  <1>6. due' = due \cup {<<h, p>>}
    <2>1. ASSUME NEW x \in Subs \X Pubs
          PROVE  (\E m \in Subs : lpc'[m] = "start" /\ cur'[m] = x[1] /\ lmsg'[m] = x[2]) <=>
                 \/ \E m \in Subs : lpc[m] = "start" /\ cur[m] = x[1] /\ lmsg[m] = x[2]
                 \/ x[1] = h /\ x[2] = p
      BY <1>1 DEF IInv, TypeOK
    <2> QED BY <1>2, <2>1 DEF due
  <1>7. pub' = pub /\ audience' = audience /\ sub' = sub
    BY <1>1 DEF pub, audience, sub, HandlerDone
  <1>8. h \in Abstract!Active
    BY <1>1, <1>2, Seen
  <1> QED BY <1>1, <1>2, <1>3, <1>4, <1>5, <1>6, <1>7, <1>8 DEF Abstract!Pick

\* It is started once.
LEMMA StartStep ==
  ASSUME IInv, NEW l \in Subs, Start(l)
  PROVE  lmsg[l] \in Pubs /\ cur[l] \in Subs /\ Abstract!Start(lmsg[l], cur[l])
  <1> DEFINE p == lmsg[l]
             h == cur[l]
  <1>1. /\ UNCHANGED <<closed, ppc, lmsg, spc, userDone, stopped>>
        /\ lpc[l] = "start" /\ lpc' = [lpc EXCEPT ![l] = "dispatch"]
        /\ got' = [got EXCEPT ![h][p] = @ + 1] /\ cur' = [cur EXCEPT ![l] = None]
    BY DEF Start, registry, contexts, calls
  <1>2. p \in Pubs /\ h \in Subs /\ h \in Host(l)
    BY <1>1, BrokerAssumption DEF IInv, TypeOK, DeliveryInv, LoopInv, Host
  <1>3. got[h][p] = 0
    BY <1>2 DEF IInv, DeliveryInv, SeenInv
  <1>4. got' = [got EXCEPT ![h][p] = 1]
    BY <1>1, <1>3
  <1>5. <<h, p>> \in due
    BY <1>1, <1>2 DEF due
  <1>6. due' = due \ {<<h, p>>}
    <2>1. ASSUME NEW m \in Subs, lpc[m] = "start", cur[m] = h PROVE m = l
      BY <1>2, <2>1, OnlyHost
    <2>2. ASSUME NEW x \in Subs \X Pubs
          PROVE  (\E m \in Subs : lpc'[m] = "start" /\ cur'[m] = x[1] /\ lmsg'[m] = x[2]) <=>
                 /\ \E m \in Subs : lpc[m] = "start" /\ cur[m] = x[1] /\ lmsg[m] = x[2]
                 /\ ~(x[1] = h /\ x[2] = p)
      BY <1>1, <2>1 DEF IInv, TypeOK
    <2> QED BY <1>2, <2>2 DEF due
  <1>7. pub' = pub /\ audience' = audience /\ sub' = sub
    BY <1>1 DEF pub, audience, sub, HandlerDone
  <1> QED BY <1>1, <1>2, <1>4, <1>5, <1>6, <1>7 DEF Abstract!Start

\* The steps of a Subscribe call that is not back yet.
LEMMA WaitingStep ==
  ASSUME IInv, NEW s \in Subs,
         SubscribeCreate(s) \/ \E c \in Conns : SubscribeAcquire(s, c) \/ ListenOk(s, c)
  PROVE  Quiet
  <1> DEFINE v == spc'[s]
  <1>1. /\ UNCHANGED <<closed, got, ppc, userDone, stopped, cur, lmsg>>
        /\ spc[s] \in {"idle", "acquire", "listen"} /\ v \in {"acquire", "listen", "register"}
        /\ spc' = [spc EXCEPT ![s] = v]
        /\ lpc' = lpc \/ (spc[s] = "listen" /\ lpc' = [lpc EXCEPT ![s] = "wait"])
    BY DEF SubscribeCreate, SubscribeAcquire, ListenOk, registry, contexts, loop, IInv, TypeOK
  <1>2. \A x \in Subs : View(x)' = View(x)
    BY <1>1 DEF View, HandlerDone, IInv, TypeOK
  <1>3. due' = due
    <2>1. CASE lpc' = lpc
      BY <1>1, <2>1, LoopStays
    <2>2. CASE spc[s] = "listen" /\ lpc' = [lpc EXCEPT ![s] = "wait"]
      <3>1. lpc[s] # "start"
        BY <2>2 DEF IInv, RegistryInv, GoroutineInv
      <3>2. lpc'[s] # "start" /\ \A x \in Subs \ {s} : lpc'[x] = lpc[x]
        BY <2>2 DEF IInv, TypeOK
      <3> QED BY <1>1, <3>1, <3>2, SameDue
    <2> QED BY <1>1, <2>1, <2>2
  <1> QED BY <1>1, <1>2, <1>3 DEF Quiet

\* The steps of a listen goroutine around its handlers.
LEMMA LoopStep ==
  ASSUME IInv, NEW l \in Subs,
         \/ \E c \in Conns : Receive(l, c) \/ ListenExit(l, c)
         \/ \E h \in Subs : Skip(l, h)
         \/ DispatchEnd(l)
  PROVE  Quiet
  <1>1. /\ UNCHANGED <<closed, got, ppc, spc, userDone, stopped>>
        /\ lpc[l] # "start" /\ lpc'[l] # "start"
        /\ \A x \in Subs \ {l} : lpc'[x] = lpc[x] /\ cur'[x] = cur[x] /\ lmsg'[x] = lmsg[x]
    BY DEF Receive, ListenExit, Skip, DispatchEnd, registry, contexts, calls, IInv, TypeOK
  <1>2. due' = due
    BY <1>1, SameDue
  <1> QED BY <1>1, <1>2 DEF Quiet, View, HandlerDone

\* A watcher cancels the handler whose context is done, the pool hands out a
\* connection, a connection fails.
LEMMA HiddenStep ==
  ASSUME IInv,
         \/ \E s \in Subs : RemoveNothing(s) \/ RemoveHandler(s)
         \/ \E p \in Pubs, c \in Conns : PublishAcquire(p, c)
         \/ \E c \in Conns : Break(c)
         \/ UNCHANGED vars
  PROVE  Quiet
  <1>1. UNCHANGED <<closed, got, spc, userDone, lpc, cur, lmsg>>
    BY DEF RemoveNothing, RemoveHandler, PublishAcquire, Break, vars, registry, contexts, calls, loop
  <1>2. \A s \in Subs : HandlerDone(s)' <=> HandlerDone(s)
    <2>1. stopped' = stopped \/ \E s \in Subs : HandlerDone(s) /\ stopped' \subseteq stopped \cup {s}
                                                /\ stopped \subseteq stopped'
      BY DEF RemoveNothing, RemoveHandler, CancelHandlers, PublishAcquire, Break, vars, contexts
    <2> QED BY <1>1, <2>1 DEF HandlerDone
  <1>3. \A p \in Pubs : ppc'[p] = ppc[p] \/ (ppc[p] = "acquire" /\ ppc'[p] = "exec")
    BY DEF RemoveNothing, RemoveHandler, PublishAcquire, Break, vars, calls, IInv, TypeOK
  <1> QED BY <1>1, <1>2, <1>3, LoopStays DEF Quiet, View

\* A new broker is what the interface begins with.
LEMMA InitPromised == Init => Abstract!Init
  BY DEF Init, Abstract!Init, sub, pub, audience, due

\* The PostgreSQL broker implements the interface for a broker with a server in
\* between: a handler gets each payload once at most, and only if it was active when it
\* was picked, after the NOTIFY; Close ends all, and ErrClosed is returned by the calls
\* that come after it and no others, though Subscribe waits for the network.
THEOREM Implements == Spec => ImplementsBroker
  <1>1. IInv /\ [Next]_vars => [Abstract!Next]_Abstract!vars
    <2> SUFFICES ASSUME IInv, [Next]_vars PROVE Abstract!Next \/ UNCHANGED Abstract!vars
      OBVIOUS
    <2>1. ASSUME NEW s \in Subs,
                 \/ SubscribeClosed(s) \/ SubscribeJoin(s) \/ Register(s) \/ SubscribeNoConn(s)
                 \/ \E c \in Conns : ListenFails(s, c)
          PROVE  Abstract!Next
      BY <2>1, SubscribeReturns DEF Abstract!Next
    <2>2. ASSUME NEW s \in Subs, UserCancel(s) PROVE Abstract!Next \/ UNCHANGED Abstract!vars
      BY <2>2, CancelStep DEF Abstract!Next
    <2>3. ASSUME NEW p \in Pubs,
                 \/ PublishClosed(p) \/ PublishTooLarge(p) \/ PublishBegin(p) \/ PublishNoConn(p)
                 \/ \E c \in Conns : PublishNotify(p, c) \/ PublishRefused(p, c) \/ PublishLost(p, c)
          PROVE  Abstract!Next
      BY <2>3, PublishMoves DEF Abstract!Next
    <2>4. ASSUME NEW l \in Subs, NEW h \in Subs, Check(l, h) PROVE Abstract!Next
      BY <2>4, PickStep DEF Abstract!Next
    <2>5. ASSUME NEW l \in Subs, Start(l) PROVE Abstract!Next
      BY <2>5, StartStep DEF Abstract!Next
    <2>6. CASE Close
      BY <2>6, CloseStep DEF Abstract!Next
    <2>7. ASSUME NEW s \in Subs,
                 SubscribeCreate(s) \/ \E c \in Conns : SubscribeAcquire(s, c) \/ ListenOk(s, c)
          PROVE  UNCHANGED Abstract!vars
      BY <2>7, WaitingStep, Unseen
    <2>8. ASSUME NEW l \in Subs,
                 \/ \E c \in Conns : Receive(l, c) \/ ListenExit(l, c)
                 \/ \E h \in Subs : Skip(l, h)
                 \/ DispatchEnd(l)
          PROVE  UNCHANGED Abstract!vars
      BY <2>8, LoopStep, Unseen
    <2>9. ASSUME \/ \E s \in Subs : RemoveNothing(s) \/ RemoveHandler(s)
                 \/ \E p \in Pubs, c \in Conns : PublishAcquire(p, c)
                 \/ \E c \in Conns : Break(c)
                 \/ UNCHANGED vars
          PROVE  UNCHANGED Abstract!vars
      BY <2>9, HiddenStep, Unseen
    <2> QED BY NextCases, <2>1, <2>2, <2>3, <2>4, <2>5, <2>6, <2>7, <2>8, <2>9
  <1> QED BY <1>1, InitPromised, Inductive, PTL DEF Spec, ImplementsBroker, Abstract!Spec
=============================================================================
