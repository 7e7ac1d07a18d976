--------------------------- MODULE MemBrokerProofs ---------------------------
(***************************************************************************)
(* The in-memory broker for any number of topics, subscriptions and        *)
(* publishers: who is registered and watched, and that it implements the   *)
(* interface.                                                              *)
(***************************************************************************)
EXTENDS MemBroker, TLAPS

\* A subscription is watched from Subscribe on, until it is over.
SubInv ==
  \A s \in Subs : /\ wpc[s] = "none" <=> spc[s] # "ok"
                  /\ wpc[s] \in {"remove", "end"} => Done(s)

\* Close leaves no entry, no live subscription and no Publish in its loop.
ClosedInv ==
  closed => /\ \A t \in Topics : subs[t] = {}
            /\ \A s \in Subs : spc[s] = "ok" => Done(s)
            /\ NoReaders

\* What a Publish has still to look at, is about to start, and has done.
PubInv(p) ==
  /\ ppc[p] = "idle" => \A s \in Subs : got[s][p] = 0
  /\ ppc[p] \in {"loop", "start"} =>
       /\ \A s \in todo[p] : got[s][p] = 0 /\ spc[s] = "ok" /\ (Done(s) \/ s \in audience[p])
       /\ \A s \in audience[p] : \/ Done(s) \/ s \in todo[p] \/ got[s][p] = 1
                                 \/ ppc[p] = "start" /\ s = cur[p]
  /\ ppc[p] = "start" => cur[p] \in audience[p] \ todo[p] /\ got[cur[p]][p] = 0

IInv ==
  /\ TypeOK /\ EntriesAreWatched /\ LiveIsRegistered /\ SubInv /\ ClosedInv
  /\ \A p \in Pubs : PubInv(p)

-----------------------------------------------------------------------------
(* Types.                                                                  *)

\* Every variable keeps its type.
LEMMA TypeStep == TypeOK /\ (\A p \in Pubs : PubInv(p)) /\ [Next]_vars => TypeOK'
  <1> SUFFICES ASSUME TypeOK, \A p \in Pubs : PubInv(p), [Next]_vars PROVE TypeOK'
    OBVIOUS
  <1> USE MemBrokerAssumption DEF TypeOK, data, pubs, state
  <1>1. ASSUME NEW s \in Subs, SubscribeClosed(s) \/ Subscribe(s) PROVE TypeOK'
    <2>1. Subscribe(s) => subs' \in [Topics -> SUBSET Subs]
      BY DEF Subscribe
    <2>2. wpc' \in [Subs -> {"none", "select", "remove", "end"}]
      BY <1>1 DEF SubscribeClosed, Subscribe, Watch
    <2>3. spc' \in [Subs -> {"idle", "ok", "errClosed"}]
      BY <1>1 DEF SubscribeClosed, Subscribe
    <2> QED BY <1>1, <2>1, <2>2, <2>3 DEF SubscribeClosed, Subscribe
  <1>2. ASSUME NEW s \in Subs, WatchStep(s) PROVE TypeOK'
    <2>1. RemoveSubscription(s) => subs' \in [Topics -> SUBSET Subs]
      BY DEF RemoveSubscription, Without
    <2>2. wpc' \in [Subs -> {"none", "select", "remove", "end"}]
      BY <1>2 DEF WatchStep, WatchDone, WatchClosed, RemoveSubscription
    <2>3. cancelled' \subseteq Subs
      BY <1>2 DEF WatchStep, WatchDone, WatchClosed, RemoveSubscription, CancelAll
    <2> QED BY <1>2, <2>1, <2>2, <2>3 DEF WatchStep, WatchDone, WatchClosed, RemoveSubscription
  <1>3. ASSUME NEW s \in Subs, UserCancel(s) PROVE TypeOK'
    BY <1>3 DEF UserCancel
  <1>4. CASE Close
    BY <1>4 DEF Close, CancelAll, NoSubscriptions
  <1>5. ASSUME NEW p \in Pubs, PublishFails(p) \/ PublishReturns(p) \/ PublisherCancel(p) PROVE TypeOK'
    BY <1>5 DEF PublishFails, PublishReturns, PublisherCancel
  <1>6. ASSUME NEW p \in Pubs, PublishBegins(p) PROVE TypeOK'
    BY <1>6 DEF PublishBegins
  <1>7. ASSUME NEW p \in Pubs, NEW s \in Subs, Skip(p, s) \/ Check(p, s) PROVE TypeOK'
    <2>1. todo' = [todo EXCEPT ![p] = @ \ {s}] /\ ppc' \in [Pubs -> {"idle", "loop", "start", "ok", "error"}]
      BY <1>7 DEF Skip, Check, ContinueAfter
    <2>2. cur' \in [Pubs -> Subs \cup {None}]
      BY <1>7 DEF Skip, Check
    <2> QED BY <1>7, <2>1, <2>2 DEF Skip, Check
  <1>8. ASSUME NEW p \in Pubs, Start(p) PROVE TypeOK'
    <2>1. cur[p] \in Subs
      BY <1>8 DEF Start, PubInv
    <2>2. got' \in [Subs -> [Pubs -> Nat]]
      BY <1>8, <2>1 DEF Start
    <2> QED BY <1>8, <2>2 DEF Start
  <1>9. ASSUME NEW s \in Subs, NEW p \in Pubs, RunHandler(s, p) PROVE TypeOK'
    BY <1>9 DEF RunHandler, Slice
  <1>10. ASSUME NEW p \in Pubs, ReusePayload(p) PROVE TypeOK'
    BY <1>10 DEF ReusePayload, CallersSlice
  <1>11. CASE UNCHANGED vars
    BY <1>11 DEF vars
  <1> QED BY <1>1, <1>2, <1>3, <1>4, <1>5, <1>6, <1>7, <1>8, <1>9, <1>10, <1>11
          DEF Next, PublishStep

-----------------------------------------------------------------------------
(* The registry.                                                           *)

\* The steps of publishers and handlers leave the registry alone.
LEMMA RegistryStays ==
  ASSUME UNCHANGED state, EntriesAreWatched, LiveIsRegistered, SubInv
  PROVE  EntriesAreWatched' /\ LiveIsRegistered' /\ SubInv'
  BY DEF state, EntriesAreWatched, LiveIsRegistered, SubInv, Live, Done

\* Only a subscription that is over loses its entry, and its watcher takes it out.
LEMMA RegistryStep ==
  IInv /\ [Next]_vars => EntriesAreWatched' /\ LiveIsRegistered' /\ SubInv'
  <1> SUFFICES ASSUME IInv, [Next]_vars PROVE EntriesAreWatched' /\ LiveIsRegistered' /\ SubInv'
    OBVIOUS
  <1> USE MemBrokerAssumption DEF IInv, TypeOK, EntriesAreWatched, LiveIsRegistered, SubInv, Live, Done
  <1>1. ASSUME NEW s \in Subs, SubscribeClosed(s) \/ Subscribe(s)
        PROVE  EntriesAreWatched' /\ LiveIsRegistered' /\ SubInv'
    <2>1. CASE SubscribeClosed(s)
      BY <2>1 DEF SubscribeClosed
    <2>2. CASE Subscribe(s)
      <3>1. /\ spc[s] = "idle" /\ spc' = [spc EXCEPT ![s] = "ok"] /\ wpc' = [wpc EXCEPT ![s] = "select"]
            /\ userDone' = userDone /\ cancelled' = cancelled
        BY <2>2 DEF Subscribe, Watch
      <3>2. /\ \A t \in Topics \ {SubTopic[s]} : subs'[t] = subs[t]
            /\ SubTopic[s] \in Topics /\ subs'[SubTopic[s]] = subs[SubTopic[s]] \cup {s}
        BY <2>2 DEF Subscribe
      <3>3. ASSUME NEW t \in Topics, NEW x \in subs'[t]
            PROVE  SubTopic[x] = t /\ wpc'[x] \in {"select", "remove"}
        <4>1. x \in subs[t] \/ (x = s /\ t = SubTopic[s])
          BY <3>2
        <4> QED BY <3>1, <4>1
      <3>4. LiveIsRegistered'
        BY <3>1, <3>2
      <3> QED BY <3>1, <3>3, <3>4
    <2> QED BY <1>1, <2>1, <2>2
  <1>2. ASSUME NEW s \in Subs, WatchDone(s) \/ UserCancel(s)
        PROVE  EntriesAreWatched' /\ LiveIsRegistered' /\ SubInv'
    BY <1>2 DEF WatchDone, UserCancel
  <1>3. ASSUME NEW s \in Subs, WatchClosed(s)
        PROVE  EntriesAreWatched' /\ LiveIsRegistered' /\ SubInv'
    BY <1>3 DEF WatchClosed, CancelAll, ClosedInv
  <1>4. ASSUME NEW s \in Subs, RemoveSubscription(s)
        PROVE  EntriesAreWatched' /\ LiveIsRegistered' /\ SubInv'
    BY <1>4 DEF RemoveSubscription, Without, CancelAll
  <1>5. CASE Close
    BY <1>5 DEF Close, CancelAll, NoSubscriptions
  <1>6. CASE UNCHANGED state
    BY <1>6, RegistryStays
  <1> QED BY <1>1, <1>2, <1>3, <1>4, <1>5, <1>6
          DEF Next, WatchStep, PublishStep, PublishFails, PublishBegins, Start, PublishReturns, Skip,
              Check, PublisherCancel, ReusePayload, RunHandler, vars, state

\* Close leaves nothing behind, and nothing begins after it.
LEMMA ClosedStep == IInv /\ [Next]_vars => ClosedInv'
  <1> SUFFICES ASSUME IInv, [Next]_vars PROVE ClosedInv'
    OBVIOUS
  <1> USE MemBrokerAssumption DEF IInv, TypeOK, ClosedInv, Done, NoReaders, state, pubs, data
  <1>1. ASSUME NEW s \in Subs, SubscribeClosed(s) \/ Subscribe(s) PROVE ClosedInv'
    BY <1>1 DEF SubscribeClosed, Subscribe
  <1>2. ASSUME NEW s \in Subs, WatchStep(s) \/ UserCancel(s) PROVE ClosedInv'
    <2>1. \A t \in Topics : subs'[t] \subseteq subs[t]
      BY <1>2 DEF WatchStep, WatchDone, WatchClosed, RemoveSubscription, Without, UserCancel
    <2>2. /\ closed' = closed /\ spc' = spc /\ ppc' = ppc
          /\ userDone \subseteq userDone' /\ cancelled \subseteq cancelled'
      BY <1>2 DEF WatchStep, WatchDone, WatchClosed, RemoveSubscription, CancelAll, UserCancel
    <2> QED BY <2>1, <2>2
  <1>3. CASE Close
    BY <1>3 DEF Close, CancelAll, NoSubscriptions, LiveIsRegistered, Live
  <1>4. ASSUME NEW p \in Pubs, PublishFails(p) \/ PublishBegins(p) \/ PublishReturns(p) PROVE ClosedInv'
    BY <1>4 DEF PublishFails, PublishBegins, PublishReturns
  <1>5. ASSUME NEW p \in Pubs, Start(p) \/ \E s \in Subs : Skip(p, s) \/ Check(p, s) PROVE ClosedInv'
    BY <1>5 DEF Start, Skip, Check
  <1>6. CASE \/ \E p \in Pubs : PublisherCancel(p) \/ ReusePayload(p)
             \/ \E s \in Subs, p \in Pubs : RunHandler(s, p)
             \/ UNCHANGED vars
    BY <1>6 DEF PublisherCancel, ReusePayload, RunHandler, vars
  <1> QED BY <1>1, <1>2, <1>3, <1>4, <1>5, <1>6 DEF Next, PublishStep

-----------------------------------------------------------------------------
(* The publishers.                                                         *)

\* Steps of others only end subscriptions, or begin them.
LEMMA PubStays ==
  ASSUME IInv, NEW p \in Pubs, UNCHANGED <<ppc, todo, cur, got, audience>>,
         \A s \in Subs : (spc[s] = "ok" => spc'[s] = "ok") /\ (Done(s) => Done(s)')
  PROVE  PubInv(p)'
  BY DEF IInv, TypeOK, PubInv

\* A Publish keeps account of its audience, whatever the others do.
LEMMA PubStep == IInv /\ [Next]_vars => \A p \in Pubs : PubInv(p)'
  <1> SUFFICES ASSUME IInv, [Next]_vars, NEW p \in Pubs PROVE PubInv(p)'
    OBVIOUS
  <1> USE DEF IInv, TypeOK
  <1>1. CASE \/ \E s \in Subs : SubscribeClosed(s) \/ Subscribe(s) \/ WatchStep(s) \/ UserCancel(s)
             \/ Close \/ \E q \in Pubs : PublisherCancel(q) \/ ReusePayload(q)
             \/ \E s \in Subs, q \in Pubs : RunHandler(s, q)
             \/ UNCHANGED vars
    <2>1. UNCHANGED <<ppc, todo, cur, got, audience>>
      BY <1>1 DEF SubscribeClosed, Subscribe, WatchStep, WatchDone, WatchClosed, RemoveSubscription,
                  UserCancel, Close, PublisherCancel, ReusePayload, RunHandler, vars, pubs
    <2>2. \A s \in Subs : (spc[s] = "ok" => spc'[s] = "ok") /\ (Done(s) => Done(s)')
      BY <1>1 DEF SubscribeClosed, Subscribe, WatchStep, WatchDone, WatchClosed, RemoveSubscription,
                  UserCancel, Close, PublisherCancel, ReusePayload, RunHandler, vars, state, CancelAll, Done
    <2> QED BY <2>1, <2>2, PubStays
  <1>2. ASSUME NEW q \in Pubs, PublishStep(q), q # p PROVE PubInv(p)'
    <2>1. /\ spc' = spc /\ userDone' = userDone /\ cancelled' = cancelled
          /\ ppc'[p] = ppc[p] /\ todo'[p] = todo[p] /\ cur'[p] = cur[p] /\ audience'[p] = audience[p]
      BY <1>2 DEF PublishStep, PublishFails, PublishBegins, Start, PublishReturns, Skip, Check, state
    <2>2. \A s \in Subs : got'[s][p] = got[s][p]
      <3>1. CASE got' = got
        BY <3>1
      <3>2. CASE Start(q)
        <4>1. cur[q] \in Subs
          BY <3>2 DEF Start, PubInv
        <4> QED BY <1>2, <3>2, <4>1 DEF Start
      <3> QED BY <1>2, <3>1, <3>2 DEF PublishStep, PublishFails, PublishBegins, PublishReturns, Skip, Check
    <2> QED BY <2>1, <2>2 DEF PubInv, Done
  <1>3. CASE PublishFails(p) \/ PublishReturns(p)
    BY <1>3 DEF PublishFails, PublishReturns, PubInv
  <1>4. CASE PublishBegins(p)
    <2>1. /\ ppc[p] = "idle" /\ ppc'[p] = "loop" /\ todo'[p] = subs[PubTopic[p]]
          /\ audience'[p] = subs[PubTopic[p]] \cap Live
          /\ got' = got /\ spc' = spc /\ userDone' = userDone /\ cancelled' = cancelled
      BY <1>4 DEF PublishBegins, state
    <2>2. PubTopic[p] \in Topics /\ subs[PubTopic[p]] \subseteq Subs
      BY MemBrokerAssumption
    <2>3. \A s \in subs[PubTopic[p]] : spc[s] = "ok"
      BY <2>2 DEF EntriesAreWatched, SubInv
    <2> QED BY <2>1, <2>2, <2>3 DEF PubInv, Live, Done
  <1>5. ASSUME NEW s \in Subs, Skip(p, s) PROVE PubInv(p)'
    BY <1>5 DEF Skip, ContinueAfter, PubInv, Done, state
  <1>6. ASSUME NEW s \in Subs, Check(p, s) PROVE PubInv(p)'
    BY <1>6 DEF Check, PubInv, Done, state
  <1>7. CASE Start(p)
    <2>1. /\ ppc[p] = "start" /\ ppc'[p] = "loop" /\ todo' = todo /\ audience' = audience
          /\ spc' = spc /\ userDone' = userDone /\ cancelled' = cancelled
      BY <1>7 DEF Start, state
    <2>2. cur[p] \in Subs /\ cur[p] \notin todo[p] /\ got[cur[p]][p] = 0
      BY <2>1 DEF PubInv
    <2>3. \A s \in Subs : got'[s][p] = IF s = cur[p] THEN 1 ELSE got[s][p]
      BY <1>7, <2>2 DEF Start
    <2> QED BY <2>1, <2>2, <2>3 DEF PubInv, Done
  <1> QED BY <1>1, <1>2, <1>3, <1>4, <1>5, <1>6, <1>7 DEF Next, PublishStep

\* The invariant holds in a new broker.
LEMMA InitInv == Init => IInv
  <1> SUFFICES ASSUME Init PROVE IInv
    OBVIOUS
  <1> USE DEF Init, NoSubscriptions
  <1>1. TypeOK
    BY DEF TypeOK
  <1>2. EntriesAreWatched /\ LiveIsRegistered /\ SubInv /\ ClosedInv
    BY DEF EntriesAreWatched, LiveIsRegistered, Live, SubInv, ClosedInv
  <1>3. \A p \in Pubs : PubInv(p)
    BY DEF PubInv
  <1> QED BY <1>1, <1>2, <1>3 DEF IInv

\* IInv is inductive: the registry, the watchers and the publishers.
THEOREM Inductive == Spec => []IInv
  <1>1. IInv /\ [Next]_vars => IInv'
    BY TypeStep, RegistryStep, ClosedStep, PubStep DEF IInv
  <1> QED BY <1>1, InitInv, PTL DEF Spec

\* The types of the broker's state.
THEOREM TypeCorrect == Spec => []TypeOK
  <1>1. IInv => TypeOK
    BY DEF IInv
  <1> QED BY <1>1, Inductive, PTL

\* Every entry of m.subs has its watcher, for any number of subscriptions.
THEOREM Watched == Spec => []EntriesAreWatched
  <1>1. IInv => EntriesAreWatched
    BY DEF IInv
  <1> QED BY <1>1, Inductive, PTL

\* Every live subscription has an entry.
THEOREM LiveRegistered == Spec => []LiveIsRegistered
  <1>1. IInv => LiveIsRegistered
    BY DEF IInv
  <1> QED BY <1>1, Inductive, PTL

-----------------------------------------------------------------------------
(* Payloads.                                                               *)

\* The slice that the handlers of a Publish share is only written to by one of them, and
\* who found it changed was not the one who wrote.
CopyInv ==
  /\ \A p \in Pubs : Slice(p) \in dirty => \E w \in Writers : <<w, p>> \in ran
  /\ PayloadIntact

\* A handler finds the payload as it was published, unless another handler of the same
\* Publish wrote into the slice that they share: for any publishers, handlers and writers.
THEOREM PayloadKept == Spec => []PayloadIntact
  <1>1. Init => CopyInv
    BY DEF Init, CopyInv, PayloadIntact
  <1>2. CopyInv /\ [Next]_vars => CopyInv'
    <2> SUFFICES ASSUME CopyInv, [Next]_vars PROVE CopyInv'
      OBVIOUS
    <2> USE DEF CopyInv, PayloadIntact
    <2>1. ASSUME NEW s \in Subs, NEW p \in Pubs, RunHandler(s, p) PROVE CopyInv'
      <3>1. <<s, p>> \notin ran /\ ran' = ran \cup {<<s, p>>}
        BY <2>1 DEF RunHandler
      <3>2. ASSUME NEW q \in Pubs, Slice(q)' \in dirty'
            PROVE  \E w \in Writers : <<w, q>> \in ran'
        <4>1. Slice(q) \in dirty \/ (s \in Writers /\ q = p)
          BY <2>1, <3>2 DEF RunHandler, Slice
        <4> QED BY <3>1, <4>1
      <3>3. ASSUME NEW x \in spoiled'
            PROVE  \E w \in Writers : w # x[1] /\ <<w, x[2]>> \in ran'
        <4>1. CASE x \in spoiled
          BY <3>1, <4>1
        <4>2. CASE x \notin spoiled
          <5>1. x = <<s, p>> /\ Slice(p) \in dirty
            BY <2>1, <3>3, <4>2 DEF RunHandler
          <5>2. PICK w \in Writers : <<w, p>> \in ran
            BY <5>1
          <5>3. w # s
            BY <3>1, <5>2
          <5> QED BY <3>1, <5>1, <5>2, <5>3
        <4> QED BY <4>1, <4>2
      <3> QED BY <3>2, <3>3
    <2>2. ASSUME NEW p \in Pubs, ReusePayload(p) PROVE CopyInv'
      BY <2>2 DEF ReusePayload, Slice, CallersSlice
    <2>3. CASE UNCHANGED data
      BY <2>3 DEF data, Slice
    <2> QED BY <2>1, <2>2, <2>3
        DEF Next, SubscribeClosed, Subscribe, WatchStep, WatchDone, WatchClosed, RemoveSubscription,
            UserCancel, Close, PublishStep, PublishFails, PublishBegins, Start, PublishReturns, Skip,
            Check, PublisherCancel, vars, data
  <1>3. CopyInv => PayloadIntact
    BY DEF CopyInv
  <1> QED BY <1>1, <1>2, <1>3, PTL DEF Spec

-----------------------------------------------------------------------------
(* The refinement, action by action.                                       *)

\* What the interface sees of the subscriptions and the Publish calls.
LEMMA Seen ==
  ASSUME TypeOK
  PROVE  /\ Abstract!Active = Live
         /\ \A s \in Subs : sub[s] = IF spc[s] = "ok" THEN IF Done(s) THEN "ended" ELSE "active" ELSE spc[s]
         /\ \A p \in Pubs : pub[p] = IF ppc[p] \in {"loop", "start"} THEN "sending" ELSE ppc[p]
         /\ due = {x \in Subs \X Pubs : ppc[x[2]] = "start" /\ cur[x[2]] = x[1]}
  BY DEF Abstract!Active, Live, sub, pub, due, TypeOK

\* The handlers about to be started change with the Publish calls only.
LEMMA DueStays == ASSUME UNCHANGED <<ppc, cur>> PROVE due' = due
  BY DEF due

\* A Subscribe begins a subscription, that is over at once if its context is done.
LEMMA SubscribeStep ==
  ASSUME IInv, NEW s \in Subs, Subscribe(s) \/ SubscribeClosed(s)
  PROVE  Abstract!Subscribe(s)
  <1> USE DEF IInv, TypeOK, pubs
  <1>1. UNCHANGED <<closed, ppc, cur, audience, got, userDone, cancelled>> /\ spc[s] = "idle"
    BY DEF Subscribe, SubscribeClosed
  <1>2. pub' = pub /\ sub[s] = "idle" /\ due' = due
    BY <1>1, DueStays DEF pub, sub
  <1> DEFINE r == IF closed THEN "errClosed" ELSE IF Done(s) THEN "ended" ELSE "active"
  <1>3. sub' = [sub EXCEPT ![s] = r]
    <2>1. spc' = [spc EXCEPT ![s] = IF closed THEN "errClosed" ELSE "ok"]
      BY DEF Subscribe, SubscribeClosed
    <2> QED BY <1>1, <2>1 DEF sub, Done
  <1>4. r \in {"active", "ended", "error", "errClosed"} /\ (r = "errClosed" <=> closed) /\ r # "error"
    OBVIOUS
  <1> HIDE DEF r
  <1> QED BY <1>1, <1>2, <1>3, <1>4 DEF Abstract!Subscribe

\* The end of a context ends a live subscription, and is not seen otherwise.
LEMMA CancelStep ==
  ASSUME IInv, NEW s \in Subs, UserCancel(s)
  PROVE  Abstract!Cancel(s) \/ UNCHANGED Abstract!vars
  <1> USE DEF IInv, TypeOK, pubs
  <1>1. UNCHANGED <<closed, ppc, cur, audience, got, spc, cancelled>> /\ userDone' = userDone \cup {s}
    BY DEF UserCancel
  <1>2. pub' = pub /\ due' = due
    BY <1>1, DueStays DEF pub
  <1>3. CASE s \in Live
    <2>1. sub[s] = "active" /\ sub' = [sub EXCEPT ![s] = "ended"]
      BY <1>1, <1>3 DEF sub, Done, Live
    <2> QED BY <1>1, <1>2, <2>1 DEF Abstract!Cancel
  <1>4. CASE s \notin Live
    <2>1. sub' = sub
      BY <1>1, <1>4 DEF sub, Done, Live
    <2> QED BY <1>1, <1>2, <2>1 DEF Abstract!vars
  <1> QED BY <1>3, <1>4

\* A watcher cancels nothing that is not over.
LEMMA WatcherStep ==
  ASSUME IInv, NEW s \in Subs, WatchStep(s)
  PROVE  UNCHANGED Abstract!vars
  <1> USE DEF IInv, TypeOK, pubs
  <1>1. \/ cancelled' = cancelled
        \/ cancelled' = cancelled \cup {s} /\ (spc[s] = "ok" => Done(s))
        \/ cancelled' = cancelled \cup (subs[SubTopic[s]] \cap {s}) /\ Done(s)
    BY DEF WatchStep, WatchDone, WatchClosed, RemoveSubscription, CancelAll, ClosedInv, SubInv
  <1>2. UNCHANGED <<closed, ppc, cur, audience, got, spc, userDone>>
    BY DEF WatchStep, WatchDone, WatchClosed, RemoveSubscription
  <1>3. \A x \in Subs : spc[x] = "ok" => (Done(x)' <=> Done(x))
    BY <1>1, <1>2 DEF Done
  <1>4. sub' = sub /\ pub' = pub /\ due' = due
    BY <1>2, <1>3, DueStays DEF sub, pub
  <1> QED BY <1>2, <1>4 DEF Abstract!vars

\* Close ends every live subscription: all of them have entries.
LEMMA CloseStep ==
  ASSUME IInv, Close
  PROVE  Abstract!Close
  <1> USE DEF IInv, TypeOK, pubs
  <1>1. /\ UNCHANGED <<ppc, cur, audience, got, spc, userDone>> /\ ~closed /\ closed' = TRUE
        /\ cancelled' = cancelled \cup UNION {subs[t] : t \in Topics}
    BY DEF Close, CancelAll
  <1>2. ASSUME NEW x \in Subs, spc[x] = "ok" PROVE Done(x)'
    <2>1. Done(x) \/ x \in subs[SubTopic[x]]
      BY <1>2 DEF LiveIsRegistered, Live
    <2> QED BY <1>1, <2>1, MemBrokerAssumption DEF Done
  <1>3. sub' = [s \in Subs |-> IF s \in Abstract!Active THEN "ended" ELSE sub[s]]
    BY <1>1, <1>2, Seen DEF sub, Live
  <1>4. pub' = pub /\ due' = due /\ due = {}
    BY <1>1, DueStays DEF pub, due, Close, NoReaders
  <1> QED BY <1>1, <1>3, <1>4 DEF Abstract!Close

\* A Publish that fails has done nothing.
LEMMA FailStep ==
  ASSUME IInv, NEW p \in Pubs, PublishFails(p)
  PROVE  Abstract!PublishFails(p)
  <1> USE DEF IInv, TypeOK
  <1>1. /\ UNCHANGED <<closed, audience, got, spc, userDone, cancelled>>
        /\ cur' = cur /\ ppc[p] = "idle" /\ ppc' = [ppc EXCEPT ![p] = "error"]
    BY DEF PublishFails, state
  <1>2. sub' = sub /\ pub[p] = "idle" /\ pub' = [pub EXCEPT ![p] = "error"] /\ due' = due
    BY <1>1 DEF sub, pub, due, Done
  <1> QED BY <1>1, <1>2 DEF Abstract!PublishFails

\* The audience of a Publish is the live subscriptions of its topic.
LEMMA BeginStep ==
  ASSUME IInv, NEW p \in Pubs, PublishBegins(p)
  PROVE  Abstract!PublishBegins(p)
  <1> USE DEF IInv, TypeOK
  <1>1. /\ UNCHANGED <<closed, got, spc, userDone, cancelled>> /\ ~closed
        /\ cur' = cur /\ ppc[p] = "idle" /\ ppc' = [ppc EXCEPT ![p] = "loop"]
        /\ audience' = [audience EXCEPT ![p] = subs[PubTopic[p]] \cap Live]
    BY DEF PublishBegins, state
  <1>2. sub' = sub /\ pub[p] = "idle" /\ pub' = [pub EXCEPT ![p] = "sending"] /\ due' = due
    BY <1>1 DEF sub, pub, due, Done
  <1>3. subs[PubTopic[p]] \cap Live = {s \in Abstract!Active : SubTopic[s] = PubTopic[p]}
    BY Seen, MemBrokerAssumption DEF EntriesAreWatched, LiveIsRegistered, Live
  <1> QED BY <1>1, <1>2, <1>3 DEF Abstract!PublishBegins

\* A handler that is picked is one of the audience that did not have the payload.
LEMMA PickStep ==
  ASSUME IInv, NEW p \in Pubs, NEW s \in Subs, Check(p, s)
  PROVE  Abstract!Pick(p, s)
  <1> USE DEF IInv, TypeOK
  <1>1. /\ UNCHANGED <<closed, audience, got, spc, userDone, cancelled>>
        /\ ppc[p] = "loop" /\ ppc' = [ppc EXCEPT ![p] = "start"] /\ cur' = [cur EXCEPT ![p] = s]
        /\ s \in todo[p] /\ ~Done(s)
    BY DEF Check, state
  <1>2. sub' = sub /\ pub[p] = "sending" /\ pub' = pub
    BY <1>1 DEF sub, pub, Done
  <1>3. s \in audience[p] \cap Abstract!Active /\ got[s][p] = 0
    BY <1>1, Seen DEF PubInv, Live
  <1>4. due' = due \cup {<<s, p>>} /\ <<s, p>> \notin due
    BY <1>1 DEF due
  <1> QED BY <1>1, <1>2, <1>3, <1>4 DEF Abstract!Pick

\* It is started once.
LEMMA StartStep ==
  ASSUME IInv, NEW p \in Pubs, Start(p)
  PROVE  cur[p] \in Subs /\ Abstract!Start(p, cur[p])
  <1> USE DEF IInv, TypeOK
  <1>1. /\ UNCHANGED <<closed, audience, spc, userDone, cancelled>>
        /\ ppc[p] = "start" /\ ppc' = [ppc EXCEPT ![p] = "loop"]
        /\ cur' = [cur EXCEPT ![p] = None]
        /\ got' = [got EXCEPT ![cur[p]][p] = @ + 1]
    BY DEF Start, state
  <1>2. sub' = sub /\ pub' = pub
    BY <1>1 DEF sub, pub, Done
  <1>3. cur[p] \in Subs /\ got[cur[p]][p] = 0
    BY <1>1 DEF PubInv
  <1>4. due' = due \ {<<cur[p], p>>} /\ <<cur[p], p>> \in due
    BY <1>1, <1>3 DEF due
  <1>5. got' = [got EXCEPT ![cur[p]][p] = 1]
    BY <1>1, <1>3
  <1> QED BY <1>1, <1>2, <1>3, <1>4, <1>5 DEF Abstract!Start

\* A Publish returns when all of its audience that still lives has the payload.
LEMMA ReturnStep ==
  ASSUME IInv, NEW p \in Pubs, PublishReturns(p)
  PROVE  Abstract!PublishReturns(p)
  <1> USE DEF IInv, TypeOK
  <1>1. /\ UNCHANGED <<closed, audience, got, spc, userDone, cancelled>> /\ todo[p] = {}
        /\ cur' = cur /\ ppc[p] = "loop" /\ ppc' = [ppc EXCEPT ![p] = "ok"]
    BY DEF PublishReturns, state
  <1>2. sub' = sub /\ pub[p] = "sending" /\ pub' = [pub EXCEPT ![p] = "ok"] /\ due' = due
    BY <1>1 DEF sub, pub, due, Done
  <1>3. \A s \in audience[p] \cap Abstract!Active : got[s][p] = 1
    BY <1>1, Seen DEF PubInv, Live
  <1>4. \A s \in Subs : <<s, p>> \notin due
    BY <1>1 DEF due
  <1> QED BY <1>1, <1>2, <1>3, <1>4 DEF Abstract!PublishReturns

\* The steps that the interface does not show.
LEMMA HiddenStep ==
  ASSUME IInv,
         \/ \E p \in Pubs, s \in Subs : Skip(p, s) \/ RunHandler(s, p)
         \/ \E p \in Pubs : PublisherCancel(p) \/ ReusePayload(p)
         \/ UNCHANGED vars
  PROVE  UNCHANGED Abstract!vars
  <1> USE DEF IInv, TypeOK
  <1>1. UNCHANGED <<closed, audience, got, spc, ppc, cur, userDone, cancelled>>
    BY DEF Skip, RunHandler, PublisherCancel, ReusePayload, vars, state, pubs
  <1>2. sub' = sub /\ pub' = pub /\ due' = due
    BY <1>1, DueStays DEF sub, pub, Done
  <1> QED BY <1>1, <1>2 DEF Abstract!vars

\* A new broker is what the interface begins with.
LEMMA InitPromised == Init => Abstract!Init
  BY DEF Init, Abstract!Init, sub, pub, due

\* The in-memory broker implements the interface: what callers and handlers see of it
\* is what module Broker promises.
THEOREM Implements == Spec => ImplementsBroker
  <1>1. IInv /\ [Next]_vars => [Abstract!Next]_Abstract!vars
    <2> SUFFICES ASSUME IInv, [Next]_vars PROVE [Abstract!Next]_Abstract!vars
      OBVIOUS
    <2>1. ASSUME NEW s \in Subs, SubscribeClosed(s) \/ Subscribe(s) \/ WatchStep(s) \/ UserCancel(s)
          PROVE  [Abstract!Next]_Abstract!vars
      BY <2>1, SubscribeStep, CancelStep, WatcherStep DEF Abstract!Next
    <2>2. ASSUME NEW p \in Pubs, PublishFails(p) \/ PublishBegins(p) \/ Start(p) \/ PublishReturns(p)
          PROVE  [Abstract!Next]_Abstract!vars
      BY <2>2, FailStep, BeginStep, StartStep, ReturnStep DEF Abstract!Next
    <2>3. ASSUME NEW p \in Pubs, NEW s \in Subs, Check(p, s)
          PROVE  [Abstract!Next]_Abstract!vars
      BY <2>3, PickStep DEF Abstract!Next
    <2>4. CASE Close
      BY <2>4, CloseStep DEF Abstract!Next
    <2> QED BY <2>1, <2>2, <2>3, <2>4, HiddenStep DEF Next, PublishStep
  <1> QED BY <1>1, InitPromised, Inductive, PTL DEF Spec, ImplementsBroker, Abstract!Spec
=============================================================================
