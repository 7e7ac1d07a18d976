------------------------------- MODULE Broker -------------------------------
(***************************************************************************)
(* What the interface of package pubsub promises its callers               *)
(* (src/pubsub/pubsub.go), with no lock, goroutine, map or connection in   *)
(* sight.                                                                  *)
(*                                                                         *)
(* A handler is given each payload once at most, and only if it was active *)
(* when it was picked for it, after Publish was called.  A cancelled       *)
(* subscription is over, Close ends all of them, and nobody is picked from *)
(* then on.  What a broker in memory promises besides: a Publish that      *)
(* returns nil has handed its payload to every subscription of its topic   *)
(* that was active when it began and still is, nobody else gets it, and no *)
(* handler is started once Publish, or Close, has returned.  With a server *)
(* in between, Publish returns when the payload is sent, or may have been. *)
(***************************************************************************)
EXTENDS Naturals

CONSTANTS
  Topics,    \* topic names
  Subs,      \* the Subscribe calls
  Pubs,      \* the Publish calls, each also standing for its payload
  SubTopic,  \* the topic of each Subscribe call
  PubTopic,  \* the topic of each Publish call
  Remote     \* a server is between the publishers and the handlers

VARIABLES
  closed,    \* Close was called
  sub,       \* the state of each subscription
  pub,       \* the state of each Publish call
  audience,  \* the subscriptions a Publish call may be for
  due,       \* the handlers picked for a payload and not started yet
  got        \* how many times each handler was started with each payload

vars == <<closed, sub, pub, audience, due, got>>

Active == {s \in Subs : sub[s] = "active"}

Init ==
  /\ closed = FALSE
  /\ sub = [s \in Subs |-> "idle"]
  /\ pub = [p \in Pubs |-> "idle"]
  /\ audience = [p \in Pubs |-> {}]
  /\ due = {}
  /\ got = [s \in Subs |-> [p \in Pubs |-> 0]]

\* With a context that is done already the subscription is over at once.
Subscribe(s) ==
  /\ sub[s] = "idle"
  /\ \E r \in {"active", "ended", "error", "errClosed"} :
       /\ r = "errClosed" <=> closed
       /\ r = "error" => Remote
       /\ sub' = [sub EXCEPT ![s] = r]
  /\ UNCHANGED <<closed, pub, audience, due, got>>

\* The context of the subscription is cancelled.
Cancel(s) ==
  /\ sub[s] = "active"
  /\ sub' = [sub EXCEPT ![s] = "ended"]
  /\ UNCHANGED <<closed, pub, audience, due, got>>

Close ==
  /\ ~closed
  /\ Remote \/ due = {}
  /\ closed' = TRUE
  /\ sub' = [s \in Subs |-> IF s \in Active THEN "ended" ELSE sub[s]]
  /\ UNCHANGED <<pub, audience, due, got>>

\* The broker is closed, the payload is too large, or the context is done.
PublishFails(p) ==
  /\ pub[p] = "idle"
  /\ \E r \in {"error", "errClosed", "tooLarge"} :
       /\ r = "errClosed" => closed
       /\ r = "tooLarge" => Remote /\ ~closed
       /\ pub' = [pub EXCEPT ![p] = r]
  /\ UNCHANGED <<closed, sub, audience, due, got>>

\* A broker in memory knows whom the payload is for.
PublishBegins(p) ==
  /\ pub[p] = "idle"
  /\ ~closed
  /\ pub' = [pub EXCEPT ![p] = "sending"]
  /\ audience' = [audience EXCEPT ![p] =
                    IF Remote THEN Subs ELSE {s \in Active : SubTopic[s] = PubTopic[p]}]
  /\ UNCHANGED <<closed, sub, due, got>>

Pick(p, s) ==
  /\ pub[p] \in IF Remote THEN {"ok", "error"} ELSE {"sending"}
  /\ s \in audience[p] \cap Active
  /\ got[s][p] = 0 /\ <<s, p>> \notin due
  /\ due' = due \cup {<<s, p>>}
  /\ UNCHANGED <<closed, sub, pub, audience, got>>

\* The handler is started, whatever became of its subscription since.
Start(p, s) ==
  /\ <<s, p>> \in due
  /\ due' = due \ {<<s, p>>}
  /\ got' = [got EXCEPT ![s][p] = 1]
  /\ UNCHANGED <<closed, sub, pub, audience>>

PublishReturns(p) ==
  /\ pub[p] = "sending"
  /\ ~Remote => /\ \A s \in audience[p] \cap Active : got[s][p] = 1
                /\ \A s \in Subs : <<s, p>> \notin due
  /\ \E r \in {"ok", "error"} :
       /\ r = "error" => Remote
       /\ pub' = [pub EXCEPT ![p] = r]
  /\ UNCHANGED <<closed, sub, audience, due, got>>

Next ==
  \/ \E s \in Subs : Subscribe(s) \/ Cancel(s)
  \/ \E p \in Pubs : \/ PublishFails(p) \/ PublishBegins(p) \/ PublishReturns(p)
                     \/ \E s \in Subs : Pick(p, s) \/ Start(p, s)
  \/ Close

Spec == Init /\ [][Next]_vars
=============================================================================
