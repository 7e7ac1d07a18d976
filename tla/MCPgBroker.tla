----------------------------- MODULE MCPgBroker -----------------------------
(***************************************************************************)
(* Instances of PgBroker for TLC.  The first topic has two subscriptions,  *)
(* so that one can join the other's listener, the second topic has one.    *)
(***************************************************************************)
EXTENDS PgBroker, TLC

CONSTANTS A, B, s1, s2, s3

MCSubTopic == [s \in Subs |-> IF s = s3 THEN B ELSE A]
MCPubTopic == [p \in Pubs |-> A]

\* Around the two limits: accepted by both, by Publish only, by neither.
MCPayloadLens == {NotifyLimit - 1, MaxPayload, MaxPayload + 1}

\* Accepted by both.
MCShort == {NotifyLimit - 1}

\* A connection is lost, or the third Subscribe and the Publish are called, but not both.
\* No call has to be made and no connection lost, so that this leaves out no step of a
\* call or a goroutine that can go on.
MCNext ==
  /\ Next
  /\ breaks' = 0 \/ (spc'[s3] = "idle" /\ \A i \in Pubs : ppc'[i] = "idle")

MCFairSpec == Init /\ [][MCNext]_vars /\ Fairness

Symmetry == Permutations(Conns)
=============================================================================
