---------------------------- MODULE MCMemBroker -----------------------------
(***************************************************************************)
(* Instances of MemBroker for TLC: two subscriptions and the publishers on *)
(* one topic, one subscription on another.                                 *)
(***************************************************************************)
EXTENDS MemBroker

CONSTANTS A, B, s1, s2, s3

MCSubTopic == [s \in Subs |-> IF s = s3 THEN B ELSE A]
MCPubTopic == [p \in Pubs |-> A]
=============================================================================
