---------------------------- MODULE MCActorSystem ----------------------------
(* Two callers that belong to the first of two systems; one sends two      *)
(* messages, the other one.                                                *)
EXTENDS ActorSystem

CONSTANTS s1, p1

AllAtFirst == [p \in Caller |-> s1]

TwoAndOne == [p \in Caller |-> IF p = p1 THEN 2 ELSE 1]
=============================================================================
