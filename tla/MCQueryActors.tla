--------------------------- MODULE MCQueryActors ---------------------------
(* Values for the constants of QueryActors.                                *)
EXTENDS QueryActors

(* A server with a second actor, which is not its representative.          *)
TwoAndOne == <<2, 1>>

OneEach == <<1, 1>>
=============================================================================
