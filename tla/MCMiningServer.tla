--------------------------- MODULE MCMiningServer ---------------------------
(* Values for the constants of MiningServer.                               *)
EXTENDS MiningServer, TLC

CONSTANTS c1, c2

(* The hashes fall along a range; the least one of 0 .. 5 comes twice, in  *)
(* different pieces.                                                       *)
FallingTwice ==
  [c \in Client |-> [n \in Nonce |-> Modulus - (IF n = 3 THEN 5 ELSE n)]]

(* One client with a request of several pieces, and one whose range ends   *)
(* at the largest integer, for which the server's size wraps to 0, so that *)
(* it goes out in one piece, and the miner's bound to 0.                   *)
LongAndLargest == (c1 :> 5) @@ (c2 :> Modulus - 1)
=============================================================================
