-------------------------------- MODULE MCCmud --------------------------------
(* Two players in a game: a name and one that begins with it, or a name    *)
(* and one that continues it after the delimiter.  Two kinds of computers  *)
(* and three levels; prices, powers, healths and the rate of breaking are  *)
(* scaled down.                                                            *)
EXTENDS Cmud

CONSTANTS al, alex, x, gpu

Names == {<<al>>, <<alex>>, <<al, x>>}

Pairs == {{<<al>>, <<alex>>}, {<<al>>, <<al, x>>}}

LongerNames ==
  [part \in {al, alex, x} |-> IF part = al THEN {al, alex} ELSE {part}]

Prices == [h \in Hardware |-> IF h = cpu THEN 1 ELSE 2]

Powers == [h \in Hardware |-> IF h = cpu THEN 1 ELSE 2]

Healths == <<2, 1, 0>>

Budgets == [p \in Player |-> IF p = <<al>> THEN 1 ELSE 3]
=============================================================================
