-------------------------- MODULE MCKeyValueServer --------------------------
(* KeyValueServer with two callers that both call CountActive; one of them *)
(* also calls CountDropped.                                                *)
EXTENDS KeyValueServer

CONSTANTS p1, p2

OneCallsBoth ==
  [p \in Caller |-> IF p = p1 THEN {"activeClient", "dropped_client_chan"}
                    ELSE {"activeClient"}]
=============================================================================
