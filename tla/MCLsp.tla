------------------------------- MODULE MCLsp -------------------------------
(* Values for the constants of Lsp.                                        *)
EXTENDS Lsp

(* The client alone writes more than a window of two holds; two payloads   *)
(* cross one of the server; the server alone writes two.                   *)
UpToThree ==
  {[client |-> 3, server |-> 0], [client |-> 2, server |-> 1],
   [client |-> 0, server |-> 2]}

OneAndNone == {[client |-> 1, server |-> 0]}
=============================================================================
