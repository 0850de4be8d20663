-------------------------- MODULE ReliableChannel --------------------------
(***************************************************************************)
(* What LSP promises of the direction from a client to a server: on each   *)
(* connection that the server makes for the client, what is read is what   *)
(* was written, in order and once.                                         *)
(***************************************************************************)
EXTENDS Integers, Sequences

CONSTANTS Payload, Conns

VARIABLES written, read

Init == written = <<>> /\ read = [i \in Conns |-> <<>>]

Write ==
  /\ \E p \in Payload : written' = Append(written, p)
  /\ UNCHANGED read

Read(i) ==
  /\ Len(read[i]) < Len(written)
  /\ read' = [read EXCEPT ![i] = Append(@, written[Len(@) + 1])]
  /\ UNCHANGED written

Next == Write \/ \E i \in Conns : Read(i)

Spec == Init /\ [][Next]_<<written, read>>
=============================================================================
