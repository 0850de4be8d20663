------------------------------- MODULE MCRaft -------------------------------
(* Instances of Raft for TLC. *)
EXTENDS Raft

\* commands, for the configurations with a log
NoCommand  == {}
TwoCommands == 1 .. 2

\* the k-th command put to a leader is k: entries can be told apart
CommandsInOrder ==
    \A i \in Server : electionState[i] = Leader =>
        \A k \in DOMAIN log[i] : log[i][k].command = k

\* followers leave heartbeats in receivedHb.  Where they have no election
\* timeouts and the channel does not fill, no other step depends on whether
\* one was read.
HeartbeatsUnread == \A i \in Server : mainPC[i] # "heartbeat"

\* election timeouts per peer
Once(S) == [i \in 0 .. N - 1 |-> IF i \in S THEN 1 ELSE 0]
AllOnce == Once(0 .. N - 1)
FirstOnce == Once({0})
FirstTwice == [i \in 0 .. N - 1 |-> IF i = 0 THEN 2 ELSE 1]

=============================================================================
