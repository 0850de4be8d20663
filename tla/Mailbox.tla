------------------------------ MODULE Mailbox ------------------------------
(***************************************************************************)
(* actor/mailbox.go: a queue under a mutex and a condition variable.       *)
(*                                                                         *)
(* Everything between Lock and Unlock is one step, except that cond.Wait   *)
(* releases the mutex, sleeps, and takes the mutex again.  A consumer is   *)
(*   "idle"   outside Pop,                                                 *)
(*   "lock"   in Pop, about to take the mutex for the first time,          *)
(*   "wait"   in cond.Wait, on the list of the condition variable,         *)
(*   "woken"  in cond.Wait, off the list, about to take the mutex again.   *)
(* A goroutine that takes the mutex may do so before one that was woken    *)
(* earlier, so a woken consumer tests the queue again.                     *)
(***************************************************************************)
EXTENDS Integers, Sequences, FiniteSets

CONSTANTS
  Producers,   \* the goroutines that call Push
  Consumers,   \* the goroutines that call Pop
  MaxPush,     \* bound on the calls of Push of a producer
  Nil          \* the answer (nil, false) of Pop

(* A message is the n-th one its producer pushes, so all are distinct.     *)
Message == Producers \X (1 .. MaxPush)

ASSUME ConsumersAssumption == IsFiniteSet(Consumers)
ASSUME PushAssumption == MaxPush \in Nat
ASSUME NilAssumption == Nil \notin Message

VARIABLES
  queue,       \* mailbox.queue
  isClosed,    \* mailbox.isClosed
  pc,          \* where each consumer is
  answer,      \* what the last Pop of each consumer returned
  sent         \* the number of Push calls of each producer

vars == <<queue, isClosed, pc, answer, sent>>

Init ==
  /\ queue = <<>>
  /\ isClosed = FALSE
  /\ pc = [c \in Consumers |-> "idle"]
  /\ answer = [c \in Consumers |-> Nil]
  /\ sent = [p \in Producers |-> 0]

-----------------------------------------------------------------------------
(* The condition variable (package sync).                                  *)

Waiting == {c \in Consumers : pc[c] = "wait"}

Woken == {c \in Consumers : pc[c] = "woken"}

Wake(S) == [c \in Consumers |-> IF c \in S THEN "woken" ELSE pc[c]]

(* Mutant: Push without Signal.                                            *)
SignalNobody == {pc}

(* cond.Signal wakes one goroutine of the list, if there is any.           *)
Signal == {Wake({c}) : c \in Waiting} \cup (IF Waiting = {} THEN {pc} ELSE {})

(* cond.Broadcast wakes all of them.                                       *)
Broadcast == Wake(Waiting)

-----------------------------------------------------------------------------
(* The operations of the mailbox.                                          *)

(* Mutant: Pop takes the newest message instead of the oldest.             *)
FrontNewest == queue[Len(queue)]

(* The message that Pop returns.                                           *)
Front == queue[1]

Push(p) ==
  /\ sent[p] < MaxPush
  /\ sent' = [sent EXCEPT ![p] = @ + 1]
  /\ \/ isClosed /\ UNCHANGED <<queue, pc>>
     \/ /\ ~isClosed
        /\ queue' = Append(queue, <<p, sent[p] + 1>>)
        /\ pc' \in Signal
  /\ UNCHANGED <<isClosed, answer>>

PopCall(c) ==
  /\ pc[c] = "idle"
  /\ pc' = [pc EXCEPT ![c] = "lock"]
  /\ UNCHANGED <<queue, isClosed, answer, sent>>

AtTest(c) == pc[c] \in {"lock", "woken"}

PopWait(c) ==
  /\ AtTest(c)
  /\ queue = <<>> /\ ~isClosed
  /\ pc' = [pc EXCEPT ![c] = "wait"]
  /\ UNCHANGED <<queue, isClosed, answer, sent>>

PopClosed(c) ==
  /\ AtTest(c)
  /\ isClosed
  /\ answer' = [answer EXCEPT ![c] = Nil]
  /\ pc' = [pc EXCEPT ![c] = "idle"]
  /\ UNCHANGED <<queue, isClosed, sent>>

PopMessage(c) ==
  /\ AtTest(c)
  /\ ~isClosed
  /\ queue # <<>>
  /\ answer' = [answer EXCEPT ![c] = Front]
  /\ queue' = Tail(queue)
  /\ pc' = [pc EXCEPT ![c] = "idle"]
  /\ UNCHANGED <<isClosed, sent>>

(* A second Close changes nothing.                                         *)
Close ==
  /\ ~isClosed
  /\ isClosed' = TRUE
  /\ pc' = Broadcast
  /\ UNCHANGED <<queue, answer, sent>>

Pop(c) == PopWait(c) \/ PopClosed(c) \/ PopMessage(c)

Next ==
  \/ \E p \in Producers : Push(p)
  \/ \E c \in Consumers : PopCall(c) \/ Pop(c)
  \/ Close

(* A goroutine that waits for the mutex gets it: sync.Mutex hands it over  *)
(* to the oldest waiter when that one has waited for a millisecond.        *)
(* Nothing says that anybody ever calls Push, Pop or Close.                *)
Fairness == \A c \in Consumers : WF_vars(Pop(c))

Spec == Init /\ [][Next]_vars /\ Fairness

-----------------------------------------------------------------------------
TypeOK ==
  /\ queue \in Seq(Message)
  /\ isClosed \in BOOLEAN
  /\ pc \in [Consumers -> {"idle", "lock", "wait", "woken"}]
  /\ answer \in [Consumers -> Message \cup {Nil}]
  /\ sent \in [Producers -> 0 .. MaxPush]

(* No wakeup is lost: while a consumer sleeps in cond.Wait (line 68), each *)
(* message in the queue has a consumer of its own that was woken for it    *)
(* (line 52), even when others took messages in between; and after Close   *)
(* (line 94) nobody sleeps.                                                *)
NoLostWakeup ==
  Waiting # {} => ~isClosed /\ Len(queue) <= Cardinality(Woken)

(* The mailbox behaves as the queue of AtomicQueue: what Pop returns is    *)
(* the oldest message pushed and not yet popped, nothing is lost or        *)
(* popped twice, some waiting Pop gets a message that is there, and every  *)
(* Pop ends after Close (lines 39 to 96).                                  *)
Queue == INSTANCE AtomicQueue WITH
  contents <- queue, shut <- isClosed,
  popping <- {c \in Consumers : pc[c] # "idle"}

IsAtomicQueue == Queue!Spec
=============================================================================
