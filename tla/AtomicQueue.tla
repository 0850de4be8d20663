---------------------------- MODULE AtomicQueue ----------------------------
(***************************************************************************)
(* What actor/mailbox.go promises: an unbounded first-in first-out queue   *)
(* that any goroutine may use, with a Pop that blocks while the queue is   *)
(* empty and ends with nothing once the queue is shut.  Every operation is *)
(* one step, there is no mutex and nobody has to be woken.                 *)
(***************************************************************************)
EXTENDS Sequences

CONSTANTS
  Message,     \* what can be put in the queue
  Consumers,   \* the goroutines that call Pop
  Nil          \* the answer of a Pop that found the queue shut

VARIABLES
  contents,    \* the messages in the queue, oldest first
  shut,        \* whether the queue was shut
  popping,     \* the consumers with a Pop in progress
  answer       \* the answer of each consumer's last Pop

vars == <<contents, shut, popping, answer>>

Init ==
  /\ contents = <<>>
  /\ shut = FALSE
  /\ popping = {}
  /\ answer = [c \in Consumers |-> Nil]

Put(m) ==
  /\ ~shut
  /\ contents' = Append(contents, m)
  /\ UNCHANGED <<shut, popping, answer>>

Begin(c) ==
  /\ c \notin popping
  /\ popping' = popping \cup {c}
  /\ UNCHANGED <<contents, shut, answer>>

Take(c) ==
  /\ c \in popping
  /\ ~shut
  /\ contents # <<>>
  /\ answer' = [answer EXCEPT ![c] = Head(contents)]
  /\ contents' = Tail(contents)
  /\ popping' = popping \ {c}
  /\ UNCHANGED shut

Refuse(c) ==
  /\ c \in popping
  /\ shut
  /\ answer' = [answer EXCEPT ![c] = Nil]
  /\ popping' = popping \ {c}
  /\ UNCHANGED <<contents, shut>>

Shut ==
  /\ ~shut
  /\ shut' = TRUE
  /\ UNCHANGED <<contents, popping, answer>>

Next ==
  \/ \E m \in Message : Put(m)
  \/ \E c \in Consumers : Begin(c) \/ Take(c) \/ Refuse(c)
  \/ Shut

(* The safety part: order, no loss, no duplication, nothing after Close.   *)
SafetySpec == Init /\ [][Next]_vars

(* Some waiting Pop gets a message that is there, and after Close every    *)
(* Pop ends.                                                               *)
Spec ==
  /\ SafetySpec
  /\ WF_vars(\E c \in Consumers : Take(c))
  /\ \A c \in Consumers : WF_vars(Refuse(c))
=============================================================================
