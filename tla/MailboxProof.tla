---------------------------- MODULE MailboxProof ----------------------------
(***************************************************************************)
(* Proofs about Mailbox: its types, that no wakeup is lost, and that it    *)
(* implements the safety part of AtomicQueue, for any set of producers,    *)
(* any finite set of consumers and any number of messages.                 *)
(***************************************************************************)
EXTENDS Mailbox, FiniteSetTheorems, SequenceTheorems, TLAPS

(* A message that Push builds is one of Message.                           *)
LEMMA PushedType ==
  ASSUME TypeOK, NEW p \in Producers, sent[p] < MaxPush
  PROVE  /\ <<p, sent[p] + 1>> \in Message
         /\ sent[p] + 1 \in 0 .. MaxPush
<1>1. sent[p] \in 0 .. MaxPush
  BY Zenon DEF TypeOK
<1>2. sent[p] + 1 \in 1 .. MaxPush
  BY <1>1, PushAssumption
<1> QED  BY <1>2 DEF Message

(* The queue without its first message, and that message, are well typed.  *)
LEMMA PoppedType ==
  ASSUME TypeOK, queue # <<>>
  PROVE  /\ Front \in Message
         /\ Tail(queue) \in Seq(Message)
         /\ Len(Tail(queue)) = Len(queue) - 1
         /\ Len(queue) \in Nat
BY HeadTailProperties, EmptySeq, LenProperties DEF TypeOK, Front

(* Every variable keeps its type under each step of Push, Pop and Close.   *)
THEOREM TypeCorrect == Spec => []TypeOK
<1>1. Init => TypeOK
  <2>1. <<>> \in Seq(Message)
    BY Zenon, EmptySeq
  <2>2. 0 \in 0 .. MaxPush
    BY PushAssumption
  <2> QED  BY Zenon, <2>1, <2>2 DEF Init, TypeOK
<1>2. TypeOK /\ [Next]_vars => TypeOK'
  <2> SUFFICES ASSUME TypeOK, [Next]_vars
               PROVE  TypeOK'
    BY Zenon
  <2>1. ASSUME NEW p \in Producers, Push(p)
        PROVE  TypeOK'
    <3> DEFINE m == <<p, sent[p] + 1>>
    <3>0. m \in Message /\ queue \in Seq(Message)
      BY Zenon, <2>1, PushedType DEF Push, TypeOK
    <3>1. queue' \in Seq(Message)
      <4>1. queue' = queue \/ queue' = Append(queue, m)
        BY Zenon, <2>1 DEF Push
      <4> HIDE DEF m
      <4> QED  BY <3>0, <4>1, AppendProperties
    <3>2. pc' \in [Consumers -> {"idle", "lock", "wait", "woken"}]
      BY Zenon, <2>1 DEF Push, TypeOK, Signal, Wake
    <3>3. sent' \in [Producers -> 0 .. MaxPush]
      BY Zenon, <2>1, PushedType DEF Push, TypeOK
    <3> QED  BY Zenon, <2>1, <3>1, <3>2, <3>3 DEF Push, TypeOK
  <2>2. ASSUME NEW c \in Consumers, PopCall(c) \/ PopWait(c)
        PROVE  TypeOK'
    BY Zenon, <2>2 DEF PopCall, PopWait, TypeOK
  <2>3. ASSUME NEW c \in Consumers, PopClosed(c)
        PROVE  TypeOK'
    BY Zenon, <2>3 DEF PopClosed, TypeOK
  <2>4. ASSUME NEW c \in Consumers, PopMessage(c)
        PROVE  TypeOK'
    BY Zenon, <2>4, PoppedType DEF PopMessage, TypeOK
  <2>5. CASE Close
    BY Zenon, <2>5 DEF Close, Broadcast, Wake, TypeOK
  <2>6. CASE UNCHANGED vars
    BY Zenon, <2>6 DEF vars, TypeOK
  <2> QED  BY Zenon, <2>1, <2>2, <2>3, <2>4, <2>5, <2>6 DEF Next, Pop
<1> QED  BY <1>1, <1>2, PTL DEF Spec

-----------------------------------------------------------------------------
(* The woken consumers can be counted.                                     *)
LEMMA WokenFinite == IsFiniteSet(Woken) /\ Cardinality(Woken) \in Nat
BY Zenon, ConsumersAssumption, FS_Subset, FS_CardinalityType DEF Woken

(* No wakeup is lost (lines 52, 68 and 94 of mailbox.go): the invariant is *)
(* inductive together with the types.  Push adds a message and, if anyone  *)
(* sleeps, a woken consumer; Pop removes a message and at most one woken   *)
(* consumer; a consumer goes to sleep only when the queue is empty.        *)
THEOREM WakeupsKept == Spec => []NoLostWakeup
<1>1. Init => NoLostWakeup
  BY Zenon DEF Init, NoLostWakeup, Waiting
<1>2. TypeOK /\ NoLostWakeup /\ [Next]_vars => NoLostWakeup'
  <2> SUFFICES ASSUME TypeOK, NoLostWakeup, [Next]_vars
               PROVE  NoLostWakeup'
    BY Zenon
  <2>a. IsFiniteSet(Woken) /\ Cardinality(Woken) \in Nat
    BY Zenon, WokenFinite
  <2>b. Len(queue) \in Nat
    BY Zenon, LenProperties DEF TypeOK
  <2>1. ASSUME NEW p \in Producers, Push(p), ~isClosed, Waiting # {}
        PROVE  NoLostWakeup'
    <3>1. PICK c \in Waiting : pc' = Wake({c})
      BY Zenon, <2>1 DEF Push, Signal
    <3>2. c \in Consumers /\ c \notin Woken
      BY Zenon, <3>1 DEF Waiting, Woken
    <3>3. Woken' = Woken \cup {c}
      BY Zenon, <3>1, <3>2 DEF Woken, Wake
    <3>4. Cardinality(Woken') = Cardinality(Woken) + 1
      BY Zenon, <2>a, <3>2, <3>3, FS_AddElement
    <3>5. Len(queue') = Len(queue) + 1
      BY <2>1, PushedType, AppendProperties DEF Push, TypeOK
    <3> QED  BY <2>1, <2>a, <2>b, <3>4, <3>5 DEF Push, NoLostWakeup
  <2>2. ASSUME NEW p \in Producers, Push(p), isClosed \/ Waiting = {}
        PROVE  NoLostWakeup'
    <3>1. pc' = pc /\ Waiting = {}
      BY Zenon, <2>2 DEF Push, Signal, NoLostWakeup
    <3> QED  BY Zenon, <3>1 DEF NoLostWakeup, Waiting
  <2>3. ASSUME NEW c \in Consumers, PopCall(c)
        PROVE  NoLostWakeup'
    <3>1. Waiting' = Waiting /\ Woken' = Woken
      BY Zenon, <2>3 DEF PopCall, Waiting, Woken, TypeOK
    <3> QED  BY Zenon, <2>3, <3>1 DEF PopCall, NoLostWakeup
  <2>4. ASSUME NEW c \in Consumers, PopWait(c)
        PROVE  NoLostWakeup'
    <3>1. Len(queue') = 0 /\ ~isClosed'
      BY Zenon, <2>4 DEF PopWait
    <3>2. IsFiniteSet(Woken') /\ Cardinality(Woken') \in Nat
      BY Zenon, ConsumersAssumption, FS_Subset, FS_CardinalityType DEF Woken
    <3> QED  BY <3>1, <3>2 DEF NoLostWakeup
  <2>5. ASSUME NEW c \in Consumers, PopClosed(c)
        PROVE  NoLostWakeup'
    <3>1. Waiting = {}
      BY Zenon, <2>5 DEF PopClosed, NoLostWakeup
    <3>2. Waiting' = {}
      BY Zenon, <2>5, <3>1 DEF PopClosed, Waiting, TypeOK
    <3> QED  BY Zenon, <3>2 DEF NoLostWakeup
  <2>6. ASSUME NEW c \in Consumers, PopMessage(c)
        PROVE  NoLostWakeup'
    <3>1. Len(queue') = Len(queue) - 1
      BY Zenon, <2>6, PoppedType DEF PopMessage
    <3>2. Waiting' = Waiting /\ Woken' = Woken \ {c}
      BY Zenon, <2>6 DEF PopMessage, AtTest, Waiting, Woken, TypeOK
    <3>3. Cardinality(Woken') >= Cardinality(Woken) - 1 /\ Cardinality(Woken') \in Nat
      <4>1. CASE c \in Woken
        <5>1. IsFiniteSet(Woken \ {c})
              /\ Cardinality(Woken \ {c}) = Cardinality(Woken) - 1
          BY Zenon, <2>a, <4>1, FS_RemoveElement
        <5>2. Cardinality(Woken \ {c}) \in Nat
          BY Zenon, <5>1, FS_CardinalityType
        <5> QED  BY <2>a, <3>2, <5>1, <5>2
      <4>2. CASE c \notin Woken
        <5>1. Woken' = Woken
          BY Zenon, <3>2, <4>2
        <5> QED  BY <2>a, <5>1
      <4> QED  BY Zenon, <4>1, <4>2
    <3> QED  BY <2>6, <2>a, <2>b, <3>1, <3>2, <3>3 DEF PopMessage, NoLostWakeup
  <2>7. CASE Close
    <3>1. Waiting' = {}
      BY Zenon, <2>7 DEF Close, Broadcast, Wake, Waiting
    <3> QED  BY Zenon, <3>1 DEF NoLostWakeup
  <2>8. CASE UNCHANGED vars
    BY Zenon, <2>8 DEF vars, NoLostWakeup, Waiting, Woken
  <2> QED  BY Zenon, <2>1, <2>2, <2>3, <2>4, <2>5, <2>6, <2>7, <2>8
           DEF Next, Pop
<1> QED  BY <1>1, <1>2, TypeCorrect, PTL DEF Spec

-----------------------------------------------------------------------------
(* What Push, Pop and Close do is one step of the queue or none: a wait, a *)
(* wakeup and a Push to a closed mailbox do not show.                      *)
THEOREM ImplementsQueue == Spec => Queue!SafetySpec
<1> DEFINE popping == {c \in Consumers : pc[c] # "idle"}
<1>1. Init => Queue!Init
  BY Zenon DEF Init, Queue!Init
<1>2. TypeOK /\ [Next]_vars => [Queue!Next]_(Queue!vars)
  <2> SUFFICES ASSUME TypeOK, [Next]_vars
               PROVE  Queue!Next \/ UNCHANGED Queue!vars
    BY Zenon DEF Queue!vars
  <2>1. ASSUME NEW p \in Producers, Push(p)
        PROVE  Queue!Next \/ UNCHANGED Queue!vars
    <3>1. popping' = popping
      BY Zenon, <2>1 DEF Push, Signal, Wake, Waiting, TypeOK
    <3>2. CASE isClosed
      BY Zenon, <2>1, <3>1, <3>2 DEF Push, Queue!vars
    <3>3. CASE ~isClosed
      <4>1. Queue!Put(<<p, sent[p] + 1>>)
        BY Zenon, <2>1, <3>1, <3>3 DEF Push, Queue!Put
      <4> QED  BY Zenon, <2>1, <4>1, PushedType DEF Push, Queue!Next
    <3> QED  BY Zenon, <3>2, <3>3
  <2>2. ASSUME NEW c \in Consumers, PopCall(c)
        PROVE  Queue!Next
    <3>1. c \notin popping /\ popping' = popping \cup {c}
      BY Zenon, <2>2 DEF PopCall, TypeOK
    <3> QED  BY Zenon, <2>2, <3>1 DEF PopCall, Queue!Next, Queue!Begin
  <2>3. ASSUME NEW c \in Consumers, PopWait(c)
        PROVE  UNCHANGED Queue!vars
    <3>1. popping' = popping
      BY Zenon, <2>3 DEF PopWait, AtTest, TypeOK
    <3> QED  BY Zenon, <2>3, <3>1 DEF PopWait, Queue!vars
  <2>4. ASSUME NEW c \in Consumers, PopClosed(c)
        PROVE  Queue!Next
    <3>1. c \in popping /\ popping' = popping \ {c}
      BY Zenon, <2>4 DEF PopClosed, AtTest, TypeOK
    <3> QED  BY Zenon, <2>4, <3>1 DEF PopClosed, Queue!Next, Queue!Refuse
  <2>5. ASSUME NEW c \in Consumers, PopMessage(c)
        PROVE  Queue!Next
    <3>1. c \in popping /\ popping' = popping \ {c}
      BY Zenon, <2>5 DEF PopMessage, AtTest, TypeOK
    <3>2. Front = Head(queue)
      BY <2>5 DEF PopMessage, Front
    <3> QED  BY Zenon, <2>5, <3>1, <3>2 DEF PopMessage, Queue!Next, Queue!Take
  <2>6. CASE Close
    <3>1. popping' = popping
      BY Zenon, <2>6 DEF Close, Broadcast, Wake, Waiting, TypeOK
    <3> QED  BY Zenon, <2>6, <3>1 DEF Close, Queue!Next, Queue!Shut
  <2>7. CASE UNCHANGED vars
    BY Zenon, <2>7 DEF vars, Queue!vars
  <2> QED  BY Zenon, <2>1, <2>2, <2>3, <2>4, <2>5, <2>6, <2>7 DEF Next, Pop
<1> QED  BY <1>1, <1>2, TypeCorrect, PTL DEF Spec, Queue!SafetySpec
=============================================================================
