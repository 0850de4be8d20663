-------------------------- MODULE QueryActorsProof --------------------------
(***************************************************************************)
(* Proofs about QueryActors, for any number of servers, actors, keys and   *)
(* puts: the types, that no actor goes back to an older content, and that  *)
(* all actors have the same contents once nothing is on its way.           *)
(***************************************************************************)
EXTENDS QueryActors, SequenceTheorems, TLAPS

(* Every started server has a representative.                              *)
LEMMA RepType ==
  ASSUME NEW s \in Servers
  PROVE  Rep(s) \in Actors
<1>1. 1 \in 1 .. QueryActorCount[s]
  BY CountAssumption
<1> QED  BY <1>1 DEF Rep, Actors, ActorsOf

LEMMA ActorServer ==
  ASSUME NEW a \in Actors
  PROVE  a[1] \in Servers
BY DEF Actors, ActorsOf

LEMMA LocalType ==
  ASSUME NEW s \in Servers
  PROVE  ActorsOf(s) \subseteq Actors
BY Zenon DEF Actors

(* What the messages carry.                                                *)
LEMMA MessageFields ==
  ASSUME NEW m \in Message
  PROVE  /\ m.type = "MIntro" => m.remotes \subseteq Actors
         /\ m.type = "MRIntro" => m.sender \in Actors
         /\ m.type = "MUpdate" => m.puts \in Map
BY Zenon DEF Message

LEMMA MessageTypes ==
  /\ \A R \in SUBSET Actors : MIntro(R) \in Message
  /\ \A s \in Servers : MRIntro(s) \in Message
  /\ MSync \in Message
  /\ \A f \in Map : MUpdate(f) \in Message
BY Zenon, RepType DEF Message, MIntro, MRIntro, MSync, MUpdate

-----------------------------------------------------------------------------
(* The tells keep to the messages that are told and were there before.     *)

LEMMA TellLocalType ==
  ASSUME NEW S, NEW box \in [Actors -> Seq(S)], NEW T, NEW m \in S
  PROVE  TellLocal(box, T, m) \in [Actors -> Seq(S)]
<1>1. \A a \in Actors : Append(box[a], m) \in Seq(S)
  BY Zenon, AppendProperties
<1> QED  BY Zenon, <1>1 DEF TellLocal

LEMMA TellRemoteType ==
  ASSUME NEW S, link \in [Servers -> [Servers -> Seq(S)]],
         NEW s \in Servers, NEW T, NEW m \in S
  PROVE  TellRemote(s, T, m) \in [Servers -> [Servers -> Seq(S)]]
<1> DEFINE row == [t \in Servers |->
             IF Rep(t) \in T THEN Append(link[s][t], m) ELSE link[s][t]]
<1>1. \A t \in Servers : link[s][t] \in Seq(S)
  BY Zenon
<1>2. \A t \in Servers : Append(link[s][t], m) \in Seq(S)
  BY Zenon, <1>1, AppendProperties
<1>3. row \in [Servers -> Seq(S)]
  BY Zenon, <1>1, <1>2
<1>4. TellRemote(s, T, m) = [link EXCEPT ![s] = row]
  BY Zenon DEF TellRemote
<1> HIDE DEF row
<1> QED  BY Zenon, <1>3, <1>4

LEMMA PoppedType ==
  ASSUME NEW S, mailbox \in [Actors -> Seq(S)],
         NEW a \in Actors, mailbox[a] # <<>>
  PROVE  /\ Popped(a) \in [Actors -> Seq(S)]
         /\ Head(mailbox[a]) \in S
<1>1. Tail(mailbox[a]) \in Seq(S) /\ Head(mailbox[a]) \in S
  BY Zenon, HeadTailProperties
<1> QED  BY Zenon, <1>1 DEF Popped

LEMMA DeliverType ==
  ASSUME NEW S, link \in [Servers -> [Servers -> Seq(S)]],
         NEW s \in Servers, NEW t \in Servers, link[s][t] # <<>>
  PROVE  /\ [link EXCEPT ![s][t] = Tail(@)] \in [Servers -> [Servers -> Seq(S)]]
         /\ Head(link[s][t]) \in S
<1>1. Tail(link[s][t]) \in Seq(S) /\ Head(link[s][t]) \in S
  BY Zenon, HeadTailProperties
<1> QED  BY Zenon, <1>1

LEMMA OverwriteType ==
  ASSUME NEW f \in Map, NEW g \in Map, NEW ks
  PROVE  Overwrite(f, g, ks) \in Map
BY Zenon DEF Overwrite, Map

LEMMA NothingInTransit ==
  ASSUME NEW S
  PROVE  /\ [a \in Actors |-> <<>>] \in [Actors -> Seq(S)]
         /\ [s \in Servers |-> [t \in Servers |-> <<>>]]
              \in [Servers -> [Servers -> Seq(S)]]
<1>1. <<>> \in Seq(S)
  BY Zenon, EmptySeq
<1>2. [t \in Servers |-> <<>>] \in [Servers -> Seq(S)]
  BY Zenon, <1>1
<1> HIDE DEF Servers
<1>3. [a \in Actors |-> <<>>] \in [Actors -> Seq(S)]
  BY Zenon, <1>1
<1>4. \A r, T : r \in T => [s \in Servers |-> r] \in [Servers -> T]
  BY Zenon
<1> QED  BY Zenon, <1>2, <1>3, <1>4

LEMMA EmptyMapType == EmptyMap \in Map
BY Zenon DEF EmptyMap, Map

-----------------------------------------------------------------------------
(* Every variable keeps its type under each step of a server and an actor. *)
THEOREM TypeCorrect == Spec => []TypeOK
<1>1. Init => TypeOK
  <2>1. <<>> \in Seq(Message)
    BY Zenon, EmptySeq
  <2>2. 0 \in 0 .. NumServers
    BY ServersAssumption
  <2>3. 0 \in Nat
    BY Zenon
  <2>4. Init => mailbox \in [Actors -> Seq(Message)]
                /\ link \in [Servers -> [Servers -> Seq(Message)]]
    <3>1. /\ [a \in Actors |-> <<>>] \in [Actors -> Seq(Message)]
          /\ [s \in Servers |-> [t \in Servers |-> <<>>]]
               \in [Servers -> [Servers -> Seq(Message)]]
      BY Zenon, <2>1, NothingInTransit
    <3> QED  BY Zenon, <3>1 DEF Init
  <2>5. Init => storage \in [Actors -> Map] /\ putList \in [Actors -> Map]
    BY Zenon, EmptyMapType DEF Init
  <2>6. Init => /\ actorList \in [Actors -> SUBSET Actors]
                /\ remoteActorList \in [Actors -> SUBSET Actors]
                /\ timer \subseteq Actors
                /\ puts \subseteq [key : Keys, content : Content]
    BY Zenon DEF Init
  <2>7. Init => started \in 0 .. NumServers /\ now \in Nat /\ joined \in Nat
    BY Zenon, <2>2, <2>3 DEF Init
  <2> QED  BY Zenon, <2>4, <2>5, <2>6, <2>7 DEF TypeOK
<1>2. TypeOK /\ [Next]_vars => TypeOK'
  <2> SUFFICES ASSUME TypeOK, [Next]_vars
               PROVE  TypeOK'
    BY Zenon
  <2>1. CASE NewServer
    <3> DEFINE s == started + 1
               remotes == {Rep(t) : t \in 1 .. started}
    <3>1. s \in Servers /\ 1 .. started \subseteq Servers
      BY <2>1, ServersAssumption DEF NewServer, TypeOK, Servers
    <3>2. remotes \subseteq Actors
      BY Zenon, <3>1, RepType
    <3>3. mailbox' = TellLocal(mailbox, ActorsOf(s), MIntro(remotes))
          /\ link' = TellRemote(s, remotes, MRIntro(s))
          /\ started' = s
      BY Zenon, <2>1 DEF NewServer
    <3>4. MIntro(remotes) \in Message /\ MRIntro(s) \in Message
      BY Zenon, <3>1, <3>2, MessageTypes
    <3>5. started' \in 0 .. NumServers
      BY <3>1, <3>3, ServersAssumption DEF Servers
    <3> HIDE DEF s, remotes
    <3>6. mailbox' \in [Actors -> Seq(Message)]
      BY Zenon, <3>3, <3>4, TellLocalType DEF TypeOK
    <3>7. link' \in [Servers -> [Servers -> Seq(Message)]]
      BY Zenon, <3>1, <3>3, <3>4, TellRemoteType DEF TypeOK
    <3> QED  BY Zenon, <2>1, <3>5, <3>6, <3>7 DEF NewServer, TypeOK, actorVars
  <2>2. ASSUME NEW s \in Servers, NEW t \in Servers, Deliver(s, t)
        PROVE  TypeOK'
    <3>1. link[s][t] # <<>>
      BY Zenon, <2>2 DEF Deliver
    <3>2. Head(link[s][t]) \in Message
          /\ link' \in [Servers -> [Servers -> Seq(Message)]]
      BY Zenon, <2>2, <3>1, DeliverType DEF Deliver, TypeOK
    <3>3. mailbox' \in [Actors -> Seq(Message)]
      BY Zenon, <2>2, <3>2, TellLocalType DEF Deliver, TypeOK
    <3> QED  BY Zenon, <2>2, <3>2, <3>3 DEF Deliver, TypeOK, actorVars
  <2>3. ASSUME NEW a \in Actors, TellAfterDone(a)
        PROVE  TypeOK'
    <3>1. mailbox' \in [Actors -> Seq(Message)]
      BY Zenon, <2>3, MessageTypes, TellLocalType DEF TellAfterDone, TypeOK
    <3>2. timer' \subseteq Actors
      BY Zenon, <2>3 DEF TellAfterDone, TypeOK
    <3> QED  BY Zenon, <2>3, <3>1, <3>2 DEF TellAfterDone, TypeOK, actorVars
  <2>4. ASSUME NEW a \in Actors, NEW k \in Keys, NEW u \in Uids, OnPut(a, k, u)
        PROVE  TypeOK'
    <3> DEFINE c == [ts |-> now, uid |-> u]
    <3>1. c \in Content
      BY Zenon DEF TypeOK, Content
    <3>2. storage' = [storage EXCEPT ![a][k] = c]
          /\ putList' = [putList EXCEPT ![a][k] = c]
          /\ puts' = puts \cup {[key |-> k, content |-> c]}
      BY Zenon, <2>4 DEF OnPut
    <3> HIDE DEF c
    <3>3. storage' \in [Actors -> Map] /\ putList' \in [Actors -> Map]
      BY Zenon, <3>1, <3>2 DEF TypeOK, Map
    <3>4. puts' \subseteq [key : Keys, content : Content]
      BY <3>1, <3>2 DEF TypeOK
    <3> QED  BY Zenon, <2>4, <3>3, <3>4 DEF OnPut, TypeOK, netVars
  <2>5. now' \in Nat
    <3>1. now' = now \/ now' = now + 1
      BY Zenon
      DEF Next, vars, NewServer, Deliver, TellAfterDone, OnPut, OnMessage,
         OnIntro, OnSync, OnUpdate, OnRIntro, TimePasses
    <3> QED  BY <3>1 DEF TypeOK
  <2>6. ASSUME NEW a \in Actors, OnIntro(a)
        PROVE  TypeOK'
    <3> DEFINE local == ActorsOf(a[1])
    <3>1. local \subseteq Actors
      BY Zenon, ActorServer, LocalType
    <3>2. mailbox[a] # <<>> /\ Head(mailbox[a]).type = "MIntro"
      BY Zenon, <2>6 DEF OnIntro, Handles
    <3>3. Head(mailbox[a]) \in Message /\ Popped(a) \in [Actors -> Seq(Message)]
      BY Zenon, <3>2, PoppedType DEF TypeOK
    <3>4. Head(mailbox[a]).remotes \subseteq Actors
      BY Zenon, <3>2, <3>3, MessageFields
    <3>5. MSync \in Message /\ MUpdate(storage[a]) \in Message
      BY Zenon, MessageTypes DEF TypeOK
    <3>6. TellLocal(Popped(a), {a}, MSync) \in [Actors -> Seq(Message)]
      BY Zenon, <3>3, <3>5, TellLocalType
    <3>7. mailbox' \in [Actors -> Seq(Message)]
      BY Zenon, <2>6, <3>5, <3>6, TellLocalType DEF OnIntro
    <3>8. actorList' \in [Actors -> SUBSET Actors]
          /\ remoteActorList' \in [Actors -> SUBSET Actors]
      BY Zenon, <2>6, <3>1, <3>4 DEF OnIntro, TypeOK
    <3> QED  BY Zenon, <2>5, <2>6, <3>7, <3>8 DEF OnIntro, TypeOK
  <2>7. ASSUME NEW a \in Actors, OnSync(a)
        PROVE  TypeOK'
    <3>1. mailbox[a] # <<>>
      BY Zenon, <2>7 DEF OnSync, Handles
    <3>2. Popped(a) \in [Actors -> Seq(Message)]
      BY Zenon, <3>1, PoppedType DEF TypeOK
    <3>3. MUpdate(putList[a]) \in Message
      BY Zenon, MessageTypes DEF TypeOK
    <3>4. mailbox' \in [Actors -> Seq(Message)]
      <4>1. TellLocal(Popped(a), actorList[a] \ {a}, MUpdate(putList[a]))
              \in [Actors -> Seq(Message)]
        BY Zenon, <3>2, <3>3, TellLocalType
      <4> QED  BY Zenon, <2>7, <3>2, <4>1 DEF OnSync
    <3>5. link' \in [Servers -> [Servers -> Seq(Message)]]
      <4>1. a[1] \in Servers
        BY Zenon, ActorServer
      <4>2. TellRemote(a[1], remoteActorList[a], MUpdate(putList[a]))
              \in [Servers -> [Servers -> Seq(Message)]]
        BY Zenon, <3>3, <4>1, TellRemoteType DEF TypeOK
      <4> QED  BY Zenon, <2>7, <4>2 DEF OnSync, TypeOK
    <3>6. putList' \in [Actors -> Map] /\ timer' \subseteq Actors
      BY Zenon, <2>7, EmptyMapType DEF OnSync, Rearm, TypeOK
    <3> QED  BY Zenon, <2>5, <2>7, <3>4, <3>5, <3>6 DEF OnSync, TypeOK
  <2>8. ASSUME NEW a \in Actors, OnUpdate(a)
        PROVE  TypeOK'
    <3> DEFINE new == Head(mailbox[a]).puts
               ks == Adopted(a, new)
    <3>1. mailbox[a] # <<>> /\ Head(mailbox[a]).type = "MUpdate"
      BY Zenon, <2>8 DEF OnUpdate, Handles
    <3>2. Head(mailbox[a]) \in Message /\ Popped(a) \in [Actors -> Seq(Message)]
      BY Zenon, <3>1, PoppedType DEF TypeOK
    <3>3. new \in Map
      BY Zenon, <3>1, <3>2, MessageFields
    <3>4. storage' = [storage EXCEPT ![a] = Overwrite(@, new, ks)]
          /\ putList' = [putList EXCEPT ![a] = Overwrite(@, new, ks)]
      BY Zenon, <2>8 DEF OnUpdate
    <3> HIDE DEF new, ks
    <3>5. storage' \in [Actors -> Map] /\ putList' \in [Actors -> Map]
      BY Zenon, <3>3, <3>4, OverwriteType DEF TypeOK
    <3> QED  BY Zenon, <2>8, <3>2, <3>5 DEF OnUpdate, TypeOK
  <2>9. ASSUME NEW a \in Actors, OnRIntro(a)
        PROVE  TypeOK'
    <3>1. mailbox[a] # <<>> /\ Head(mailbox[a]).type = "MRIntro"
      BY Zenon, <2>9 DEF OnRIntro, Handles
    <3>2. Head(mailbox[a]) \in Message /\ Popped(a) \in [Actors -> Seq(Message)]
      BY Zenon, <3>1, PoppedType DEF TypeOK
    <3>3. Head(mailbox[a]).sender \in Actors
      BY Zenon, <3>1, <3>2, MessageFields
    <3>4. remoteActorList' \in [Actors -> SUBSET Actors]
      BY Zenon, <2>9, <3>3 DEF OnRIntro, TypeOK
    <3> QED  BY Zenon, <2>9, <3>2, <3>4 DEF OnRIntro, TypeOK
  <2>10. CASE UNCHANGED vars
    BY Zenon, <2>10 DEF vars, actorVars, netVars, TypeOK
  <2> QED
    BY Zenon, <2>1, <2>2, <2>3, <2>4, <2>6, <2>7, <2>8, <2>9, <2>10
       DEF Next, OnMessage
<1> QED  BY <1>1, <1>2, PTL DEF Spec

-----------------------------------------------------------------------------
(* A map with no timestamp later than t, and the messages that carry none. *)
Timely(f, t) == \A k \in Keys : f[k] # NoContent => f[k].ts <= t

OnTime(t) == {m \in Message : m.type = "MUpdate" => Timely(m.puts, t)}

(* Nothing stored has a timestamp of the future, and nothing in transit    *)
(* one of the present.                                                     *)
ClockInv ==
  /\ \A a \in Actors : Timely(storage[a], now) /\ Timely(putList[a], now)
  /\ mailbox \in [Actors -> Seq(OnTime(now - 1))]
  /\ link \in [Servers -> [Servers -> Seq(OnTime(now - 1))]]

(* A content of the present has been put in this instant and not been sent *)
(* yet.                                                                    *)
Present(a, k) == storage[a][k] # NoContent /\ storage[a][k].ts = now

PresentInv ==
  \A a \in Actors, k \in Keys : Present(a, k) =>
    /\ putList[a][k] = storage[a][k]
    /\ \E p \in puts : p.content.ts = now

(* What is still to be sent is what is stored.                             *)
PendingInv ==
  \A a \in Actors, k \in Keys : putList[a][k] \in {NoContent, storage[a][k]}

(* The clock does not go back.                                             *)
LEMMA ClockGrows ==
  ASSUME TypeOK, [Next]_vars
  PROVE  now \in Nat /\ now' \in Nat /\ now <= now'
<1>1. now' = now \/ now' = now + 1
  BY Zenon DEF Next, vars, NewServer, Deliver, TellAfterDone, OnPut, OnMessage,
     OnIntro, OnSync, OnUpdate, OnRIntro, TimePasses
<1> QED  BY <1>1 DEF TypeOK

(* What is timely stays so.                                                *)
LEMMA TimelyStays ==
  ASSUME NEW t \in Int, NEW u \in Int, t <= u
  PROVE  /\ \A f \in Map : Timely(f, t) => Timely(f, u)
         /\ OnTime(t) \subseteq OnTime(u)
<1>1. ASSUME NEW f \in Map, Timely(f, t)
      PROVE  Timely(f, u)
  <2>1. \A k \in Keys : f[k] # NoContent => f[k].ts \in Nat
    BY Zenon DEF Map, Content
  <2> QED  BY <1>1, <2>1 DEF Timely
<1>2. ASSUME NEW m \in OnTime(t)
      PROVE  m \in OnTime(u)
  BY Zenon, <1>1, <1>2, MessageFields DEF OnTime
<1> QED  BY Zenon, <1>1, <1>2

(* Sequences over a set are sequences over a larger one.                   *)
LEMMA BoxesStay ==
  ASSUME NEW S, NEW T, S \subseteq T
  PROVE  /\ [Actors -> Seq(S)] \subseteq [Actors -> Seq(T)]
         /\ [Servers -> [Servers -> Seq(S)]]
              \subseteq [Servers -> [Servers -> Seq(T)]]
<1>1. Seq(S) \subseteq Seq(T)
  BY SeqDef
<1>2. \A D, U, V : U \subseteq V => [D -> U] \subseteq [D -> V]
  BY Zenon
<1> QED  BY Zenon, <1>1, <1>2

LEMMA TimelyOverwrite ==
  ASSUME NEW t, NEW f \in Map, NEW g \in Map, NEW ks,
         Timely(f, t), Timely(g, t)
  PROVE  Timely(Overwrite(f, g, ks), t)
BY Zenon DEF Timely, Overwrite, Map

LEMMA TimelyEmpty == \A t : Timely(EmptyMap, t)
BY Zenon DEF Timely, EmptyMap

(* A message is on time when it is no update, or one of a timely map.      *)
LEMMA OnTimeMessages ==
  ASSUME NEW t
  PROVE  /\ \A R \in SUBSET Actors : MIntro(R) \in OnTime(t)
         /\ \A s \in Servers : MRIntro(s) \in OnTime(t)
         /\ MSync \in OnTime(t)
         /\ \A f \in Map : Timely(f, t) => MUpdate(f) \in OnTime(t)
BY Zenon, MessageTypes DEF OnTime, MIntro, MRIntro, MSync, MUpdate

(* The maps stay timely: a put has the present time, and an update in the  *)
(* mailbox is on time.                                                     *)
LEMMA MapsStep ==
  ASSUME TypeOK, ClockInv, [Next]_vars, NEW b \in Actors
  PROVE  Timely(storage'[b], now') /\ Timely(putList'[b], now')
<1>0. now \in Nat /\ now' \in Nat /\ now <= now'
  BY Zenon, ClockGrows
<1>1. storage[b] \in Map /\ putList[b] \in Map
  BY Zenon DEF TypeOK
<1>2. Timely(storage[b], now) /\ Timely(putList[b], now)
  BY Zenon DEF ClockInv
<1>3. Timely(storage[b], now') /\ Timely(putList[b], now')
  BY <1>0, <1>1, <1>2, TimelyStays
<1>4. ASSUME NEW a \in Actors, NEW k \in Keys, NEW u \in Uids, OnPut(a, k, u)
      PROVE  Timely(storage'[b], now') /\ Timely(putList'[b], now')
  <2> DEFINE c == [ts |-> now, uid |-> u]
  <2>1. storage' = [storage EXCEPT ![a][k] = c]
        /\ putList' = [putList EXCEPT ![a][k] = c]
    BY Zenon, <1>4 DEF OnPut
  <2>2. c.ts <= now'
    BY Zenon, <1>0
  <2> HIDE DEF c
  <2> QED  BY Zenon, <1>3, <2>1, <2>2 DEF Timely, TypeOK, Map
<1>5. ASSUME NEW a \in Actors, OnUpdate(a)
      PROVE  Timely(storage'[b], now') /\ Timely(putList'[b], now')
  <2> DEFINE new == Head(mailbox[a]).puts
             ks == Adopted(a, new)
  <2>1. mailbox[a] # <<>> /\ Head(mailbox[a]).type = "MUpdate"
    BY Zenon, <1>5 DEF OnUpdate, Handles
  <2>2. Head(mailbox[a]) \in OnTime(now - 1)
    BY Zenon, <2>1, PoppedType DEF ClockInv
  <2>3. new \in Map /\ Timely(new, now - 1)
    BY Zenon, <2>1, <2>2, MessageFields DEF OnTime
  <2>0. now - 1 \in Int /\ now' \in Int /\ now - 1 <= now'
    BY <1>0
  <2>4. Timely(new, now')
    BY Zenon, <2>0, <2>3, TimelyStays
  <2>5. storage' = [storage EXCEPT ![a] = Overwrite(@, new, ks)]
        /\ putList' = [putList EXCEPT ![a] = Overwrite(@, new, ks)]
    BY Zenon, <1>5 DEF OnUpdate
  <2> HIDE DEF new, ks
  <2>6. Timely(Overwrite(storage[b], new, ks), now')
        /\ Timely(Overwrite(putList[b], new, ks), now')
    BY Zenon, <1>1, <1>3, <2>3, <2>4, TimelyOverwrite
  <2>7. CASE a = b
    BY Zenon, <2>5, <2>6, <2>7 DEF TypeOK
  <2>8. CASE a # b
    BY Zenon, <1>3, <2>5, <2>8 DEF TypeOK
  <2> QED  BY Zenon, <2>7, <2>8
<1>6. ASSUME NEW a \in Actors, OnSync(a)
      PROVE  Timely(storage'[b], now') /\ Timely(putList'[b], now')
  <2>1. storage' = storage /\ putList' = [putList EXCEPT ![a] = EmptyMap]
    BY Zenon, <1>6 DEF OnSync
  <2>2. putList'[b] = putList[b] \/ putList'[b] = EmptyMap
    BY Zenon, <2>1 DEF TypeOK
  <2> QED  BY Zenon, <1>3, <2>1, <2>2, TimelyEmpty
<1>7. CASE storage' = storage /\ putList' = putList
  BY Zenon, <1>3, <1>7
<1> QED
  BY Zenon, <1>4, <1>5, <1>6, <1>7
  DEF Next, vars, actorVars, NewServer, Deliver,
     TellAfterDone, OnMessage, OnIntro, OnRIntro

(* When time passes, what is stored is from before.                        *)
LEMMA PastWhenSent ==
  ASSUME TypeOK, ClockInv, PresentInv, PendingInv, TimePasses,
         NEW a \in Actors
  PROVE  Timely(storage[a], now' - 1) /\ Timely(putList[a], now' - 1)
<1>1. now \in Nat /\ now' \in Nat /\ (now' = now \/ now' = now + 1)
  BY DEF TypeOK, TimePasses
<1>2. ASSUME NEW k \in Keys, storage[a][k] # NoContent
      PROVE  storage[a][k].ts <= now' - 1
  <2>1. storage[a][k].ts \in Nat
    BY <1>2 DEF TypeOK, Map, Content
  <2>2. storage[a][k].ts <= now
    BY Zenon, <1>2 DEF ClockInv, Timely
  <2>3. storage[a][k].ts = now => now' = now + 1
    BY Zenon, <1>2 DEF PresentInv, Present, TimePasses
  <2> QED  BY <1>1, <2>1, <2>2, <2>3
<1> QED  BY Zenon, <1>2 DEF Timely, PendingInv

(* The messages stay on time: an update is told of a map of the past.      *)
LEMMA BoxesStep ==
  ASSUME TypeOK, ClockInv, PresentInv, PendingInv, [Next]_vars
  PROVE  /\ mailbox' \in [Actors -> Seq(OnTime(now' - 1))]
         /\ link' \in [Servers -> [Servers -> Seq(OnTime(now' - 1))]]
<1> DEFINE S == OnTime(now' - 1)
           Goal == /\ mailbox' \in [Actors -> Seq(S)]
                   /\ link' \in [Servers -> [Servers -> Seq(S)]]
<1> SUFFICES Goal
  BY Zenon
<1>0. now \in Nat /\ now' \in Nat /\ now <= now'
  BY Zenon, ClockGrows
<1>1. OnTime(now - 1) \subseteq S
  <2>1. \A x, y \in Nat : x <= y =>
          x - 1 \in Int /\ y - 1 \in Int /\ x - 1 <= y - 1
    OBVIOUS
  <2>2. now - 1 \in Int /\ now' - 1 \in Int /\ now - 1 <= now' - 1
    BY Zenon, <1>0, <2>1
  <2> HIDE DEF S
  <2> QED  BY Zenon, <2>2, TimelyStays DEF S
<1>2. mailbox \in [Actors -> Seq(S)] /\ link \in [Servers -> [Servers -> Seq(S)]]
  BY <1>1, BoxesStay DEF ClockInv
<1>3. ASSUME NEW a \in Actors, TimePasses
      PROVE  MUpdate(storage[a]) \in S /\ MUpdate(putList[a]) \in S
  <2>1. storage[a] \in Map /\ putList[a] \in Map
    BY Zenon DEF TypeOK
  <2> QED  BY Zenon, <1>3, <2>1, PastWhenSent, OnTimeMessages
<1>4. MSync \in S
  BY Zenon, OnTimeMessages
<1>5. CASE NewServer
  <2> DEFINE s == started + 1
             remotes == {Rep(t) : t \in 1 .. started}
  <2>1. s \in Servers /\ 1 .. started \subseteq Servers
    BY <1>5, ServersAssumption DEF NewServer, TypeOK, Servers
  <2>2. remotes \subseteq Actors
    BY Zenon, <2>1, RepType
  <2>3. mailbox' = TellLocal(mailbox, ActorsOf(s), MIntro(remotes))
        /\ link' = TellRemote(s, remotes, MRIntro(s))
    BY Zenon, <1>5 DEF NewServer
  <2> HIDE DEF s, remotes
  <2>4. MIntro(remotes) \in S /\ MRIntro(s) \in S
    BY Zenon, <2>1, <2>2, OnTimeMessages
  <2> HIDE DEF S
  <2>5. mailbox' \in [Actors -> Seq(S)]
    BY Zenon, <1>2, <2>3, <2>4, TellLocalType
  <2>6. link' \in [Servers -> [Servers -> Seq(S)]]
    BY Zenon, <1>2, <2>1, <2>3, <2>4, TellRemoteType
  <2> QED  BY Zenon, <2>5, <2>6
<1> HIDE DEF S
<1>6. ASSUME NEW s \in Servers, NEW t \in Servers, Deliver(s, t)
      PROVE  Goal
  <2>1. link[s][t] # <<>>
        /\ mailbox' = TellLocal(mailbox, {Rep(t)}, Head(link[s][t]))
        /\ link' = [link EXCEPT ![s][t] = Tail(@)]
    BY Zenon, <1>6 DEF Deliver
  <2>2. Head(link[s][t]) \in S /\ link' \in [Servers -> [Servers -> Seq(S)]]
    BY Zenon, <1>2, <2>1, DeliverType
  <2> QED  BY Zenon, <1>2, <2>1, <2>2, TellLocalType
<1>7. ASSUME NEW a \in Actors, TellAfterDone(a)
      PROVE  Goal
  <2>1. mailbox' = TellLocal(mailbox, {a}, MSync) /\ link' = link
    BY Zenon, <1>7 DEF TellAfterDone
  <2> QED  BY Zenon, <1>2, <1>4, <2>1, TellLocalType
<1>8. ASSUME NEW a \in Actors, mailbox[a] # <<>>
      PROVE  Popped(a) \in [Actors -> Seq(S)]
  BY Zenon, <1>2, <1>8, PoppedType
<1>9. ASSUME NEW a \in Actors, OnIntro(a)
      PROVE  Goal
  <2>1. mailbox[a] # <<>> /\ link' = link
        /\ mailbox' = TellLocal(TellLocal(Popped(a), {a}, MSync),
                                ActorsOf(a[1]), MUpdate(storage[a]))
        /\ TimePasses
    BY Zenon, <1>9 DEF OnIntro, Handles
  <2>2. TellLocal(Popped(a), {a}, MSync) \in [Actors -> Seq(S)]
    BY Zenon, <1>4, <1>8, <2>1, TellLocalType
  <2> QED  BY Zenon, <1>2, <1>3, <2>1, <2>2, TellLocalType
<1>10. ASSUME NEW a \in Actors, OnSync(a)
       PROVE  Goal
  <2>1. mailbox[a] # <<>>
    BY Zenon, <1>10 DEF OnSync, Handles
  <2>2. CASE mailbox' = Popped(a) /\ link' = link
    BY Zenon, <1>2, <1>8, <2>1, <2>2
  <2>3. ASSUME TimePasses,
               mailbox' = TellLocal(Popped(a), actorList[a] \ {a},
                                    MUpdate(putList[a])),
               link' = TellRemote(a[1], remoteActorList[a],
                                  MUpdate(putList[a]))
        PROVE  Goal
    <3>1. MUpdate(putList[a]) \in S /\ a[1] \in Servers
      BY Zenon, <1>3, <2>3, ActorServer
    <3>2. mailbox' \in [Actors -> Seq(S)]
      BY Zenon, <1>8, <2>1, <2>3, <3>1, TellLocalType
    <3>3. link' \in [Servers -> [Servers -> Seq(S)]]
      BY Zenon, <1>2, <2>3, <3>1, TellRemoteType
    <3> QED  BY Zenon, <3>2, <3>3
  <2> QED  BY Zenon, <1>10, <2>2, <2>3 DEF OnSync
<1>11. ASSUME NEW a \in Actors, OnUpdate(a) \/ OnRIntro(a)
       PROVE  Goal
  <2>1. mailbox[a] # <<>> /\ mailbox' = Popped(a) /\ link' = link
    BY Zenon, <1>11 DEF OnUpdate, OnRIntro, Handles
  <2> QED  BY Zenon, <1>2, <1>8, <2>1
<1>12. CASE mailbox' = mailbox /\ link' = link
  BY Zenon, <1>2, <1>12
<1> HIDE DEF Goal
<1> QED
  BY Zenon, <1>5, <1>6, <1>7, <1>9, <1>10, <1>11, <1>12
     DEF Next, vars, netVars, OnMessage, OnPut

(* A put is of the present and is to be sent; an update is of the past;    *)
(* what was of the present before a send is of the past after it.          *)
LEMMA PresentStep ==
  ASSUME TypeOK, ClockInv, PresentInv, PendingInv, [Next]_vars
  PROVE  PresentInv' /\ PendingInv'
<1> DEFINE Right(b, l) ==
      /\ putList'[b][l] \in {NoContent, storage'[b][l]}
      /\ Present(b, l)' => /\ putList'[b][l] = storage'[b][l]
                           /\ \E p \in puts' : p.content.ts = now'
<1> SUFFICES ASSUME NEW b \in Actors, NEW l \in Keys
             PROVE  Right(b, l)
  BY Zenon DEF PresentInv, PendingInv
<1>0. now \in Nat /\ now' \in Nat /\ now <= now'
  BY Zenon, ClockGrows
<1>1. /\ putList[b][l] \in {NoContent, storage[b][l]}
      /\ Present(b, l) => /\ putList[b][l] = storage[b][l]
                          /\ \E p \in puts : p.content.ts = now
  BY Zenon DEF PresentInv, PendingInv
<1>2. puts \subseteq puts'
  BY Zenon DEF Next, vars, NewServer, Deliver, TellAfterDone, OnPut,
     OnMessage, OnIntro, OnSync, OnUpdate, OnRIntro
<1>3. storage[b][l] # NoContent =>
        storage[b][l].ts <= now /\ storage[b][l].ts \in Nat
  <2>1. storage[b][l] # NoContent => storage[b][l] \in Content
    BY DEF TypeOK, Map
  <2>2. \A c \in Content : c.ts \in Nat
    BY Zenon DEF Content
  <2> QED  BY Zenon, <2>1, <2>2 DEF ClockInv, Timely
<1>4. CASE now' = now /\ storage'[b][l] = storage[b][l]
                      /\ putList'[b][l] = putList[b][l]
  BY Zenon, <1>1, <1>2, <1>4 DEF Present
<1>5. CASE now' # now /\ storage'[b][l] = storage[b][l]
                      /\ putList'[b][l] \in {NoContent, putList[b][l]}
  <2>1. storage'[b][l] # NoContent => storage'[b][l].ts # now'
    BY <1>0, <1>3, <1>5
  <2> QED  BY Zenon, <1>1, <1>5, <2>1 DEF Present
<1>6. ASSUME NEW a \in Actors, NEW k \in Keys, NEW u \in Uids, OnPut(a, k, u)
      PROVE  Right(b, l)
  <2> DEFINE c == [ts |-> now, uid |-> u]
  <2>1. /\ storage' = [storage EXCEPT ![a][k] = c]
        /\ putList' = [putList EXCEPT ![a][k] = c]
        /\ puts' = puts \cup {[key |-> k, content |-> c]}
        /\ now' = now
    BY Zenon, <1>6 DEF OnPut
  <2>2. \E p \in puts' : p.content.ts = now'
    <3>1. [key |-> k, content |-> c].content.ts = now
      BY Zenon
    <3> QED  BY Zenon, <2>1, <3>1
  <2> HIDE DEF c
  <2>3. CASE a = b /\ k = l
    <3>1. storage'[b][l] = c /\ putList'[b][l] = c
      BY Zenon, <2>1, <2>3 DEF TypeOK, Map
    <3> QED  BY Zenon, <2>2, <3>1
  <2>4. CASE ~(a = b /\ k = l)
    <3>1. storage'[b][l] = storage[b][l] /\ putList'[b][l] = putList[b][l]
      BY Zenon, <2>1, <2>4 DEF TypeOK, Map
    <3> QED  BY Zenon, <1>4, <2>1, <3>1
  <2> QED  BY Zenon, <2>3, <2>4
<1>7. ASSUME NEW a \in Actors, OnUpdate(a)
      PROVE  Right(b, l)
  <2> DEFINE new == Head(mailbox[a]).puts
             ks == Adopted(a, new)
  <2>1. mailbox[a] # <<>> /\ Head(mailbox[a]).type = "MUpdate" /\ now' = now
    BY Zenon, <1>7 DEF OnUpdate, Handles
  <2>2. Head(mailbox[a]) \in OnTime(now - 1)
    BY Zenon, <2>1, PoppedType DEF ClockInv
  <2>3. new \in Map /\ Timely(new, now - 1)
    BY Zenon, <2>1, <2>2, MessageFields DEF OnTime
  <2>4. storage' = [storage EXCEPT ![a] = Overwrite(@, new, ks)]
        /\ putList' = [putList EXCEPT ![a] = Overwrite(@, new, ks)]
    BY Zenon, <1>7 DEF OnUpdate
  <2> HIDE DEF new, ks
  <2>5. CASE a = b /\ l \in ks
    <3>1. storage'[b][l] = new[l] /\ putList'[b][l] = new[l]
      BY Zenon, <2>4, <2>5 DEF TypeOK, Overwrite
    <3>2. new[l] # NoContent => new[l].ts \in Nat /\ new[l].ts <= now - 1
      BY Zenon, <2>3 DEF Timely, Map, Content
    <3>3. new[l] # NoContent => new[l].ts # now
      BY <1>0, <3>2
    <3> QED  BY Zenon, <2>1, <3>1, <3>3 DEF Present
  <2>6. CASE ~(a = b /\ l \in ks)
    <3>1. storage'[b][l] = storage[b][l] /\ putList'[b][l] = putList[b][l]
      BY Zenon, <2>4, <2>6 DEF TypeOK, Overwrite
    <3> QED  BY Zenon, <1>4, <2>1, <3>1
  <2> QED  BY Zenon, <2>5, <2>6
<1>8. ASSUME NEW a \in Actors, OnSync(a)
      PROVE  Right(b, l)
  <2>1. storage' = storage /\ putList' = [putList EXCEPT ![a] = EmptyMap]
    BY Zenon, <1>8 DEF OnSync
  <2>2. /\ putList'[b][l] \in {NoContent, putList[b][l]}
        /\ putList[a] = EmptyMap \/ a # b => putList'[b][l] = putList[b][l]
    BY Zenon, <2>1 DEF TypeOK, EmptyMap
  <2>3. CASE putList[a] = EmptyMap \/ a # b
    <3>1. putList'[b][l] = putList[b][l]
      BY Zenon, <2>2, <2>3
    <3> QED  BY Zenon, <1>4, <1>5, <2>1, <2>2, <3>1
  <2>4. CASE putList[a] # EmptyMap /\ a = b
    <3>1. TimePasses
      BY Zenon, <1>8, <2>4 DEF OnSync
    <3>2. Present(b, l) => now' # now
      <4>1. Present(b, l) => now' = now + 1
        BY Zenon, <1>1, <3>1 DEF TimePasses
      <4> QED  BY <1>0, <4>1
    <3>3. CASE now' = now
      BY Zenon, <1>1, <2>1, <2>2, <3>2, <3>3 DEF Present
    <3> QED  BY Zenon, <1>5, <2>1, <2>2, <3>3
  <2> QED  BY Zenon, <2>3, <2>4
<1>9. CASE storage' = storage /\ putList' = putList
  BY Zenon, <1>4, <1>5, <1>9
<1> HIDE DEF Right
<1> QED
  BY Zenon, <1>6, <1>7, <1>8, <1>9
  DEF Next, vars, actorVars, NewServer, Deliver, TellAfterDone, OnMessage,
      OnIntro, OnRIntro

(* Sends take time, so that nothing in transit is of the present.          *)
LEMMA ClockCorrect == Spec => [](ClockInv /\ PresentInv /\ PendingInv)
<1>1. Init => ClockInv /\ PresentInv /\ PendingInv
  <2> SUFFICES ASSUME Init
               PROVE  ClockInv /\ PresentInv /\ PendingInv
    BY Zenon
  <2>1. \A a \in Actors : storage[a] = EmptyMap /\ putList[a] = EmptyMap
    BY Zenon DEF Init
  <2>2. mailbox \in [Actors -> Seq(OnTime(now - 1))]
        /\ link \in [Servers -> [Servers -> Seq(OnTime(now - 1))]]
    BY Zenon, NothingInTransit DEF Init
  <2>3. ClockInv
    BY Zenon, <2>1, <2>2, TimelyEmpty DEF ClockInv
  <2> QED  BY Zenon, <2>1, <2>3 DEF PresentInv, Present, PendingInv, EmptyMap
<1>2. TypeOK /\ ClockInv /\ PresentInv /\ PendingInv /\ [Next]_vars
        => (ClockInv /\ PresentInv /\ PendingInv)'
  BY Zenon, MapsStep, BoxesStep, PresentStep DEF ClockInv
<1> QED  BY <1>1, <1>2, TypeCorrect, PTL DEF Spec

(* No step goes back: an update wins only with a timestamp that is not     *)
(* older; a put always wins, and the invariant says that nothing stored is *)
(* from the future.                                                        *)
LEMMA TimestampsStep ==
  ASSUME TypeOK, ClockInv, [Next]_vars, NEW b \in Actors, NEW l \in Keys,
         storage[b][l] # NoContent
  PROVE  /\ storage'[b][l] # NoContent
         /\ storage'[b][l].ts >= storage[b][l].ts
<1>0. storage[b][l] \in Content /\ storage[b][l].ts \in Nat
  BY DEF TypeOK, Map, Content
<1>1. CASE storage'[b][l] = storage[b][l]
  BY <1>0, <1>1
<1>2. ASSUME NEW a \in Actors, NEW k \in Keys, NEW u \in Uids, OnPut(a, k, u)
      PROVE  /\ storage'[b][l] # NoContent
             /\ storage'[b][l].ts >= storage[b][l].ts
  <2> DEFINE c == [ts |-> now, uid |-> u]
  <2>1. storage' = [storage EXCEPT ![a][k] = c]
    BY Zenon, <1>2 DEF OnPut
  <2>2. c \in Content /\ c # NoContent /\ c.ts = now
    BY NoContentAssumption DEF TypeOK, Content
  <2>3. storage[b][l].ts <= now
    BY Zenon DEF ClockInv, Timely
  <2>4. now \in Nat
    BY Zenon DEF TypeOK
  <2> HIDE DEF c
  <2>5. storage'[b][l] = c \/ storage'[b][l] = storage[b][l]
    BY Zenon, <2>1 DEF TypeOK, Map
  <2> QED  BY Zenon, <1>0, <1>1, <2>2, <2>3, <2>4, <2>5
<1>3. ASSUME NEW a \in Actors, OnUpdate(a)
      PROVE  /\ storage'[b][l] # NoContent
             /\ storage'[b][l].ts >= storage[b][l].ts
  <2> DEFINE new == Head(mailbox[a]).puts
             ks == Adopted(a, new)
  <2>1. mailbox[a] # <<>> /\ Head(mailbox[a]).type = "MUpdate"
    BY Zenon, <1>3 DEF OnUpdate, Handles
  <2>2. Head(mailbox[a]) \in Message
    BY Zenon, <2>1, PoppedType DEF TypeOK
  <2>3. new \in Map
    BY Zenon, <2>1, <2>2, MessageFields
  <2>4. storage' = [storage EXCEPT ![a] = Overwrite(@, new, ks)]
    BY Zenon, <1>3 DEF OnUpdate
  <2>5. l \in ks => new[l] # NoContent /\ Wins(new[l], storage[a][l])
    BY Zenon DEF Adopted
  <2> HIDE DEF new, ks
  <2>6. storage'[b][l] = storage[b][l]
        \/ (a = b /\ l \in ks /\ storage'[b][l] = new[l])
    BY Zenon, <2>4 DEF TypeOK, Overwrite
  <2>7. CASE a = b /\ l \in ks /\ storage'[b][l] = new[l]
    <3>1. new[l] \in Content /\ new[l].ts \in Nat
      BY Zenon, <2>3, <2>5, <2>7 DEF Map, Content
    <3>2. storage[b][l].ts <= new[l].ts
      BY <1>0, <2>5, <2>7, <3>1 DEF Wins
    <3> QED  BY Zenon, <1>0, <2>5, <2>7, <3>1, <3>2
  <2> QED  BY Zenon, <1>1, <2>6, <2>7
<1>4. CASE storage' = storage
  BY Zenon, <1>1, <1>4
<1> QED
  BY Zenon, <1>2, <1>3, <1>4
  DEF Next, vars, actorVars, NewServer, Deliver,
     TellAfterDone, OnMessage, OnIntro, OnSync, OnRIntro

(* An actor never replaces a content by an older one (query_actor.go,      *)
(* lines 103 and 148 to 160).                                              *)
THEOREM ContentsNeverOlder == Spec => TimestampsGrow
<1> DEFINE Grows(a, k) ==
      storage[a][k] # NoContent =>
        /\ storage'[a][k] # NoContent
        /\ storage'[a][k].ts >= storage[a][k].ts
<1>2. TypeOK /\ ClockInv /\ [Next]_vars
      => [\A a \in Actors, k \in Keys : Grows(a, k)]_vars
  BY Zenon, TimestampsStep
<1>3. Spec => [][\A a \in Actors, k \in Keys : Grows(a, k)]_vars
  BY <1>2, TypeCorrect, ClockCorrect, PTL DEF Spec
<1> QED  BY Zenon, <1>3 DEF TimestampsGrow
-----------------------------------------------------------------------------
(* Convergence.                                                            *)

(* Content d is c or wins against it.                                      *)
AtLeast(d, c) == d # NoContent /\ (d = c \/ Wins(d, c))

In(m, s) == \E i \in 1 .. Len(s) : s[i] = m

(* Message m is on its way to actor y.                                     *)
Transit(y, m) ==
  \/ In(m, mailbox[y])
  \/ \E s, t \in Servers : y = Rep(t) /\ In(m, link[s][t])

(* Content c for key k, or one that wins against it, is.                   *)
OnItsWay(y, k, c) ==
  \E m \in Message : /\ m.type = "MUpdate" /\ Transit(y, m)
                     /\ AtLeast(m.puts[k], c)

(* Whom actor x sends what it stores.                                      *)
Known(x) == (actorList[x] \ {x}) \cup remoteActorList[x]

(* What x has stored for k has reached y, is on its way, or is still to be *)
(* sent; older contents than the last introduction may have been missed.   *)
Passed(x, y, k) ==
  LET c == storage[x][k]
  IN c # NoContent /\ c.ts >= joined =>
       \/ putList[x][k] = c
       \/ AtLeast(storage[y][k], c)
       \/ OnItsWay(y, k, c)

EdgeInv == \A x \in Actors : \A y \in Known(x), k \in Keys : Passed(x, y, k)

(* Messages other than MIntro, from the first n servers.                   *)
Plain(n) == {m \in Message : /\ m.type # "MIntro"
                             /\ m.type = "MRIntro" =>
                                  \E t \in 1 .. n : m.sender = Rep(t)}

Reps(n) == {Rep(t) : t \in 1 .. n}

(* The life of an actor: its server is not started, its MIntro is waiting, *)
(* and it knows its neighbours.                                            *)
Off(x) ==
  /\ x[1] > started /\ x \notin timer
  /\ storage[x] = EmptyMap /\ putList[x] = EmptyMap /\ mailbox[x] = <<>>
  /\ actorList[x] = {} /\ remoteActorList[x] = {}

Waiting(x) ==
  /\ x[1] <= started
  /\ putList[x] = storage[x]
  /\ mailbox[x] # <<>> /\ Head(mailbox[x]) = MIntro(Reps(x[1] - 1))
  /\ Tail(mailbox[x]) \in Seq(Plain(started))
  /\ actorList[x] = {} /\ remoteActorList[x] = {}

Up(x) ==
  /\ x[1] <= started
  /\ mailbox[x] \in Seq(Plain(started))
  /\ actorList[x] = ActorsOf(x[1])
  /\ Reps(x[1] - 1) \subseteq remoteActorList[x]
  /\ remoteActorList[x] \subseteq Reps(started)

PhaseInv == \A x \in Actors : Off(x) \/ Waiting(x) \/ Up(x)

(* Links lead to servers that are started.                                 *)
LinkInv ==
  \A s, t \in Servers : /\ link[s][t] \in Seq(Plain(started))
                        /\ t > started => link[s][t] = <<>>

(* The servers started before t know of it, or will.                       *)
MeetInv ==
  \A s, t \in 1 .. started : s < t =>
    \/ Rep(t) \in remoteActorList[Rep(s)]
    \/ Transit(Rep(s), MRIntro(t))

(* Of every put some actor has it, or a later one.                         *)
PutsInv ==
  \A p \in puts : \E a \in Running :
    /\ storage[a][p.key] # NoContent
    /\ storage[a][p.key].ts >= p.content.ts

-----------------------------------------------------------------------------
(* The order of contents.                                                  *)

LEMMA ContentFields ==
  ASSUME NEW c \in Content
  PROVE  c # NoContent /\ c.ts \in Nat /\ c.uid \in Nat
BY NoContentAssumption, PutsAssumption DEF Content, Uids

LEMMA AtLeastSame ==
  ASSUME NEW c \in Content
  PROVE  AtLeast(c, c)
BY Zenon, ContentFields DEF AtLeast

LEMMA AtLeastLater ==
  ASSUME NEW c \in Content, NEW d \in Content, NEW e \in Content,
         AtLeast(d, c), AtLeast(e, d)
  PROVE  AtLeast(e, c)
BY ContentFields DEF AtLeast, Wins

LEMMA AtLeastBoth ==
  ASSUME NEW c \in Content, NEW d \in Content, AtLeast(d, c), AtLeast(c, d)
  PROVE  c = d
BY ContentFields DEF AtLeast, Wins

LEMMA AtLeastTime ==
  ASSUME NEW c \in Content, NEW d \in Content, AtLeast(d, c)
  PROVE  d.ts >= c.ts
BY ContentFields DEF AtLeast, Wins

LEMMA StoredContent ==
  ASSUME TypeOK, NEW a \in Actors, NEW k \in Keys
  PROVE  /\ storage[a][k] # NoContent => storage[a][k] \in Content
         /\ storage'[a][k] # NoContent /\ TypeOK'
              => storage'[a][k] \in Content
BY DEF TypeOK, Map

-----------------------------------------------------------------------------
(* Messages in transit.                                                    *)

LEMMA InAppend ==
  ASSUME NEW S, NEW s \in Seq(S), NEW e \in S, NEW m
  PROVE  /\ In(m, s) => In(m, Append(s, e))
         /\ In(e, Append(s, e))
<1>1. Len(s) \in Nat /\ Len(Append(s, e)) = Len(s) + 1
      /\ \A i \in 1 .. Len(s) : Append(s, e)[i] = s[i]
      /\ Append(s, e)[Len(s) + 1] = e
  BY LenProperties, AppendProperties
<1>2. ASSUME NEW i \in 1 .. Len(s)
      PROVE  i \in 1 .. Len(Append(s, e))
  BY <1>1
<1>3. Len(s) + 1 \in 1 .. Len(Append(s, e))
  BY <1>1
<1> QED  BY <1>1, <1>2, <1>3 DEF In

LEMMA InTail ==
  ASSUME NEW S, NEW s \in Seq(S), s # <<>>, NEW m, In(m, s)
  PROVE  m = Head(s) \/ In(m, Tail(s))
<1>1. Len(s) \in Nat /\ Len(Tail(s)) = Len(s) - 1
      /\ \A i \in 1 .. Len(Tail(s)) : Tail(s)[i] = s[i + 1]
  BY Zenon, LenProperties, HeadTailProperties
<1>2. PICK i \in 1 .. Len(s) : s[i] = m
  BY Zenon DEF In
<1>3. CASE i = 1
  BY <1>2, <1>3
<1>4. CASE i # 1
  <2>1. i - 1 \in 1 .. Len(Tail(s)) /\ (i - 1) + 1 = i
    BY <1>1, <1>4
  <2> QED  BY Zenon, <1>1, <1>2, <2>1 DEF In
<1> QED  BY Zenon, <1>3, <1>4

LEMMA InEmpty == \A m : ~In(m, <<>>)
BY DEF In

LEMMA InTellLocal ==
  ASSUME NEW S, NEW box \in [Actors -> Seq(S)], NEW T, NEW e \in S,
         NEW y \in Actors, NEW m
  PROVE  /\ In(m, box[y]) => In(m, TellLocal(box, T, e)[y])
         /\ y \in T => In(e, TellLocal(box, T, e)[y])
<1>1. box[y] \in Seq(S)
  BY Zenon
<1>2. TellLocal(box, T, e)[y] = IF y \in T THEN Append(box[y], e) ELSE box[y]
  BY Zenon DEF TellLocal
<1> QED  BY Zenon, <1>1, <1>2, InAppend

LEMMA TellRemoteAt ==
  ASSUME NEW S, link \in [Servers -> [Servers -> Seq(S)]],
         NEW s \in Servers, NEW T, NEW e,
         NEW r \in Servers, NEW t \in Servers
  PROVE  TellRemote(s, T, e)[r][t] =
           IF r = s /\ Rep(t) \in T THEN Append(link[r][t], e) ELSE link[r][t]
BY Zenon DEF TellRemote

LEMMA InTellRemote ==
  ASSUME NEW S, link \in [Servers -> [Servers -> Seq(S)]],
         NEW s \in Servers, NEW T, NEW e \in S,
         NEW r \in Servers, NEW t \in Servers, NEW m
  PROVE  /\ In(m, link[r][t]) => In(m, TellRemote(s, T, e)[r][t])
         /\ r = s /\ Rep(t) \in T => In(e, TellRemote(s, T, e)[r][t])
<1>1. link[r][t] \in Seq(S)
  BY Zenon
<1>2. In(m, link[r][t]) => In(m, Append(link[r][t], e))
  BY Zenon, <1>1, InAppend
<1>3. In(e, Append(link[r][t], e))
  BY Zenon, <1>1, InAppend
<1>4. TellRemote(s, T, e)[r][t] =
        IF r = s /\ Rep(t) \in T THEN Append(link[r][t], e) ELSE link[r][t]
  BY Zenon DEF TellRemote
<1> QED  BY Zenon, <1>2, <1>3, <1>4

LEMMA InPopped ==
  ASSUME NEW S, mailbox \in [Actors -> Seq(S)], NEW a \in Actors,
         mailbox[a] # <<>>, NEW y \in Actors, NEW m, In(m, mailbox[y])
  PROVE  In(m, Popped(a)[y]) \/ (y = a /\ m = Head(mailbox[a]))
<1>1. mailbox[a] \in Seq(S)
  BY Zenon
<1>2. Popped(a)[y] = IF y = a THEN Tail(mailbox[a]) ELSE mailbox[y]
  BY Zenon DEF Popped
<1> QED  BY Zenon, <1>1, <1>2, InTail

(* A message on its way to y stays so until y handles it.                  *)
LEMMA TransitStep ==
  ASSUME TypeOK, [Next]_vars, NEW y \in Actors, NEW m, Transit(y, m)
  PROVE  \/ Transit(y, m)'
         \/ OnMessage(y) /\ mailbox[y] # <<>> /\ m = Head(mailbox[y])
<1>1. mailbox \in [Actors -> Seq(Message)]
      /\ link \in [Servers -> [Servers -> Seq(Message)]]
  BY Zenon DEF TypeOK
<1>2. ASSUME In(m, mailbox[y]) => In(m, mailbox'[y]),
             \A s, t \in Servers : In(m, link[s][t]) => In(m, link'[s][t])
      PROVE  Transit(y, m)'
  BY Zenon, <1>2 DEF Transit
<1>3. CASE NewServer
  <2> DEFINE s == started + 1
             remotes == {Rep(t) : t \in 1 .. started}
  <2>1. s \in Servers /\ 1 .. started \subseteq Servers
    BY <1>3, ServersAssumption DEF NewServer, TypeOK, Servers
  <2>2. remotes \subseteq Actors
    BY Zenon, <2>1, RepType
  <2>3. MIntro(remotes) \in Message /\ MRIntro(s) \in Message
    BY Zenon, <2>1, <2>2, MessageTypes
  <2>4. /\ mailbox' = TellLocal(mailbox, ActorsOf(s), MIntro(remotes))
        /\ link' = TellRemote(s, remotes, MRIntro(s))
    BY Zenon, <1>3 DEF NewServer
  <2> HIDE DEF s, remotes
  <2>5. In(m, mailbox[y]) => In(m, mailbox'[y])
    BY Zenon, <1>1, <2>3, <2>4, InTellLocal
  <2>6. \A r, t \in Servers : In(m, link[r][t]) => In(m, link'[r][t])
    BY Zenon, <1>1, <2>1, <2>3, <2>4, InTellRemote
  <2> QED  BY Zenon, <1>2, <2>5, <2>6
<1>4. ASSUME NEW s \in Servers, NEW t \in Servers, Deliver(s, t)
      PROVE  Transit(y, m)'
  <2>1. /\ link[s][t] # <<>> /\ link[s][t] \in Seq(Message)
        /\ mailbox' = TellLocal(mailbox, {Rep(t)}, Head(link[s][t]))
        /\ link' = [link EXCEPT ![s][t] = Tail(@)]
    BY Zenon, <1>1, <1>4 DEF Deliver
  <2>2. Head(link[s][t]) \in Message
    BY Zenon, <2>1, HeadTailProperties
  <2>3. In(m, mailbox[y]) => In(m, mailbox'[y])
    BY Zenon, <1>1, <2>1, <2>2, InTellLocal
  <2>4. y = Rep(t) => In(Head(link[s][t]), mailbox'[y])
    BY Zenon, <1>1, <2>1, <2>2, InTellLocal
  <2>5. ASSUME NEW q \in Servers, NEW r \in Servers, In(m, link[q][r])
        PROVE  \/ In(m, link'[q][r])
               \/ r = t /\ m = Head(link[s][t])
    <3>1. link'[q][r] = IF q = s /\ r = t THEN Tail(link[s][t]) ELSE link[q][r]
      BY Zenon, <1>1, <2>1
    <3> QED  BY Zenon, <2>1, <2>5, <3>1, InTail
  <2> QED  BY Zenon, <2>3, <2>4, <2>5 DEF Transit
<1>5. ASSUME NEW a \in Actors, TellAfterDone(a)
      PROVE  Transit(y, m)'
  <2>1. mailbox' = TellLocal(mailbox, {a}, MSync) /\ link' = link
    BY Zenon, <1>5 DEF TellAfterDone
  <2>2. In(m, mailbox[y]) => In(m, mailbox'[y])
    BY Zenon, <1>1, <2>1, InTellLocal, MessageTypes
  <2> QED  BY Zenon, <1>2, <2>1, <2>2
<1>6. ASSUME NEW a \in Actors, mailbox[a] # <<>>, OnMessage(a),
             In(m, Popped(a)[y]) => In(m, mailbox'[y]),
             \A s, t \in Servers : In(m, link[s][t]) => In(m, link'[s][t])
      PROVE  \/ Transit(y, m)'
             \/ OnMessage(y) /\ mailbox[y] # <<>> /\ m = Head(mailbox[y])
  <2>1. In(m, mailbox[y]) => In(m, Popped(a)[y])
                               \/ (y = a /\ m = Head(mailbox[a]))
    BY Zenon, <1>1, <1>6, InPopped
  <2> QED  BY Zenon, <1>6, <2>1 DEF Transit
<1>7. ASSUME NEW a \in Actors, mailbox[a] # <<>>
      PROVE  Popped(a) \in [Actors -> Seq(Message)]
  BY Zenon, <1>1, <1>7, PoppedType
<1>8. ASSUME NEW a \in Actors, OnIntro(a)
      PROVE  \/ Transit(y, m)'
             \/ OnMessage(y) /\ mailbox[y] # <<>> /\ m = Head(mailbox[y])
  <2> DEFINE box == TellLocal(Popped(a), {a}, MSync)
  <2>1. /\ mailbox[a] # <<>> /\ link' = link
        /\ mailbox' = TellLocal(box, ActorsOf(a[1]), MUpdate(storage[a]))
    BY Zenon, <1>8 DEF OnIntro, Handles
  <2>2. MSync \in Message /\ MUpdate(storage[a]) \in Message
    BY Zenon, MessageTypes DEF TypeOK
  <2>3. box \in [Actors -> Seq(Message)]
    BY Zenon, <1>7, <2>1, <2>2, TellLocalType
  <2>4. In(m, Popped(a)[y]) => In(m, box[y])
    BY Zenon, <1>7, <2>1, <2>2, InTellLocal
  <2> HIDE DEF box
  <2>5. In(m, box[y]) => In(m, mailbox'[y])
    BY Zenon, <2>1, <2>2, <2>3, InTellLocal
  <2> QED  BY Zenon, <1>6, <1>8, <2>1, <2>4, <2>5 DEF OnMessage
<1>9. ASSUME NEW a \in Actors, OnSync(a)
      PROVE  \/ Transit(y, m)'
             \/ OnMessage(y) /\ mailbox[y] # <<>> /\ m = Head(mailbox[y])
  <2>1. mailbox[a] # <<>>
    BY Zenon, <1>9 DEF OnSync, Handles
  <2>2. CASE mailbox' = Popped(a) /\ link' = link
    BY Zenon, <1>6, <1>9, <2>1, <2>2 DEF OnMessage
  <2>3. ASSUME mailbox' = TellLocal(Popped(a), actorList[a] \ {a},
                                    MUpdate(putList[a])),
               link' = TellRemote(a[1], remoteActorList[a],
                                  MUpdate(putList[a]))
        PROVE  \/ Transit(y, m)'
               \/ OnMessage(y) /\ mailbox[y] # <<>> /\ m = Head(mailbox[y])
    <3>1. MUpdate(putList[a]) \in Message /\ a[1] \in Servers
      BY Zenon, MessageTypes, ActorServer DEF TypeOK
    <3>2. In(m, Popped(a)[y]) => In(m, mailbox'[y])
      BY Zenon, <1>7, <2>1, <2>3, <3>1, InTellLocal
    <3>3. \A s, t \in Servers : In(m, link[s][t]) => In(m, link'[s][t])
      BY Zenon, <1>1, <2>3, <3>1, InTellRemote
    <3> QED  BY Zenon, <1>6, <1>9, <2>1, <3>2, <3>3 DEF OnMessage
  <2> QED  BY Zenon, <1>9, <2>2, <2>3 DEF OnSync
<1>10. ASSUME NEW a \in Actors, OnUpdate(a) \/ OnRIntro(a)
       PROVE  \/ Transit(y, m)'
              \/ OnMessage(y) /\ mailbox[y] # <<>> /\ m = Head(mailbox[y])
  <2>1. mailbox[a] # <<>> /\ mailbox' = Popped(a) /\ link' = link
    BY Zenon, <1>10 DEF OnUpdate, OnRIntro, Handles
  <2> QED  BY Zenon, <1>6, <1>10, <2>1 DEF OnMessage
<1>11. CASE mailbox' = mailbox /\ link' = link
  BY Zenon, <1>2, <1>11
<1> QED
  BY Zenon, <1>3, <1>4, <1>5, <1>8, <1>9, <1>10, <1>11
  DEF Next, vars, netVars, OnMessage, OnPut

-----------------------------------------------------------------------------
(* The life of an actor.                                                   *)

LEMMA ActorOfServer ==
  ASSUME NEW x \in Actors, NEW s \in Servers
  PROVE  x \in ActorsOf(s) <=> x[1] = s
BY DEF Actors, ActorsOf

LEMMA PlainGrows ==
  ASSUME NEW n \in Nat, NEW q \in Nat, n <= q
  PROVE  /\ Plain(n) \subseteq Plain(q)
         /\ Reps(n) \subseteq Reps(q)
         /\ Seq(Plain(n)) \subseteq Seq(Plain(q))
<1>1. 1 .. n \subseteq 1 .. q
  OBVIOUS
<1>2. Plain(n) \subseteq Plain(q) /\ Reps(n) \subseteq Reps(q)
  BY Zenon, <1>1 DEF Plain, Reps
<1> QED  BY Zenon, <1>2, SeqMonotonic

LEMMA PlainMessages ==
  ASSUME NEW n \in Nat
  PROVE  /\ MSync \in Plain(n)
         /\ \A f \in Map : MUpdate(f) \in Plain(n)
         /\ \A s \in Servers : s \in 1 .. n => MRIntro(s) \in Plain(n)
         /\ Plain(n) \subseteq Message
BY Zenon, MessageTypes DEF Plain, MSync, MUpdate, MRIntro

(* The mailbox of an actor whose MIntro is waiting, of server s.           *)
WaitBox(q, s, n) ==
  /\ q # <<>> /\ Head(q) = MIntro(Reps(s - 1)) /\ Tail(q) \in Seq(Plain(n))

LEMMA WaitBoxAppend ==
  ASSUME NEW q \in Seq(Message), NEW s, NEW n \in Nat, NEW e \in Plain(n),
         WaitBox(q, s, n)
  PROVE  WaitBox(Append(q, e), s, n)
<1>1. e \in Message
  BY Zenon DEF Plain
<1>2. /\ Append(q, e) # <<>>
      /\ Head(Append(q, e)) = Head(q)
      /\ Tail(Append(q, e)) = Append(Tail(q), e)
  BY <1>1, AppendProperties, HeadTailAppend DEF WaitBox
<1>3. PICK S : S = Plain(n)
  BY Zenon
<1>4. Append(Tail(q), e) \in Seq(S)
  BY Zenon, <1>3, AppendProperties DEF WaitBox
<1> QED  BY Zenon, <1>2, <1>3, <1>4 DEF WaitBox

LEMMA RepLocal ==
  ASSUME NEW x \in Actors
  PROVE  ActorsOf(x[1]) # {} /\ x \in ActorsOf(x[1])
BY Zenon, ActorServer, ActorOfServer

(* An actor that is running may be told a plain message.                   *)
LEMMA ToldPhase ==
  ASSUME NEW x \in Actors, TypeOK, Waiting(x) \/ Up(x), started' = started,
         NEW e \in Plain(started), mailbox'[x] = Append(mailbox[x], e),
         storage'[x] = storage[x], putList'[x] = putList[x],
         actorList'[x] = actorList[x], remoteActorList'[x] = remoteActorList[x]
  PROVE  Waiting(x)' \/ Up(x)'
<1>1. mailbox[x] \in Seq(Message) /\ started \in Nat
  BY ServersAssumption DEF TypeOK
<1>2. CASE Waiting(x)
  <2>0. WaitBox(mailbox[x], x[1], started)
    BY Zenon, <1>2 DEF Waiting, WaitBox
  <2>1. WaitBox(mailbox'[x], x[1], started)
    BY Zenon, <1>1, <2>0, WaitBoxAppend
  <2> QED  BY Zenon, <1>2, <2>1 DEF Waiting, WaitBox
<1>3. CASE Up(x)
  <2>1. mailbox'[x] \in Seq(Plain(started))
    BY Zenon, <1>3, AppendProperties DEF Up
  <2> QED  BY Zenon, <1>3, <2>1 DEF Up
<1> QED  BY Zenon, <1>2, <1>3

(* A step that leaves an actor alone.                                      *)
LEMMA SamePhase ==
  ASSUME NEW x \in Actors, TypeOK, Off(x) \/ Waiting(x) \/ Up(x),
         started' = started, x \in timer' => x \in timer \/ x[1] <= started,
         mailbox'[x] = mailbox[x],
         storage'[x] = storage[x], putList'[x] = putList[x],
         actorList'[x] = actorList[x], remoteActorList'[x] = remoteActorList[x]
  PROVE  Off(x)' \/ Waiting(x)' \/ Up(x)'
<1>1. x[1] \in Nat /\ started \in Nat
  BY ActorServer, ServersAssumption DEF TypeOK, Servers
<1>2. x[1] > started => ~(x[1] <= started)
  BY <1>1
<1>3. Off(x) => Off(x)'
  BY Zenon, <1>2 DEF Off
<1>4. Waiting(x) => Waiting(x)'
  BY Zenon DEF Waiting
<1>5. Up(x) => Up(x)'
  BY Zenon DEF Up
<1> QED  BY Zenon, <1>3, <1>4, <1>5

LEMMA OffOrStarted ==
  ASSUME NEW x \in Actors, TypeOK, Off(x) \/ Waiting(x) \/ Up(x)
  PROVE  /\ x[1] <= started => Waiting(x) \/ Up(x)
         /\ x[1] > started => Off(x)
<1>1. x[1] \in Nat /\ started \in Nat
  BY ActorServer, ServersAssumption DEF TypeOK, Servers
<1>2. x[1] > started <=> ~(x[1] <= started)
  BY <1>1
<1> QED  BY Zenon, <1>2 DEF Off, Waiting, Up

(* Whose turn it is to handle a message.                                   *)
LEMMA HandlerPhase ==
  ASSUME TypeOK, PhaseInv, NEW a \in Actors, OnMessage(a)
  PROVE  /\ mailbox[a] # <<>> /\ a[1] <= started
         /\ OnIntro(a) => Waiting(a)
         /\ ~OnIntro(a) => Up(a)
<1>1. mailbox[a] # <<>>
  BY Zenon DEF OnMessage, OnIntro, OnSync, OnUpdate, OnRIntro, Handles
<1>2. Waiting(a) \/ Up(a)
  BY Zenon, <1>1 DEF PhaseInv, Off
<1>3. Waiting(a) => Head(mailbox[a]).type = "MIntro"
  <2>1. \A R : MIntro(R).type = "MIntro"
    BY DEF MIntro
  <2> QED  BY Zenon, <2>1 DEF Waiting
<1>4. Up(a) => Head(mailbox[a]).type # "MIntro"
  <2>1. Up(a) => Head(mailbox[a]) \in Plain(started)
    BY Zenon, <1>1, HeadTailProperties DEF Up
  <2> QED  BY Zenon, <2>1 DEF Plain
<1>5. ~OnIntro(a) => Head(mailbox[a]).type # "MIntro"
  BY Zenon DEF OnMessage, OnSync, OnUpdate, OnRIntro, Handles
<1>6. OnIntro(a) => Head(mailbox[a]).type = "MIntro"
  BY Zenon DEF OnIntro, Handles
<1> QED  BY Zenon, <1>1, <1>2, <1>3, <1>4, <1>5, <1>6 DEF Waiting, Up

LEMMA PhaseStep ==
  ASSUME TypeOK, PhaseInv, LinkInv, [Next]_vars
  PROVE  PhaseInv'
<1> SUFFICES ASSUME NEW x \in Actors
             PROVE  Off(x)' \/ Waiting(x)' \/ Up(x)'
  BY Zenon DEF PhaseInv
<1>1. Off(x) \/ Waiting(x) \/ Up(x)
  BY Zenon DEF PhaseInv
<1>2. x[1] \in Servers /\ x[1] \in Nat /\ started \in Nat
  BY ActorServer, ServersAssumption DEF TypeOK, Servers
<1>3. CASE NewServer
  <2> DEFINE s == started + 1
             remotes == {Rep(t) : t \in 1 .. started}
  <2>1. s \in Servers /\ s \in Nat /\ started <= s /\ s - 1 = started
    BY <1>2, <1>3, ServersAssumption DEF NewServer, TypeOK, Servers
  <2>2. /\ started' = s
        /\ mailbox' = TellLocal(mailbox, ActorsOf(s), MIntro(remotes))
        /\ storage' = storage /\ putList' = putList /\ timer' = timer
        /\ actorList' = actorList /\ remoteActorList' = remoteActorList
    BY Zenon, <1>3 DEF NewServer, actorVars
  <2>3. remotes = Reps(started)
    BY Zenon DEF Reps
  <2>4. mailbox'[x] = IF x[1] = s THEN Append(mailbox[x], MIntro(remotes))
                                  ELSE mailbox[x]
    BY Zenon, <2>1, <2>2, ActorOfServer DEF TellLocal
  <2>5. CASE x[1] = s
    <3>1. x[1] > started
      BY <1>2, <2>5
    <3>2. Off(x)
      BY Zenon, <1>1, <3>1, OffOrStarted
    <3>3. mailbox'[x] = Append(<<>>, MIntro(Reps(x[1] - 1)))
      BY Zenon, <2>1, <2>3, <2>4, <2>5, <3>2 DEF Off
    <3> HIDE DEF s, remotes
    <3>4. \A e : /\ Append(<<>>, e) # <<>> /\ Head(Append(<<>>, e)) = e
                 /\ Tail(Append(<<>>, e)) = <<>>
      BY Zenon, EmptySeq, AppendProperties, HeadTailAppend
    <3>5. <<>> \in Seq(Plain(started'))
      BY Zenon, EmptySeq
    <3>6. x[1] <= started'
      BY <1>2, <2>2, <2>5
    <3> QED  BY Zenon, <2>2, <3>2, <3>3, <3>4, <3>5, <3>6 DEF Off, Waiting
  <2>6. CASE x[1] # s
    <3>1. /\ x[1] > started => x[1] > started'
          /\ x[1] <= started => x[1] <= started'
      BY <1>2, <2>2, <2>6
    <3>2. /\ Seq(Plain(started)) \subseteq Seq(Plain(started'))
          /\ Reps(started) \subseteq Reps(started')
      BY Zenon, <1>2, <2>1, <2>2, PlainGrows
    <3>3. mailbox'[x] = mailbox[x]
      BY Zenon, <2>4, <2>6
    <3>4. Off(x) => Off(x)'
      BY Zenon, <2>2, <3>1, <3>3 DEF Off
    <3>5. Waiting(x) => Waiting(x)'
      BY Zenon, <2>2, <3>1, <3>2, <3>3 DEF Waiting
    <3>6. Up(x) => Up(x)'
      BY Zenon, <2>2, <3>1, <3>2, <3>3 DEF Up
    <3> QED  BY Zenon, <1>1, <3>4, <3>5, <3>6
  <2> QED  BY Zenon, <2>5, <2>6
<1>4. ASSUME NEW s \in Servers, NEW t \in Servers, Deliver(s, t)
      PROVE  Off(x)' \/ Waiting(x)' \/ Up(x)'
  <2>1. /\ link[s][t] # <<>> /\ link[s][t] \in Seq(Plain(started))
        /\ mailbox' = TellLocal(mailbox, {Rep(t)}, Head(link[s][t]))
        /\ storage' = storage /\ putList' = putList /\ timer' = timer
        /\ actorList' = actorList /\ remoteActorList' = remoteActorList
        /\ started' = started
    BY Zenon, <1>4 DEF Deliver, actorVars, LinkInv
  <2>2. Head(link[s][t]) \in Plain(started)
    BY Zenon, <2>1, HeadTailProperties
  <2>3. CASE x = Rep(t)
    <3>1. x[1] = t
      BY <2>3 DEF Rep
    <3>2. ~(x[1] > started)
      BY Zenon, <2>1, <3>1 DEF LinkInv
    <3>3. Waiting(x) \/ Up(x)
      BY Zenon, <1>1, <3>2 DEF Off
    <3>4. mailbox'[x] = Append(mailbox[x], Head(link[s][t]))
      BY Zenon, <2>1, <2>3 DEF TellLocal
    <3> QED  BY Zenon, <2>1, <2>2, <3>3, <3>4, ToldPhase
  <2>4. CASE x # Rep(t)
    <3>1. mailbox'[x] = mailbox[x]
      BY Zenon, <2>1, <2>4 DEF TellLocal
    <3> QED  BY Zenon, <1>1, <2>1, <3>1, SamePhase
  <2> QED  BY Zenon, <2>3, <2>4
<1>5. ASSUME NEW a \in Actors, TellAfterDone(a)
      PROVE  Off(x)' \/ Waiting(x)' \/ Up(x)'
  <2>1. /\ a \in timer /\ timer' = timer \ {a}
        /\ mailbox' = TellLocal(mailbox, {a}, MSync)
        /\ storage' = storage /\ putList' = putList
        /\ actorList' = actorList /\ remoteActorList' = remoteActorList
        /\ started' = started
    BY Zenon, <1>5 DEF TellAfterDone, actorVars
  <2>2. CASE x = a
    <3>1. Waiting(x) \/ Up(x)
      BY Zenon, <1>1, <2>1, <2>2 DEF Off
    <3>2. mailbox'[x] = Append(mailbox[x], MSync)
      BY Zenon, <2>1, <2>2 DEF TellLocal
    <3>3. MSync \in Plain(started)
      BY Zenon, <1>2, PlainMessages
    <3> QED  BY Zenon, <2>1, <3>1, <3>2, <3>3, ToldPhase
  <2>3. CASE x # a
    <3>1. mailbox'[x] = mailbox[x] /\ (x \in timer' => x \in timer)
      BY Zenon, <2>1, <2>3 DEF TellLocal
    <3> QED  BY Zenon, <1>1, <2>1, <3>1, SamePhase
  <2> QED  BY Zenon, <2>2, <2>3
<1>6. ASSUME NEW a \in Actors, NEW k \in Keys, NEW u \in Uids, OnPut(a, k, u)
      PROVE  Off(x)' \/ Waiting(x)' \/ Up(x)'
  <2> DEFINE c == [ts |-> now, uid |-> u]
  <2>1. /\ a[1] <= started
        /\ storage' = [storage EXCEPT ![a][k] = c]
        /\ putList' = [putList EXCEPT ![a][k] = c]
        /\ actorList' = actorList /\ remoteActorList' = remoteActorList
        /\ mailbox' = mailbox /\ timer' = timer /\ started' = started
    BY Zenon, <1>6 DEF OnPut, netVars
  <2> HIDE DEF c
  <2>2. CASE x = a
    <3>1. Waiting(x) \/ Up(x)
      BY Zenon, <1>1, <2>1, <2>2, OffOrStarted
    <3>2. putList[x] = storage[x] => putList'[x] = storage'[x]
      BY Zenon, <2>1, <2>2 DEF TypeOK
    <3>3. Waiting(x) => Waiting(x)'
      BY Zenon, <2>1, <3>2 DEF Waiting
    <3>4. Up(x) => Up(x)'
      BY Zenon, <2>1 DEF Up
    <3> QED  BY Zenon, <3>1, <3>3, <3>4
  <2>3. CASE x # a
    <3>1. storage'[x] = storage[x] /\ putList'[x] = putList[x]
      BY Zenon, <2>1, <2>3 DEF TypeOK
    <3> QED  BY Zenon, <1>1, <2>1, <3>1, SamePhase
  <2> QED  BY Zenon, <2>2, <2>3
<1>7. ASSUME NEW a \in Actors, OnIntro(a)
      PROVE  Off(x)' \/ Waiting(x)' \/ Up(x)'
  <2>1. /\ mailbox[a] # <<>>
        /\ actorList' = [actorList EXCEPT ![a] = ActorsOf(a[1])]
        /\ remoteActorList' =
             [remoteActorList EXCEPT ![a] = Head(mailbox[a]).remotes]
        /\ mailbox' = TellLocal(TellLocal(Popped(a), {a}, MSync),
                                ActorsOf(a[1]), MUpdate(storage[a]))
        /\ storage' = storage /\ putList' = putList /\ timer' = timer
        /\ started' = started
    BY Zenon, <1>7 DEF OnIntro, Handles
  <2>2. Waiting(a) /\ a[1] <= started
    BY Zenon, <1>7, HandlerPhase DEF OnMessage
  <2>3. MSync \in Plain(started) /\ MUpdate(storage[a]) \in Plain(started)
    BY Zenon, <1>2, PlainMessages DEF TypeOK
  <2>4. a \in ActorsOf(a[1])
    BY Zenon, RepLocal
  <2>5. CASE x = a
    <3>1. mailbox'[x] =
            Append(Append(Tail(mailbox[x]), MSync), MUpdate(storage[x]))
      BY Zenon, <2>1, <2>4, <2>5 DEF TellLocal, Popped, TypeOK
    <3>2. Tail(mailbox[x]) \in Seq(Plain(started))
      BY Zenon, <2>2, <2>5 DEF Waiting
    <3>3. PICK S : S = Plain(started)
      BY Zenon
    <3>4. mailbox'[x] \in Seq(Plain(started))
      <4>1. Append(Tail(mailbox[x]), MSync) \in Seq(S)
        BY Zenon, <2>3, <3>2, <3>3, AppendProperties
      <4>2. MUpdate(storage[x]) \in S
        BY Zenon, <2>3, <2>5, <3>3
      <4> QED  BY Zenon, <3>1, <3>3, <4>1, <4>2, AppendProperties
    <3>5. \A R : MIntro(R).remotes = R
      BY DEF MIntro
    <3>6. remoteActorList'[x] = Reps(x[1] - 1)
      BY Zenon, <2>1, <2>2, <2>5, <3>5 DEF Waiting, TypeOK
    <3>7. actorList'[x] = ActorsOf(x[1])
      BY Zenon, <2>1, <2>5 DEF TypeOK
    <3>8. Reps(x[1] - 1) \subseteq Reps(started)
      <4>1. x[1] - 1 \in Nat /\ x[1] - 1 <= started
        BY <1>2, <2>2, <2>5 DEF Servers
      <4> QED  BY Zenon, <1>2, <4>1, PlainGrows
    <3> QED  BY Zenon, <2>1, <2>2, <2>5, <3>4, <3>6, <3>7, <3>8 DEF Up
  <2>6. CASE x # a
    <3>1. actorList'[x] = actorList[x] /\ remoteActorList'[x] = remoteActorList[x]
      BY Zenon, <2>1, <2>6 DEF TypeOK
    <3>2. CASE x \in ActorsOf(a[1])
      <4>1. x[1] = a[1]
        BY Zenon, <3>2, ActorServer, ActorOfServer
      <4>2. Waiting(x) \/ Up(x)
        BY Zenon, <1>1, <2>2, <4>1, OffOrStarted
      <4>3. mailbox'[x] = Append(mailbox[x], MUpdate(storage[a]))
        BY Zenon, <2>1, <2>6, <3>2 DEF TellLocal, Popped, TypeOK
      <4> QED  BY Zenon, <2>1, <2>3, <3>1, <4>2, <4>3, ToldPhase
    <3>3. CASE x \notin ActorsOf(a[1])
      <4>1. mailbox'[x] = mailbox[x]
        BY Zenon, <2>1, <2>6, <3>3 DEF TellLocal, Popped, TypeOK
      <4> QED  BY Zenon, <1>1, <2>1, <3>1, <4>1, SamePhase
    <3> QED  BY Zenon, <3>2, <3>3
  <2> QED  BY Zenon, <2>5, <2>6
<1>8. ASSUME NEW a \in Actors, OnSync(a)
      PROVE  Off(x)' \/ Waiting(x)' \/ Up(x)'
  <2>0. ~OnIntro(a)
    BY Zenon, <1>8 DEF OnSync, OnIntro, Handles
  <2>1. Up(a) /\ a[1] <= started /\ mailbox[a] # <<>>
    BY Zenon, <1>8, <2>0, HandlerPhase DEF OnMessage
  <2>2. /\ storage' = storage /\ putList' = [putList EXCEPT ![a] = EmptyMap]
        /\ actorList' = actorList /\ remoteActorList' = remoteActorList
        /\ started' = started /\ timer' = timer \cup {a}
    BY Zenon, <1>8 DEF OnSync, Rearm
  <2>3. \/ mailbox' = Popped(a)
        \/ mailbox' = TellLocal(Popped(a), actorList[a] \ {a},
                                MUpdate(putList[a]))
    BY Zenon, <1>8 DEF OnSync
  <2>4. CASE x = a
    <3>1. mailbox'[x] = Tail(mailbox[x])
      BY Zenon, <2>3, <2>4 DEF TellLocal, Popped, TypeOK
    <3>2. mailbox'[x] \in Seq(Plain(started))
      BY Zenon, <2>1, <2>4, <3>1, HeadTailProperties DEF Up
    <3> QED  BY Zenon, <2>1, <2>2, <2>4, <3>2 DEF Up
  <2>5. CASE x # a
    <3>1. putList'[x] = putList[x] /\ (x \in timer' => x \in timer)
      BY Zenon, <2>2, <2>5 DEF TypeOK
    <3>2. \/ mailbox'[x] = mailbox[x]
          \/ /\ x \in actorList[a]
             /\ mailbox'[x] = Append(mailbox[x], MUpdate(putList[a]))
      BY Zenon, <2>3, <2>5 DEF TellLocal, Popped, TypeOK
    <3>3. CASE mailbox'[x] = mailbox[x]
      BY Zenon, <1>1, <2>2, <3>1, <3>3, SamePhase
    <3>4. CASE /\ x \in actorList[a]
               /\ mailbox'[x] = Append(mailbox[x], MUpdate(putList[a]))
      <4>1. x[1] = a[1]
        BY Zenon, <2>1, <3>4, ActorServer, ActorOfServer DEF Up
      <4>2. Waiting(x) \/ Up(x)
        BY Zenon, <1>1, <2>1, <4>1, OffOrStarted
      <4>3. MUpdate(putList[a]) \in Plain(started)
        BY Zenon, <1>2, PlainMessages DEF TypeOK
      <4> QED  BY Zenon, <2>2, <3>1, <3>4, <4>2, <4>3, ToldPhase
    <3> QED  BY Zenon, <3>2, <3>3, <3>4
  <2> QED  BY Zenon, <2>4, <2>5
<1>9. ASSUME NEW a \in Actors, OnUpdate(a) \/ OnRIntro(a)
      PROVE  Off(x)' \/ Waiting(x)' \/ Up(x)'
  <2>0. ~OnIntro(a)
    BY Zenon, <1>9 DEF OnUpdate, OnRIntro, OnIntro, Handles
  <2>1. Up(a) /\ a[1] <= started /\ mailbox[a] # <<>>
    BY Zenon, <1>9, <2>0, HandlerPhase DEF OnMessage
  <2>2. /\ mailbox' = Popped(a) /\ actorList' = actorList
        /\ started' = started /\ timer' = timer
    BY Zenon, <1>9 DEF OnUpdate, OnRIntro
  <2>3. /\ Head(mailbox[a]) \in Plain(started)
        /\ Tail(mailbox[a]) \in Seq(Plain(started))
    BY Zenon, <2>1, HeadTailProperties DEF Up
  <2>4. \/ remoteActorList' = remoteActorList
        \/ /\ Head(mailbox[a]).type = "MRIntro"
           /\ remoteActorList' =
               [remoteActorList EXCEPT ![a] = @ \cup {Head(mailbox[a]).sender}]
    BY Zenon, <1>9 DEF OnUpdate, OnRIntro, Handles
  <2>5. CASE x = a
    <3>1. mailbox'[x] \in Seq(Plain(started))
      BY Zenon, <2>2, <2>3, <2>5 DEF Popped, TypeOK
    <3>2. /\ remoteActorList[x] \subseteq remoteActorList'[x]
          /\ remoteActorList'[x] \subseteq Reps(started)
      <4>1. Head(mailbox[a]).type = "MRIntro" =>
              Head(mailbox[a]).sender \in Reps(started)
        BY Zenon, <2>3 DEF Plain, Reps
      <4>2. \/ remoteActorList'[x] = remoteActorList[x]
            \/ /\ Head(mailbox[a]).type = "MRIntro"
               /\ remoteActorList'[x] =
                    remoteActorList[x] \cup {Head(mailbox[a]).sender}
        BY Zenon, <2>4, <2>5 DEF TypeOK
      <4>3. remoteActorList[x] \subseteq Reps(started)
        BY Zenon, <2>1, <2>5 DEF Up
      <4> QED  BY Zenon, <4>1, <4>2, <4>3
    <3> QED  BY Zenon, <2>1, <2>2, <2>5, <3>1, <3>2 DEF Up
  <2>6. CASE x # a
    <3>1. /\ mailbox'[x] = mailbox[x]
          /\ remoteActorList'[x] = remoteActorList[x]
      BY Zenon, <2>2, <2>4, <2>6 DEF Popped, TypeOK
    <3>2. storage'[x] = storage[x] /\ putList'[x] = putList[x]
      BY Zenon, <1>9, <2>6 DEF OnUpdate, OnRIntro, TypeOK
    <3> QED  BY Zenon, <1>1, <2>2, <3>1, <3>2, SamePhase
  <2> QED  BY Zenon, <2>5, <2>6
<1>10. CASE UNCHANGED vars
  BY Zenon, <1>1, <1>10, SamePhase DEF vars, actorVars, netVars
<1> QED
  BY Zenon, <1>3, <1>4, <1>5, <1>6, <1>7, <1>8, <1>9, <1>10
  DEF Next, OnMessage

-----------------------------------------------------------------------------
(* Links lead to servers that are started, and whoever was started before  *)
(* a server knows of it or will.                                           *)

LEMMA RepOfStarted ==
  ASSUME TypeOK, NEW t \in Servers
  PROVE  /\ started \in Nat /\ t \in Nat
         /\ Rep(t) \in Reps(started) => t \in 1 .. started /\ ~(t > started)
         /\ 1 .. started \subseteq Servers
<1>1. started \in Nat /\ t \in Nat /\ 1 .. started \subseteq Servers
  BY ServersAssumption DEF TypeOK, Servers
<1>2. Rep(t) \in Reps(started) => t \in 1 .. started
  BY DEF Reps, Rep
<1> QED  BY <1>1, <1>2

LEMMA LinkStep ==
  ASSUME TypeOK, PhaseInv, LinkInv, [Next]_vars
  PROVE  LinkInv'
<1> SUFFICES ASSUME NEW q \in Servers, NEW r \in Servers
             PROVE  /\ link'[q][r] \in Seq(Plain(started'))
                    /\ r > started' => link'[q][r] = <<>>
  BY Zenon DEF LinkInv
<1>1. /\ link[q][r] \in Seq(Plain(started))
      /\ r > started => link[q][r] = <<>>
  BY Zenon DEF LinkInv
<1>2. started \in Nat /\ r \in Nat
  BY Zenon, RepOfStarted
<1>3. link \in [Servers -> [Servers -> Seq(Message)]]
  BY Zenon DEF TypeOK
<1>4. CASE NewServer
  <2> DEFINE s == started + 1
             remotes == {Rep(t) : t \in 1 .. started}
  <2>1. s \in Servers /\ s \in Nat /\ started <= s /\ s \in 1 .. s
    BY <1>2, <1>4, ServersAssumption DEF NewServer, TypeOK, Servers
  <2>2. started' = s /\ link' = TellRemote(s, remotes, MRIntro(s))
    BY Zenon, <1>4 DEF NewServer
  <2>3. remotes = Reps(started)
    BY Zenon DEF Reps
  <2>4. r > s => r > started
    BY <1>2
  <2> HIDE DEF s, remotes
  <2>5. link'[q][r] = IF q = s /\ Rep(r) \in remotes
                        THEN Append(link[q][r], MRIntro(s)) ELSE link[q][r]
    BY Zenon, <1>3, <2>1, <2>2 DEF TellRemote
  <2>6. PICK S : S = Plain(s)
    BY Zenon
  <2>7. link[q][r] \in Seq(S) /\ MRIntro(s) \in S
    BY Zenon, <1>1, <1>2, <2>1, <2>6, PlainGrows, PlainMessages
  <2>8. link'[q][r] \in Seq(S)
    BY Zenon, <2>5, <2>7, AppendProperties
  <2>9. r > started' => link'[q][r] = <<>>
    BY Zenon, <1>1, <2>2, <2>3, <2>4, <2>5, RepOfStarted
  <2> QED  BY Zenon, <2>2, <2>6, <2>8, <2>9
<1>5. ASSUME NEW s \in Servers, NEW t \in Servers, Deliver(s, t)
      PROVE  /\ link'[q][r] \in Seq(Plain(started'))
             /\ r > started' => link'[q][r] = <<>>
  <2>1. /\ link[s][t] # <<>> /\ started' = started
        /\ link' = [link EXCEPT ![s][t] = Tail(@)]
    BY Zenon, <1>5 DEF Deliver
  <2>2. link'[q][r] = IF q = s /\ r = t THEN Tail(link[q][r]) ELSE link[q][r]
    BY Zenon, <1>3, <2>1
  <2>3. CASE q = s /\ r = t
    <3>1. PICK S : S = Plain(started)
      BY Zenon
    <3>2. link[q][r] \in Seq(S) /\ link[q][r] # <<>>
      BY Zenon, <1>1, <2>1, <2>3, <3>1
    <3>3. Tail(link[q][r]) \in Seq(S)
      BY Zenon, <3>2, HeadTailProperties
    <3> QED  BY Zenon, <1>1, <2>1, <2>2, <2>3, <3>1, <3>2, <3>3
  <2>4. CASE ~(q = s /\ r = t)
    BY Zenon, <1>1, <2>1, <2>2, <2>4
  <2> QED  BY Zenon, <2>3, <2>4
<1>6. CASE link' = link /\ started' = started
  BY Zenon, <1>1, <1>6
<1>7. ASSUME NEW a \in Actors, OnSync(a)
      PROVE  /\ link'[q][r] \in Seq(Plain(started'))
             /\ r > started' => link'[q][r] = <<>>
  <2>1. started' = started /\ ~OnIntro(a)
    BY Zenon, <1>7 DEF OnSync, OnIntro, Handles
  <2>2. remoteActorList[a] \subseteq Reps(started)
    BY Zenon, <1>7, <2>1, HandlerPhase DEF OnMessage, Up
  <2>3. CASE link' = link
    BY Zenon, <1>6, <2>1, <2>3
  <2>4. CASE link' = TellRemote(a[1], remoteActorList[a], MUpdate(putList[a]))
    <3>1. link'[q][r] =
            IF q = a[1] /\ Rep(r) \in remoteActorList[a]
              THEN Append(link[q][r], MUpdate(putList[a])) ELSE link[q][r]
      BY Zenon, <1>3, <2>4, ActorServer DEF TellRemote
    <3>2. PICK S : S = Plain(started)
      BY Zenon
    <3>3. link[q][r] \in Seq(S) /\ MUpdate(putList[a]) \in S
      BY Zenon, <1>1, <1>2, <3>2, PlainMessages DEF TypeOK
    <3>4. link'[q][r] \in Seq(S)
      <4>1. Append(link[q][r], MUpdate(putList[a])) \in Seq(S)
        BY Zenon, <3>3, AppendProperties
      <4> QED  BY Zenon, <3>1, <3>3, <4>1
    <3>5. r > started' => link'[q][r] = <<>>
      BY Zenon, <1>1, <2>1, <2>2, <3>1, RepOfStarted
    <3> QED  BY Zenon, <2>1, <3>2, <3>4, <3>5
  <2> QED  BY Zenon, <1>7, <2>3, <2>4 DEF OnSync
<1> QED
  BY Zenon, <1>4, <1>5, <1>6, <1>7
  DEF Next, vars, netVars, OnMessage, OnPut, OnIntro, OnUpdate, OnRIntro,
      TellAfterDone

(* An actor learns of others from its MIntro and from an MRIntro.          *)
LEMMA KnownStep ==
  ASSUME TypeOK, PhaseInv, [Next]_vars, NEW x \in Actors
  PROVE  /\ remoteActorList[x] \subseteq remoteActorList'[x]
         /\ \/ OnIntro(x) \/ OnRIntro(x)
            \/ /\ actorList'[x] = actorList[x]
               /\ remoteActorList'[x] = remoteActorList[x]
<1>1. ASSUME NEW a \in Actors, OnIntro(a)
      PROVE  \/ remoteActorList[x] = {} /\ x = a
             \/ /\ actorList'[x] = actorList[x]
                /\ remoteActorList'[x] = remoteActorList[x]
  <2>1. Waiting(a)
    BY Zenon, <1>1, HandlerPhase DEF OnMessage
  <2>2. x # a => /\ actorList'[x] = actorList[x]
                 /\ remoteActorList'[x] = remoteActorList[x]
    BY Zenon, <1>1 DEF OnIntro, TypeOK
  <2> QED  BY Zenon, <2>1, <2>2 DEF Waiting
<1>2. ASSUME NEW a \in Actors, OnRIntro(a)
      PROVE  /\ remoteActorList[x] \subseteq remoteActorList'[x]
             /\ \/ x = a
                \/ /\ actorList'[x] = actorList[x]
                   /\ remoteActorList'[x] = remoteActorList[x]
  BY Zenon, <1>2 DEF OnRIntro, TypeOK
<1>3. \/ \E a \in Actors : OnIntro(a) \/ OnRIntro(a)
      \/ actorList' = actorList /\ remoteActorList' = remoteActorList
  BY Zenon DEF Next, vars, actorVars, NewServer, Deliver, TellAfterDone, OnPut,
     OnMessage, OnSync, OnUpdate
<1> QED  BY Zenon, <1>1, <1>2, <1>3

LEMMA StartedGrows ==
  ASSUME TypeOK, [Next]_vars
  PROVE  started' = started \/ (NewServer /\ started' = started + 1)
BY Zenon DEF Next, vars, NewServer, Deliver, TellAfterDone, OnPut, OnMessage,
   OnIntro, OnSync, OnUpdate, OnRIntro

LEMMA MeetStep ==
  ASSUME TypeOK, PhaseInv, MeetInv, [Next]_vars
  PROVE  MeetInv'
<1> SUFFICES ASSUME NEW s \in 1 .. started', NEW t \in 1 .. started', s < t
             PROVE  \/ Rep(t) \in remoteActorList'[Rep(s)]
                    \/ Transit(Rep(s), MRIntro(t))'
  BY Zenon DEF MeetInv
<1>1. started \in Nat
  BY ServersAssumption DEF TypeOK
<1>2. ASSUME s \in 1 .. started, t \in 1 .. started
      PROVE  \/ Rep(t) \in remoteActorList'[Rep(s)]
             \/ Transit(Rep(s), MRIntro(t))'
  <2>1. s \in Servers /\ t \in Servers
    BY <1>2, ServersAssumption DEF TypeOK, Servers
  <2>2. Rep(s) \in Actors
    BY Zenon, <2>1, RepType
  <2>3. CASE Rep(t) \in remoteActorList[Rep(s)]
    BY Zenon, <2>2, <2>3, KnownStep
  <2>4. CASE Transit(Rep(s), MRIntro(t))
    <3>1. PICK m : m = MRIntro(t)
      BY Zenon
    <3>2. \/ Transit(Rep(s), m)'
          \/ OnMessage(Rep(s)) /\ m = Head(mailbox[Rep(s)])
      BY Zenon, <2>2, <2>4, <3>1, TransitStep
    <3>3. CASE OnMessage(Rep(s)) /\ m = Head(mailbox[Rep(s)])
      <4>1. m.type = "MRIntro" /\ m.sender = Rep(t)
        BY <3>1 DEF MRIntro
      <4>2. OnRIntro(Rep(s))
        BY Zenon, <3>3, <4>1 DEF OnMessage, OnIntro, OnSync, OnUpdate, Handles
      <4> QED  BY Zenon, <2>2, <3>3, <4>1, <4>2 DEF OnRIntro, TypeOK
    <3> QED  BY Zenon, <3>1, <3>2, <3>3
  <2> QED  BY Zenon, <1>2, <2>3, <2>4 DEF MeetInv
<1>3. CASE NewServer /\ started' = started + 1 /\ t = started + 1
  <2>1. s \in 1 .. started
    BY <1>1, <1>3
  <2>2. s \in Servers /\ t \in Servers
    BY <1>1, <1>3, <2>1, ServersAssumption DEF NewServer, TypeOK, Servers
  <2>3. link' = TellRemote(t, Reps(started), MRIntro(t))
    BY Zenon, <1>3 DEF NewServer, Reps
  <2>4. Rep(s) \in Reps(started)
    BY Zenon, <2>1 DEF Reps
  <2>5. MRIntro(t) \in Message
    BY Zenon, <2>2, MessageTypes
  <2>6. In(MRIntro(t), link'[t][s])
    <3>1. link \in [Servers -> [Servers -> Seq(Message)]]
      BY Zenon DEF TypeOK
    <3> QED  BY Zenon, <2>2, <2>3, <2>4, <2>5, <3>1, InTellRemote
  <2> QED  BY Zenon, <2>2, <2>6 DEF Transit
<1>4. ASSUME started' = started + 1, t # started + 1
      PROVE  s \in 1 .. started /\ t \in 1 .. started
  BY <1>1, <1>4
<1> QED  BY Zenon, <1>2, <1>3, <1>4, StartedGrows

-----------------------------------------------------------------------------
(* Contents travel.                                                        *)

LEMMA AtLeastTotal ==
  ASSUME NEW c \in Content, NEW d \in Content, ~Wins(c, d)
  PROVE  AtLeast(d, c)
BY ContentFields DEF AtLeast, Wins, Content

(* What an actor stores changes by a put or a winning update, and is then  *)
(* to be sent; what is to be sent stays so until the next MSync.           *)
LEMMA StorageStep ==
  ASSUME TypeOK, [Next]_vars, NEW x \in Actors, NEW k \in Keys
  PROVE  \/ /\ storage'[x][k] = storage[x][k]
            /\ putList'[x][k] = putList[x][k] \/ OnSync(x)
         \/ /\ storage'[x][k] # NoContent
            /\ putList'[x][k] = storage'[x][k]
            /\ \/ storage'[x][k].ts = now
               \/ Wins(storage'[x][k], storage[x][k])
<1> DEFINE Goal ==
         \/ /\ storage'[x][k] = storage[x][k]
            /\ putList'[x][k] = putList[x][k] \/ OnSync(x)
         \/ /\ storage'[x][k] # NoContent
            /\ putList'[x][k] = storage'[x][k]
            /\ \/ storage'[x][k].ts = now
               \/ Wins(storage'[x][k], storage[x][k])
<1> SUFFICES Goal
  BY Zenon
<1>1. CASE storage'[x] = storage[x] /\ putList'[x] = putList[x]
  BY Zenon, <1>1
<1>2. ASSUME NEW a \in Actors, NEW l \in Keys, NEW u \in Uids, OnPut(a, l, u)
      PROVE  Goal
  <2>1. PICK c : c = [ts |-> now, uid |-> u]
    BY Zenon
  <2>2. c \in Content /\ c # NoContent /\ c.ts = now
    BY <2>1, NoContentAssumption DEF TypeOK, Content
  <2>3. /\ storage' = [storage EXCEPT ![a][l] = c]
        /\ putList' = [putList EXCEPT ![a][l] = c]
    BY Zenon, <1>2, <2>1 DEF OnPut
  <2>4. \/ storage'[x][k] = c /\ putList'[x][k] = c
        \/ storage'[x][k] = storage[x][k] /\ putList'[x][k] = putList[x][k]
    BY Zenon, <2>3 DEF TypeOK, Map
  <2> QED  BY Zenon, <2>2, <2>4
<1>3. ASSUME NEW a \in Actors, OnUpdate(a)
      PROVE  Goal
  <2> DEFINE new == Head(mailbox[a]).puts
             ks == Adopted(a, new)
  <2>1. /\ storage' = [storage EXCEPT ![a] = Overwrite(@, new, ks)]
        /\ putList' = [putList EXCEPT ![a] = Overwrite(@, new, ks)]
    BY Zenon, <1>3 DEF OnUpdate
  <2>2. k \in ks => new[k] # NoContent /\ Wins(new[k], storage[a][k])
    BY Zenon DEF Adopted
  <2> HIDE DEF new, ks
  <2>3. \/ storage'[x][k] = storage[x][k] /\ putList'[x][k] = putList[x][k]
        \/ /\ a = x /\ k \in ks
           /\ storage'[x][k] = new[k] /\ putList'[x][k] = new[k]
    BY Zenon, <2>1 DEF TypeOK, Overwrite
  <2> QED  BY Zenon, <2>2, <2>3
<1>4. ASSUME NEW a \in Actors, OnSync(a)
      PROVE  Goal
  <2>1. storage' = storage /\ putList' = [putList EXCEPT ![a] = EmptyMap]
    BY Zenon, <1>4 DEF OnSync
  <2>2. x # a => putList'[x] = putList[x]
    BY Zenon, <2>1 DEF TypeOK
  <2> QED  BY Zenon, <1>4, <2>1, <2>2
<1>5. \/ storage' = storage /\ putList' = putList
      \/ \E a \in Actors : OnUpdate(a) \/ OnSync(a)
      \/ \E a \in Actors, l \in Keys, u \in Uids : OnPut(a, l, u)
  BY Zenon DEF Next, vars, actorVars, NewServer, Deliver, TellAfterDone,
     OnMessage, OnIntro, OnRIntro
<1> QED  BY Zenon, <1>1, <1>2, <1>3, <1>4, <1>5

(* A content that an actor has, or one that wins against it, it keeps.  A  *)
(* put wins since time has passed.                                         *)
LEMMA ReachedStays ==
  ASSUME TypeOK, TypeOK', [Next]_vars, NEW y \in Actors, NEW k \in Keys,
         NEW c \in Content, c.ts < now, AtLeast(storage[y][k], c)
  PROVE  AtLeast(storage'[y][k], c)
<1>1. storage[y][k] # NoContent /\ storage[y][k] \in Content
  BY Zenon, StoredContent DEF AtLeast
<1>2. CASE storage'[y][k] = storage[y][k]
  BY Zenon, <1>2
<1>3. CASE storage'[y][k] # NoContent /\ storage'[y][k].ts = now
  <2>1. c # NoContent /\ storage'[y][k] # NoContent
    BY Zenon, <1>3, ContentFields
  <2> QED  BY Zenon, <1>3, <2>1 DEF AtLeast, Wins
<1>4. CASE /\ storage'[y][k] # NoContent
           /\ Wins(storage'[y][k], storage[y][k])
  <2>1. storage'[y][k] \in Content
    BY Zenon, <1>4, StoredContent
  <2>2. AtLeast(storage'[y][k], storage[y][k])
    BY Zenon, <1>4 DEF AtLeast
  <2> QED  BY Zenon, <1>1, <2>1, <2>2, AtLeastLater
<1> QED  BY Zenon, <1>2, <1>3, <1>4, StorageStep

(* A content on its way to an actor stays so until the actor has it.       *)
LEMMA OnItsWayStep ==
  ASSUME TypeOK, TypeOK', [Next]_vars, NEW y \in Actors, NEW k \in Keys,
         NEW c \in Content, OnItsWay(y, k, c)
  PROVE  OnItsWay(y, k, c)' \/ AtLeast(storage'[y][k], c)
<1>1. PICK m \in Message : /\ m.type = "MUpdate" /\ Transit(y, m)
                           /\ AtLeast(m.puts[k], c)
  BY Zenon DEF OnItsWay
<1>2. CASE Transit(y, m)'
  BY Zenon, <1>1, <1>2 DEF OnItsWay
<1>3. CASE OnMessage(y) /\ mailbox[y] # <<>> /\ m = Head(mailbox[y])
  <2>1. OnUpdate(y)
    BY Zenon, <1>1, <1>3 DEF OnMessage, OnIntro, OnSync, OnRIntro, Handles
  <2>2. m.puts[k] # NoContent /\ m.puts[k] \in Content
    BY <1>1, MessageFields DEF AtLeast, Map
  <2>3. PICK ks : ks = Adopted(y, m.puts)
    BY Zenon
  <2>4. storage'[y][k] = IF k \in ks THEN m.puts[k] ELSE storage[y][k]
    BY Zenon, <1>3, <2>1, <2>3 DEF OnUpdate, Overwrite, TypeOK
  <2>5. k \notin ks => ~Wins(m.puts[k], storage[y][k])
    BY Zenon, <2>2, <2>3 DEF Adopted
  <2>6. CASE k \in ks
    BY Zenon, <1>1, <2>4, <2>6
  <2>7. CASE k \notin ks
    <3>1. storage[y][k] \in Content
      BY Zenon, <2>5, <2>7, StoredContent DEF Wins
    <3>2. AtLeast(storage[y][k], m.puts[k])
      BY Zenon, <2>2, <2>5, <2>7, <3>1, AtLeastTotal
    <3> QED  BY Zenon, <1>1, <2>2, <2>4, <2>7, <3>1, <3>2, AtLeastLater
  <2> QED  BY Zenon, <2>6, <2>7
<1> QED  BY Zenon, <1>1, <1>2, <1>3, TransitStep

(* What an actor has to send its MSync sends to everyone it knows.         *)
LEMMA SyncSends ==
  ASSUME TypeOK, PhaseInv, NEW x \in Actors, OnSync(x), NEW y \in Known(x),
         NEW k \in Keys, NEW c \in Content, putList[x][k] = c
  PROVE  OnItsWay(y, k, c)'
<1>1. PICK m : m = MUpdate(putList[x])
  BY Zenon
<1>2. m \in Message
  BY Zenon, <1>1, MessageTypes DEF TypeOK
<1>3. m.type = "MUpdate" /\ m.puts[k] = c
  BY <1>1 DEF MUpdate
<1>4. AtLeast(m.puts[k], c)
  BY Zenon, <1>3, AtLeastSame
<1>5. putList[x] # EmptyMap
  <2>1. EmptyMap[k] = NoContent
    BY Zenon DEF EmptyMap
  <2> QED  BY Zenon, <2>1, ContentFields
<1>6. /\ mailbox[x] # <<>>
      /\ mailbox' = TellLocal(Popped(x), actorList[x] \ {x}, m)
      /\ link' = TellRemote(x[1], remoteActorList[x], m)
  BY Zenon, <1>1, <1>5 DEF OnSync, Handles
<1>7. CASE y \in actorList[x] \ {x}
  <2>1. y \in Actors
    BY Zenon, <1>7 DEF TypeOK
  <2>2. Popped(x) \in [Actors -> Seq(Message)]
    BY Zenon, <1>6, PoppedType DEF TypeOK
  <2>3. In(m, mailbox'[y])
    BY Zenon, <1>2, <1>6, <1>7, <2>1, <2>2, InTellLocal
  <2> QED  BY Zenon, <1>2, <1>3, <1>4, <2>3 DEF OnItsWay, Transit
<1>8. CASE y \in remoteActorList[x]
  <2>1. ~OnIntro(x)
    BY Zenon DEF OnSync, OnIntro, Handles
  <2>2. PICK t \in 1 .. started : y = Rep(t)
    BY Zenon, <1>8, <2>1, HandlerPhase DEF OnMessage, Up, Reps
  <2>3. t \in Servers
    BY ServersAssumption DEF TypeOK, Servers
  <2>4. In(m, link'[x[1]][t])
    <3>1. link \in [Servers -> [Servers -> Seq(Message)]]
      BY Zenon DEF TypeOK
    <3> QED  BY Zenon, <1>2, <1>6, <1>8, <2>2, <2>3, <3>1, ActorServer,
                InTellRemote
  <2> QED  BY Zenon, <1>2, <1>3, <1>4, <2>2, <2>3, <2>4, ActorServer
              DEF OnItsWay, Transit
<1> QED  BY Zenon, <1>7, <1>8 DEF Known

LEMMA EdgeStep ==
  ASSUME TypeOK, TypeOK', ClockInv, PresentInv, PhaseInv, EdgeInv, [Next]_vars
  PROVE  EdgeInv'
<1> SUFFICES ASSUME NEW x \in Actors, NEW y \in Known(x)', NEW k \in Keys
             PROVE  Passed(x, y, k)'
  BY Zenon DEF EdgeInv
<1>1. PICK c : c = storage'[x][k]
  BY Zenon
<1> SUFFICES ASSUME c # NoContent, c.ts >= joined'
             PROVE  \/ putList'[x][k] = c
                    \/ AtLeast(storage'[y][k], c)
                    \/ OnItsWay(y, k, c)'
  BY Zenon, <1>1 DEF Passed
<1>2. c \in Content /\ c.ts \in Nat
  BY Zenon, <1>1, StoredContent, ContentFields
<1>3. y \in Actors
  BY Zenon DEF Known, TypeOK
<1>4. CASE putList'[x][k] = storage'[x][k]
  BY Zenon, <1>1, <1>4
<1>5. ASSUME storage[x][k] = c, putList'[x][k] = putList[x][k] \/ OnSync(x)
      PROVE  \/ putList'[x][k] = c
             \/ AtLeast(storage'[y][k], c)
             \/ OnItsWay(y, k, c)'
  <2>1. ASSUME putList[x][k] = c
        PROVE  putList'[x][k] = c \/ OnItsWay(y, k, c)'
    <3>1. CASE OnSync(x)
      <4>1. actorList' = actorList /\ remoteActorList' = remoteActorList
        BY Zenon, <3>1 DEF OnSync
      <4>2. y \in Known(x)
        BY Zenon, <4>1 DEF Known
      <4> QED  BY Zenon, <1>2, <2>1, <3>1, <4>2, SyncSends
    <3> QED  BY Zenon, <1>5, <2>1, <3>1
  <2>2. c.ts <= now /\ now \in Nat
    BY Zenon, <1>5 DEF ClockInv, Timely, TypeOK
  <2>3. CASE c.ts = now
    <3>1. putList[x][k] = c
      BY Zenon, <1>5, <2>3 DEF PresentInv, Present
    <3> QED  BY Zenon, <2>1, <3>1
  <2>4. CASE c.ts < now
    <3>1. joined' # now
      BY <1>2, <2>2, <2>4
    <3>2. joined' = joined /\ \A a \in Actors : ~OnRIntro(a)
      BY Zenon, <3>1 DEF Next, vars, NewServer, Deliver, TellAfterDone, OnPut,
         OnMessage, OnIntro, OnSync, OnUpdate, OnRIntro
    <3>3. CASE y \in Known(x)
      <4>1. \/ putList[x][k] = c
            \/ AtLeast(storage[y][k], c)
            \/ OnItsWay(y, k, c)
        BY Zenon, <1>5, <3>2, <3>3 DEF EdgeInv, Passed
      <4>2. AtLeast(storage[y][k], c) => AtLeast(storage'[y][k], c)
        BY Zenon, <1>2, <1>3, <2>4, ReachedStays
      <4>3. OnItsWay(y, k, c) =>
              OnItsWay(y, k, c)' \/ AtLeast(storage'[y][k], c)
        BY Zenon, <1>2, <1>3, OnItsWayStep
      <4> QED  BY Zenon, <2>1, <4>1, <4>2, <4>3
    <3>4. CASE y \notin Known(x)
      <4>1. OnIntro(x)
        BY Zenon, <3>2, <3>4, KnownStep DEF Known
      <4>2. putList[x] = storage[x] /\ putList' = putList
        BY Zenon, <4>1, HandlerPhase DEF OnMessage, Waiting, OnIntro
      <4> QED  BY Zenon, <1>5, <4>2
    <3> QED  BY Zenon, <3>3, <3>4
  <2>5. c.ts = now \/ c.ts < now
    BY <1>2, <2>2
  <2> QED  BY Zenon, <2>3, <2>4, <2>5
<1> QED  BY Zenon, <1>1, <1>4, <1>5, StorageStep

LEMMA PutsStep ==
  ASSUME TypeOK, TypeOK', ClockInv, PutsInv, [Next]_vars
  PROVE  PutsInv'
<1> SUFFICES ASSUME NEW p \in puts'
             PROVE  \E a \in Running' :
                      /\ storage'[a][p.key] # NoContent
                      /\ storage'[a][p.key].ts >= p.content.ts
  BY Zenon DEF PutsInv
<1>0. p.key \in Keys /\ p.content \in Content /\ p.content.ts \in Nat
  BY DEF TypeOK, Content
<1>1. Running \subseteq Running'
  <2>1. ASSUME NEW a \in Actors, a[1] <= started
        PROVE  a[1] <= started'
    <3>1. a[1] \in Nat /\ started \in Nat
      BY ActorServer, ServersAssumption DEF TypeOK, Servers
    <3>2. started' = started \/ started' = started + 1
      BY Zenon, StartedGrows
    <3> QED  BY <2>1, <3>1, <3>2
  <2> QED  BY Zenon, <2>1 DEF Running
<1>2. CASE p \in puts
  <2>1. PICK a \in Running : /\ storage[a][p.key] # NoContent
                             /\ storage[a][p.key].ts >= p.content.ts
    BY Zenon, <1>2 DEF PutsInv
  <2>2. a \in Actors
    BY Zenon DEF Running
  <2>3. /\ storage'[a][p.key] # NoContent
        /\ storage'[a][p.key].ts >= storage[a][p.key].ts
    BY Zenon, <1>0, <2>1, <2>2, TimestampsStep
  <2>4. storage[a][p.key].ts \in Nat /\ storage'[a][p.key].ts \in Nat
    BY Zenon, <1>0, <2>1, <2>2, <2>3, StoredContent, ContentFields
  <2>5. storage'[a][p.key].ts >= p.content.ts
    BY <1>0, <2>1, <2>3, <2>4
  <2> QED  BY Zenon, <1>1, <2>1, <2>3, <2>5
<1>3. ASSUME NEW a \in Actors, NEW k \in Keys, NEW u \in Uids, OnPut(a, k, u),
             p \notin puts
      PROVE  \E b \in Running' :
               /\ storage'[b][p.key] # NoContent
               /\ storage'[b][p.key].ts >= p.content.ts
  <2>1. PICK c : c = [ts |-> now, uid |-> u]
    BY Zenon
  <2>2. a \in Running /\ storage' = [storage EXCEPT ![a][k] = c]
        /\ p = [key |-> k, content |-> c]
    BY Zenon, <1>3, <2>1 DEF OnPut, Running
  <2>3. p.key = k /\ p.content = c
    BY <2>2
  <2>4. storage'[a][k] = c
    BY Zenon, <2>2 DEF TypeOK, Map
  <2>5. c # NoContent /\ c.ts >= c.ts
    BY <1>0, <2>3, ContentFields
  <2> QED  BY Zenon, <1>1, <2>2, <2>3, <2>4, <2>5
<1>4. \/ puts' = puts
      \/ \E a \in Actors, k \in Keys, u \in Uids : OnPut(a, k, u)
  BY Zenon DEF Next, vars, NewServer, Deliver, TellAfterDone, OnMessage,
     OnIntro, OnSync, OnUpdate, OnRIntro
<1> QED  BY Zenon, <1>2, <1>3, <1>4

-----------------------------------------------------------------------------
(* Nothing on its way: everybody has what anybody has.                     *)

(* Nobody's MIntro is waiting, and nothing but MSync is in transit.        *)
LEMMA QuietActors ==
  ASSUME TypeOK, PhaseInv, Quiescent
  PROVE  /\ \A x \in Running : Up(x)
         /\ \A y \in Actors, m \in Message :
              m.type # "MSync" => ~Transit(y, m)
<1>1. ASSUME NEW x \in Running
      PROVE  Up(x)
  <2>1. x \in Actors /\ x[1] <= started
    BY Zenon DEF Running
  <2>2. Waiting(x) \/ Up(x)
    BY Zenon, <2>1, OffOrStarted DEF PhaseInv
  <2>3. CASE Waiting(x)
    <3>1. mailbox[x] \in Seq(Message) /\ mailbox[x] # <<>>
      BY Zenon, <2>1, <2>3 DEF TypeOK, Waiting
    <3>2. 1 \in 1 .. Len(mailbox[x]) /\ mailbox[x][1] = Head(mailbox[x])
      BY <3>1
    <3>3. Head(mailbox[x]).type = "MSync"
      BY Zenon, <2>1, <3>2 DEF Quiescent
    <3>4. \A R : MIntro(R).type = "MIntro"
      BY DEF MIntro
    <3> QED  BY Zenon, <2>3, <3>3, <3>4 DEF Waiting
  <2> QED  BY Zenon, <2>2, <2>3
<1>2. ASSUME NEW y \in Actors, NEW m \in Message, m.type # "MSync"
      PROVE  ~Transit(y, m)
  BY Zenon, <1>2, InEmpty DEF Transit, In, Quiescent
<1> QED  BY Zenon, <1>1, <1>2

(* Every actor knows the others of its server and every representative     *)
(* the others.                                                             *)
LEMMA QuietGraph ==
  ASSUME TypeOK, PhaseInv, MeetInv, Quiescent
  PROVE  /\ \A x, y \in Running : x[1] = y[1] /\ x # y => y \in Known(x)
         /\ \A s, t \in 1 .. started : s # t => Rep(t) \in Known(Rep(s))
<1>1. ASSUME NEW x \in Running, NEW y \in Running, x[1] = y[1], x # y
      PROVE  y \in Known(x)
  <2>1. Up(x) /\ y \in Actors
    BY Zenon, QuietActors DEF Running
  <2>2. y \in ActorsOf(x[1])
    BY Zenon, <1>1, <2>1, RepLocal
  <2> QED  BY Zenon, <1>1, <2>1, <2>2 DEF Known, Up
<1>2. ASSUME NEW s \in 1 .. started, NEW t \in 1 .. started, s # t
      PROVE  Rep(t) \in Known(Rep(s))
  <2>1. s \in Servers /\ t \in Servers /\ s <= started
    BY ServersAssumption DEF TypeOK, Servers
  <2>2. Rep(s) \in Running /\ Rep(s)[1] = s
    <3>1. Rep(s)[1] = s
      BY DEF Rep
    <3> QED  BY Zenon, <2>1, <3>1, RepType DEF Running
  <2>3. CASE s < t
    <3>1. MRIntro(t) \in Message /\ MRIntro(t).type # "MSync"
      <4>1. \A r : MRIntro(r).type # "MSync"
        BY DEF MRIntro
      <4> QED  BY Zenon, <2>1, <4>1, MessageTypes
    <3>2. ~Transit(Rep(s), MRIntro(t))
      BY Zenon, <2>1, <3>1, RepType, QuietActors
    <3> QED  BY Zenon, <2>3, <3>2 DEF MeetInv, Known
  <2>4. CASE t < s
    <3>1. t \in 1 .. (s - 1)
      BY <2>4
    <3>2. Rep(t) \in Reps(s - 1)
      BY Zenon, <3>1 DEF Reps
    <3>3. Up(Rep(s))
      BY Zenon, <2>2, QuietActors
    <3> QED  BY Zenon, <2>2, <3>2, <3>3 DEF Up, Known
  <2> QED  BY <1>2, <2>3, <2>4
<1> QED  BY Zenon, <1>1, <1>2

(* So a content not older than the last introduction is passed on along    *)
(* the way from an actor to the representative of its server, to that of   *)
(* another server, to an actor of that server.                             *)
LEMMA QuietEverywhere ==
  ASSUME TypeOK, PhaseInv, MeetInv, EdgeInv, Quiescent, NEW k \in Keys,
         NEW x \in Running, NEW y \in Running,
         storage[x][k] # NoContent, storage[x][k].ts >= joined
  PROVE  /\ storage[y][k] # NoContent /\ storage[y][k].ts >= joined
         /\ AtLeast(storage[y][k], storage[x][k])
<1> DEFINE Good(z) == storage[z][k] # NoContent /\ storage[z][k].ts >= joined
<1>0. joined \in Nat
  BY Zenon DEF TypeOK
<1>1. ASSUME NEW v \in Running, NEW w \in Running, Good(v),
             v = w \/ w \in Known(v)
      PROVE  Good(w) /\ AtLeast(storage[w][k], storage[v][k])
  <2>1. v \in Actors /\ w \in Actors
    BY Zenon DEF Running
  <2>2. storage[v][k] \in Content
    BY Zenon, <1>1, <2>1, StoredContent
  <2>3. AtLeast(storage[w][k], storage[v][k])
    <3>1. CASE v = w
      BY Zenon, <2>2, <3>1, AtLeastSame
    <3>2. CASE w \in Known(v)
      <4>1. putList[v][k] = NoContent
        BY Zenon, <2>1 DEF Quiescent, EmptyMap
      <4>2. ~OnItsWay(w, k, storage[v][k])
        BY Zenon, <2>1, QuietActors DEF OnItsWay
      <4> QED  BY Zenon, <1>1, <2>1, <3>2, <4>1, <4>2 DEF EdgeInv, Passed
    <3> QED  BY Zenon, <1>1, <3>1, <3>2
  <2>4. storage[w][k] # NoContent /\ storage[w][k] \in Content
    BY Zenon, <2>1, <2>3, StoredContent DEF AtLeast
  <2>5. storage[w][k].ts >= storage[v][k].ts
    BY Zenon, <2>2, <2>3, <2>4, AtLeastTime
  <2>6. storage[w][k].ts \in Nat /\ storage[v][k].ts \in Nat
    BY Zenon, <2>2, <2>4, ContentFields
  <2>7. storage[w][k].ts >= joined
    BY <1>0, <1>1, <2>5, <2>6
  <2> QED  BY Zenon, <2>3, <2>4, <2>7
<1>2. x \in Actors /\ y \in Actors /\ x[1] \in 1 .. started
      /\ y[1] \in 1 .. started /\ x[1] \in Servers /\ y[1] \in Servers
  <2>1. x \in Actors /\ y \in Actors /\ x[1] <= started /\ y[1] <= started
    BY Zenon DEF Running
  <2>2. x[1] \in Servers /\ y[1] \in Servers
    BY Zenon, <2>1, ActorServer
  <2>3. x[1] \in 1 .. started /\ y[1] \in 1 .. started
    <3>1. started \in Nat
      BY ServersAssumption DEF TypeOK
    <3>2. \A s \in Servers, n \in Nat : s <= n => s \in 1 .. n
      BY DEF Servers
    <3> QED  BY Zenon, <2>1, <2>2, <3>1, <3>2
  <2> QED  BY Zenon, <2>1, <2>2, <2>3
<1>3. PICK v, w : v = Rep(x[1]) /\ w = Rep(y[1])
  BY Zenon
<1>4. v \in Running /\ w \in Running /\ v[1] = x[1] /\ w[1] = y[1]
  <2>1. \A s : Rep(s)[1] = s
    BY DEF Rep
  <2>2. x[1] <= started /\ y[1] <= started
    BY Zenon DEF Running
  <2> QED  BY Zenon, <1>2, <1>3, <2>1, <2>2, RepType DEF Running
<1>5. Good(v) /\ AtLeast(storage[v][k], storage[x][k])
  BY Zenon, <1>1, <1>4, QuietGraph
<1>6. Good(w) /\ AtLeast(storage[w][k], storage[v][k])
  BY Zenon, <1>1, <1>2, <1>3, <1>4, <1>5, QuietGraph
<1>7. Good(y) /\ AtLeast(storage[y][k], storage[w][k])
  BY Zenon, <1>1, <1>4, <1>6, QuietGraph
<1>8. /\ storage[x][k] \in Content /\ storage[v][k] \in Content
      /\ storage[w][k] \in Content /\ storage[y][k] \in Content
  BY Zenon, <1>4, <1>5, <1>6, <1>7, StoredContent DEF Running
<1>9. AtLeast(storage[w][k], storage[x][k])
  BY Zenon, <1>5, <1>6, <1>8, AtLeastLater
<1>10. AtLeast(storage[y][k], storage[x][k])
  BY Zenon, <1>7, <1>8, <1>9, AtLeastLater
<1> QED  BY Zenon, <1>7, <1>10

LEMMA QuietConverged ==
  ASSUME TypeOK, PhaseInv, MeetInv, EdgeInv, PutsInv
  PROVE  Converged
<1> SUFFICES ASSUME Quiescent, NEW p \in puts, p.content.ts >= joined,
                    NEW a \in Running, NEW b \in Running
             PROVE  /\ storage[a][p.key] # NoContent
                    /\ storage[a][p.key].ts >= p.content.ts
                    /\ storage[a][p.key] = storage[b][p.key]
  BY Zenon DEF Converged
<1>1. PICK k : k = p.key
  BY Zenon
<1>2. k \in Keys /\ p.content.ts \in Nat /\ joined \in Nat
  BY <1>1 DEF TypeOK, Content
<1>3. PICK w \in Running : /\ storage[w][k] # NoContent
                           /\ storage[w][k].ts >= p.content.ts
  BY Zenon, <1>1 DEF PutsInv
<1>4. storage[w][k] \in Content /\ storage[w][k].ts \in Nat
  BY Zenon, <1>2, <1>3, StoredContent, ContentFields DEF Running
<1>5. storage[w][k].ts >= joined
  BY <1>2, <1>3, <1>4
<1>6. /\ storage[a][k] # NoContent /\ storage[a][k].ts >= joined
      /\ AtLeast(storage[a][k], storage[w][k])
  BY Zenon, <1>2, <1>3, <1>5, QuietEverywhere
<1>7. /\ storage[b][k] # NoContent /\ storage[b][k].ts >= joined
      /\ AtLeast(storage[b][k], storage[a][k])
  BY Zenon, <1>2, <1>6, QuietEverywhere
<1>8. AtLeast(storage[a][k], storage[b][k])
  BY Zenon, <1>2, <1>7, QuietEverywhere
<1>9. storage[a][k] \in Content /\ storage[b][k] \in Content
  BY Zenon, <1>2, <1>6, <1>7, StoredContent DEF Running
<1>10. storage[a][k] = storage[b][k]
  BY Zenon, <1>7, <1>8, <1>9, AtLeastBoth
<1>11. storage[a][k].ts >= storage[w][k].ts /\ storage[a][k].ts \in Nat
  BY Zenon, <1>4, <1>6, <1>9, AtLeastTime, ContentFields
<1>12. storage[a][k].ts >= p.content.ts
  BY <1>2, <1>3, <1>4, <1>11
<1> QED  BY Zenon, <1>1, <1>6, <1>10, <1>12

(* Once nothing is on its way, all actors of all servers have the same     *)
(* content for a key that was put since the last introduction, not older   *)
(* than that put (query_actor.go, lines 84 to 171; server.go, lines 19 and *)
(* 20), for any number of servers, actors, keys and puts.                  *)
THEOREM ActorsConverge == Spec => []Converged
<1> DEFINE Inv == PhaseInv /\ LinkInv /\ MeetInv /\ EdgeInv /\ PutsInv
<1>1. ASSUME Init
      PROVE  Inv
  <2>1. started = 0 /\ puts = {} /\ timer = {}
    BY Zenon, <1>1 DEF Init
  <2>2. \A a \in Actors :
          /\ storage[a] = EmptyMap /\ putList[a] = EmptyMap
          /\ actorList[a] = {} /\ remoteActorList[a] = {} /\ mailbox[a] = <<>>
    BY Zenon, <1>1 DEF Init
  <2>3. \A s, t \in Servers : link[s][t] = <<>>
    BY Zenon, <1>1 DEF Init
  <2>4. \A a \in Actors : a[1] > started
    <3>1. \A s \in Servers : s > 0
      BY DEF Servers
    <3> QED  BY Zenon, <2>1, <3>1, ActorServer
  <2>5. PhaseInv
    BY Zenon, <2>1, <2>2, <2>4 DEF PhaseInv, Off
  <2>6. LinkInv
    BY Zenon, <2>3, EmptySeq DEF LinkInv
  <2>7. MeetInv
    <3>1. \A s \in 1 .. 0 : FALSE
      OBVIOUS
    <3> QED  BY Zenon, <2>1, <3>1 DEF MeetInv
  <2>8. EdgeInv
    BY Zenon, <2>2 DEF EdgeInv, Known
  <2>9. PutsInv
    BY Zenon, <2>1 DEF PutsInv
  <2> QED  BY Zenon, <2>5, <2>6, <2>7, <2>8, <2>9
<1>2. ASSUME TypeOK, TypeOK', ClockInv, PresentInv, Inv, [Next]_vars
      PROVE  Inv'
  BY Zenon, <1>2, PhaseStep, LinkStep, MeetStep, EdgeStep, PutsStep
<1>3. ASSUME TypeOK, Inv
      PROVE  Converged
  BY Zenon, <1>3, QuietConverged
<1> HIDE DEF Inv
<1> QED  BY <1>1, <1>2, <1>3, TypeCorrect, ClockCorrect, PTL DEF Spec
=============================================================================
