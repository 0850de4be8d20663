------------------------- MODULE KeyValueServerProof -------------------------
(***************************************************************************)
(* Proofs for KeyValueServer: the list of clients and the counts, for any  *)
(* clients, callers and bounds.                                            *)
(***************************************************************************)
EXTENDS KeyValueServer, FiniteSetTheorems, SequenceTheorems, TLAPS

-----------------------------------------------------------------------------
(* The clients.                                                            *)

(* A client goes from no connection, to accept's hands, to the list, and   *)
(* out of it; conn and reader agree on where it is.                        *)
StageInv ==
  /\ conn \in [Client -> {"none", "open", "closed"}]
  /\ DOMAIN reader = Client
  /\ acceptor \in Client => /\ conn[acceptor] = "open"
                            /\ reader[acceptor].type = "none"
  /\ \A c \in Client :
       /\ conn[c] = "none" => reader[c].type = "none"
       /\ reader[c].type = "none" => conn[c] = "none" \/ acceptor = c
       /\ reader[c].type = "done" => conn[c] = "closed"

NoRepeat(s) == \A i, j \in 1 .. Len(s) : s[i] = s[j] => i = j

(* The list holds the served clients, each once, and the counts fit.       *)
ListInv ==
  /\ clients \in Seq(Client)
  /\ dropped_client \in Nat
  /\ NoRepeat(clients)
  /\ Served = {clients[i] : i \in 1 .. Len(clients)}
  /\ Len(clients) = Cardinality(Served)
  /\ dropped_client = Cardinality(Dropped)

ClientInv == StageInv /\ ListInv

LEMMA ClientInit == Init => ClientInv
  <1> SUFFICES ASSUME Init PROVE ClientInv
    BY Zenon
  <1>1. StageInv
    BY Zenon, ClientAssumption DEF Init, StageInv, Reader
  <1>2. Served = {} /\ Dropped = {} /\ clients = <<>> /\ dropped_client = 0
    BY Zenon DEF Init, Served, Dropped, Reader
  <1>3. ListInv
    BY <1>2, FS_EmptySet DEF ListInv, NoRepeat
  <1> QED  BY <1>1, <1>3 DEF ClientInv

(* The sequence t over S is s without its k-th element.                    *)
LessOne(S, s, k, t) ==
  /\ t \in Seq(S) /\ Len(t) = Len(s) - 1
  /\ NoRepeat(t)
  /\ \A i \in 1 .. Len(t) : \E j \in 1 .. Len(s) : j # k /\ t[i] = s[j]
  /\ \A j \in 1 .. Len(s) : j # k => \E i \in 1 .. Len(t) : t[i] = s[j]

(* Taking an element out of a sequence without repetitions.                *)
LEMMA RemoveFirstOnce ==
  ASSUME NEW S, NEW s \in Seq(S), NEW k \in 1 .. Len(s), NoRepeat(s),
         NEW t, t = RemoveFirst(s, s[k])
  PROVE  LessOne(S, s, k, t)
  <1>1. \A i \in DOMAIN s : FirstAt(s, s[k], i) => i = k
    BY DEF NoRepeat, FirstAt
  <1>2. k \in DOMAIN s /\ FirstAt(s, s[k], k)
    BY DEF NoRepeat, FirstAt
  <1>3. t = SubSeq(s, 1, k - 1) \o SubSeq(s, k + 1, Len(s))
    <2>1. (CHOOSE i \in DOMAIN s : FirstAt(s, s[k], i)) = k
      BY Zenon, <1>1, <1>2
    <2> QED  BY Zenon, <1>2, <2>1 DEF RemoveFirst, RemoveAt
  <1> DEFINE a == SubSeq(s, 1, k - 1)
             b == SubSeq(s, k + 1, Len(s))
  <1>a. /\ a \in Seq(S) /\ Len(a) = k - 1
        /\ \A i \in 1 .. k - 1 : a[i] = s[i]
    <2>1. k - 1 \in 0 .. Len(s) /\ k - 1 \in Int /\ 1 \in 1 .. Len(s) + 1
      OBVIOUS
    <2> QED  BY <2>1, SubSeqProperties
  <1>b. /\ b \in Seq(S) /\ Len(b) = Len(s) - k
        /\ \A i \in 1 .. Len(s) - k : b[i] = s[k + i]
    <2>1. k + 1 \in 1 .. Len(s) + 1 /\ Len(s) \in (k + 1) - 1 .. Len(s)
      OBVIOUS
    <2> QED  BY <2>1, SubSeqProperties
  <1> HIDE DEF a, b
  <1>c. t = a \o b
    BY Zenon, <1>3 DEF a, b
  <1>d. /\ t \in Seq(S) /\ Len(t) = Len(a) + Len(b)
        /\ \A i \in 1 .. Len(a) + Len(b) :
             t[i] = IF i <= Len(a) THEN a[i] ELSE b[i - Len(a)]
    <2>1. a \o b \in Seq(S) /\ Len(a \o b) = Len(a) + Len(b)
      BY Zenon, <1>a, <1>b, ConcatProperties
    <2>2. \A i \in 1 .. Len(a) + Len(b) :
            (a \o b)[i] = IF i <= Len(a) THEN a[i] ELSE b[i - Len(a)]
      BY Zenon, <1>a, <1>b, ConcatProperties
    <2> QED  BY Zenon, <1>c, <2>1, <2>2
  <1>e. Len(s) \in Nat /\ k \in Int /\ Len(a) + Len(b) = Len(s) - 1
    BY <1>a, <1>b
  <1>4. t \in Seq(S) /\ Len(t) = Len(s) - 1
    BY Zenon, <1>d, <1>e
  <1>5. \A i \in 1 .. Len(s) - 1 : t[i] = IF i < k THEN s[i] ELSE s[i + 1]
    <2> SUFFICES ASSUME NEW i \in 1 .. Len(s) - 1
                 PROVE  t[i] = IF i < k THEN s[i] ELSE s[i + 1]
      BY Zenon
    <2>1. CASE i < k
      <3>1. i \in 1 .. k - 1 /\ i <= Len(a) /\ i \in 1 .. Len(a) + Len(b)
        BY <1>a, <1>e, <2>1
      <3>2. t[i] = a[i]
        BY Zenon, <1>d, <3>1
      <3> QED  BY Zenon, <1>a, <2>1, <3>1, <3>2
    <2>2. CASE i >= k
      <3>1. i - (k - 1) \in 1 .. Len(s) - k
        BY <1>e, <2>2
      <3>2. t[i] = b[i - (k - 1)]
        BY <1>a, <1>d, <1>e, <2>2
      <3>3. b[i - (k - 1)] = s[k + (i - (k - 1))]
        BY Zenon, <1>b, <3>1
      <3>4. k + (i - (k - 1)) = i + 1
        BY <1>e
      <3> QED  BY <1>e, <2>2, <3>2, <3>3, <3>4
    <2> QED  BY <1>e, <2>1, <2>2
  <1>6. NoRepeat(t)
    <2> SUFFICES ASSUME NEW i \in 1 .. Len(t), NEW j \in 1 .. Len(t),
                        t[i] = t[j]
                 PROVE  i = j
      BY Zenon DEF NoRepeat
    <2> DEFINE place(n) == IF n < k THEN n ELSE n + 1
    <2>1. /\ place(i) \in 1 .. Len(s) /\ place(j) \in 1 .. Len(s)
          /\ t[i] = s[place(i)] /\ t[j] = s[place(j)]
      BY <1>4, <1>5, <1>e
    <2>2. place(i) = place(j)
      BY Zenon, <2>1 DEF NoRepeat
    <2> QED  BY <1>4, <1>e, <2>2
  <1>7. ASSUME NEW i \in 1 .. Len(t)
        PROVE  \E j \in 1 .. Len(s) : j # k /\ t[i] = s[j]
    <2>1. CASE i < k
      <3>1. i \in 1 .. Len(s) /\ i # k /\ t[i] = s[i]
        BY <1>e, <1>4, <1>5, <2>1
      <3> QED  BY Zenon, <3>1
    <2>2. CASE i >= k
      <3>1. i + 1 \in 1 .. Len(s) /\ i + 1 # k /\ t[i] = s[i + 1]
        BY <1>4, <1>5, <2>2
      <3> QED  BY Zenon, <3>1
    <2> QED  BY <1>e, <1>4, <2>1, <2>2
  <1>8. ASSUME NEW i \in 1 .. Len(s), i # k
        PROVE  \E j \in 1 .. Len(t) : t[j] = s[i]
    <2>1. CASE i < k
      BY <1>4, <1>5, <2>1
    <2>2. CASE i > k
      <3>1. i - 1 \in 1 .. Len(t) /\ t[i - 1] = s[i]
        BY <1>4, <1>5, <2>2
      <3> QED  BY Zenon, <3>1
    <2> QED  BY <1>8, <2>1, <2>2
  <1> QED  BY Zenon, <1>4, <1>6, <1>7, <1>8 DEF LessOne

(* Steps after which the same clients are served and dropped.              *)
LEMMA ListFrame ==
  ASSUME ListInv, UNCHANGED listVars, Served' = Served, Dropped' = Dropped
  PROVE  ListInv'
  BY Zenon DEF ListInv, listVars

LEMMA ClientFrame ==
  ASSUME ClientInv, UNCHANGED <<acceptor, conn, listVars, reader>>
  PROVE  ClientInv'
  <1>1. StageInv'
    BY Zenon DEF ClientInv, StageInv
  <1>2. Served' = Served /\ Dropped' = Dropped
    BY Zenon DEF Served, Dropped
  <1> QED  BY Zenon, <1>1, <1>2, ListFrame DEF ClientInv

LEMMA FiniteServed == IsFiniteSet(Served) /\ IsFiniteSet(Dropped)
  <1>1. Served \in SUBSET Client /\ Dropped \in SUBSET Client
    BY Zenon DEF Served, Dropped
  <1> QED  BY <1>1, ClientAssumption, FS_Subset

(* A client is added to the list.                                          *)
LEMMA ConnectedStep ==
  ASSUME ClientInv, NEW c \in Client, Connected(c)
  PROVE  ClientInv'
  <1>1. /\ acceptor = c /\ acceptor' = "select" /\ UNCHANGED conn
        /\ reader' = [reader EXCEPT ![c] = Reader("reading")]
        /\ clients' = Append(clients, c)
        /\ UNCHANGED dropped_client
    BY Zenon DEF Connected
  <1>2. /\ reader'[c].type = "reading" /\ DOMAIN reader' = Client
        /\ \A d \in Client \ {c} : reader'[d] = reader[d]
    BY Zenon, <1>1 DEF ClientInv, StageInv, Reader
  <1>3. reader[c].type = "none" /\ conn[c] = "open"
    BY Zenon, <1>1 DEF ClientInv, StageInv
  <1>4. StageInv'
    BY <1>1, <1>2, <1>3, ClientAssumption DEF ClientInv, StageInv
  <1>5. /\ Served' = Served \cup {c} /\ c \notin Served
        /\ Dropped' = Dropped
    BY Zenon, <1>2, <1>3 DEF Served, Dropped
  <1>6. Cardinality(Served') = Cardinality(Served) + 1
    BY Zenon, <1>5, FiniteServed, FS_AddElement
  <1>7. /\ clients' \in Seq(Client) /\ Len(clients') = Len(clients) + 1
        /\ \A i \in 1 .. Len(clients) : clients'[i] = clients[i]
        /\ clients'[Len(clients) + 1] = c /\ Len(clients) \in Nat
    <2>1. clients \in Seq(Client)
      BY Zenon DEF ClientInv, ListInv
    <2> QED  BY <1>1, <2>1, AppendProperties, LenProperties
  <1>8. \A i \in 1 .. Len(clients) : clients[i] # c
    BY Zenon, <1>5 DEF ClientInv, ListInv
  <1>9. NoRepeat(clients')
    <2>1. \A i, j \in 1 .. Len(clients) : clients[i] = clients[j] => i = j
      BY Zenon DEF ClientInv, ListInv, NoRepeat
    <2>2. \A i \in 1 .. Len(clients') : i \in 1 .. Len(clients)
                                       \/ i = Len(clients) + 1
      BY <1>7
    <2> QED  BY Zenon, <1>7, <1>8, <2>1, <2>2 DEF NoRepeat
  <1>10. Served' = {clients'[i] : i \in 1 .. Len(clients')}
    <2>1. \A d \in Served' : \E i \in 1 .. Len(clients') : d = clients'[i]
      <3>1. \A d \in Served : \E i \in 1 .. Len(clients) : d = clients[i]
        BY Zenon DEF ClientInv, ListInv
      <3>2. /\ 1 .. Len(clients) \subseteq 1 .. Len(clients')
            /\ Len(clients) + 1 \in 1 .. Len(clients')
        BY <1>7
      <3> QED  BY Zenon, <1>5, <1>7, <3>1, <3>2
    <2>2. \A i \in 1 .. Len(clients') : clients'[i] \in Served'
      <3>1. \A i \in 1 .. Len(clients) : clients[i] \in Served
        BY Zenon DEF ClientInv, ListInv
      <3>2. \A i \in 1 .. Len(clients') : i \in 1 .. Len(clients)
                                          \/ i = Len(clients) + 1
        BY <1>7
      <3> QED  BY Zenon, <1>5, <1>7, <3>1, <3>2
    <2> QED  BY Zenon, <2>1, <2>2
  <1>11. ListInv'
    BY Zenon, <1>1, <1>5, <1>6, <1>7, <1>9, <1>10 DEF ClientInv, ListInv
  <1> QED  BY Zenon, <1>4, <1>11 DEF ClientInv

(* A client is taken out of it.                                            *)
LEMMA DisconnectStep ==
  ASSUME ClientInv, NEW c \in Client, Sends(c), Disconnect(c),
         UNCHANGED acceptor
  PROVE  ClientInv'
  <1>1. /\ dropped_client' = dropped_client + 1
        /\ conn' = [conn EXCEPT ![c] = "closed"]
        /\ clients' = RemoveFirst(clients, c)
        /\ reader' = [reader EXCEPT ![c] = Reader("done")]
    BY Zenon DEF Disconnect, Without
  <1>2. /\ reader'[c].type = "done" /\ DOMAIN reader' = Client
        /\ \A d \in Client \ {c} : reader'[d] = reader[d]
    BY Zenon, <1>1 DEF ClientInv, StageInv, Reader
  <1>3. reader[c].type \notin {"none", "done"}
    BY Zenon DEF Sends
  <1>4. StageInv'
    BY <1>1, <1>2, <1>3 DEF ClientInv, StageInv
  <1>5. /\ Served' = Served \ {c} /\ c \in Served
        /\ Dropped' = Dropped \cup {c} /\ c \notin Dropped
    BY <1>2, <1>3 DEF Served, Dropped
  <1>6. /\ Cardinality(Served') = Cardinality(Served) - 1
        /\ Cardinality(Dropped') = Cardinality(Dropped) + 1
    BY Zenon, <1>5, FiniteServed, FS_AddElement, FS_RemoveElement
  <1>7. PICK k \in 1 .. Len(clients) : clients[k] = c
    BY Zenon, <1>5 DEF ClientInv, ListInv
  <1>8. /\ clients \in Seq(Client) /\ Len(clients) \in Nat
        /\ NoRepeat(clients)
        /\ \A i \in 1 .. Len(clients) : clients[i] \in Served
        /\ \A d \in Served : \E i \in 1 .. Len(clients) : clients[i] = d
    BY Zenon, LenProperties DEF ClientInv, ListInv
  <1>9. clients' = RemoveFirst(clients, clients[k])
    BY <1>1, <1>7
  <1>10. LessOne(Client, clients, k, clients')
    BY Zenon, <1>8, <1>9, RemoveFirstOnce
  <1>11. Served' = {clients'[i] : i \in 1 .. Len(clients')}
    <2>1. ASSUME NEW i \in 1 .. Len(clients')
          PROVE  clients'[i] \in Served'
      <3>1. PICK j \in 1 .. Len(clients) : j # k /\ clients'[i] = clients[j]
        BY Zenon, <1>10 DEF LessOne
      <3>2. clients[j] \in Served /\ clients[j] # c
        BY Zenon, <1>7, <1>8, <3>1 DEF NoRepeat
      <3> QED  BY <1>5, <3>1, <3>2
    <2>2. ASSUME NEW d \in Served'
          PROVE  \E i \in 1 .. Len(clients') : clients'[i] = d
      <3>1. PICK j \in 1 .. Len(clients) : clients[j] = d
        BY Zenon, <1>5, <1>8
      <3>2. j # k
        BY Zenon, <1>5, <1>7, <3>1
      <3> QED  BY Zenon, <1>10, <3>1, <3>2 DEF LessOne
    <2> QED  BY Zenon, <2>1, <2>2
  <1>12. Cardinality(Dropped) \in Nat
    BY FiniteServed, FS_CardinalityType
  <1>13. ListInv'
    <2>1. dropped_client' \in Nat /\ dropped_client' = Cardinality(Dropped')
      BY <1>1, <1>6, <1>12 DEF ClientInv, ListInv
    <2>2. Len(clients') = Cardinality(Served')
      BY <1>6, <1>10 DEF ClientInv, ListInv, LessOne
    <2> QED  BY Zenon, <1>10, <1>11, <2>1, <2>2 DEF ListInv, LessOne
  <1> QED  BY Zenon, <1>4, <1>13 DEF ClientInv

(* Every action preserves the invariant.                                   *)
LEMMA ClientStep == ClientInv /\ [Next]_vars => ClientInv'
  <1> SUFFICES ASSUME ClientInv, [Next]_vars PROVE ClientInv'
    BY Zenon
  <1>1. ASSUME AcceptSelect PROVE ClientInv'
    <2>1. /\ acceptor \notin Client /\ acceptor' \notin Client
          /\ UNCHANGED <<conn, reader, listVars>>
      BY Zenon, <1>1, ClientAssumption DEF AcceptSelect, dataVars
    <2>2. StageInv'
      BY Zenon, <2>1 DEF ClientInv, StageInv
    <2>3. Served' = Served /\ Dropped' = Dropped
      BY Zenon, <2>1 DEF Served, Dropped
    <2> QED  BY Zenon, <2>1, <2>2, <2>3, ListFrame DEF ClientInv
  <1>2. ASSUME NEW c \in Client, Accept(c) PROVE ClientInv'
    <2>1. /\ acceptor \notin Client /\ acceptor' = c /\ conn[c] = "none"
          /\ conn' = [conn EXCEPT ![c] = "open"]
          /\ UNCHANGED <<reader, listVars>>
      BY Zenon, <1>2, ClientAssumption DEF Accept, dataVars
    <2>2. StageInv'
      BY Zenon, <2>1 DEF ClientInv, StageInv
    <2>3. Served' = Served /\ Dropped' = Dropped
      BY Zenon, <2>1 DEF Served, Dropped
    <2> QED  BY Zenon, <2>1, <2>2, <2>3, ListFrame DEF ClientInv
  <1>3. ASSUME NEW c \in Client,
               reader[c].type \notin {"none", "done"},
               DOMAIN reader' = Client,
               reader'[c].type \notin {"none", "done"},
               \A d \in Client \ {c} : reader'[d] = reader[d],
               UNCHANGED <<acceptor, conn, listVars>>
        PROVE  ClientInv'
    <2>1. StageInv'
      BY <1>3 DEF ClientInv, StageInv
    <2>2. Served' = Served /\ Dropped' = Dropped
      BY <1>3 DEF Served, Dropped
    <2> QED  BY Zenon, <1>3, <2>1, <2>2, ListFrame DEF ClientInv
  <1>4. ASSUME NEW c \in Client, Read(c) PROVE ClientInv'
    <2>1. PICK r : /\ r.type \in {"Get", "Put", "Update", "Delete",
                                  "Terminate"}
                   /\ reader' = [reader EXCEPT ![c] = r]
      <3>1. \A r \in Request : r.type \in {"Get", "Put", "Update", "Delete"}
        BY Zenon DEF Request
      <3>2. Terminate.type = "Terminate"
        BY Zenon DEF Terminate
      <3> QED  BY <1>4, <3>1, <3>2 DEF Read
    <2>2. /\ reader'[c].type \notin {"none", "done"} /\ DOMAIN reader' = Client
          /\ \A d \in Client \ {c} : reader'[d] = reader[d]
      BY Zenon, <2>1 DEF ClientInv, StageInv
    <2> QED  BY Zenon, <1>3, <1>4, <2>2 DEF Read, connVars
  <1>5. ASSUME NEW c \in Client, Requested(c) PROVE ClientInv'
    <2>1. CASE Disconnect(c)
      BY Zenon, <1>5, <2>1, DisconnectStep DEF Requested
    <2>2. CASE Serve(c, reader[c])
      <3>1. reader[c].type \notin {"none", "done"}
        BY Zenon, <1>5 DEF Requested, Sends
      <3>2. reader' = [reader EXCEPT ![c] = Reader("reading")]
        BY Zenon, <2>2 DEF Serve
      <3>3. /\ reader'[c].type \notin {"none", "done"}
            /\ DOMAIN reader' = Client
            /\ \A d \in Client \ {c} : reader'[d] = reader[d]
        BY Zenon, <3>2 DEF ClientInv, StageInv, Reader
      <3> QED  BY <1>3, <1>5, <2>2, <3>1, <3>3 DEF Requested, Serve
    <2> QED  BY <1>5, <2>1, <2>2 DEF Requested
  <1>6. ASSUME MainClose PROVE ClientInv'
    <2>1. UNCHANGED <<acceptor, listVars, reader>>
      BY Zenon, <1>6 DEF MainClose, dataVars
    <2>2. Served' = Served /\ Dropped' = Dropped
      BY Zenon, <2>1 DEF Served, Dropped
    <2>3. PICK n \in 0 .. Len(clients) :
            conn' = [c \in Client |->
                       IF c \in ClosedUpTo(n) THEN "closed" ELSE conn[c]]
      BY Zenon, <1>6 DEF MainClose
    <2>4. ClosedUpTo(n) \subseteq Served
      <3>1. \A i \in 1 .. n : i \in 1 .. Len(clients)
        OBVIOUS
      <3> QED  BY Zenon, <3>1 DEF ClosedUpTo, ClientInv, ListInv
    <2>5. StageInv'
      BY <2>1, <2>3, <2>4 DEF ClientInv, StageInv, Served
    <2> QED  BY <2>1, <2>2, <2>5, ListFrame DEF ClientInv
  <1>7. ASSUME NEW c \in Client, WriteOut(c) PROVE ClientInv'
    BY Zenon, <1>7, ClientFrame DEF WriteOut, connVars
  <1>8. ASSUME Answer PROVE ClientInv'
    BY Zenon, <1>8, ClientFrame DEF Answer, connVars
  <1>9. ASSUME Close PROVE ClientInv'
    BY Zenon, <1>9, ClientFrame DEF Close, connVars, dataVars
  <1>10. ASSUME NEW p \in Caller, NEW channel, Count(p, channel)
         PROVE  ClientInv'
    BY Zenon, <1>10, ClientFrame DEF Count, connVars, dataVars
  <1>11. ASSUME NEW p \in Caller, MainCount(p) \/ MainSend(p) PROVE ClientInv'
    BY Zenon, <1>11, ClientFrame DEF MainCount, MainSend, connVars, dataVars
  <1>12. ASSUME NEW p \in Caller, NEW q \in Caller, Crossed(p, q)
         PROVE  ClientInv'
    BY <1>12, ClientFrame DEF Crossed, connVars, dataVars
  <1>13. ASSUME UNCHANGED vars PROVE ClientInv'
    BY <1>13, ClientFrame DEF vars, connVars, dataVars
  <1> QED
    BY Zenon, <1>1, <1>2, <1>4, <1>5, <1>6, <1>7, <1>8, <1>9, <1>10, <1>11,
       <1>12,
       <1>13, ConnectedStep DEF Next

-----------------------------------------------------------------------------
(* The counts.                                                             *)

(* mainRoutine's record and the calls have the fields of their states; a   *)
(* caller receives exactly when mainRoutine has a count to send, on the    *)
(* channel of the count, and it is the only one.                           *)
AwaitInv ==
  /\ DOMAIN call = Caller /\ DOMAIN result = Caller
  /\ \A p \in Caller : call[p] # None =>
       \E channel \in CountChannel : \E step \in {"sending", "receiving"} :
         call[p] = Call(channel, step)
  /\ main.at = "counting" =>
       /\ main.channel \in CountChannel /\ main = Counting(main.channel)
       /\ \E p \in Caller :
            /\ Receiving(p, main.channel)
            /\ \A q \in Caller \ {p} :
                 call[q] # None => call[q].step = "sending"
  /\ main.at # "counting" =>
       \A p \in Caller : call[p] # None => call[p].step = "sending"

LEMMA CallNotNone ==
  ASSUME NEW channel \in CountChannel, NEW step \in {"sending", "receiving"}
  PROVE  /\ Call(channel, step) # None
         /\ Call(channel, step).channel = channel
         /\ Call(channel, step).step = step
  BY CallAssumption DEF Call

LEMMA AwaitInit == Init => AwaitInv
  <1> SUFFICES ASSUME Init PROVE AwaitInv
    BY Zenon
  <1>1. main.at # "counting"
    BY Zenon DEF Init, At
  <1>2. /\ DOMAIN call = Caller /\ DOMAIN result = Caller
        /\ \A p \in Caller : call[p] = None
    BY Zenon DEF Init
  <1> QED  BY Zenon, <1>1, <1>2 DEF AwaitInv

(* A caller that receives is the one that the count is for.                *)
LEMMA Receiver ==
  ASSUME AwaitInv, NEW p \in Caller, NEW channel \in CountChannel,
         Receiving(p, channel)
  PROVE  /\ call[p] # None /\ call[p].step = "receiving"
         /\ main.at = "counting" /\ main.channel = channel
         /\ \A q \in Caller \ {p} : call[q] # None => call[q].step = "sending"
  <1>1. /\ call[p] # None /\ call[p].step = "receiving"
        /\ call[p].channel = channel
    BY Zenon, CallNotNone DEF Receiving
  <1>2. main.at = "counting"
    BY Zenon, <1>1 DEF AwaitInv
  <1>3. PICK r \in Caller :
          /\ Receiving(r, main.channel)
          /\ \A q \in Caller \ {r} : call[q] # None => call[q].step = "sending"
    BY Zenon, <1>2 DEF AwaitInv
  <1>4. r = p
    BY Zenon, <1>1, <1>3
  <1>5. main.channel \in CountChannel
    BY Zenon, <1>2 DEF AwaitInv
  <1>6. main.channel = channel
    BY <1>1, <1>3, <1>4, <1>5, CallNotNone DEF Receiving
  <1> QED  BY Zenon, <1>1, <1>2, <1>3, <1>4, <1>6

(* Steps that leave the calls alone and start no count.                    *)
LEMMA AwaitFrame ==
  ASSUME AwaitInv, UNCHANGED <<call, result>>,
         \/ UNCHANGED main
         \/ main.at # "counting" /\ main'.at # "counting"
  PROVE  AwaitInv'
  BY Zenon DEF AwaitInv, Receiving

(* Every action preserves it.                                              *)
LEMMA AwaitStep == AwaitInv /\ [Next]_vars => AwaitInv'
  <1> SUFFICES ASSUME AwaitInv, [Next]_vars PROVE AwaitInv'
    OBVIOUS
  <1>1. ASSUME AcceptSelect \/ Close PROVE AwaitInv'
    BY Zenon, <1>1, AwaitFrame DEF AcceptSelect, Close
  <1>2. ASSUME NEW c \in Client,
               Accept(c) \/ Read(c) \/ WriteOut(c) \/ Connected(c)
        PROVE  AwaitInv'
    BY Zenon, <1>2, AwaitFrame DEF Accept, Read, WriteOut, Connected, callVars
  <1>3. ASSUME NEW c \in Client, Requested(c) PROVE AwaitInv'
    <2>1. main.at # "counting" /\ main'.at # "counting"
      BY <1>3 DEF Requested, Waits, Disconnect, Serve, Answering, At
    <2> QED  BY Zenon, <1>3, <2>1, AwaitFrame DEF Requested, callVars
  <1>4. ASSUME Answer PROVE AwaitInv'
    <2>1. main.at # "counting" /\ main'.at # "counting"
      BY Zenon, <1>4 DEF Answer, Answering, At
    <2> QED  BY Zenon, <1>4, <2>1, AwaitFrame DEF Answer, callVars
  <1>5. ASSUME MainClose PROVE AwaitInv'
    <2>1. main.at # "counting" /\ main'.at # "counting"
      BY <1>5 DEF MainClose, Waits, At
    <2> QED  BY Zenon, <1>5, <2>1, AwaitFrame DEF MainClose
  <1>6. ASSUME NEW p \in Caller, NEW channel \in Channels[p],
               Count(p, channel)
        PROVE  AwaitInv'
    <2>1. channel \in CountChannel
      BY Zenon, CallAssumption
    <2>2. /\ call[p] = None /\ UNCHANGED main
          /\ call'[p] = Call(channel, "sending")
          /\ \A q \in Caller \ {p} : call'[q] = call[q]
          /\ DOMAIN call' = Caller /\ DOMAIN result' = Caller
      BY Zenon, <1>6 DEF Count, AwaitInv
    <2>3. call'[p].step = "sending"
      BY <2>1, <2>2, CallNotNone
    <2>4. \A q \in Caller : (call[q] # None => call[q].step = "sending")
             => (call'[q] # None => call'[q].step = "sending")
      BY Zenon, <2>2, <2>3
    <2>5. ASSUME main.at = "counting"
          PROVE  \E r \in Caller :
                   /\ Receiving(r, main.channel)'
                   /\ \A q \in Caller \ {r} :
                        call'[q] # None => call'[q].step = "sending"
      <3>1. PICK r \in Caller :
              /\ Receiving(r, main.channel)
              /\ \A q \in Caller \ {r} :
                   call[q] # None => call[q].step = "sending"
        BY <2>5 DEF AwaitInv
      <3>2. main.channel \in CountChannel
        BY Zenon, <2>5 DEF AwaitInv
      <3>3. r # p
        BY <2>2, <3>1, <3>2, CallNotNone DEF Receiving
      <3>4. Receiving(r, main.channel)'
        BY Zenon, <2>2, <3>1, <3>3 DEF Receiving
      <3> QED  BY Zenon, <2>4, <3>1, <3>4
    <2>6. \A q \in Caller : call'[q] # None =>
            \E ch \in CountChannel : \E step \in {"sending", "receiving"} :
              call'[q] = Call(ch, step)
      BY Zenon, <2>1, <2>2 DEF AwaitInv
    <2> QED  BY Zenon, <2>2, <2>4, <2>5, <2>6 DEF AwaitInv
  <1>7. ASSUME NEW p \in Caller, MainCount(p) PROVE AwaitInv'
    <2>1. PICK channel \in CountChannel : call[p].channel = channel
      BY <1>7, CallNotNone DEF MainCount, AwaitInv
    <2>2. /\ main.at # "counting" /\ main' = Counting(channel)
          /\ call'[p] = Call(channel, "receiving")
          /\ \A q \in Caller \ {p} : call'[q] = call[q]
          /\ DOMAIN call' = Caller /\ DOMAIN result' = Caller
      BY Zenon, <1>7, <2>1 DEF MainCount, Waits, AfterRequest, AwaitInv
    <2>3. main'.at = "counting" /\ main'.channel = channel
      BY Zenon, <2>2 DEF Counting
    <2>4. \A q \in Caller \ {p} : call'[q] # None => call'[q].step = "sending"
      BY Zenon, <2>2 DEF AwaitInv
    <2>5. \A q \in Caller : call'[q] # None =>
            \E ch \in CountChannel : \E step \in {"sending", "receiving"} :
              call'[q] = Call(ch, step)
      BY <2>2 DEF AwaitInv
    <2> QED  BY <2>2, <2>3, <2>4, <2>5 DEF AwaitInv, Receiving
  <1>8. ASSUME NEW p \in Caller, MainSend(p) PROVE AwaitInv'
    <2>1. /\ main.at = "counting" /\ Receiving(p, main.channel)
          /\ call'[p] = None
          /\ \A q \in Caller \ {p} : call'[q] = call[q]
          /\ DOMAIN call' = Caller /\ DOMAIN result' = Caller
      BY Zenon, <1>8 DEF MainSend, AwaitInv
    <2>2. main'.at # "counting"
      BY Zenon, <1>8 DEF MainSend, At
    <2>3. main.channel \in CountChannel
      BY <2>1 DEF AwaitInv
    <2>4. \A q \in Caller \ {p} : call[q] # None => call[q].step = "sending"
      BY Zenon, <2>1, <2>3, Receiver
    <2> QED  BY Zenon, <2>1, <2>2, <2>4 DEF AwaitInv
  <1>9. ASSUME NEW p \in Caller, NEW q \in Caller, Crossed(p, q)
        PROVE  AwaitInv'
    <2>1. PICK channel \in CountChannel : call[p].channel = channel
      BY <1>9, CallNotNone DEF Crossed, AwaitInv
    <2>2. /\ call[p] # None /\ call[p].step = "sending"
          /\ Receiving(q, channel) /\ UNCHANGED main
          /\ call' = [call EXCEPT ![p] = Call(channel, "receiving"),
                                 ![q] = None]
          /\ DOMAIN call' = Caller /\ DOMAIN result' = Caller
      BY Zenon, <1>9, <2>1 DEF Crossed, AwaitInv
    <2>3. /\ main.at = "counting" /\ main.channel = channel
          /\ call[q].step = "receiving"
          /\ \A r \in Caller \ {q} : call[r] # None => call[r].step = "sending"
      BY Zenon, <2>1, <2>2, Receiver
    <2>4. /\ p # q /\ call'[p] = Call(channel, "receiving") /\ call'[q] = None
          /\ \A r \in Caller \ {p, q} : call'[r] = call[r]
      BY Zenon, <2>2, <2>3 DEF AwaitInv
    <2>5. \A r \in Caller \ {p} : call'[r] # None => call'[r].step = "sending"
      BY Zenon, <2>3, <2>4
    <2>6. \A r \in Caller : call'[r] # None =>
            \E ch \in CountChannel : \E step \in {"sending", "receiving"} :
              call'[r] = Call(ch, step)
      BY Zenon, <2>4 DEF AwaitInv
    <2>7. Receiving(p, main.channel)'
      BY Zenon, <2>2, <2>3, <2>4 DEF Receiving
    <2> QED  BY Zenon, <2>2, <2>3, <2>5, <2>6, <2>7 DEF AwaitInv
  <1>10. ASSUME UNCHANGED vars PROVE AwaitInv'
    BY <1>10, AwaitFrame DEF vars, callVars
  <1> QED
    BY Zenon, <1>1, <1>2, <1>3, <1>4, <1>5, <1>6, <1>7, <1>8, <1>9, <1>10
    DEF Next

LEMMA AwaitImplies == AwaitInv => OneAnswerAwaited
  <1> SUFFICES ASSUME AwaitInv, NEW channel \in CountChannel
               PROVE  Cardinality({p \in Caller : Receiving(p, channel)})
                        = IF main = Counting(channel) THEN 1 ELSE 0
    BY Zenon DEF OneAnswerAwaited
  <1> DEFINE R == {p \in Caller : Receiving(p, channel)}
  <1>1. CASE main = Counting(channel)
    <2>1. main.at = "counting" /\ main.channel = channel
      BY <1>1 DEF Counting
    <2>2. PICK p \in Caller : Receiving(p, channel)
      BY Zenon, <2>1 DEF AwaitInv
    <2>3. ASSUME NEW q \in Caller, Receiving(q, channel) PROVE q = p
      BY Zenon, <2>2, <2>3, Receiver
    <2>4. R = {p}
      BY <2>2, <2>3
    <2> QED  BY Zenon, <1>1, <2>4, FS_Singleton
  <1>2. CASE main # Counting(channel)
    <2>1. R = {}
      BY Zenon, <1>2, Receiver DEF AwaitInv
    <2> QED  BY <1>2, <2>1, FS_EmptySet
  <1> QED  BY Zenon, <1>1, <1>2

LEMMA ClientImplies == ClientInv => ClientsAccounted
  <1> SUFFICES ASSUME ClientInv, NEW c \in Client
               PROVE  Cardinality({i \in DOMAIN clients : clients[i] = c})
                        = IF c \in Served THEN 1 ELSE 0
    BY Zenon DEF ClientsAccounted, ClientInv, ListInv
  <1> DEFINE I == {i \in DOMAIN clients : clients[i] = c}
  <1>0. DOMAIN clients = 1 .. Len(clients)
    BY Zenon, LenProperties DEF ClientInv, ListInv
  <1>1. CASE c \in Served
    <2>1. PICK k \in 1 .. Len(clients) : clients[k] = c
      BY Zenon, <1>1 DEF ClientInv, ListInv
    <2>2. I = {k}
      BY Zenon, <1>0, <2>1 DEF ClientInv, ListInv, NoRepeat
    <2> QED  BY Zenon, <1>1, <2>2, FS_Singleton
  <1>2. CASE c \notin Served
    <2>1. I = {}
      BY Zenon, <1>0, <1>2 DEF ClientInv, ListInv
    <2> QED  BY <1>2, <2>1, FS_EmptySet
  <1> QED  BY Zenon, <1>1, <1>2

(* The step that ends a call.                                              *)
LEMMA CountStep ==
  ASSUME ClientInv, AwaitInv, [Next]_vars, NEW p \in Caller,
         call[p] # None, call'[p] = None,
         \A q \in Caller \ {p} :
           call[q] # None => call[q].channel # call[p].channel
  PROVE  result'[p] = IF call[p].channel = "activeClient"
                      THEN Cardinality(Served) ELSE Cardinality(Dropped)
  <1>1. CASE MainSend(p)
    <2>1. /\ main.at = "counting" /\ call[p] = Call(main.channel, "receiving")
          /\ result'[p] = CountOf(main.channel)
      BY Zenon, <1>1 DEF MainSend, Receiving, AwaitInv
    <2>2. main.channel \in CountChannel
      BY Zenon, <2>1 DEF AwaitInv
    <2>3. call[p].channel = main.channel
      BY <2>1, <2>2, CallNotNone
    <2> QED  BY <2>1, <2>3 DEF CountOf, ClientInv, ListInv
  <1>2. ASSUME NEW q \in Caller, NEW r \in Caller, Crossed(q, r)
        PROVE  FALSE
    <2>1. PICK channel \in CountChannel : call[q].channel = channel
      BY <1>2, CallNotNone DEF Crossed, AwaitInv
    <2>2. /\ call[q] # None /\ call[q].step = "sending"
          /\ call[r] = Call(channel, "receiving")
          /\ call' = [call EXCEPT ![q] = Call(channel, "receiving"),
                                 ![r] = None]
      BY Zenon, <1>2, <2>1 DEF Crossed, Receiving
    <2>3. /\ call[r].channel = channel /\ call[r].step = "receiving"
          /\ Call(channel, "receiving") # None
      BY <2>2, CallNotNone
    <2>4. p = r
      BY Zenon, <2>2, <2>3 DEF AwaitInv
    <2> QED  BY <2>1, <2>2, <2>3, <2>4
  <1>3. ASSUME NEW q \in Caller, q # p, MainSend(q) PROVE FALSE
    BY Zenon, <1>3 DEF MainSend, AwaitInv
  <1>4. ASSUME NEW q \in Caller, MainCount(q) PROVE FALSE
    <2>1. PICK channel \in CountChannel : call[q].channel = channel
      BY <1>4, CallNotNone DEF MainCount, AwaitInv
    <2>2. call' = [call EXCEPT ![q] = Call(channel, "receiving")]
      BY Zenon, <1>4, <2>1 DEF MainCount
    <2> QED  BY Zenon, <2>2, CallNotNone DEF AwaitInv
  <1>5. ASSUME NEW q \in Caller, NEW channel \in Channels[q],
               Count(q, channel)
        PROVE  FALSE
    <2>1. channel \in CountChannel
      BY Zenon, CallAssumption
    <2> QED  BY Zenon, <1>5, <2>1, CallNotNone DEF Count, AwaitInv
  <1>6. ASSUME UNCHANGED call PROVE FALSE
    BY Zenon, <1>6
  <1>7. ASSUME NEW c \in Client,
               \/ Accept(c) \/ Read(c) \/ WriteOut(c) \/ Connected(c)
               \/ Requested(c)
        PROVE  FALSE
    BY Zenon, <1>6, <1>7
    DEF Accept, Read, WriteOut, Connected, Requested, callVars
  <1>8. ASSUME AcceptSelect \/ Answer \/ MainClose \/ Close PROVE FALSE
    BY Zenon, <1>6, <1>8 DEF AcceptSelect, Answer, MainClose, Close, callVars
  <1>9. ASSUME UNCHANGED vars PROVE FALSE
    BY Zenon, <1>6, <1>9 DEF vars, callVars
  <1> QED
    BY Zenon, <1>1, <1>2, <1>3, <1>4, <1>5, <1>7, <1>8, <1>9 DEF Next

-----------------------------------------------------------------------------
(* The theorems.                                                           *)

(* A client is in kvs.clients exactly once from the time mainRoutine has   *)
(* its connection until it is dropped, so that the index that Terminate    *)
(* looks for exists (server_impl.go, lines 109 to 117).                    *)
THEOREM ListIsRight == Spec => []ClientsAccounted
  <1> QED  BY ClientInit, ClientStep, ClientImplies, PTL DEF Spec, SafetySpec

(* However many callers cross, one waits while mainRoutine has a count to  *)
(* send and none otherwise (server_impl.go, lines 206 to 218).             *)
THEOREM NobodyWaitsInVain == Spec => []OneAnswerAwaited
  <1> QED  BY AwaitInit, AwaitStep, AwaitImplies, PTL DEF Spec, SafetySpec

(* A count that no other caller's request crosses is the number of active  *)
(* or dropped clients at that moment (server_impl.go, lines 120 to 124).   *)
THEOREM CountsAreCurrent == Spec => CountIsCurrent
  <1>1. ClientInv /\ AwaitInv /\ [Next]_vars =>
          [\A p \in Caller :
             (/\ call[p] # None /\ call'[p] = None
              /\ \A q \in Caller \ {p} :
                   call[q] # None => call[q].channel # call[p].channel)
             => result'[p] = IF call[p].channel = "activeClient"
                             THEN Cardinality(Served)
                             ELSE Cardinality(Dropped)]_vars
    BY Zenon, CountStep
  <1> QED
    BY <1>1, ClientInit, ClientStep, AwaitInit, AwaitStep, PTL
    DEF Spec, SafetySpec, CountIsCurrent
=============================================================================
