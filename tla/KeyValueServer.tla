--------------------------- MODULE KeyValueServer ---------------------------
(***************************************************************************)
(* The key-value server over TCP of p0partA/server_impl.go with the store  *)
(* of kvstore/kv_impl.go: the goroutine accept, the goroutine mainRoutine, *)
(* which owns the store and the list of clients, a read and a write        *)
(* goroutine for each client, and the callers of Close, CountActive and    *)
(* CountDropped.  All channels but the write queues are unbuffered: a send *)
(* and the receive that takes it are one step.                             *)
(***************************************************************************)
EXTENDS Integers, Sequences, FiniteSets, SeqOps

CONSTANTS
  Client, Caller, Key, Value,
  Channels,        \* the counts each caller asks for, by their channels
  QueueSize,       \* the capacity of writeChan, 500 in the code
  MaxValues,       \* bound on the values that a key has
  None             \* nothing

ASSUME QueueAssumption == QueueSize \in Nat \ {0}

ASSUME ClientAssumption ==
  IsFiniteSet(Client) /\ Client \cap {"select", "accepting", "done"} = {}

CountChannel == {"activeClient", "dropped_client_chan"}

ASSUME CallAssumption ==
  /\ Channels \in [Caller -> SUBSET CountChannel]
  /\ None \notin [channel : CountChannel, step : {"sending", "receiving"}]

VARIABLES
  acceptor,   \* accept: "select", "accepting", the client whose connection
              \* it offers to mainRoutine, or "done"
  conn,       \* each client's connection: "none", "open", "closed" by the
              \* server
  main,       \* mainRoutine, by its field at: "select", "done", "answering"
              \* a Get, or "counting"
  clients,    \* kvs.clients
  dropped_client,
  store,      \* the values of each key, oldest first
  reader,     \* readRoutine, by its field type: "none", "reading", "done",
              \* or the request that it sends
  writeChan,
  call,       \* a call of CountActive or CountDropped, None without one
  result,     \* what the last call returned, 0 during the next
  closing     \* Close: "not called", "called" or "returned"

connVars == <<acceptor, conn>>

listVars == <<clients, dropped_client>>

dataVars == <<store, reader, writeChan>>

callVars == <<call, result, closing>>

vars == <<connVars, main, listVars, dataVars, callVars>>

Request ==
  [type : {"Get", "Delete"}, key : Key]
  \cup [type : {"Put"}, key : Key, new_value : Value]
  \cup [type : {"Update"}, key : Key, old_value : Value, new_value : Value]

Terminate == [type |-> "Terminate"]

Reader(state) == [type |-> state]

At(place) == [at |-> place]

Answering(c, values) == [at |-> "answering", client |-> c, values |-> values]

Counting(channel) == [at |-> "counting", channel |-> channel]

Call(channel, step) == [channel |-> channel, step |-> step]

Init ==
  /\ acceptor = "select"
  /\ conn = [c \in Client |-> "none"]
  /\ main = At("select")
  /\ clients = <<>>
  /\ dropped_client = 0
  /\ store = [k \in Key |-> <<>>]
  /\ reader = [c \in Client |-> Reader("none")]
  /\ writeChan = [c \in Client |-> <<>>]
  /\ call = [p \in Caller |-> None]
  /\ result = [p \in Caller |-> 0]
  /\ closing = "not called"

-----------------------------------------------------------------------------
(* The clients and accept.                                                 *)

(* A waiting Close is received; otherwise the default case goes on.        *)
AcceptSelect ==
  /\ acceptor = "select"
  /\ IF closing = "called"
     THEN acceptor' = "done" /\ closing' = "returned"
     ELSE acceptor' = "accepting" /\ UNCHANGED closing
  /\ UNCHANGED <<conn, main, listVars, dataVars, call, result>>

Accept(c) ==
  /\ acceptor = "accepting" /\ conn[c] = "none"
  /\ acceptor' = c
  /\ conn' = [conn EXCEPT ![c] = "open"]
  /\ UNCHANGED <<main, listVars, dataVars, callVars>>

(* The bound on values counts those that requests under way may add.       *)
MayAdd(k) ==
  LET adding == {c \in Client : /\ "new_value" \in DOMAIN reader[c]
                                /\ reader[c].key = k}
  IN Len(store[k]) + Cardinality(adding) < MaxValues

(* readRoutine gets a line from its client, or an error: the client has    *)
(* gone, or the server has closed the connection.                          *)
Read(c) ==
  /\ reader[c].type = "reading"
  /\ \/ /\ conn[c] = "open"
        /\ \E r \in Request :
             /\ r.type \in {"Put", "Update"} => MayAdd(r.key)
             /\ reader' = [reader EXCEPT ![c] = r]
     \/ reader' = [reader EXCEPT ![c] = Terminate]
  /\ UNCHANGED <<connVars, main, listVars, store, writeChan, callVars>>

(* writeRoutine writes to the connection, also after it was closed.        *)
WriteOut(c) ==
  /\ writeChan[c] # <<>>
  /\ writeChan' = [writeChan EXCEPT ![c] = Tail(@)]
  /\ UNCHANGED <<connVars, main, listVars, store, reader, callVars>>

-----------------------------------------------------------------------------
(* mainRoutine.                                                            *)

Waits == main.at = "select"

Sends(c) == reader[c].type \notin {"none", "reading", "done"}

Served == {c \in Client : reader[c].type \notin {"none", "done"}}

Dropped == {c \in Client : reader[c].type = "done"}

Connected(c) ==
  /\ Waits /\ acceptor = c
  /\ acceptor' = "select"
  /\ clients' = Append(clients, c)
  /\ reader' = [reader EXCEPT ![c] = Reader("reading")]
  /\ UNCHANGED <<conn, main, dropped_client, store, writeChan, callVars>>

(* The first old value is taken out, the new one is added at the end.      *)
Updated(values, r) ==
  Append(RemoveFirst(values, r.old_value), r.new_value)

Stored(values, r) ==
  CASE r.type = "Put" -> Append(values, r.new_value)
    [] r.type = "Update" -> Updated(values, r)
    [] r.type = "Delete" -> <<>>
    [] r.type = "Get" -> values

(* Put, Update, Delete and Get.                                            *)
Serve(c, r) ==
  /\ store' = [store EXCEPT ![r.key] = Stored(@, r)]
  /\ main' = IF r.type = "Get" /\ store[r.key] # <<>>
             THEN Answering(c, store[r.key]) ELSE At("select")
  /\ reader' = [reader EXCEPT ![c] = Reader("reading")]
  /\ UNCHANGED <<conn, listVars>>

(* Mutant: the client stays in the list.                                   *)
WithoutNone(c) == clients

(* The list without the entry at the client's index; it must have one.     *)
Without(c) == RemoveFirst(clients, c)

Disconnect(c) ==
  /\ dropped_client' = dropped_client + 1
  /\ conn' = [conn EXCEPT ![c] = "closed"]
  /\ clients' = Without(c)
  /\ reader' = [reader EXCEPT ![c] = Reader("done")]
  /\ UNCHANGED <<main, store>>

Requested(c) ==
  /\ Waits /\ Sends(c)
  /\ IF reader[c] = Terminate THEN Disconnect(c) ELSE Serve(c, reader[c])
  /\ UNCHANGED <<acceptor, writeChan, callVars>>

(* Mutant: the length of the queue is not looked at.                       *)
HasRoomAlways(c) == TRUE

HasRoom(c) == Len(writeChan[c]) < QueueSize

(* One value of a Get: it is sent, which blocks when the queue is full, or *)
(* dropped.                                                                *)
Answer ==
  /\ main.at = "answering"
  /\ LET c == main.client
     IN IF HasRoom(c)
        THEN /\ Len(writeChan[c]) < QueueSize
             /\ writeChan' =
                  [writeChan EXCEPT ![c] = Append(@, Head(main.values))]
        ELSE UNCHANGED writeChan
  /\ main' = IF Len(main.values) = 1 THEN At("select")
             ELSE Answering(main.client, Tail(main.values))
  /\ UNCHANGED <<connVars, listVars, store, reader, callVars>>

(* Close of the first n connections; n stops short of the list when the    *)
(* Close of a connection fails, which leaves the later ones as they are.   *)
ClosedUpTo(n) == {clients[i] : i \in 1 .. n}

(* Mutant: Close is received only once every client is gone.               *)
MainCloseIdle ==
  /\ Waits /\ closing = "called" /\ clients = <<>>
  /\ main' = At("done")
  /\ closing' = "returned"
  /\ UNCHANGED <<connVars, listVars, dataVars, call, result>>

MainClose ==
  /\ Waits /\ closing = "called"
  /\ main' = At("done")
  /\ closing' = "returned"
  /\ \E n \in 0 .. Len(clients) :
       conn' = [c \in Client |->
                  IF c \in ClosedUpTo(n) THEN "closed" ELSE conn[c]]
  /\ UNCHANGED <<acceptor, listVars, dataVars, call, result>>

-----------------------------------------------------------------------------
(* The callers.                                                            *)

Close ==
  /\ closing = "not called"
  /\ closing' = "called"
  /\ UNCHANGED <<connVars, main, listVars, dataVars, call, result>>

(* CountActive and CountDropped; not to be called on a closed server.      *)
Count(p, channel) ==
  /\ call[p] = None /\ closing = "not called"
  /\ call' = [call EXCEPT ![p] = Call(channel, "sending")]
  /\ result' = [result EXCEPT ![p] = 0]
  /\ UNCHANGED <<connVars, main, listVars, dataVars, closing>>

(* Mutant: the answer is forgotten.                                        *)
AfterCount(channel) == At("select")

AfterRequest(channel) == Counting(channel)

MainCount(p) ==
  /\ Waits /\ call[p] # None /\ call[p].step = "sending"
  /\ main' = AfterRequest(call[p].channel)
  /\ call' = [call EXCEPT ![p] = Call(@.channel, "receiving")]
  /\ UNCHANGED <<connVars, listVars, dataVars, result, closing>>

(* Mutant: dropped clients are not told apart from active ones.            *)
AllClients(channel) == Len(clients) + dropped_client

CountOf(channel) ==
  IF channel = "activeClient" THEN Len(clients) ELSE dropped_client

Receiving(p, channel) == call[p] = Call(channel, "receiving")

MainSend(p) ==
  /\ main.at = "counting" /\ Receiving(p, main.channel)
  /\ result' = [result EXCEPT ![p] = CountOf(main.channel)]
  /\ call' = [call EXCEPT ![p] = None]
  /\ main' = At("select")
  /\ UNCHANGED <<connVars, listVars, dataVars, closing>>

(* A request goes over the channel on which an answer is awaited: q takes  *)
(* the 1 that p sends for its answer.                                      *)
Crossed(p, q) ==
  /\ call[p] # None /\ call[p].step = "sending"
  /\ Receiving(q, call[p].channel)
  /\ result' = [result EXCEPT ![q] = 1]
  /\ call' = [call EXCEPT ![p] = Call(@.channel, "receiving"), ![q] = None]
  /\ UNCHANGED <<connVars, main, listVars, dataVars, closing>>

-----------------------------------------------------------------------------
Next ==
  \/ \E c \in Client : \/ Accept(c) \/ Read(c)
                       \/ WriteOut(c) \/ Connected(c) \/ Requested(c)
  \/ AcceptSelect \/ Answer \/ MainClose \/ Close
  \/ \E p \in Caller : \/ \E channel \in Channels[p] : Count(p, channel)
                       \/ MainCount(p) \/ MainSend(p)
                       \/ \E q \in Caller : Crossed(p, q)

(* mainRoutine goes on when it can, and its select, which chooses at       *)
(* random, takes a Close that is ready again and again.  No client has to  *)
(* do anything: none has to read what is written to it.                    *)
Fairness ==
  /\ WF_vars(Answer) /\ WF_vars(\E p \in Caller : MainSend(p))
  /\ SF_vars(MainClose)

SafetySpec == Init /\ [][Next]_vars

Spec == SafetySpec /\ Fairness

-----------------------------------------------------------------------------
(* A client is in the list exactly once from the time it was accepted      *)
(* until it is dropped, and only then has a reader; in particular the      *)
(* index that Terminate looks for exists (lines 109 to 117).               *)
ClientsAccounted ==
  /\ \A c \in Client :
       Cardinality({i \in DOMAIN clients : clients[i] = c})
         = IF c \in Served THEN 1 ELSE 0
  /\ dropped_client = Cardinality(Dropped)

(* A call returns the number at that moment (lines 120 to 124), unless     *)
(* another caller uses the same channel.                                   *)
CountIsCurrent ==
  [][\A p \in Caller :
       (/\ call[p] # None /\ call'[p] = None
        /\ \A q \in Caller \ {p} :
             call[q] # None => call[q].channel # call[p].channel)
       => result'[p] = IF call[p].channel = "activeClient"
                       THEN Cardinality(Served)
                       ELSE Cardinality(Dropped)]_vars

(* While mainRoutine has a count to send, exactly one caller waits for it, *)
(* and otherwise none: callers that cross lose no answer (lines 206 to     *)
(* 218), and none waits in vain.                                           *)
OneAnswerAwaited ==
  \A channel \in CountChannel :
    Cardinality({p \in Caller : Receiving(p, channel)})
      = IF main = Counting(channel) THEN 1 ELSE 0

(* However slowly the clients read (lines 97 to 101), and whatever the     *)
(* callers do, mainRoutine comes back to its select until it is closed.    *)
MainComesBack == []<>(main.at \in {"select", "done"})

(* Close returns (line 203): one of the two routines receives the signal.  *)
CloseIsReceived == closing = "called" ~> closing = "returned"
=============================================================================
