---------------------------- MODULE MiningServer ----------------------------
(***************************************************************************)
(* bitcoin/server/server.go with the miners and clients that talk to it    *)
(* (bitcoin/miner/miner.go, bitcoin/client/client.go).                     *)
(*                                                                         *)
(* A client asks for the nonce in 0 .. Upper[c] whose hash is least.  The  *)
(* server cuts the range into pieces of Chunk, hands a piece to each free  *)
(* miner, keeps the rest in a queue, and takes pieces of the queue's       *)
(* requests in turn whenever a miner becomes free.                         *)
(*                                                                         *)
(* The server is one loop; an iteration, which reads one message or the    *)
(* news that a connection is lost, is one step.  LSP is taken for what it  *)
(* promises: per connection, messages arrive once and in order, and a lost *)
(* connection is reported after the messages that arrived before.          *)
(* Unsigned integers have Modulus values.                                  *)
(***************************************************************************)
EXTENDS Integers, Sequences, FiniteSets, FiniteSetsExt, Functions, SeqOps

CONSTANTS
  Client, Miner,   \* connections that ask and connections that work
  Upper,           \* Upper[c] is the maxNonce of client c
  Hash,            \* Hash[c][n] is the hash of c's message with nonce n
  Chunk,           \* 10000, the nonces in a piece (and one more)
  Modulus,         \* 2^64
  None             \* a missing entry of a map

Nonce == 0 .. Modulus - 1

ASSUME ChunkAssumption == Chunk \in Nat \ {0}
ASSUME ModulusAssumption == Modulus \in Nat \ {0}
ASSUME HashAssumption == Hash \in [Client -> [Nonce -> Nat]]

(* lower_bound + 10000 in the loop of a Request could only wrap with more  *)
(* than 2^64 / 10000 free miners, so a large request stays clear of it.    *)
ASSUME UpperAssumption ==
  /\ Upper \in [Client -> Nonce]
  /\ \A c \in Client : Upper[c] + Chunk < Modulus \/ Upper[c] = Modulus - 1

(* A program is a client or a miner, and there are finitely many.          *)
ASSUME ConnAssumption == Client \cap Miner = {} /\ IsFiniteSet(Miner)

Conn == Client \cup Miner

Interval == [lower : Nonce, upper : Nonce]

(* A request_data; the client stands for its message.                      *)
Request == [client_id : Client, lower : Nonce, upper : Nonce]

(* A task_data, with the miner_data of each miner that works on it.        *)
Task == [miner_num : Int, miner_info : [Miner -> Interval \cup {None}],
         curr_value : Nat, curr_nonce : Nonce]

Result == [type : {"Result"}, hash : Nat, nonce : Nonce]

ASSUME NoneAssumption == None \notin Client \cup Interval \cup Task \cup Result

VARIABLES
  free_miner,      \* srv.free_miner
  work_miner,      \* srv.work_miner: the client a miner works for
  task_map,        \* srv.task_map
  request_queue,   \* srv.request_queue
  panicked,        \* the server has died of a nil pointer
  conn,            \* "new", "open" or "lost", for each connection
  inbox,           \* what the server will read from each connection
  work,            \* what each miner will read
  answer,          \* the first Result for each client; it reads no other
  done,            \* history: nonces of each client that results cover
  early            \* history: clients answered while a piece was queued

srvVars == <<free_miner, work_miner, task_map, request_queue, panicked>>

netVars == <<conn, inbox, work>>

history == <<done, early>>

vars == <<srvVars, netVars, answer, history>>

Join == [type |-> "Join"]

NewRequest(c) == [type |-> "Request", lower |-> 0, upper |-> Upper[c]]

NewResult(hash, nonce) == [type |-> "Result", hash |-> hash, nonce |-> nonce]

(* The error that Read returns for a lost connection.                      *)
Lost == [type |-> "Lost"]

Init ==
  /\ free_miner = <<>>
  /\ work_miner = [m \in Miner |-> None]
  /\ task_map = [c \in Client |-> None]
  /\ request_queue = <<>>
  /\ panicked = FALSE
  /\ conn = [x \in Conn |-> "new"]
  /\ inbox = [x \in Conn |-> <<>>]
  /\ work = [m \in Miner |-> <<>>]
  /\ answer = [c \in Client |-> None]
  /\ done = [c \in Client |-> {}]
  /\ early = {}

-----------------------------------------------------------------------------
(* Miners, clients and connections.                                        *)

(* A client asks for its range, a miner joins.                             *)
FirstMessage(x) == IF x \in Client THEN NewRequest(x) ELSE Join

Start(x) ==
  /\ conn[x] = "new"
  /\ conn' = [conn EXCEPT ![x] = "open"]
  /\ inbox' = [inbox EXCEPT ![x] = <<FirstMessage(x)>>]
  /\ UNCHANGED <<srvVars, work, answer, history>>

(* The nonces that mining visits: the loop ends before upper + 1, which    *)
(* is 0 for the largest integer.                                           *)
Visited(lower, upper) ==
  {lower} \cup {i \in Nonce : lower <= i /\ i < (upper + 1) % Modulus}

(* The loop keeps the first of the least hashes.                           *)
Best(c, S) ==
  CHOOSE n \in S : \A k \in S :
    Hash[c][n] < Hash[c][k] \/ (Hash[c][n] = Hash[c][k] /\ n <= k)

Mine(m) ==
  /\ conn[m] = "open"
  /\ work[m] # <<>>
  /\ LET w == Head(work[m])
         n == Best(w.client_id, Visited(w.lower, w.upper))
     IN inbox' = [inbox EXCEPT ![m] =
          Append(@, NewResult(Hash[w.client_id][n], n))]
  /\ work' = [work EXCEPT ![m] = Tail(@)]
  /\ UNCHANGED <<srvVars, conn, answer, history>>

(* A program ends or its network fails; what it sent last may be lost.     *)
Lose(x) ==
  /\ conn[x] = "open"
  /\ conn' = [conn EXCEPT ![x] = "lost"]
  /\ \E n \in 0 .. Len(inbox[x]) :
       inbox' = [inbox EXCEPT ![x] = Append(SubSeq(@, 1, n), Lost)]
  /\ UNCHANGED <<srvVars, work, answer, history>>

-----------------------------------------------------------------------------
(* The server.                                                             *)

NoInfo == [m \in Miner |-> None]

(* Task t, if there is one, with miner m and its interval iv.              *)
WithMiner(t, m, iv) ==
  IF t = None
  THEN [miner_num |-> 1, miner_info |-> [NoInfo EXCEPT ![m] = iv],
        curr_value |-> 0, curr_nonce |-> 0]
  ELSE [t EXCEPT !.miner_num = @ + 1, !.miner_info[m] = iv]

(* The task of client c gets miner m with interval iv.                     *)
Assigned(tasks, c, m, iv) ==
  [tasks EXCEPT ![c] = WithMiner(tasks[c], m, iv)]

(* ServerWriteMessage; a write to a lost connection fails unnoticed.       *)
WriteRequest(q, m, c, iv) ==
  IF conn[m] = "open"
  THEN [q EXCEPT ![m] =
          Append(@, [client_id |-> c, lower |-> iv.lower, upper |-> iv.upper])]
  ELSE q

Size(lower, upper) == (upper - lower + 1) % Modulus

(* The interval that a miner gets of request r, and what stays of it.      *)
Piece(r) ==
  [lower |-> r.lower,
   upper |-> IF Size(r.lower, r.upper) <= Chunk THEN r.upper
             ELSE (r.lower + Chunk) % Modulus]

(* Mutant: the rest starts after the last nonce plus one.                  *)
RestSkipsOne(r) ==
  IF Size(r.lower, r.upper) <= Chunk THEN <<>>
  ELSE <<[r EXCEPT !.lower = (@ + Chunk + 2) % Modulus]>>

Rest(r) ==
  IF Size(r.lower, r.upper) <= Chunk THEN <<>>
  ELSE <<[r EXCEPT !.lower = (@ + Chunk) % Modulus]>>

(* Mutant: the server answers as soon as the miner's own piece is done.     *)
TasksServedNot(m, tasks) == tasks

(* The tasks after miner m took a piece of the first request.              *)
TasksServed(m, tasks) ==
  IF request_queue = <<>> THEN tasks
  ELSE Assigned(tasks, Head(request_queue).client_id, m,
                Piece(Head(request_queue)))

(* Mutant: a miner that is done stays idle whatever the queue holds.       *)
ServeNothing(m) ==
  /\ free_miner' = Append(free_miner, m)
  /\ work_miner' = [work_miner EXCEPT ![m] = None]
  /\ UNCHANGED <<request_queue, work>>

(* Miner m has nothing to do: it takes a piece of the first request, whose *)
(* rest goes to the end of the queue, or becomes free.                     *)
Serve(m) ==
  IF request_queue = <<>>
  THEN ServeNothing(m)
  ELSE LET r == Head(request_queue)
       IN /\ work' = WriteRequest(work, m, r.client_id, Piece(r))
          /\ work_miner' = [work_miner EXCEPT ![m] = r.client_id]
          /\ request_queue' = Tail(request_queue) \o Rest(r)
          /\ UNCHANGED free_miner

(* case bitcoin.Join                                                       *)
OnJoin(m) ==
  /\ Serve(m)
  /\ task_map' = TasksServed(m, task_map)
  /\ UNCHANGED <<panicked, answer, history>>

(* How many free miners a request is spread over: all in one piece if it   *)
(* is small, else one miner for each Chunk.                                *)
Spread(r) ==
  IF Size(r.lower, r.upper) <= Chunk THEN Min({1, Len(free_miner)})
  ELSE Min({Len(free_miner), (r.upper - r.lower + Chunk - 1) \div Chunk})

(* The loop's lower_bound after i miners.                                  *)
LowerBound(r, i) ==
  IF Size(r.lower, r.upper) <= Chunk THEN (IF i = 0 THEN r.lower ELSE r.upper)
  ELSE Min({(r.lower + i * Chunk) % Modulus, r.upper})

Share(r, i) == [lower |-> LowerBound(r, i - 1), upper |-> LowerBound(r, i)]

(* case bitcoin.Request; a client sends one request only.                  *)
OnRequest(c, msg) ==
  LET r == [client_id |-> c, lower |-> msg.lower, upper |-> msg.upper]
      k == Spread(r)
      given(m) == {i \in 1 .. k : free_miner[i] = m}
      share(m) == Share(r, CHOOSE i \in given(m) : TRUE)
      rest == [r EXCEPT !.lower = LowerBound(r, k)]
  IN /\ free_miner' = SubSeq(free_miner, k + 1, Len(free_miner))
     /\ work' = [m \in Miner |->
          IF given(m) = {} THEN work[m]
          ELSE WriteRequest(work, m, c, share(m))[m]]
     /\ work_miner' = [m \in Miner |->
          IF given(m) = {} THEN work_miner[m] ELSE c]
     /\ task_map' = IF k = 0 THEN task_map ELSE
          [task_map EXCEPT ![c] =
             [miner_num |-> k, curr_value |-> 0, curr_nonce |-> 0,
              miner_info |-> [m \in Miner |->
                IF given(m) = {} THEN None ELSE share(m)]]]
     /\ request_queue' =
          IF free_miner' = <<>> /\ (k = 0 \/ rest.lower < r.upper)
          THEN Append(request_queue, rest) ELSE request_queue
     /\ UNCHANGED <<panicked, answer, history>>

WithoutMiner(t, m) == [t EXCEPT !.miner_num = @ - 1, !.miner_info[m] = None]

(* Miner m is no longer one of c's miners.                                 *)
Released(tasks, c, m) == [tasks EXCEPT ![c] = WithoutMiner(tasks[c], m)]

(* Mutant: the test for "no result yet" is missing.                        *)
MergedSmaller(t, msg) ==
  IF msg.hash < t.curr_value
  THEN [t EXCEPT !.curr_value = msg.hash, !.curr_nonce = msg.nonce] ELSE t

(* curr_value 0 means that there is no result yet.                         *)
Merged(t, msg) ==
  IF t.curr_value = 0 \/ msg.hash < t.curr_value
  THEN [t EXCEPT !.curr_value = msg.hash, !.curr_nonce = msg.nonce] ELSE t

(* case bitcoin.Result: the miner gets new work first, and then its result *)
(* is merged into the task, which may be answered.                         *)
OnResult(m, msg) ==
  LET c == work_miner[m]
      exist == c # None /\ task_map[c] # None
      tasks == TasksServed(m, Released(task_map, c, m))
      task == Merged(tasks[c], msg)
  IN /\ Serve(m)
     /\ IF ~exist
        THEN /\ task_map' = TasksServed(m, task_map)
             /\ UNCHANGED <<answer, history>>
        ELSE /\ task_map' = [tasks EXCEPT ![c] =
                  IF task.miner_num = 0 THEN None ELSE task]
             /\ answer' = IF task.miner_num = 0 /\ conn[c] = "open"
                             /\ answer[c] = None
                THEN [answer EXCEPT ![c] =
                        NewResult(task.curr_value, task.curr_nonce)]
                ELSE answer
             /\ done' = [done EXCEPT ![c] = @ \cup
                  IF task_map[c].miner_info[m] = None THEN {}
                  ELSE Visited(task_map[c].miner_info[m].lower,
                               task_map[c].miner_info[m].upper)]
             /\ early' = early \cup {d \in {c} :
                  /\ task.miner_num = 0
                  /\ \E i \in DOMAIN request_queue' :
                       request_queue'[i].client_id = d}
     /\ UNCHANGED panicked

(* A lost client: one queued request and the task are dropped.             *)
OnLostClient(c) ==
  /\ \/ /\ \A i \in DOMAIN request_queue : request_queue[i].client_id # c
        /\ UNCHANGED request_queue
     \/ \E i \in DOMAIN request_queue :
          /\ request_queue[i].client_id = c
          /\ \A j \in 1 .. i - 1 : request_queue[j].client_id # c
          /\ request_queue' = RemoveAt(request_queue, i)
  /\ task_map' = [task_map EXCEPT ![c] = None]
  /\ UNCHANGED <<free_miner, work_miner, panicked, work, answer, history>>

(* Mutant: the work of a lost miner is queued although miners are free.    *)
ReassignLater(m, c, iv) ==
  /\ request_queue' =
       <<[client_id |-> c, lower |-> iv.lower, upper |-> iv.upper]>>
         \o request_queue
  /\ task_map' = Released(task_map, c, m)
  /\ work_miner' = [work_miner EXCEPT ![m] = None]
  /\ UNCHANGED <<free_miner, work>>

(* The interval of a lost miner goes to a free one, or to the head of the  *)
(* queue.                                                                  *)
Reassign(m, c, iv) ==
  IF free_miner = <<>>
  THEN ReassignLater(m, c, iv)
  ELSE LET n == Head(free_miner)
       IN /\ free_miner' = Tail(free_miner)
          /\ work' = WriteRequest(work, n, c, iv)
          /\ work_miner' = [work_miner EXCEPT ![m] = None, ![n] = c]
          /\ task_map' = Assigned(Released(task_map, c, m), c, n, iv)
          /\ UNCHANGED request_queue

(* A lost miner: a free one is forgotten; one that works needs its         *)
(* interval, and the server dies if there is none.                         *)
OnLostMiner(m) ==
  LET c == work_miner[m]
      known == task_map[c] # None /\ task_map[c].miner_info[m] # None
  IN /\ \/ /\ m \in Range(free_miner)
           /\ free_miner' = RemoveFirst(free_miner, m)
           /\ UNCHANGED <<work_miner, task_map, request_queue, panicked, work>>
        \/ /\ m \notin Range(free_miner) /\ c = None
           /\ UNCHANGED <<srvVars, work>>
        \/ /\ m \notin Range(free_miner) /\ c # None /\ known
           /\ Reassign(m, c, task_map[c].miner_info[m])
           /\ UNCHANGED panicked
        \/ /\ m \notin Range(free_miner) /\ c # None /\ ~known
           /\ panicked' = TRUE
           /\ UNCHANGED <<free_miner, work_miner, task_map, request_queue, work>>
     /\ UNCHANGED <<answer, history>>

(* One iteration of the server's loop.                                     *)
Handle(x) ==
  /\ ~panicked
  /\ inbox[x] # <<>>
  /\ inbox' = [inbox EXCEPT ![x] = Tail(@)]
  /\ UNCHANGED conn
  /\ LET msg == Head(inbox[x])
     IN \/ msg.type = "Join" /\ OnJoin(x)
        \/ msg.type = "Request" /\ OnRequest(x, msg)
        \/ msg.type = "Result" /\ OnResult(x, msg)
        \/ msg.type = "Lost" /\ x \in Client /\ OnLostClient(x)
        \/ msg.type = "Lost" /\ x \in Miner /\ OnLostMiner(x)

Next ==
  \/ \E x \in Conn : Start(x) \/ Lose(x) \/ Handle(x)
  \/ \E m \in Miner : Mine(m)

(* The server keeps reading and every arrived message is read at last; a   *)
(* miner that is connected works.  Nobody has to connect.                  *)
Fairness ==
  /\ \A x \in Conn : WF_vars(Handle(x))
  /\ \A m \in Miner : WF_vars(Mine(m))

Spec == Init /\ [][Next]_vars /\ Fairness

-----------------------------------------------------------------------------
TypeOK ==
  /\ free_miner \in Seq(Miner)
  /\ work_miner \in [Miner -> Client \cup {None}]
  /\ task_map \in [Client -> Task \cup {None}]
  /\ request_queue \in Seq(Request)
  /\ panicked \in BOOLEAN
  /\ conn \in [Conn -> {"new", "open", "lost"}]
  /\ \A m \in Miner : work[m] \in Seq(Request)

(* The client is connected as far as the server knows.                     *)
Present(c) == conn[c] # "lost" \/ Lost \in Range(inbox[c])

(* The free list, the miners at work and the intervals of the tasks are    *)
(* one picture (lines 144 to 179, 289 to 332): a miner is free once and    *)
(* not at work; no miner is free while a request waits; and for a client   *)
(* that is connected, the miners that work for it are those with an        *)
(* interval in its task, and miner_num is their number.                    *)
SchedulerConsistent ==
  /\ \A i, j \in DOMAIN free_miner : free_miner[i] = free_miner[j] => i = j
  /\ \A m \in Range(free_miner) : work_miner[m] = None
  /\ free_miner # <<>> => request_queue = <<>>
  /\ \A c \in Client : Present(c) =>
       LET with == {m \in Miner : work_miner[m] = c}
       IN /\ task_map[c] = None => with = {}
          /\ task_map[c] # None =>
               /\ with = {m \in Miner : task_map[c].miner_info[m] # None}
               /\ task_map[c].miner_num = Cardinality(with)

(* The nonces of c that some miner or the queue still has.                 *)
Pending(c) ==
  UNION {r.lower .. r.upper : r \in {q \in Range(request_queue) :
                                       q.client_id = c}}
  \cup (IF task_map[c] = None THEN {} ELSE
        UNION {iv.lower .. iv.upper : iv \in
                 {task_map[c].miner_info[m] : m \in Miner} \ {None}})

HasRequested(c) == conn[c] # "new" /\ inbox[c] = <<>>

(* No part of a connected client's range is forgotten when requests are    *)
(* cut, moved to the end of the queue, handed out, and taken back from     *)
(* lost miners (lines 158 to 176, 226, 269): each nonce is covered by a    *)
(* result, or a miner has it, or the queue has it.  Ranges that reach the  *)
(* largest integer are excepted, as miner.go:63 visits nothing of them.    *)
WorkConserved ==
  \A c \in Client :
    (conn[c] = "open" /\ HasRequested(c) /\ Upper[c] + 1 < Modulus)
      => 0 .. Upper[c] \subseteq done[c] \cup Pending(c)

(* What a client prints is the least hash of its whole range, with a nonce *)
(* of the range that has it (lines 335 to 342); of several such nonces it  *)
(* may be any.  A client that was answered while a piece of its request    *)
(* was queued behind another client's gets the least hash of a part (line  *)
(* 339): this never happens to a client that is alone.  Hash value 0 is    *)
(* excepted, as line 335 takes it for no result, and so are ranges that    *)
(* reach the largest integer.                                              *)
AnswerIsMinimum ==
  \A c \in Client :
    (/\ answer[c] # None /\ Upper[c] + 1 < Modulus
     /\ \A n \in Nonce : Hash[c][n] > 0)
      => /\ answer[c].nonce \in 0 .. Upper[c]
         /\ answer[c].hash = Hash[c][answer[c].nonce]
         /\ (c \notin early \/ \A d \in Client \ {c} : conn[d] = "new")
              => \A n \in 0 .. Upper[c] : answer[c].hash <= Hash[c][n]

(* The loss of a miner alone never kills the server (lines 155 to 178): it *)
(* takes a miner that was lost while it worked for a client that was lost. *)
MinerLossSurvived ==
  panicked =>
    \E m \in Miner, c \in Client :
      conn[m] = "lost" /\ work_miner[m] = c /\ conn[c] = "lost"

(* A request that was read is answered (line 341), although miners are     *)
(* lost and others join, unless the client goes, no miner is connected, or *)
(* the server died.                                                        *)
RequestsAnswered ==
  \A c \in Client :
    (conn[c] = "open" /\ HasRequested(c))
      ~> \/ answer[c] # None \/ conn[c] = "lost" \/ panicked
         \/ \A m \in Miner : conn[m] # "open"
=============================================================================
