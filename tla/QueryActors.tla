---------------------------- MODULE QueryActors ----------------------------
(***************************************************************************)
(* kvserver/query_actor.go and NewServer of kvserver/server.go: servers    *)
(* that each run several query actors.  Every actor has a copy of the      *)
(* store; it applies puts at once and sends what it has newly stored to    *)
(* the other actors of its server and to one actor, the representative, of *)
(* each remote server.  The last writer wins.                              *)
(*                                                                         *)
(* A handler of an actor is one step, as the actor system runs one at a    *)
(* time.  A local tell puts the message at the end of a mailbox; a remote  *)
(* one goes through the queue between two actor systems first.             *)
(*                                                                         *)
(* Values are abstracted: a put is known by the Uid of its sender, which   *)
(* no other put has.  Get and List change nothing and are left out.        *)
(***************************************************************************)
EXTENDS Integers, Sequences

CONSTANTS
  NumServers,        \* servers are started one after the other, 1, 2, ...
  QueryActorCount,   \* the number of actors of each server
  Keys,              \* keys of the store
  MaxPuts,           \* bound on the number of puts
  NoContent          \* what a map holds for a key it has no entry for

ASSUME ServersAssumption == NumServers \in Nat
ASSUME PutsAssumption == MaxPuts \in Nat

Servers == 1 .. NumServers

ASSUME CountAssumption == QueryActorCount \in [Servers -> Nat \ {0}]

(* An actor is its system's address and its counter there.                 *)
ActorsOf(s) == {s} \X (1 .. QueryActorCount[s])

Actors == UNION {ActorsOf(s) : s \in Servers}

(* actorRep, the actor that other servers are told of.                     *)
Rep(s) == <<s, 1>>

(* Uids are strings that contain the address and a counter; their order    *)
(* has nothing to do with the order of the puts.                           *)
Uids == 1 .. MaxPuts

Content == [ts : Nat, uid : Uids]

ASSUME NoContentAssumption == NoContent \notin Content

(* A map[string]*Content.                                                  *)
Map == [Keys -> Content \cup {NoContent}]

EmptyMap == [k \in Keys |-> NoContent]

MIntro(remotes) == [type |-> "MIntro", remotes |-> remotes]

MRIntro(s) == [type |-> "MRIntro", sender |-> Rep(s)]

MSync == [type |-> "MSync"]

MUpdate(puts) == [type |-> "MUpdate", puts |-> puts]

Message ==
  [type : {"MIntro"}, remotes : SUBSET Actors]
    \cup [type : {"MRIntro"}, sender : Actors]
    \cup [type : {"MSync"}]
    \cup [type : {"MUpdate"}, puts : Map]

VARIABLES
  storage,           \* actor.storage
  putList,           \* actor.putList
  actorList,         \* actor.actorList, as a set
  remoteActorList,   \* actor.remoteActorList, as a set
  mailbox,           \* the messages an actor has not handled
  link,              \* the messages between two systems, in transit
  timer,             \* the actors with a TellAfter of MSync under way
  started,           \* how many servers have been started
  now,               \* the clock
  puts,              \* history: every put that was made
  joined             \* history: the time of the last MRIntro handled

actorVars == <<storage, putList, actorList, remoteActorList>>
netVars == <<mailbox, link, timer>>
vars == <<actorVars, netVars, started, now, puts, joined>>

Init ==
  /\ storage = [a \in Actors |-> EmptyMap]
  /\ putList = [a \in Actors |-> EmptyMap]
  /\ actorList = [a \in Actors |-> {}]
  /\ remoteActorList = [a \in Actors |-> {}]
  /\ mailbox = [a \in Actors |-> <<>>]
  /\ link = [s \in Servers |-> [t \in Servers |-> <<>>]]
  /\ timer = {}
  /\ started = 0
  /\ now = 0
  /\ puts = {}
  /\ joined = 0

-----------------------------------------------------------------------------
(* Tells.  Remote references are representatives only.                     *)

TellLocal(box, targets, m) ==
  [a \in Actors |-> IF a \in targets THEN Append(box[a], m) ELSE box[a]]

TellRemote(s, targets, m) ==
  [link EXCEPT ![s] = [t \in Servers |->
      IF Rep(t) \in targets THEN Append(@[t], m) ELSE @[t]]]

(* The mailboxes after actor a has taken its next message.                 *)
Popped(a) == [mailbox EXCEPT ![a] = Tail(@)]

Handles(a, type) == mailbox[a] # <<>> /\ Head(mailbox[a]).type = type

(* Messages take time: what is put after an update was sent has a later    *)
(* timestamp than what the update carries.  Puts between two sends may     *)
(* have the same one.  Instants at which nothing was put are not counted.  *)
TimePasses ==
  now' = IF \E p \in puts : p.content.ts = now THEN now + 1 ELSE now

-----------------------------------------------------------------------------
(* NewServer.  Its actors know the representatives of the servers started  *)
(* before it, which are told of its own.                                   *)
NewServer ==
  LET s == started + 1
      remotes == {Rep(t) : t \in 1 .. started}
  IN /\ started < NumServers
     /\ started' = s
     /\ mailbox' = TellLocal(mailbox, ActorsOf(s), MIntro(remotes))
     /\ link' = TellRemote(s, remotes, MRIntro(s))
     /\ UNCHANGED <<actorVars, timer, now, puts, joined>>

(* The system s sends its next message to system t, which puts it in the   *)
(* mailbox of its representative.                                          *)
Deliver(s, t) ==
  /\ link[s][t] # <<>>
  /\ mailbox' = TellLocal(mailbox, {Rep(t)}, Head(link[s][t]))
  /\ link' = [link EXCEPT ![s][t] = Tail(@)]
  /\ UNCHANGED <<actorVars, timer, started, now, puts, joined>>

(* The 250 milliseconds after an MSync are over.                           *)
TellAfterDone(a) ==
  /\ a \in timer
  /\ timer' = timer \ {a}
  /\ mailbox' = TellLocal(mailbox, {a}, MSync)
  /\ UNCHANGED <<actorVars, link, started, now, puts, joined>>

-----------------------------------------------------------------------------
(* The handlers of OnMessage.                                              *)

(* A client's put replaces what is stored, whatever its timestamp.         *)
OnPut(a, k, u) ==
  LET c == [ts |-> now, uid |-> u]
  IN /\ a[1] <= started
     /\ \A p \in puts : p.content.uid # u
     /\ storage' = [storage EXCEPT ![a][k] = c]
     /\ putList' = [putList EXCEPT ![a][k] = c]
     /\ puts' = puts \cup {[key |-> k, content |-> c]}
     /\ UNCHANGED <<actorList, remoteActorList, netVars, started, now, joined>>

OnIntro(a) ==
  LET local == ActorsOf(a[1])
  IN /\ Handles(a, "MIntro")
     /\ actorList' = [actorList EXCEPT ![a] = local]
     /\ remoteActorList' =
          [remoteActorList EXCEPT ![a] = Head(mailbox[a]).remotes]
     /\ mailbox' = TellLocal(TellLocal(Popped(a), {a}, MSync),
                             local, MUpdate(storage[a]))
     /\ TimePasses
     /\ UNCHANGED <<storage, putList, link, timer, started, puts, joined>>

(* Mutant: an MSync that does not ask for the next one.                    *)
RearmNot(a) == timer

Rearm(a) == timer \cup {a}

OnSync(a) ==
  /\ Handles(a, "MSync")
  /\ \/ /\ putList[a] = EmptyMap
        /\ mailbox' = Popped(a)
        /\ UNCHANGED <<link, now>>
     \/ /\ putList[a] # EmptyMap
        /\ mailbox' = TellLocal(Popped(a), actorList[a] \ {a},
                                MUpdate(putList[a]))
        /\ link' = TellRemote(a[1], remoteActorList[a], MUpdate(putList[a]))
        /\ TimePasses
  /\ putList' = [putList EXCEPT ![a] = EmptyMap]
  /\ timer' = Rearm(a)
  /\ UNCHANGED <<storage, actorList, remoteActorList, started, puts, joined>>

(* Mutants: equal timestamps are not told apart; the older content wins.   *)
WinsWithoutTie(c, d) == d = NoContent \/ (d # NoContent /\ d.ts < c.ts)
WinsWhenOlder(c, d) == d = NoContent \/ (d # NoContent /\ c.ts < d.ts)

(* Whether content c of an update replaces what is stored.                 *)
Wins(c, d) ==
  \/ d = NoContent
  \/ /\ d # NoContent
     /\ \/ d.ts < c.ts
        \/ d.ts = c.ts /\ d.uid < c.uid

(* The keys for which actor a takes over the content of an update.         *)
Adopted(a, new) ==
  {k \in Keys : new[k] # NoContent /\ Wins(new[k], storage[a][k])}

Overwrite(map, new, ks) == [k \in Keys |-> IF k \in ks THEN new[k] ELSE map[k]]

OnUpdate(a) ==
  LET new == Head(mailbox[a]).puts
      ks == Adopted(a, new)
  IN /\ Handles(a, "MUpdate")
     /\ storage' = [storage EXCEPT ![a] = Overwrite(@, new, ks)]
     /\ putList' = [putList EXCEPT ![a] = Overwrite(@, new, ks)]
     /\ mailbox' = Popped(a)
     /\ UNCHANGED <<actorList, remoteActorList, link, timer, started, now,
                    puts, joined>>

OnRIntro(a) ==
  /\ Handles(a, "MRIntro")
  /\ remoteActorList' =
       [remoteActorList EXCEPT ![a] = @ \cup {Head(mailbox[a]).sender}]
  /\ mailbox' = Popped(a)
  /\ joined' = now
  /\ UNCHANGED <<storage, putList, actorList, link, timer, started, now, puts>>

OnMessage(a) == OnIntro(a) \/ OnSync(a) \/ OnUpdate(a) \/ OnRIntro(a)

Next ==
  \/ NewServer
  \/ \E s, t \in Servers : Deliver(s, t)
  \/ \E a \in Actors :
       \/ TellAfterDone(a)
       \/ OnMessage(a)
       \/ \E k \in Keys, u \in Uids : OnPut(a, k, u)

(* The goroutines of the actor system keep running: an actor handles what  *)
(* is in its mailbox, a timer ends, and a message between systems arrives. *)
(* Nobody has to start a server or to put anything.                        *)
Fairness ==
  /\ \A s, t \in Servers : WF_vars(Deliver(s, t))
  /\ \A a \in Actors : WF_vars(TellAfterDone(a)) /\ WF_vars(OnMessage(a))

Spec == Init /\ [][Next]_vars /\ Fairness

-----------------------------------------------------------------------------
TypeOK ==
  /\ storage \in [Actors -> Map]
  /\ putList \in [Actors -> Map]
  /\ actorList \in [Actors -> SUBSET Actors]
  /\ remoteActorList \in [Actors -> SUBSET Actors]
  /\ mailbox \in [Actors -> Seq(Message)]
  /\ link \in [Servers -> [Servers -> Seq(Message)]]
  /\ timer \subseteq Actors
  /\ started \in 0 .. NumServers
  /\ now \in Nat
  /\ puts \subseteq [key : Keys, content : Content]
  /\ joined \in Nat

(* Nothing but MSync is on its way and nobody has anything to send.        *)
Quiescent ==
  /\ \A a \in Actors : putList[a] = EmptyMap
  /\ \A a \in Actors : \A i \in 1 .. Len(mailbox[a]) :
       mailbox[a][i].type = "MSync"
  /\ \A s, t \in Servers : link[s][t] = <<>>

Running == {a \in Actors : a[1] <= started}

(* Once no update is under way, every actor has the same content for a key *)
(* last put after the servers knew of one another, and it is not older     *)
(* than any put (server.go, lines 19 and 20: eventually consistent, last   *)
(* writer wins).  Ties are broken in the same way everywhere (line 156).   *)
Converged ==
  Quiescent =>
    \A p \in puts : p.content.ts >= joined =>
      \A a, b \in Running :
        /\ storage[a][p.key] # NoContent
        /\ storage[a][p.key].ts >= p.content.ts
        /\ storage[a][p.key] = storage[b][p.key]

(* An actor never replaces a content by an older one, neither when a late  *)
(* update arrives (line 153) nor by a put, which does not look at what is  *)
(* stored (line 103).                                                      *)
TimestampsGrow ==
  [][\A a \in Actors, k \in Keys :
       storage[a][k] # NoContent =>
         /\ storage'[a][k] # NoContent
         /\ storage'[a][k].ts >= storage[a][k].ts]_vars

(* The actors stop sending one another what they have received: an update  *)
(* is passed on only when it was new (lines 146 to 160), and what was put  *)
(* does leave its actor, since the timer is always set again (line 144).   *)
Settles == <>[]Quiescent
=============================================================================
