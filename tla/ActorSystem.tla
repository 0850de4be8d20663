----------------------------- MODULE ActorSystem -----------------------------
(***************************************************************************)
(* The actor systems of p3-CMUD: actor/actor_system.go and                 *)
(* actor/remote_tell.go, with callers outside of the systems that use them *)
(* as kvserver/query_receiver.go does.                                     *)
(*                                                                         *)
(* A tell runs in the goroutine of whoever tells: a caller, an actor, or   *)
(* the goroutine that serves the connection from another system.  It takes *)
(* a step for each access to what the goroutines share: the map infos, a   *)
(* mailbox, the map remotes under its mutex, a response channel.  Close,   *)
(* StartActor and NewChannelRef hold newActorMux throughout and are a step *)
(* each.  A mailbox is the atomic queue that module Mailbox implements.    *)
(***************************************************************************)
EXTENDS Integers, Sequences, FiniteSets, SeqOps

CONSTANTS
  System, Caller,
  Home,            \* the system each caller belongs to
  MaxActors,       \* bound on the actors of a system
  MaxRefs,         \* bound on its references, actors and channels
  MaxTells,        \* bound on the messages of each caller
  None             \* nil

ASSUME HomeAssumption == Home \in [Caller -> System]

ASSUME BoundAssumption == MaxRefs \in Nat

ASSUME NoneAssumption == None \notin {"actor", "channel"}

(* A reference: the address of its system and a counter.  A closed system  *)
(* gives out a counter that is never in infos.                             *)
Ref == System \X (0 .. MaxRefs - 1)

Fake(s) == <<s, -1>>

Address(r) == r[1]

(* The goroutines that tell; an actor has the name of its reference, the   *)
(* server of the connection from s to t is <<"serve", s, t>>.              *)
Serving(s, t) == <<"serve", s, t>>

Link == {l \in System \X System : l[1] # l[2]}

Thread == Caller \cup Ref \cup {Serving(l[1], l[2]) : l \in Link}

(* Callers are goroutines of their own.                                    *)
ASSUME CallerAssumption ==
  Caller \cap (Ref \cup {Serving(l[1], l[2]) : l \in Link}) = {}

SystemOf(th) ==
  CASE th \in Caller -> Home[th]
    [] th \in Ref -> Address(th)
    [] OTHER -> th[3]

VARIABLES
  closed, nextCounter,
  infos,      \* what each reference is: None, "actor" or "channel"
  mailbox,    \* the mailbox of each actor
  respCh,     \* the response channel of each channel reference
  remotes,    \* the map from links to the mailbox of the remote system
  dialed,     \* remoteSendRoutine: "no", "dialing", "up", "lost", "done"
  wire,       \* calls on their way to the remote system
  telling,    \* the tell that each goroutine is in, None without one
  waiting,    \* the channel reference that each caller waits on
  told,       \* the number of messages each caller has sent
  handled     \* history: the messages each actor has handled

sysVars == <<closed, nextCounter>>

netVars == <<remotes, dialed, wire>>

callVars == <<waiting, told>>

vars == <<sysVars, infos, mailbox, respCh, netVars, telling, callVars,
          handled>>

Box(queue, open) == [queue |-> queue, open |-> open]

NewMailbox == Box(<<>>, TRUE)

Pushed(box, m) == IF box.open THEN Box(Append(box.queue, m), TRUE) ELSE box

ClosedBox(box) == Box(box.queue, FALSE)

CanPop(box) == box.open /\ box.queue # <<>>

Popped(box) == Box(Tail(box.queue), box.open)

(* A message to an actor, which answers to reply unless it is None; the    *)
(* answer carries the same sender and number.                              *)
Message(p, n, reply) == [from |-> p, n |-> n, reply |-> reply]

Telling(step, ref, m) == [step |-> step, ref |-> ref, m |-> m]

Init ==
  /\ closed = [s \in System |-> FALSE]
  /\ nextCounter = [s \in System |-> 0]
  /\ infos = [r \in Ref |-> None]
  /\ mailbox = [r \in Ref |-> NewMailbox]
  /\ respCh = [r \in Ref |-> <<>>]
  /\ remotes = [l \in {} |-> NewMailbox]
  /\ dialed = [l \in Link |-> "no"]
  /\ wire = [l \in Link |-> <<>>]
  /\ telling = [th \in Thread |-> None]
  /\ waiting = [p \in Caller |-> None]
  /\ told = [p \in Caller |-> 0]
  /\ handled = [r \in Ref |-> <<>>]

-----------------------------------------------------------------------------
(* References.                                                             *)

(* Mutant: whether the system is closed is not looked at.                  *)
MayStartAlways(s) == TRUE

MayStart(s) == ~closed[s]

NewRef(s, kind) ==
  /\ nextCounter[s] < MaxRefs
  /\ infos' = [infos EXCEPT ![<<s, nextCounter[s]>>] = kind]
  /\ nextCounter' = [nextCounter EXCEPT ![s] = @ + 1]

ActorsOf(s) == {r \in Ref : Address(r) = s /\ infos[r] = "actor"}

(* On a closed system nothing happens.                                     *)
StartActor(s) ==
  /\ MayStart(s)
  /\ Cardinality(ActorsOf(s)) < MaxActors
  /\ NewRef(s, "actor")
  /\ UNCHANGED <<closed, mailbox, respCh, netVars, telling, callVars, handled>>

Close(s) ==
  /\ ~closed[s]
  /\ closed' = [closed EXCEPT ![s] = TRUE]
  /\ mailbox' = [r \in Ref |-> IF r \in ActorsOf(s)
                               THEN ClosedBox(mailbox[r]) ELSE mailbox[r]]
  /\ remotes' = [l \in DOMAIN remotes |->
                   IF l[1] = s THEN ClosedBox(remotes[l]) ELSE remotes[l]]
  /\ UNCHANGED <<nextCounter, infos, respCh, dialed, wire, telling, callVars,
                 handled>>

-----------------------------------------------------------------------------
(* The callers: a query receiver tells an actor a message with a channel   *)
(* reference for the answer and waits for it; others just tell.            *)

Tell(p, r, reply) ==
  /\ telling[p] = None /\ told[p] < MaxTells[p]
  /\ told' = [told EXCEPT ![p] = @ + 1]
  /\ telling' = [telling EXCEPT
                   ![p] = Telling("tell", r, Message(p, told[p] + 1, reply))]

TellOnly(p) ==
  /\ waiting[p] = None
  /\ \E r \in UNION {ActorsOf(t) : t \in System} : Tell(p, r, None)
  /\ UNCHANGED <<sysVars, infos, mailbox, respCh, netVars, waiting, handled>>

(* A caller that waits already may ask another actor with the same         *)
(* reference.                                                              *)
Query(p) ==
  LET s == Home[p]
      old == waiting[p]
      ref == IF old # None THEN old
             ELSE IF closed[s] THEN Fake(s) ELSE <<s, nextCounter[s]>>
  IN /\ \E r \in UNION {ActorsOf(t) : t \in System} : Tell(p, r, ref)
     /\ waiting' = [waiting EXCEPT ![p] = ref]
     /\ IF old = None /\ ~closed[s] THEN NewRef(s, "channel")
        ELSE UNCHANGED <<infos, nextCounter>>
     /\ UNCHANGED <<closed, mailbox, respCh, netVars, handled>>

Receive(p) ==
  /\ waiting[p] \in Ref /\ telling[p] = None
  /\ respCh[waiting[p]] # <<>>
  /\ respCh' = [respCh EXCEPT ![waiting[p]] = Tail(@)]
  /\ waiting' = [waiting EXCEPT ![p] = None]
  /\ UNCHANGED <<sysVars, infos, mailbox, netVars, telling, told, handled>>

-----------------------------------------------------------------------------
(* tellMarshalled.                                                         *)

At(th, step) == telling[th] # None /\ telling[th].step = step

Goto(th, step) ==
  telling' = [telling EXCEPT ![th] = Telling(step, @.ref, @.m)]

Done(th) == telling' = [telling EXCEPT ![th] = None]

IsLocal(th) == Address(telling[th].ref) = SystemOf(th)

LinkOf(th) == <<SystemOf(th), Address(telling[th].ref)>>

(* infos.Load                                                              *)
Load(th) ==
  /\ At(th, "tell") /\ IsLocal(th)
  /\ LET r == telling[th].ref
         kind == IF r \in Ref THEN infos[r] ELSE None
     IN IF kind = None THEN Done(th)
        ELSE Goto(th, IF kind = "actor" THEN "push" ELSE "delete")
  /\ UNCHANGED <<sysVars, infos, mailbox, respCh, netVars, callVars, handled>>

Push(th) ==
  /\ At(th, "push")
  /\ mailbox' = [mailbox EXCEPT ![telling[th].ref] = Pushed(@, telling[th].m)]
  /\ Done(th)
  /\ UNCHANGED <<sysVars, infos, respCh, netVars, callVars, handled>>

(* Mutant: presence is not checked again.                                  *)
StillThereAlways(r) == TRUE

StillThere(r) == infos[r] # None

(* infos.LoadAndDelete                                                     *)
LoadAndDelete(th) ==
  /\ At(th, "delete")
  /\ LET r == telling[th].ref
     IN /\ infos' = [infos EXCEPT ![r] = None]
        /\ IF StillThere(r) THEN Goto(th, "respond") ELSE Done(th)
  /\ UNCHANGED <<sysVars, mailbox, respCh, netVars, callVars, handled>>

(* The channel has room for one message.                                   *)
Respond(th) ==
  /\ At(th, "respond") /\ respCh[telling[th].ref] = <<>>
  /\ respCh' = [respCh EXCEPT ![telling[th].ref] = Append(@, telling[th].m)]
  /\ Done(th)
  /\ UNCHANGED <<sysVars, infos, mailbox, netVars, callVars, handled>>

(* The remote's mailbox is looked up, or made, under remotesMux.           *)
LookUp(th) ==
  /\ At(th, "tell") /\ ~IsLocal(th)
  /\ LET l == LinkOf(th)
     IN IF l \in DOMAIN remotes
        THEN Goto(th, "pushRemote") /\ UNCHANGED <<remotes, dialed>>
        ELSE IF ~MayStart(SystemOf(th))
        THEN Done(th) /\ UNCHANGED <<remotes, dialed>>
        ELSE /\ Goto(th, "pushRemote")
             /\ remotes' = [k \in DOMAIN remotes \cup {l} |->
                              IF k = l THEN NewMailbox ELSE remotes[k]]
             /\ dialed' = [dialed EXCEPT ![l] = "dialing"]
  /\ UNCHANGED <<sysVars, infos, mailbox, respCh, wire, callVars, handled>>

PushRemote(th) ==
  /\ At(th, "pushRemote")
  /\ LET t == telling[th]
     IN remotes' = [remotes EXCEPT ![LinkOf(th)] =
                      Pushed(@, [ref |-> t.ref, m |-> t.m])]
  /\ Done(th)
  /\ UNCHANGED <<sysVars, infos, mailbox, respCh, dialed, wire, callVars,
                 handled>>

-----------------------------------------------------------------------------
(* remoteSendRoutine and the connection to the remote system.              *)

(* A failed dial closes the mailbox and leaves it in remotes.              *)
Dial(l) ==
  /\ dialed[l] = "dialing"
  /\ \/ /\ ~closed[l[2]]
        /\ dialed' = [dialed EXCEPT ![l] = "up"]
        /\ UNCHANGED remotes
     \/ /\ dialed' = [dialed EXCEPT ![l] = "done"]
        /\ remotes' = [remotes EXCEPT ![l] = ClosedBox(@)]
  /\ UNCHANGED <<sysVars, infos, mailbox, respCh, wire, telling, callVars,
                 handled>>

(* remoteTell: calls on a lost connection go nowhere.                      *)
Send(l) ==
  /\ dialed[l] \in {"up", "lost"} /\ CanPop(remotes[l])
  /\ wire' = IF dialed[l] = "lost" THEN wire
             ELSE [wire EXCEPT ![l] = Append(@, Head(remotes[l].queue))]
  /\ remotes' = [remotes EXCEPT ![l] = Popped(@)]
  /\ UNCHANGED <<sysVars, infos, mailbox, respCh, dialed, telling, callVars,
                 handled>>

(* The connection breaks, and what is on it is lost.                       *)
Break(l) ==
  /\ dialed[l] = "up"
  /\ dialed' = [dialed EXCEPT ![l] = "lost"]
  /\ wire' = [wire EXCEPT ![l] = <<>>]
  /\ UNCHANGED <<sysVars, infos, mailbox, respCh, remotes, telling, callVars,
                 handled>>

(* Mutant: calls of a connection are served side by side.                  *)
NextCallAny(calls) == Len(calls)

(* rpcServeConnSeq serves one call after the other.                        *)
NextCall(calls) == 1

Serve(l) ==
  /\ wire[l] # <<>> /\ telling[Serving(l[1], l[2])] = None
  /\ LET i == NextCall(wire[l])
         c == wire[l][i]
     IN /\ telling' = [telling EXCEPT
                         ![Serving(l[1], l[2])] = Telling("tell", c.ref, c.m)]
        /\ wire' = [wire EXCEPT ![l] = RemoveAt(@, i)]
  /\ UNCHANGED <<sysVars, infos, mailbox, respCh, remotes, dialed, callVars,
                 handled>>

(* Mutant: the actor does not answer.                                      *)
NoAnswer(m) == None

Answer(m) == IF m.reply = None THEN None
             ELSE Telling("tell", m.reply, Message(m.from, m.n, None))

(* runActor: one message, handled and answered.                            *)
RunActor(r) ==
  /\ infos[r] = "actor" /\ telling[r] = None /\ CanPop(mailbox[r])
  /\ LET m == Head(mailbox[r].queue)
     IN /\ handled' = [handled EXCEPT ![r] = Append(@, m)]
        /\ telling' = [telling EXCEPT ![r] = Answer(m)]
  /\ mailbox' = [mailbox EXCEPT ![r] = Popped(@)]
  /\ UNCHANGED <<sysVars, infos, respCh, netVars, callVars>>

-----------------------------------------------------------------------------
TellStep(th) ==
  \/ Load(th) \/ Push(th) \/ LoadAndDelete(th) \/ Respond(th)
  \/ LookUp(th) \/ PushRemote(th)

(* What the goroutines do by themselves.                                   *)
Progress ==
  \/ \E th \in Thread : TellStep(th)
  \/ \E l \in Link : Dial(l) \/ Send(l) \/ Serve(l)
  \/ \E r \in Ref : RunActor(r)
  \/ \E p \in Caller : Receive(p)

Next ==
  \/ \E s \in System : StartActor(s) \/ Close(s)
  \/ \E p \in Caller : TellOnly(p) \/ Query(p)
  \/ \E l \in Link : Break(l)
  \/ Progress

SafetySpec == Init /\ [][Next]_vars

(* Some goroutine that can go on does; nobody has to call anything.        *)
Fairness == WF_vars(Progress)

Spec == SafetySpec /\ Fairness

-----------------------------------------------------------------------------
(* An actor handles what one caller tells it in the order of the tells and *)
(* at most once (actor_context.go:49), also over a connection, and also    *)
(* while the connection is only being made (lines 403 to 487).             *)
InOrder ==
  \A r \in Ref : \A i, j \in DOMAIN handled[r] :
    (i < j /\ handled[r][i].from = handled[r][j].from)
      => handled[r][i].n < handled[r][j].n

(* Of all that is sent to a channel reference one message reaches the      *)
(* channel, and sending it never blocks (lines 427 to 444), however many   *)
(* actors answer at the same time.                                         *)
OneAnswer ==
  \A th \in Thread : At(th, "respond") =>
    /\ respCh[telling[th].ref] = <<>>
    /\ \A other \in Thread \ {th} :
         At(other, "respond") => telling[other].ref # telling[th].ref

(* A closed system has no open mailbox (lines 176 to 202), whatever was    *)
(* started or looked up at the same time.                                  *)
CloseClosesAll ==
  \A s \in System : closed[s] =>
    /\ \A r \in ActorsOf(s) : ~mailbox[r].open
    /\ \A l \in DOMAIN remotes : l[1] = s => ~remotes[l].open

Failed ==
  \/ \E s \in System : closed[s]
  \/ \E l \in Link : dialed[l] \in {"lost", "done"}

(* Queries are answered, all of them once the callers have stopped asking  *)
(* (query_receiver.go, lines 32 to 84), unless a system was closed or a    *)
(* connection failed.                                                      *)
QueriesAnswered ==
  (\E p \in Caller : waiting[p] # None) ~>
    (Failed \/ \A p \in Caller : waiting[p] = None)
=============================================================================
