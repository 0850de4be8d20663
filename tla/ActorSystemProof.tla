-------------------------- MODULE ActorSystemProof --------------------------
(***************************************************************************)
(* Proofs for ActorSystem, for any systems, callers and bounds: a channel  *)
(* reference gets one answer, Close leaves no mailbox open, and an actor   *)
(* handles what one caller tells it in order.                              *)
(***************************************************************************)
EXTENDS ActorSystem, SequenceTheorems, TLAPS

-----------------------------------------------------------------------------
(* What the two invariants need of the shape of the variables.             *)

Shape ==
  /\ nextCounter \in [System -> Nat]
  /\ closed \in [System -> BOOLEAN]
  /\ DOMAIN infos = Ref
  /\ DOMAIN respCh = Ref
  /\ DOMAIN mailbox = Ref
  /\ DOMAIN telling = Thread
  /\ DOMAIN waiting = Caller

(* The reference r has been given out.                                     *)
Given(r) == r[2] < nextCounter[r[1]]

(* The message for channel reference r is on its way into the channel, or  *)
(* is there.                                                               *)
Used(r) ==
  \/ respCh[r] # <<>>
  \/ \E th \in Thread : At(th, "respond") /\ telling[th].ref = r

(* A reference that is used is out of infos, and no reference that is      *)
(* given out later is used already.                                        *)
ChannelInv ==
  /\ \A th \in Thread : At(th, "delete") \/ At(th, "respond")
                          => telling[th].ref \in Ref
  /\ \A r \in Ref : infos[r] # None => Given(r)
  /\ \A r \in Ref : Used(r) => infos[r] = None /\ Given(r)

LEMMA InitShape == Init => Shape /\ ChannelInv /\ OneAnswer /\ CloseClosesAll
  <1> SUFFICES ASSUME Init PROVE Shape /\ ChannelInv /\ OneAnswer
                                   /\ CloseClosesAll
    BY Zenon
  <1>1. Shape
    BY Zenon DEF Init, Shape
  <1>2. ChannelInv
    BY Zenon DEF Init, ChannelInv, Used, At
  <1>3. OneAnswer /\ CloseClosesAll
    BY Zenon DEF Init, OneAnswer, At, CloseClosesAll, ActorsOf
  <1> QED  BY <1>1, <1>2, <1>3

-----------------------------------------------------------------------------
(* The shape.                                                              *)

(* Every action preserves it.                                              *)
LEMMA ShapeStep == Shape /\ [Next]_vars => Shape'
  <1> SUFFICES ASSUME Shape, [Next]_vars PROVE Shape'
    BY Zenon
  <1> USE DEF Shape
  <1>1. ASSUME NEW s \in System, StartActor(s) PROVE Shape'
    BY <1>1 DEF StartActor, NewRef, netVars, callVars
  <1>2. ASSUME NEW s \in System, Close(s) PROVE Shape'
    BY Zenon, <1>2 DEF Close, callVars
  <1>3. ASSUME NEW p \in Caller, TellOnly(p) PROVE Shape'
    BY Zenon, <1>3 DEF TellOnly, Tell, sysVars, netVars
  <1>4. ASSUME NEW p \in Caller, Query(p) PROVE Shape'
    BY <1>4 DEF Query, Tell, NewRef, netVars
  <1>5. ASSUME NEW p \in Caller, Receive(p) PROVE Shape'
    BY Zenon, <1>5 DEF Receive, sysVars, netVars
  <1>6. ASSUME NEW th \in Thread, TellStep(th) PROVE Shape'
    BY Zenon, <1>6 DEF TellStep, Load, Push, LoadAndDelete, Respond, LookUp,
         PushRemote, Goto, Done, sysVars, netVars, callVars
  <1>7. ASSUME NEW l \in Link, Dial(l) \/ Send(l) \/ Serve(l) \/ Break(l)
        PROVE  Shape'
    BY Zenon, <1>7 DEF Dial, Send, Serve, Break, sysVars, netVars, callVars
  <1>8. ASSUME NEW r \in Ref, RunActor(r) PROVE Shape'
    BY Zenon, <1>8 DEF RunActor, sysVars, netVars, callVars
  <1>9. ASSUME UNCHANGED vars PROVE Shape'
    BY Zenon, <1>9 DEF vars, sysVars, netVars, callVars
  <1> QED
    BY <1>1, <1>2, <1>3, <1>4, <1>5, <1>6, <1>7, <1>8, <1>9
    DEF Next, Progress

-----------------------------------------------------------------------------
(* One answer.                                                             *)

(* Steps that touch neither references nor channels, and after which no    *)
(* goroutine is newly about to respond.                                    *)
LEMMA ChannelFrame ==
  ASSUME ChannelInv, OneAnswer, UNCHANGED <<nextCounter, infos, respCh>>,
         \A th \in Thread :
           \/ telling'[th] = telling[th]
           \/ /\ ~At(th, "respond")'
              /\ At(th, "delete")' => telling'[th].ref \in Ref
  PROVE  ChannelInv' /\ OneAnswer'
  <1>1. \A th \in Thread : At(th, "respond")' =>
          At(th, "respond") /\ telling'[th] = telling[th]
    BY Zenon DEF At
  <1>2. \A th \in Thread : At(th, "delete")' =>
          telling'[th].ref \in Ref
    BY Zenon DEF At, ChannelInv
  <1>3. \A r \in Ref : Used(r)' => Used(r)
    BY Zenon, <1>1 DEF Used
  <1>4. \A r : Given(r)' = Given(r)
    BY Zenon DEF Given
  <1>5. ChannelInv'
    BY Zenon, <1>1, <1>2, <1>3, <1>4 DEF ChannelInv
  <1>6. OneAnswer'
    BY <1>1 DEF OneAnswer
  <1> QED  BY Zenon, <1>5, <1>6

(* A new reference of system s was not given out before.                   *)
LEMMA NewRefGiven ==
  ASSUME Shape, NEW s \in System, NEW kind, NewRef(s, kind)
  PROVE  \E new \in Ref :
           /\ new = <<s, nextCounter[s]>>
           /\ ~Given(new) /\ Given(new)'
           /\ infos'[new] = kind
           /\ \A r \in Ref : Given(r) => Given(r)' /\ r # new
           /\ \A r \in Ref : r # new => infos'[r] = infos[r]
  <1>0. PICK new : new = <<s, nextCounter[s]>>
    BY Zenon
  <1>1. /\ new \in Ref /\ infos' = [infos EXCEPT ![new] = kind]
        /\ nextCounter' = [nextCounter EXCEPT ![s] = @ + 1]
        /\ nextCounter[s] \in Nat
    BY <1>0, BoundAssumption DEF NewRef, Ref, Shape
  <1>2. \A r \in Ref : Given(r) => Given(r)' /\ r # new
    <2> SUFFICES ASSUME NEW t \in System, NEW c \in 0 .. MaxRefs - 1,
                        c < nextCounter[t]
                 PROVE  c < nextCounter'[t] /\ <<t, c>> # new
      BY DEF Given, Ref
    <2>1. c < nextCounter'[t]
      BY <1>1, BoundAssumption DEF Shape
    <2>2. <<t, c>> # new
      BY <1>0, BoundAssumption DEF Shape
    <2> QED  BY Zenon, <2>1, <2>2
  <1>3. Given(new)' /\ ~Given(new)
    <2>1. nextCounter[s] < nextCounter'[s]
      BY <1>1 DEF Shape
    <2>2. ~(nextCounter[s] < nextCounter[s])
      BY <1>1
    <2> QED  BY Zenon, <1>0, <2>1, <2>2 DEF Given
  <1>4. infos'[new] = kind /\ \A r \in Ref : r # new => infos'[r] = infos[r]
    BY Zenon, <1>1 DEF Shape
  <1> QED  BY Zenon, <1>0, <1>1, <1>2, <1>3, <1>4

LEMMA ChannelNewRef ==
  ASSUME Shape, ChannelInv, OneAnswer, NEW s \in System, NEW kind,
         NewRef(s, kind), UNCHANGED respCh,
         \A th \in Thread : \/ telling'[th] = telling[th]
                            \/ /\ ~At(th, "respond")'
                               /\ ~At(th, "delete")'
  PROVE  ChannelInv' /\ OneAnswer'
  <1>1. PICK new \in Ref :
          /\ Given(new)'
          /\ \A r \in Ref : Given(r) => Given(r)' /\ r # new
          /\ \A r \in Ref : r # new => infos'[r] = infos[r]
    BY Zenon, NewRefGiven
  <1>2. \A th \in Thread : At(th, "respond")' =>
          At(th, "respond") /\ telling'[th] = telling[th]
    BY Zenon DEF At
  <1>3. \A th \in Thread : At(th, "delete")' => telling'[th].ref \in Ref
    BY Zenon DEF At, ChannelInv
  <1>4. \A r \in Ref : Used(r)' => Used(r)
    BY Zenon, <1>2 DEF Used
  <1>5. ChannelInv'
    BY Zenon, <1>1, <1>2, <1>3, <1>4 DEF ChannelInv
  <1>6. OneAnswer'
    BY <1>2 DEF OneAnswer
  <1> QED  BY Zenon, <1>5, <1>6

(* Every action preserves it.                                              *)
LEMMA ChannelStep ==
  ASSUME Shape, ChannelInv, OneAnswer, [Next]_vars
  PROVE  ChannelInv' /\ OneAnswer'
  <1>1. ASSUME NEW s \in System, StartActor(s) PROVE ChannelInv' /\ OneAnswer'
    BY <1>1, ChannelNewRef DEF StartActor
  <1>2. ASSUME NEW s \in System, Close(s) PROVE ChannelInv' /\ OneAnswer'
    BY Zenon, <1>2, ChannelFrame DEF Close
  <1>3. ASSUME NEW p \in Caller, NEW r, NEW reply, Tell(p, r, reply)
        PROVE  \A th \in Thread : \/ telling'[th] = telling[th]
                                  \/ /\ ~At(th, "respond")'
                                     /\ ~At(th, "delete")'
    BY Zenon, <1>3 DEF Tell, Telling, At, Shape
  <1>4. ASSUME NEW p \in Caller, TellOnly(p) PROVE ChannelInv' /\ OneAnswer'
    BY <1>3, <1>4, ChannelFrame DEF TellOnly, sysVars
  <1>5. ASSUME NEW p \in Caller, Query(p) PROVE ChannelInv' /\ OneAnswer'
    <2>1. Home[p] \in System
      BY Zenon, HomeAssumption
    <2>2. \A th \in Thread : \/ telling'[th] = telling[th]
                            \/ /\ ~At(th, "respond")'
                               /\ ~At(th, "delete")'
      BY <1>3, <1>5 DEF Query
    <2>3. CASE NewRef(Home[p], "channel")
      BY <1>5, <2>1, <2>2, <2>3, ChannelNewRef DEF Query
    <2>4. CASE UNCHANGED <<infos, nextCounter>>
      BY Zenon, <1>5, <2>2, <2>4, ChannelFrame DEF Query
    <2> QED  BY Zenon, <1>5, <2>3, <2>4 DEF Query
  <1>6. ASSUME NEW p \in Caller, Receive(p) PROVE ChannelInv' /\ OneAnswer'
    <2>1. /\ respCh[waiting[p]] # <<>> /\ waiting[p] \in Ref
          /\ \A r \in Ref : r # waiting[p] => respCh'[r] = respCh[r]
          /\ UNCHANGED <<nextCounter, infos, telling>>
      BY Zenon, <1>6 DEF Receive, sysVars, Shape
    <2>2. \A th \in Thread : At(th, "respond") => telling[th].ref \in Ref
            /\ telling[th].ref # waiting[p]
      BY Zenon, <2>1 DEF OneAnswer, ChannelInv
    <2>3. \A r \in Ref : Used(r)' => Used(r)
      BY <2>1 DEF Used, At
    <2>4. ChannelInv'
      BY Zenon, <2>1, <2>3 DEF ChannelInv, At, Given
    <2>5. OneAnswer'
      BY Zenon, <2>1, <2>2 DEF OneAnswer, At
    <2> QED  BY Zenon, <2>4, <2>5
  <1>7. ASSUME NEW th \in Thread, LoadAndDelete(th)
        PROVE  ChannelInv' /\ OneAnswer'
    <2>0. PICK r \in Ref : r = telling[th].ref
      BY Zenon, <1>7 DEF LoadAndDelete, ChannelInv
    <2>1. /\ infos' = [infos EXCEPT ![r] = None]
          /\ UNCHANGED <<nextCounter, respCh>>
          /\ \A other \in Thread \ {th} : telling'[other] = telling[other]
      BY Zenon, <1>7, <2>0 DEF LoadAndDelete, sysVars, Shape, Goto, Done
    <2>2. infos'[r] = None /\ \A q \in Ref : q # r => infos'[q] = infos[q]
      BY <2>1 DEF Shape
    <2>3. ASSUME At(th, "respond")'
          PROVE  infos[r] # None /\ telling'[th].ref = r
      BY <1>7, <2>0, <2>3
      DEF LoadAndDelete, StillThere, Goto, Done, Telling, Shape, At
    <2>4. ~At(th, "delete")'
      BY <1>7 DEF LoadAndDelete, Goto, Done, Telling, Shape, At
    <2>5. infos[r] # None => ~Used(r) /\ Given(r)
      BY Zenon DEF ChannelInv
    <2>6. \A q : Given(q)' = Given(q)
      BY Zenon, <2>1 DEF Given
    <2>7. \A q \in Ref : Used(q)' =>
            \/ Used(q)
            \/ q = r /\ At(th, "respond")'
      BY Zenon, <2>1, <2>3 DEF Used, At
    <2>8. ChannelInv'
      <3>1. \A t \in Thread : (At(t, "delete") \/ At(t, "respond"))'
                                => telling'[t].ref \in Ref
        BY Zenon, <2>1, <2>3, <2>4 DEF ChannelInv, At
      <3>2. \A q \in Ref : infos'[q] # None => Given(q)'
        BY Zenon, <2>2, <2>6 DEF ChannelInv
      <3>3. \A q \in Ref : Used(q)' => infos'[q] = None /\ Given(q)'
        BY Zenon, <2>2, <2>3, <2>5, <2>6, <2>7 DEF ChannelInv
      <3> QED  BY Zenon, <3>1, <3>2, <3>3 DEF ChannelInv
    <2>9. OneAnswer'
      <3>1. CASE At(th, "respond")'
        <4>1. /\ respCh'[r] = <<>>
              /\ \A other \in Thread : At(other, "respond")
                                         => telling[other].ref # r
          BY Zenon, <2>1, <2>3, <2>5, <3>1 DEF Used
        <4> QED  BY <2>1, <2>3, <3>1, <4>1 DEF OneAnswer, At
      <3>2. CASE ~At(th, "respond")'
        BY <2>1, <3>2 DEF OneAnswer, At
      <3> QED  BY Zenon, <3>1, <3>2
    <2> QED  BY <2>8, <2>9
  <1>8. ASSUME NEW th \in Thread, Respond(th) PROVE ChannelInv' /\ OneAnswer'
    <2>0. PICK r \in Ref : r = telling[th].ref
      BY Zenon, <1>8 DEF Respond, ChannelInv
    <2>1. /\ At(th, "respond") /\ ~At(th, "respond")' /\ ~At(th, "delete")'
          /\ UNCHANGED <<nextCounter, infos>>
          /\ \A other \in Thread \ {th} : telling'[other] = telling[other]
          /\ \A q \in Ref : q # r => respCh'[q] = respCh[q]
      BY Zenon, <1>8, <2>0 DEF Respond, sysVars, Shape, Done, At
    <2>2. \A q \in Ref : Used(q)' => Used(q)
      BY Zenon, <2>0, <2>1 DEF Used, At
    <2>3. ChannelInv'
      BY Zenon, <2>1, <2>2 DEF ChannelInv, At, Given
    <2>4. OneAnswer'
      <3>1. \A other \in Thread : At(other, "respond")' =>
              /\ other # th /\ At(other, "respond")
              /\ telling'[other] = telling[other]
              /\ telling[other].ref \in Ref /\ telling[other].ref # r
        BY <2>0, <2>1 DEF OneAnswer, ChannelInv, At
      <3> QED  BY <2>1, <3>1 DEF OneAnswer
    <2> QED  BY <2>3, <2>4
  <1>9. ASSUME NEW th \in Thread,
               Load(th) \/ Push(th) \/ LookUp(th) \/ PushRemote(th)
        PROVE  ChannelInv' /\ OneAnswer'
    <2>1. UNCHANGED <<nextCounter, infos, respCh>>
      BY Zenon, <1>9 DEF Load, Push, LookUp, PushRemote, sysVars
    <2>2. \A other \in Thread \ {th} : telling'[other] = telling[other]
      BY Zenon, <1>9 DEF Load, Push, LookUp, PushRemote, Goto, Done, Shape
    <2>3. CASE Load(th)
      <3>1. ~At(th, "respond")'
        BY <2>3 DEF Load, Goto, Done, Telling, Shape, At
      <3>2. At(th, "delete")' => telling'[th].ref \in Ref
        BY <2>3 DEF Load, Goto, Done, Telling, Shape, At
      <3> QED  BY Zenon, <2>1, <2>2, <3>1, <3>2, ChannelFrame
    <2>4. CASE Push(th) \/ LookUp(th) \/ PushRemote(th)
      <3>1. ASSUME LookUp(th) PROVE ~At(th, "respond")' /\ ~At(th, "delete")'
        <4>1. Goto(th, "pushRemote") \/ Done(th)
          BY Zenon, <3>1 DEF LookUp
        <4> QED  BY <4>1 DEF Goto, Done, Telling, Shape, At
      <3>2. ASSUME Push(th) \/ PushRemote(th)
            PROVE  ~At(th, "respond")' /\ ~At(th, "delete")'
        BY Zenon, <3>2 DEF Push, PushRemote, Done, Shape, At
      <3> QED  BY Zenon, <2>1, <2>2, <2>4, <3>1, <3>2, ChannelFrame
    <2> QED  BY Zenon, <1>9, <2>3, <2>4
  <1>10. ASSUME NEW l \in Link, Dial(l) \/ Send(l) \/ Break(l)
         PROVE  ChannelInv' /\ OneAnswer'
    BY Zenon, <1>10, ChannelFrame DEF Dial, Send, Break, sysVars
  <1>11. ASSUME NEW l \in Link, Serve(l) PROVE ChannelInv' /\ OneAnswer'
    <2>1. \A th \in Thread : \/ telling'[th] = telling[th]
                            \/ /\ ~At(th, "respond")'
                               /\ ~At(th, "delete")'
      BY Zenon, <1>11 DEF Serve, Telling, Shape, At
    <2> QED  BY Zenon, <1>11, <2>1, ChannelFrame DEF Serve, sysVars
  <1>12. ASSUME NEW r \in Ref, RunActor(r) PROVE ChannelInv' /\ OneAnswer'
    <2>1. \A th \in Thread : \/ telling'[th] = telling[th]
                            \/ /\ ~At(th, "respond")'
                               /\ ~At(th, "delete")'
      BY Zenon, <1>12 DEF RunActor, Answer, Telling, Shape, At
    <2> QED  BY Zenon, <1>12, <2>1, ChannelFrame DEF RunActor, sysVars
  <1>13. ASSUME UNCHANGED vars PROVE ChannelInv' /\ OneAnswer'
    BY Zenon, <1>13, ChannelFrame DEF vars, sysVars
  <1> QED
    BY <1>1, <1>2, <1>4, <1>5, <1>6, <1>7, <1>8, <1>9, <1>10, <1>11, <1>12,
       <1>13 DEF Next, Progress, TellStep

-----------------------------------------------------------------------------
(* Close.                                                                  *)

(* Steps that close nothing, start no actor, make no mailbox and open none *)
(* that was there.                                                         *)
LEMMA CloseFrame ==
  ASSUME CloseClosesAll, UNCHANGED closed,
         \A r \in Ref : infos'[r] = "actor" => infos[r] = "actor",
         \A r \in Ref : mailbox'[r].open => mailbox[r].open,
         DOMAIN remotes' = DOMAIN remotes,
         \A l \in DOMAIN remotes : remotes'[l].open => remotes[l].open
  PROVE  CloseClosesAll'
  BY Zenon DEF CloseClosesAll, ActorsOf

(* Every action preserves CloseClosesAll.                                  *)
LEMMA CloseStep == Shape /\ CloseClosesAll /\ [Next]_vars => CloseClosesAll'
  <1> SUFFICES ASSUME Shape, CloseClosesAll, [Next]_vars
               PROVE  CloseClosesAll'
    BY Zenon
  <1>1. ASSUME NEW s \in System, StartActor(s) PROVE CloseClosesAll'
    <2>1. /\ ~closed[s] /\ UNCHANGED <<closed, mailbox, remotes>>
          /\ infos' = [infos EXCEPT ![<<s, nextCounter[s]>>] = "actor"]
      BY Zenon, <1>1 DEF StartActor, NewRef, MayStart, netVars
    <2>2. \A t \in System : closed'[t] => t # s
      BY Zenon, <2>1
    <2>3. \A r \in Ref : r[1] # s => infos'[r] = infos[r]
      BY <2>1 DEF Shape
    <2> QED  BY <2>1, <2>2, <2>3 DEF CloseClosesAll, ActorsOf, Address
  <1>2. ASSUME NEW s \in System, Close(s) PROVE CloseClosesAll'
    <2>1. \A b : ~ClosedBox(b).open
      BY Zenon DEF ClosedBox, Box
    <2>2. \A t \in System : closed'[t] => closed[t] \/ t = s
      BY Zenon, <1>2 DEF Close, Shape
    <2>3. ASSUME NEW t \in System, closed'[t], NEW r \in ActorsOf(t)
          PROVE  ~mailbox'[r].open
      BY Zenon, <1>2, <2>1, <2>2, <2>3 DEF Close, CloseClosesAll, ActorsOf
    <2>4. ASSUME NEW t \in System, closed'[t],
                 NEW l \in DOMAIN remotes, l[1] = t
          PROVE  ~remotes'[l].open
      BY Zenon, <1>2, <2>1, <2>2, <2>4 DEF Close, CloseClosesAll
    <2>5. \A t \in System : ActorsOf(t)' = ActorsOf(t)
      BY Zenon, <1>2 DEF Close, ActorsOf
    <2>6. DOMAIN remotes' = DOMAIN remotes
      BY Zenon, <1>2 DEF Close
    <2> QED  BY Zenon, <2>3, <2>4, <2>5, <2>6 DEF CloseClosesAll
  <1>3. ASSUME NEW p \in Caller, Query(p) PROVE CloseClosesAll'
    <2>1. \A r \in Ref : infos'[r] = "actor" => infos[r] = "actor"
      BY Zenon, <1>3 DEF Query, NewRef, Shape
    <2> QED  BY Zenon, <1>3, <2>1, CloseFrame DEF Query, netVars
  <1>4. ASSUME NEW p \in Caller, TellOnly(p) \/ Receive(p)
        PROVE  CloseClosesAll'
    BY Zenon, <1>4, CloseFrame DEF TellOnly, Receive, sysVars, netVars
  <1>5. \A b, m : Pushed(b, m).open => b.open
    BY Zenon DEF Pushed, Box
  <1>6. ASSUME NEW th \in Thread, Load(th) \/ Respond(th)
        PROVE  CloseClosesAll'
    BY Zenon, <1>6, CloseFrame DEF Load, Respond, sysVars, netVars
  <1>7. ASSUME NEW th \in Thread, Push(th) PROVE CloseClosesAll'
    <2>1. \A r \in Ref : mailbox'[r].open => mailbox[r].open
      BY <1>5, <1>7 DEF Push, Shape
    <2> QED  BY Zenon, <1>7, <2>1, CloseFrame DEF Push, sysVars, netVars
  <1>8. ASSUME NEW th \in Thread, LoadAndDelete(th) PROVE CloseClosesAll'
    <2>1. \A r \in Ref : infos'[r] = "actor" => infos[r] = "actor"
      BY Zenon, <1>8, NoneAssumption DEF LoadAndDelete, Shape
    <2> QED  BY Zenon, <1>8, <2>1, CloseFrame
             DEF LoadAndDelete, sysVars, netVars
  <1>9. ASSUME NEW th \in Thread, LookUp(th) PROVE CloseClosesAll'
    <2>1. UNCHANGED <<closed, infos, mailbox>>
      BY Zenon, <1>9 DEF LookUp, sysVars
    <2>2. CASE UNCHANGED remotes
      BY Zenon, <2>1, <2>2, CloseFrame
    <2>3. CASE remotes' # remotes
      <3>1. /\ ~closed[SystemOf(th)]
            /\ remotes' = [k \in DOMAIN remotes \cup {LinkOf(th)} |->
                            IF k = LinkOf(th) THEN NewMailbox ELSE remotes[k]]
        BY Zenon, <1>9, <2>3 DEF LookUp, MayStart
      <3>2. LinkOf(th)[1] = SystemOf(th)
        BY Zenon DEF LinkOf
      <3> QED  BY <2>1, <3>1, <3>2 DEF CloseClosesAll, ActorsOf
    <2> QED  BY <2>2, <2>3
  <1>10. ASSUME NEW th \in Thread, PushRemote(th) PROVE CloseClosesAll'
    <2>1. /\ DOMAIN remotes' = DOMAIN remotes
          /\ \A l \in DOMAIN remotes : remotes'[l].open => remotes[l].open
      BY Zenon, <1>5, <1>10 DEF PushRemote
    <2> QED  BY <1>10, <2>1, CloseFrame DEF PushRemote, sysVars
  <1>11. ASSUME NEW l \in Link, Dial(l) \/ Send(l) \/ Serve(l) \/ Break(l)
         PROVE  CloseClosesAll'
    <2>1. /\ DOMAIN remotes' = DOMAIN remotes
          /\ \A k \in DOMAIN remotes : remotes'[k].open => remotes[k].open
      BY <1>11 DEF Dial, Send, Serve, Break, ClosedBox, Popped, Box
    <2> QED  BY Zenon, <1>11, <2>1, CloseFrame
             DEF Dial, Send, Serve, Break, sysVars
  <1>12. ASSUME NEW r \in Ref, RunActor(r) PROVE CloseClosesAll'
    <2>1. \A q \in Ref : mailbox'[q].open => mailbox[q].open
      BY Zenon, <1>12 DEF RunActor, Popped, Box, Shape
    <2> QED  BY Zenon, <1>12, <2>1, CloseFrame DEF RunActor, sysVars, netVars
  <1>13. ASSUME UNCHANGED vars PROVE CloseClosesAll'
    BY Zenon, <1>13, CloseFrame DEF vars, sysVars, netVars
  <1> QED
    BY Zenon, <1>1, <1>2, <1>3, <1>4, <1>6, <1>7, <1>8, <1>9, <1>10, <1>11,
       <1>12,
       <1>13 DEF Next, Progress, TellStep

-----------------------------------------------------------------------------
(* The theorems.                                                           *)

(* However many actors answer a channel reference, from whatever systems,  *)
(* one message reaches its channel and sending it never blocks             *)
(* (tellMarshalled, actor_system.go, lines 427 to 444).                    *)
THEOREM AnsweredOnce == Spec => []OneAnswer
  <1>1. Init => Shape /\ ChannelInv /\ OneAnswer
    BY Zenon, InitShape
  <1>2. Shape /\ ChannelInv /\ OneAnswer /\ [Next]_vars
          => (Shape /\ ChannelInv /\ OneAnswer)'
    BY Zenon, ShapeStep, ChannelStep
  <1> QED  BY <1>1, <1>2, PTL DEF Spec, SafetySpec

(* Once Close has run, no mailbox of the system is open, neither of an     *)
(* actor nor of a remote system, and none opens later (Close, StartActor   *)
(* and the lookup of a remote, actor_system.go, lines 176 to 202).         *)
THEOREM ClosedForGood == Spec => []CloseClosesAll
  <1>1. Init => Shape /\ CloseClosesAll
    BY Zenon, InitShape
  <1>2. Shape /\ CloseClosesAll /\ [Next]_vars => (Shape /\ CloseClosesAll)'
    BY Zenon, ShapeStep, CloseStep
  <1> QED  BY <1>1, <1>2, PTL DEF Spec, SafetySpec

-----------------------------------------------------------------------------
(* Order.                                                                  *)

Fakes == {Fake(s) : s \in System}

AnyRef == Ref \cup Fakes

Msgs == [from : Caller, n : Nat, reply : AnyRef \cup {None}]

Calls == [ref : AnyRef, m : Msgs]

Tellings == [step : {"tell", "push", "delete", "respond", "pushRemote"},
             ref : AnyRef, m : Msgs]

(* What a reference is for does not change once it is given out.           *)
Actor(r) == r \in Ref /\ infos[r] = "actor"

NotActor(r) == r \in Ref => Given(r) /\ infos[r] # "actor"

(* Answers go to references that are no actor's.                           *)
GoodMsgs == {m \in Msgs : m.reply = None \/ NotActor(m.reply)}

(* The link from a caller to an actor.                                     *)
Way(p, r) == <<Home[p], Address(r)>>

(* What is sent over link l: answers, and what callers tell actors there.  *)
GoodCalls(l) ==
  {c \in Calls : /\ c.m \in GoodMsgs
                 /\ \/ NotActor(c.ref)
                    \/ Actor(c.ref) /\ l = Way(c.m.from, c.ref)}

(* What a goroutine tells.  An actor is told by the caller itself or by    *)
(* the server of the connection from the caller's system.                  *)
GoodTelling(th, t) ==
  /\ t \in Tellings /\ t.m \in GoodMsgs
  /\ t.step = "push" => Address(t.ref) = SystemOf(th)
  /\ t.step = "pushRemote" => Address(t.ref) # SystemOf(th)
  /\ \/ NotActor(t.ref) /\ t.step # "push"
     \/ /\ Actor(t.ref) /\ t.step \notin {"delete", "respond"}
        /\ \/ th = t.m.from
           \/ \E l \in Link : /\ l = Way(t.m.from, t.ref)
                              /\ th = Serving(l[1], l[2])

Boxes(S) == [queue : Seq(S), open : BOOLEAN]

Addressed ==
  /\ mailbox \in [Ref -> Boxes(GoodMsgs)]
  /\ handled \in [Ref -> Seq(Msgs)]
  /\ \A r \in Ref : ~Actor(r) => mailbox[r].queue = <<>> /\ handled[r] = <<>>
  /\ DOMAIN dialed = Link
  /\ \A l \in Link : dialed[l] # "no" => l \in DOMAIN remotes
  /\ DOMAIN remotes \subseteq Link
  /\ \A l \in DOMAIN remotes : remotes[l] \in Boxes(GoodCalls(l))
  /\ DOMAIN wire = Link
  /\ \A l \in Link : wire[l] \in Seq(GoodCalls(l))
  /\ \A th \in Thread : telling[th] = None \/ GoodTelling(th, telling[th])
  /\ \A p \in Caller :
       /\ waiting[p] \in AnyRef \cup {None}
       /\ waiting[p] = None \/ NotActor(waiting[p])
  /\ told \in [Caller -> Nat]

(* The elements of q that g numbers, each with its place.                  *)
Marks(q, g) == {<<i, g[q[i]]>> : i \in {j \in 1 .. Len(q) : q[j] \in DOMAIN g}}

(* The messages of caller p, and its calls to r.                           *)
Own(p) == [m \in {x \in Msgs : x.from = p} |-> m.n]

OwnCall(p, r) == [c \in {x \in Calls : x.ref = r /\ x.m.from = p} |-> c.m.n]

InHand(th, p, r) ==
  IF telling[th] # None /\ telling[th].ref = r /\ telling[th].m.from = p
  THEN {<<1, telling[th].m.n>>} ELSE {}

(* Where what p tells r may be, from the end of its way to the start.      *)
Stages(p, r) ==
  LET l == Way(p, r)
  IN << Marks(handled[r], Own(p)),
        Marks(mailbox[r].queue, Own(p)),
        IF l \in Link THEN InHand(Serving(l[1], l[2]), p, r) ELSE {},
        IF l \in Link THEN Marks(wire[l], OwnCall(p, r)) ELSE {},
        IF l \in DOMAIN remotes THEN Marks(remotes[l].queue, OwnCall(p, r))
                                ELSE {},
        InHand(p, p, r) >>

(* What is ahead has the smaller number, and no number is above n.         *)
Ordered(F, n) ==
  /\ \A k \in 1 .. 6 : F[k] \subseteq (Nat \ {0}) \X (0 .. n)
  /\ \A a, b \in 1 .. 6 : \A x \in F[a], y \in F[b] :
       (a < b \/ (a = b /\ x[1] < y[1])) => x[2] < y[2]

OrderInv ==
  \A p \in Caller, r \in Ref : Actor(r) => Ordered(Stages(p, r), told[p])

(* Marks.                                                                  *)

LEMMA MarksEmpty == \A g : Marks(<<>>, g) = {}
BY DEF Marks

LEMMA MarksPlace ==
  ASSUME NEW S, NEW q \in Seq(S), NEW g, NEW x \in Marks(q, g)
  PROVE  /\ x = <<x[1], x[2]>> /\ x[1] \in 1 .. Len(q)
         /\ q[x[1]] \in DOMAIN g /\ x[2] = g[q[x[1]]]
BY DEF Marks

LEMMA MarksTail ==
  ASSUME NEW S, NEW q \in Seq(S), q # <<>>, NEW g
  PROVE  /\ \A x \in Marks(Tail(q), g) :
              x[1] \in Nat \ {0} /\ <<x[1] + 1, x[2]>> \in Marks(q, g)
         /\ Head(q) \in DOMAIN g => <<1, g[Head(q)]>> \in Marks(q, g)
<1>1. /\ Len(q) \in Nat \ {0} /\ Len(Tail(q)) = Len(q) - 1
      /\ Tail(q) \in Seq(S)
      /\ \A i \in 1 .. Len(Tail(q)) : Tail(q)[i] = q[i + 1]
  BY Zenon, EmptySeq, HeadTailProperties
<1>2. ASSUME NEW x \in Marks(Tail(q), g)
      PROVE  x[1] \in Nat \ {0} /\ <<x[1] + 1, x[2]>> \in Marks(q, g)
  <2>1. PICK i \in 1 .. Len(Tail(q)) :
          Tail(q)[i] \in DOMAIN g /\ x = <<i, g[Tail(q)[i]]>>
    BY Zenon DEF Marks
  <2>2. x[1] = i /\ x[2] = g[Tail(q)[i]]
    BY <2>1
  <2>3. i \in Nat \ {0} /\ i + 1 \in 1 .. Len(q)
    BY <1>1
  <2>4. q[i + 1] \in DOMAIN g /\ x[2] = g[q[i + 1]]
    BY Zenon, <1>1, <2>1, <2>2
  <2>5. <<i + 1, g[q[i + 1]]>> \in Marks(q, g)
    BY Zenon, <2>3, <2>4 DEF Marks
  <2> QED  BY Zenon, <2>2, <2>3, <2>4, <2>5
<1>3. Head(q) = q[1] /\ 1 \in 1 .. Len(q)
  BY <1>1
<1>4. Head(q) \in DOMAIN g => <<1, g[Head(q)]>> \in Marks(q, g)
  BY Zenon, <1>3 DEF Marks
<1> QED  BY Zenon, <1>2, <1>4

LEMMA MarksAppend ==
  ASSUME NEW S, NEW q \in Seq(S), NEW e \in S, NEW g
  PROVE  /\ Len(q) + 1 \in Nat \ {0}
         /\ \A x \in Marks(q, g) : x[1] < Len(q) + 1
         /\ \A x \in Marks(Append(q, e), g) :
              \/ x \in Marks(q, g)
              \/ e \in DOMAIN g /\ x[1] = Len(q) + 1 /\ x[2] = g[e]
<1>1. /\ Len(q) \in Nat /\ Len(Append(q, e)) = Len(q) + 1
      /\ \A i \in 1 .. Len(q) : Append(q, e)[i] = q[i]
      /\ Append(q, e)[Len(q) + 1] = e
  BY LenProperties, AppendProperties
<1>2. \A x \in Marks(q, g) : x[1] < Len(q) + 1
  BY <1>1, MarksPlace
<1>3. ASSUME NEW x \in Marks(Append(q, e), g)
      PROVE  \/ x \in Marks(q, g)
             \/ e \in DOMAIN g /\ x[1] = Len(q) + 1 /\ x[2] = g[e]
  <2>1. PICK i \in 1 .. Len(Append(q, e)) :
          Append(q, e)[i] \in DOMAIN g /\ x = <<i, g[Append(q, e)[i]]>>
    BY Zenon DEF Marks
  <2>2. i \in 1 .. Len(q) \/ i = Len(q) + 1
    BY <1>1
  <2>3. x[1] = i /\ x[2] = g[Append(q, e)[i]]
    BY <2>1
  <2> QED  BY Zenon, <1>1, <2>1, <2>2, <2>3 DEF Marks
<1>4. Len(q) + 1 \in Nat \ {0}
  BY <1>1
<1> QED  BY Zenon, <1>2, <1>3, <1>4

-----------------------------------------------------------------------------
(* The stages.                                                             *)

(* Taking away keeps the order.                                            *)
LEMMA LessOrdered ==
  ASSUME NEW F, NEW G, NEW n \in Nat, NEW o \in Nat, n <= o, Ordered(F, n),
         \A k \in 1 .. 6 : G[k] \subseteq F[k]
  PROVE  Ordered(G, o)
<1>1. 0 .. n \subseteq 0 .. o
  OBVIOUS
<1>2. (Nat \ {0}) \X (0 .. n) \subseteq (Nat \ {0}) \X (0 .. o)
  BY <1>1
<1> QED  BY Zenon, <1>2 DEF Ordered

(* So does the first of stage b becoming the last of stage a, ahead of it, *)
(* when there is nothing in between.                                       *)
LEMMA MovedOrdered ==
  ASSUME NEW F, NEW G, NEW n \in Nat, Ordered(F, n),
         NEW a \in 1 .. 6, NEW b \in 1 .. 6, a < b, NEW z \in Nat \ {0},
         \A k \in 1 .. 6 : k # a /\ k # b => G[k] \subseteq F[k],
         \A k \in 1 .. 6 : a < k /\ k < b => F[k] = {},
         \A x \in G[b] : x[1] \in Nat \ {0} /\ <<x[1] + 1, x[2]>> \in F[b],
         \A x \in F[a] : x[1] < z,
         \A x \in G[a] : x \in F[a] \/ (x[1] = z /\ <<1, x[2]>> \in F[b]),
         \A k \in 1 .. 6 : \A x \in G[k] : x = <<x[1], x[2]>>
  PROVE  Ordered(G, n)
<1> DEFINE Old(k, x) == IF k = b THEN b
                        ELSE IF k = a /\ x \notin F[a] THEN b ELSE k
           Was(k, x) == IF k = b THEN <<x[1] + 1, x[2]>>
                        ELSE IF k = a /\ x \notin F[a] THEN <<1, x[2]>> ELSE x
<1>1. ASSUME NEW k \in 1 .. 6, NEW x \in G[k]
      PROVE  /\ Old(k, x) \in 1 .. 6 /\ Was(k, x) \in F[Old(k, x)]
             /\ Was(k, x)[2] = x[2] /\ x[1] \in Nat \ {0} /\ x[2] \in 0 .. n
             /\ Was(k, x)[1] \in Nat \ {0}
  <2>1. \A j \in 1 .. 6 : \A y \in F[j] : y[1] \in Nat \ {0} /\ y[2] \in 0 .. n
    BY DEF Ordered
  <2>2. CASE k = b
    <3>1. x[1] \in Nat \ {0} /\ <<x[1] + 1, x[2]>> \in F[b]
      BY Zenon, <2>2
    <3> QED  BY <2>1, <2>2, <3>1
  <2>3. CASE k = a /\ x \notin F[a]
    <3>1. x[1] = z /\ <<1, x[2]>> \in F[b]
      BY Zenon, <2>3
    <3> QED  BY <2>1, <2>3, <3>1
  <2>4. CASE k # b /\ ~(k = a /\ x \notin F[a])
    <3>1. x \in F[k]
      BY Zenon, <2>4
    <3> QED  BY <2>1, <2>4, <3>1
  <2> QED  BY Zenon, <2>2, <2>3, <2>4
<1>2. ASSUME NEW c \in 1 .. 6, NEW d \in 1 .. 6, NEW x \in G[c],
             NEW y \in G[d],
             c < d \/ (c = d /\ x[1] < y[1])
      PROVE  \/ Old(c, x) < Old(d, y)
             \/ Old(c, x) = Old(d, y) /\ Was(c, x)[1] < Was(d, y)[1]
  <2>1. x[1] \in Nat \ {0} /\ y[1] \in Nat \ {0}
    BY Zenon, <1>1
  <2>2. CASE c = b
    BY <1>2, <2>1, <2>2
  <2>3. CASE c = a /\ x \notin F[a]
    <3>1. x[1] = z
      BY Zenon, <2>3
    <3>2. d = c => y \notin F[a] /\ y[1] = z
      <4>1. d = c => ~(y[1] < z)
        BY <1>2, <2>1, <3>1
      <4> QED  BY Zenon, <2>3, <4>1
    <3>3. d # c /\ d > a
      BY <1>2, <2>1, <2>3, <3>1, <3>2
    <3>4. ~(d < b)
      <4>1. d < b => y \in F[d] /\ F[d] = {}
        BY <2>3, <3>3
      <4> QED  BY Zenon, <4>1
    <3> QED  BY <2>1, <2>3, <3>3, <3>4
  <2>4. CASE c # b /\ ~(c = a /\ x \notin F[a])
    <3>1. CASE d = b \/ (d = a /\ y \notin F[a])
      <4>1. ~(c > b) /\ (c = a => a < b)
        BY <1>2, <3>1
      <4> QED  BY <1>2, <2>1, <2>4, <3>1, <4>1
    <3>2. CASE d # b /\ ~(d = a /\ y \notin F[a])
      BY <1>2, <2>4, <3>2
    <3> QED  BY Zenon, <3>1, <3>2
  <2> QED  BY Zenon, <2>2, <2>3, <2>4
<1> HIDE DEF Old, Was
<1>3. ASSUME NEW c \in 1 .. 6, NEW d \in 1 .. 6, NEW x \in G[c],
             NEW y \in G[d],
             c < d \/ (c = d /\ x[1] < y[1])
      PROVE  x[2] < y[2]
  <2>1. /\ Old(c, x) \in 1 .. 6 /\ Was(c, x) \in F[Old(c, x)]
        /\ Was(c, x)[2] = x[2]
    BY Zenon, <1>1
  <2>2. /\ Old(d, y) \in 1 .. 6 /\ Was(d, y) \in F[Old(d, y)]
        /\ Was(d, y)[2] = y[2]
    BY Zenon, <1>1
  <2>3. \/ Old(c, x) < Old(d, y)
        \/ Old(c, x) = Old(d, y) /\ Was(c, x)[1] < Was(d, y)[1]
    BY Zenon, <1>2, <1>3
  <2>4. Was(c, x)[2] < Was(d, y)[2]
    BY Zenon, <2>1, <2>2, <2>3 DEF Ordered
  <2> QED  BY Zenon, <2>1, <2>2, <2>4
<1>4. ASSUME NEW k \in 1 .. 6, NEW x \in G[k]
      PROVE  x \in (Nat \ {0}) \X (0 .. n)
  <2>1. x = <<x[1], x[2]>> /\ x[1] \in Nat \ {0} /\ x[2] \in 0 .. n
    BY Zenon, <1>1
  <2> QED  BY <2>1
<1> QED  BY Zenon, <1>3, <1>4 DEF Ordered

-----------------------------------------------------------------------------
(* Where messages go.                                                      *)

LEMMA SystemOfThread ==
  /\ \A p \in Caller : SystemOf(p) = Home[p]
  /\ \A l \in Link : SystemOf(Serving(l[1], l[2])) = l[2]
  /\ \A th \in Thread : SystemOf(th) \in System
<1>1. \A p \in Caller : SystemOf(p) = Home[p] /\ Home[p] \in System
  BY Zenon, CallerAssumption, HomeAssumption DEF SystemOf
<1>2. ASSUME NEW l \in Link
      PROVE  SystemOf(Serving(l[1], l[2])) = l[2] /\ l[2] \in System
  <2>1. Serving(l[1], l[2]) \notin Ref
    BY DEF Serving, Ref
  <2>2. Serving(l[1], l[2]) \notin Caller
    BY Zenon, CallerAssumption
  <2>3. SystemOf(Serving(l[1], l[2])) = Serving(l[1], l[2])[3]
    BY Zenon, <2>1, <2>2 DEF SystemOf
  <2>4. Serving(l[1], l[2])[3] = l[2] /\ l[2] \in System
    BY DEF Serving, Link
  <2> QED  BY Zenon, <2>3, <2>4
<1>3. ASSUME NEW r \in Ref
      PROVE  SystemOf(r) \in System
  <2>1. Address(r) \in System
    BY DEF Address, Ref
  <2> QED  BY Zenon, <2>1, CallerAssumption DEF SystemOf
<1> QED  BY Zenon, <1>1, <1>2, <1>3 DEF Thread

LEMMA AnyAddress ==
  ASSUME NEW r \in AnyRef
  PROVE  Address(r) \in System
BY DEF AnyRef, Ref, Fakes, Fake, Address

LEMMA FakeNotActor ==
  ASSUME NEW s \in System
  PROVE  Fake(s) \in AnyRef /\ Fake(s) \notin Ref
BY BoundAssumption DEF AnyRef, Fakes, Fake, Ref

(* A reference stays what it is, and only a new one becomes an actor's.    *)
LEMMA RefsStay ==
  ASSUME Shape, ChannelInv, Addressed, [Next]_vars
  PROVE  /\ \A x : Actor(x) => Actor(x)'
         /\ \A x : NotActor(x) => NotActor(x)'
         /\ \A x \in Ref : Actor(x)' /\ ~Actor(x) =>
              ~Given(x) /\ \E s \in System : StartActor(s)
<1> DEFINE Stay(x) ==
      /\ Actor(x) => Actor(x)'
      /\ NotActor(x) => NotActor(x)'
      /\ Actor(x)' /\ ~Actor(x) => ~Given(x) /\ \E s \in System : StartActor(s)
<1>1. CASE UNCHANGED <<nextCounter, infos>>
  BY Zenon, <1>1 DEF Actor, NotActor, Given
<1>2. ASSUME NEW s \in System, NEW kind, NewRef(s, kind),
             kind = "channel" \/ (kind = "actor" /\ StartActor(s)),
             NEW x \in Ref
      PROVE  Stay(x)
  <2>1. PICK new \in Ref :
          /\ ~Given(new) /\ Given(new)'
          /\ infos'[new] = kind
          /\ \A r \in Ref : Given(r) => Given(r)' /\ r # new
          /\ \A r \in Ref : r # new => infos'[r] = infos[r]
    BY Zenon, <1>2, NewRefGiven
  <2>2. infos[x] = "actor" => Given(x)
    BY Zenon, NoneAssumption DEF ChannelInv
  <2>3. Actor(x) => Actor(x)'
    BY Zenon, <2>1, <2>2 DEF Actor
  <2>4. NotActor(x) => NotActor(x)'
    BY Zenon, <2>1 DEF NotActor
  <2>5. Actor(x)' /\ ~Actor(x) => x = new /\ kind = "actor"
    BY Zenon, <2>1 DEF Actor
  <2> QED  BY Zenon, <1>2, <2>1, <2>3, <2>4, <2>5
<1>3. ASSUME NEW th \in Thread, LoadAndDelete(th), NEW x \in Ref
      PROVE  Stay(x)
  <2>1. /\ telling[th] # None /\ telling[th].step = "delete"
        /\ infos' = [infos EXCEPT ![telling[th].ref] = None]
        /\ nextCounter' = nextCounter
    BY Zenon, <1>3 DEF LoadAndDelete, At, sysVars
  <2>2. telling[th].ref \in Ref /\ infos[telling[th].ref] # "actor"
    <3>1. telling[th].ref \in Ref
      BY Zenon, <2>1 DEF ChannelInv, At
    <3> QED  BY Zenon, <2>1, <3>1 DEF Addressed, GoodTelling, NotActor
  <2>3. \/ infos'[x] = infos[x]
        \/ infos'[x] # "actor" /\ infos[x] # "actor"
    BY Zenon, <2>1, <2>2, NoneAssumption DEF Shape
  <2> QED  BY Zenon, <2>1, <2>3 DEF Actor, NotActor, Given
<1>4. \/ UNCHANGED <<nextCounter, infos>>
      \/ \E s \in System : StartActor(s) /\ NewRef(s, "actor")
      \/ \E s \in System : NewRef(s, "channel")
      \/ \E th \in Thread : LoadAndDelete(th)
  <2>1. ASSUME NEW p \in Caller, Query(p)
        PROVE  \/ UNCHANGED <<nextCounter, infos>>
               \/ \E s \in System : NewRef(s, "channel")
    BY Zenon, <2>1, HomeAssumption DEF Query
  <2> QED
    BY Zenon, <2>1
    DEF Next, Progress, TellStep, vars, sysVars, StartActor, Close, TellOnly,
        Break, Load, Push, Respond, LookUp, PushRemote, Dial, Send, Serve,
        RunActor, Receive
<1>5. CASE ~UNCHANGED <<nextCounter, infos>>
  <2>1. \A x \in Ref : Stay(x)
    BY Zenon, <1>2, <1>3, <1>4, <1>5
  <2> QED  BY Zenon, <2>1 DEF Actor, NotActor
<1> QED  BY Zenon, <1>1, <1>5

(* So what was addressed right stays so.                                   *)
LEMMA GoodStays ==
  ASSUME Shape, ChannelInv, Addressed, [Next]_vars
  PROVE  /\ GoodMsgs \subseteq GoodMsgs'
         /\ Boxes(GoodMsgs) \subseteq Boxes(GoodMsgs')
         /\ \A l : /\ GoodCalls(l) \subseteq GoodCalls(l)'
                   /\ Seq(GoodCalls(l)) \subseteq Seq(GoodCalls(l)')
                   /\ Boxes(GoodCalls(l)) \subseteq Boxes(GoodCalls(l)')
         /\ \A th, t : GoodTelling(th, t) => GoodTelling(th, t)'
<1>1. /\ \A x : Actor(x) => Actor(x)'
      /\ \A x : NotActor(x) => NotActor(x)'
  BY Zenon, RefsStay
<1>2. GoodMsgs \subseteq GoodMsgs'
  BY Zenon, <1>1 DEF GoodMsgs
<1>3. \A l : GoodCalls(l) \subseteq GoodCalls(l)'
  BY Zenon, <1>1, <1>2 DEF GoodCalls
<1>4. \A S, T : S \subseteq T => Seq(S) \subseteq Seq(T)
  BY Zenon, SeqMonotonic
<1>5. \A S, T : S \subseteq T => Boxes(S) \subseteq Boxes(T)
  BY <1>4 DEF Boxes
<1>6. \A th, t : GoodTelling(th, t) => GoodTelling(th, t)'
  BY Zenon, <1>1, <1>2 DEF GoodTelling
<1> QED  BY Zenon, <1>2, <1>3, <1>4, <1>5, <1>6

(* A tell that begins.                                                     *)
TellTo(th, r, m) ==
  /\ m \in GoodMsgs
  /\ \/ NotActor(r)
     \/ /\ Actor(r)
        /\ \/ th = m.from
           \/ \E l \in Link : l = Way(m.from, r) /\ th = Serving(l[1], l[2])

LEMMA TellGood ==
  ASSUME NEW th, NEW r \in AnyRef, NEW m
  PROVE  /\ TellTo(th, r, m) => GoodTelling(th, Telling("tell", r, m))
         /\ TellTo(th, r, m)' => GoodTelling(th, Telling("tell", r, m))'
<1>1. PICK t : t = Telling("tell", r, m)
  BY Zenon
<1>2. t.step = "tell" /\ t.ref = r /\ t.m = m
  BY <1>1 DEF Telling
<1>3. m \in Msgs => t \in Tellings
  BY <1>1 DEF Telling, Tellings
<1>4. TellTo(th, r, m) => GoodTelling(th, t)
  BY Zenon, <1>2, <1>3 DEF TellTo, GoodTelling, GoodMsgs
<1>5. TellTo(th, r, m)' => GoodTelling(th, t)'
  BY Zenon, <1>2, <1>3 DEF TellTo, GoodTelling, GoodMsgs
<1> QED  BY Zenon, <1>1, <1>4, <1>5

(* A query has a reference for its answer that is no actor's.              *)
LEMMA QueryRef ==
  ASSUME Shape, ChannelInv, Addressed, [Next]_vars,
         NEW p \in Caller, Query(p)
  PROVE  \E ref \in AnyRef :
           /\ NotActor(ref)'
           /\ waiting' = [waiting EXCEPT ![p] = ref]
           /\ \E r \in Ref : Actor(r) /\ Tell(p, r, ref)
<1> DEFINE s == Home[p]
           old == waiting[p]
<1>1. PICK ref : ref = IF old # None THEN old
                       ELSE IF closed[s] THEN Fake(s)
                       ELSE <<s, nextCounter[s]>>
  BY Zenon
<1>2. s \in System
  BY Zenon, HomeAssumption
<1>3. /\ \E r \in UNION {ActorsOf(t) : t \in System} : Tell(p, r, ref)
      /\ waiting' = [waiting EXCEPT ![p] = ref]
      /\ old = None /\ ~closed[s] => NewRef(s, "channel")
  BY Zenon, <1>1 DEF Query
<1> HIDE DEF s, old
<1>4. \E r \in Ref : Actor(r) /\ Tell(p, r, ref)
  BY Zenon, <1>3 DEF ActorsOf, Actor
<1>5. CASE old # None
  <2>1. old \in AnyRef /\ NotActor(old)
    BY Zenon, <1>5 DEF Addressed, old
  <2>2. ref = old /\ ref \in AnyRef /\ NotActor(ref)
    BY Zenon, <1>1, <1>5, <2>1
  <2> QED  BY Zenon, <1>3, <1>4, <2>2, RefsStay
<1>6. CASE old = None /\ closed[s]
  <2>1. ref \in AnyRef /\ ref \notin Ref
    BY Zenon, <1>1, <1>2, <1>6, FakeNotActor
  <2> QED  BY Zenon, <1>3, <1>4, <2>1 DEF NotActor
<1>7. CASE old = None /\ ~closed[s]
  <2>1. ref \in Ref /\ Given(ref)' /\ infos'[ref] = "channel"
    BY Zenon, <1>1, <1>2, <1>3, <1>7, NewRefGiven
  <2> QED  BY Zenon, <1>3, <1>4, <2>1 DEF NotActor, AnyRef
<1> QED  BY Zenon, <1>5, <1>6, <1>7

LEMMA TellingStep ==
  ASSUME Shape, ChannelInv, Addressed, [Next]_vars, NEW th \in Thread
  PROVE  (telling[th] = None \/ GoodTelling(th, telling[th]))'
<1> DEFINE Right(t) == t = None \/ GoodTelling(th, t)
<1>1. PICK new : new = telling'[th]
  BY Zenon
<1> SUFFICES Right(new)'
  BY Zenon, <1>1
<1>2. Right(telling[th])
  BY Zenon DEF Addressed
<1>3. \A t : Right(t) => Right(t)'
  BY Zenon, GoodStays
<1>4. CASE new = telling[th] \/ new = None
  BY Zenon, <1>2, <1>3, <1>4
<1>5. ASSUME NEW p \in Caller, NEW r \in Ref, Actor(r), NEW reply,
             Tell(p, r, reply),
             reply \in AnyRef \cup {None}, reply = None \/ NotActor(reply)'
      PROVE  Right(new)'
  <2>1. PICK m : m = Message(p, told[p] + 1, reply)
    BY Zenon
  <2>2. told[p] + 1 \in Nat
    BY DEF Addressed
  <2>3. m \in Msgs /\ m.from = p /\ m.reply = reply
    BY <1>5, <2>1, <2>2 DEF Msgs, Message
  <2>4. m \in GoodMsgs'
    BY Zenon, <1>5, <2>3 DEF GoodMsgs
  <2>5. th = p => new = Telling("tell", r, m)
    BY Zenon, <1>1, <1>5, <2>1 DEF Tell, Shape
  <2>6. th # p => new = telling[th]
    BY Zenon, <1>1, <1>5, <2>1 DEF Tell, Shape
  <2>7. th = p => TellTo(th, r, m)'
    BY Zenon, <1>5, <2>3, <2>4, RefsStay DEF TellTo
  <2>8. th = p => GoodTelling(th, Telling("tell", r, m))'
    BY Zenon, <2>7, TellGood DEF AnyRef
  <2> QED  BY Zenon, <1>4, <2>5, <2>6, <2>8
<1>6. ASSUME NEW p \in Caller, TellOnly(p)
      PROVE  Right(new)'
  BY Zenon, <1>5, <1>6 DEF TellOnly, ActorsOf, Actor
<1>7. ASSUME NEW p \in Caller, Query(p)
      PROVE  Right(new)'
  BY Zenon, <1>5, <1>7, QueryRef
<1>8. ASSUME NEW l \in Link, Serve(l)
      PROVE  Right(new)'
  <2>1. PICK c : c = wire[l][1]
    BY Zenon
  <2>2. wire[l] # <<>> /\ wire[l] \in Seq(GoodCalls(l))
    BY Zenon, <1>8 DEF Serve, Addressed
  <2>3. c \in GoodCalls(l)
    <3>1. PICK S : S = GoodCalls(l)
      BY Zenon
    <3>2. wire[l] \in Seq(S) /\ wire[l] # <<>>
      BY Zenon, <2>2, <3>1
    <3>3. wire[l][1] \in S
      BY <3>2
    <3> QED  BY Zenon, <2>1, <3>1, <3>3
  <2>4. TellTo(Serving(l[1], l[2]), c.ref, c.m) /\ c.ref \in AnyRef
    BY Zenon, <2>3 DEF GoodCalls, TellTo, Calls
  <2>5. GoodTelling(Serving(l[1], l[2]), Telling("tell", c.ref, c.m))
    BY Zenon, <2>4, TellGood
  <2>6. telling' = [telling EXCEPT ![Serving(l[1], l[2])] =
                      Telling("tell", c.ref, c.m)]
    BY Zenon, <1>8, <2>1 DEF Serve, NextCall
  <2>7. \/ new = telling[th]
        \/ th = Serving(l[1], l[2]) /\ new = Telling("tell", c.ref, c.m)
    BY Zenon, <1>1, <2>6 DEF Shape
  <2> QED  BY Zenon, <1>3, <1>4, <2>5, <2>7
<1>9. ASSUME NEW r \in Ref, RunActor(r)
      PROVE  Right(new)'
  <2>1. PICK m : m = Head(mailbox[r].queue)
    BY Zenon
  <2>2. m \in GoodMsgs
    <3>1. mailbox[r].queue \in Seq(GoodMsgs) /\ mailbox[r].queue # <<>>
      BY Zenon, <1>9 DEF RunActor, CanPop, Addressed, Boxes
    <3> QED  BY Zenon, <2>1, <3>1, HeadTailProperties
  <2>3. PICK a : a = Message(m.from, m.n, None)
    BY Zenon
  <2>4. a \in GoodMsgs
    <3>1. a \in Msgs /\ a.reply = None
      BY <2>2, <2>3 DEF Message, Msgs, GoodMsgs
    <3> QED  BY Zenon, <3>1 DEF GoodMsgs
  <2>5. CASE m.reply # None
    <3>1. m.reply \in AnyRef /\ NotActor(m.reply)
      BY Zenon, <2>2, <2>5 DEF GoodMsgs, Msgs
    <3>2. GoodTelling(r, Telling("tell", m.reply, a))
      BY Zenon, <2>4, <3>1, TellGood DEF TellTo
    <3>3. \/ new = telling[th]
          \/ th = r /\ new = Telling("tell", m.reply, a)
      BY Zenon, <1>1, <1>9, <2>1, <2>3, <2>5 DEF RunActor, Answer, Shape
    <3> QED  BY Zenon, <1>3, <1>4, <3>2, <3>3
  <2>6. CASE m.reply = None
    <3>1. new = telling[th] \/ new = None
      BY Zenon, <1>1, <1>9, <2>1, <2>6 DEF RunActor, Answer, Shape
    <3> QED  BY Zenon, <1>4, <3>1
  <2> QED  BY Zenon, <2>5, <2>6
<1>10. ASSUME NEW u \in Thread, NEW step, Goto(u, step), telling[u] # None,
              step \in {"push", "delete", "respond", "pushRemote"},
              step = "push" => IsLocal(u) /\ Actor(telling[u].ref),
              step = "pushRemote" => /\ ~IsLocal(u)
                                     /\ telling[u].step = "tell",
              step \in {"delete", "respond"} => ~Actor(telling[u].ref)
       PROVE  Right(new)'
  <2>1. PICK old : old = telling[u]
    BY Zenon
  <2>2. PICK t : t = Telling(step, old.ref, old.m)
    BY Zenon
  <2>3. t.step = step /\ t.ref = old.ref /\ t.m = old.m
    BY <2>2 DEF Telling
  <2>4. GoodTelling(u, old)
    BY Zenon, <1>10, <2>1 DEF Addressed
  <2>5. t \in Tellings
    BY <1>10, <2>2, <2>4 DEF GoodTelling, Tellings, Telling
  <2>6. ~(Actor(old.ref) /\ NotActor(old.ref))
    BY Zenon DEF Actor, NotActor
  <2>7. GoodTelling(u, t)
    <3>1. t.m \in GoodMsgs
      BY Zenon, <2>3, <2>4 DEF GoodTelling
    <3>2. /\ t.step = "push" => Address(t.ref) = SystemOf(u)
          /\ t.step = "pushRemote" => Address(t.ref) # SystemOf(u)
      BY Zenon, <1>10, <2>1, <2>3 DEF IsLocal
    <3>3. NotActor(old.ref) => t.step # "push"
      BY Zenon, <1>10, <2>1, <2>3, <2>6
    <3>4. Actor(old.ref) => t.step \notin {"delete", "respond"}
      BY Zenon, <1>10, <2>1, <2>3
    <3> QED  BY Zenon, <2>3, <2>4, <2>5, <3>1, <3>2, <3>3, <3>4
             DEF GoodTelling
  <2>8. new = telling[th] \/ (th = u /\ new = t)
    BY Zenon, <1>1, <1>10, <2>1, <2>2 DEF Goto, Shape
  <2> QED  BY Zenon, <1>3, <1>4, <2>7, <2>8
<1>11. ASSUME NEW u \in Thread, Done(u)
       PROVE  Right(new)'
  BY Zenon, <1>1, <1>4, <1>11 DEF Done, Shape
<1>12. ASSUME NEW u \in Thread, TellStep(u)
       PROVE  Right(new)'
  <2>1. CASE Load(u)
    <3>1. \/ Done(u)
          \/ Goto(u, "push") /\ Actor(telling[u].ref)
          \/ Goto(u, "delete") /\ ~Actor(telling[u].ref)
      BY Zenon, <2>1 DEF Load, Actor
    <3>2. telling[u] # None /\ IsLocal(u)
      BY Zenon, <2>1 DEF Load, At
    <3> QED  BY Zenon, <1>10, <1>11, <3>1, <3>2
  <2>2. CASE LoadAndDelete(u)
    <3>1. \/ Done(u)
          \/ Goto(u, "respond")
      BY Zenon, <2>2 DEF LoadAndDelete
    <3>2. telling[u] # None /\ telling[u].step = "delete"
      BY Zenon, <2>2 DEF LoadAndDelete, At
    <3>3. ~Actor(telling[u].ref)
      BY Zenon, <3>2 DEF Addressed, GoodTelling, Actor, NotActor
    <3> QED  BY Zenon, <1>10, <1>11, <3>1, <3>2, <3>3
  <2>3. CASE LookUp(u)
    <3>1. \/ Done(u)
          \/ Goto(u, "pushRemote")
      BY Zenon, <2>3 DEF LookUp
    <3>2. telling[u] # None /\ telling[u].step = "tell" /\ ~IsLocal(u)
      BY Zenon, <2>3 DEF LookUp, At
    <3> QED  BY Zenon, <1>10, <1>11, <3>1, <3>2
  <2> QED  BY Zenon, <1>11, <1>12, <2>1, <2>2, <2>3
           DEF TellStep, Push, Respond, PushRemote
<1>13. CASE telling' = telling
  BY Zenon, <1>1, <1>4, <1>13
<1> QED
  BY Zenon, <1>6, <1>7, <1>8, <1>9, <1>12, <1>13
  DEF Next, Progress, vars, StartActor, Close, Receive, Dial, Send, Break

-----------------------------------------------------------------------------
(* Mailboxes hold what was addressed to them.                              *)

LEMMA BoxOps ==
  ASSUME NEW S, NEW b \in Boxes(S)
  PROVE  /\ ClosedBox(b) \in Boxes(S) /\ ClosedBox(b).queue = b.queue
         /\ \A m \in S :
              /\ Pushed(b, m) \in Boxes(S)
              /\ Pushed(b, m).queue = IF b.open THEN Append(b.queue, m)
                                                ELSE b.queue
         /\ CanPop(b) => /\ Popped(b) \in Boxes(S)
                         /\ Popped(b).queue = Tail(b.queue)
                         /\ Head(b.queue) \in S /\ b.queue # <<>>
<1>1. b.queue \in Seq(S) /\ b.open \in BOOLEAN
  BY DEF Boxes
<1>2. ClosedBox(b) \in Boxes(S) /\ ClosedBox(b).queue = b.queue
  BY <1>1 DEF ClosedBox, Box, Boxes
<1>3. ASSUME NEW m \in S
      PROVE  /\ Pushed(b, m) \in Boxes(S)
             /\ Pushed(b, m).queue = IF b.open THEN Append(b.queue, m)
                                               ELSE b.queue
  <2>1. Append(b.queue, m) \in Seq(S)
    BY Zenon, <1>1, AppendProperties
  <2> QED  BY <1>1, <2>1 DEF Pushed, Box, Boxes
<1>4. ASSUME CanPop(b)
      PROVE  /\ Popped(b) \in Boxes(S)
             /\ Popped(b).queue = Tail(b.queue)
             /\ Head(b.queue) \in S /\ b.queue # <<>>
  <2>1. b.queue # <<>>
    BY Zenon, <1>4 DEF CanPop
  <2>2. Tail(b.queue) \in Seq(S) /\ Head(b.queue) \in S
    BY Zenon, <1>1, <2>1, HeadTailProperties
  <2> QED  BY <1>1, <2>1, <2>2 DEF Popped, Box, Boxes
<1> QED  BY Zenon, <1>2, <1>3, <1>4

LEMMA NewBox ==
  ASSUME NEW S
  PROVE  NewMailbox \in Boxes(S) /\ NewMailbox.queue = <<>>
<1>1. <<>> \in Seq(S)
  BY Zenon, EmptySeq
<1> QED  BY <1>1 DEF NewMailbox, Box, Boxes

(* Who pushes into a mailbox does so for an actor of its own system.       *)
LEMMA PushTo ==
  ASSUME Addressed, NEW th \in Thread, Push(th)
  PROVE  /\ telling[th] # None /\ GoodTelling(th, telling[th])
         /\ Actor(telling[th].ref) /\ telling[th].m \in GoodMsgs
         /\ Address(telling[th].ref) = SystemOf(th)
<1>1. telling[th] # None /\ telling[th].step = "push"
  BY Zenon DEF Push, At
<1>2. GoodTelling(th, telling[th])
  BY Zenon, <1>1 DEF Addressed
<1> QED  BY Zenon, <1>1, <1>2 DEF GoodTelling

LEMMA MailStep ==
  ASSUME Shape, ChannelInv, Addressed, [Next]_vars
  PROVE  /\ mailbox' \in [Ref -> Boxes(GoodMsgs')]
         /\ handled' \in [Ref -> Seq(Msgs)]
         /\ \A r \in Ref : ~Actor(r)' =>
              mailbox'[r].queue = <<>> /\ handled'[r] = <<>>
<1> DEFINE Goal == /\ mailbox' \in [Ref -> Boxes(GoodMsgs')]
                   /\ handled' \in [Ref -> Seq(Msgs)]
                   /\ \A r \in Ref : ~Actor(r)' =>
                        mailbox'[r].queue = <<>> /\ handled'[r] = <<>>
<1> SUFFICES Goal
  BY Zenon
<1>1. /\ mailbox \in [Ref -> Boxes(GoodMsgs)]
      /\ handled \in [Ref -> Seq(Msgs)]
      /\ \A r \in Ref :
           ~Actor(r) => mailbox[r].queue = <<>> /\ handled[r] = <<>>
  BY Zenon DEF Addressed
<1>2. Boxes(GoodMsgs) \subseteq Boxes(GoodMsgs')
  BY Zenon, GoodStays
<1>3. \A r : ~Actor(r)' => ~Actor(r)
  BY Zenon, RefsStay
<1>4. ASSUME mailbox' \in [Ref -> Boxes(GoodMsgs)],
             handled' \in [Ref -> Seq(Msgs)],
             \A r \in Ref : ~Actor(r) =>
               /\ mailbox'[r].queue = mailbox[r].queue
               /\ handled'[r] = handled[r]
      PROVE  Goal
  <2>1. mailbox' \in [Ref -> Boxes(GoodMsgs')]
    BY Zenon, <1>2, <1>4
  <2> QED  BY Zenon, <1>1, <1>3, <1>4, <2>1
<1>5. CASE mailbox' = mailbox /\ handled' = handled
  BY Zenon, <1>1, <1>4, <1>5
<1>6. ASSUME NEW s \in System, Close(s)
      PROVE  Goal
  <2>1. \A r \in Ref : /\ ClosedBox(mailbox[r]) \in Boxes(GoodMsgs)
                       /\ ClosedBox(mailbox[r]).queue = mailbox[r].queue
    BY Zenon, <1>1, BoxOps
  <2>2. /\ mailbox' = [r \in Ref |-> IF r \in ActorsOf(s)
                                     THEN ClosedBox(mailbox[r])
                                     ELSE mailbox[r]]
        /\ handled' = handled
    BY Zenon, <1>6 DEF Close
  <2> QED  BY Zenon, <1>1, <1>4, <2>1, <2>2
<1>7. ASSUME NEW th \in Thread, Push(th)
      PROVE  Goal
  <2>1. Actor(telling[th].ref) /\ telling[th].m \in GoodMsgs
    BY Zenon, <1>7, PushTo
  <2>2. PICK r \in Ref : r = telling[th].ref
    BY Zenon, <2>1 DEF Actor
  <2>3. PICK box \in Boxes(GoodMsgs) : box = Pushed(mailbox[r], telling[th].m)
    BY Zenon, <1>1, <2>1, BoxOps
  <2>4. mailbox' = [mailbox EXCEPT ![r] = box] /\ handled' = handled
    BY Zenon, <1>7, <2>2, <2>3 DEF Push
  <2> QED  BY Zenon, <1>1, <1>4, <2>1, <2>2, <2>3, <2>4
<1>8. ASSUME NEW r \in Ref, RunActor(r)
      PROVE  Goal
  <2>1. Actor(r) /\ CanPop(mailbox[r])
    BY Zenon, <1>8 DEF RunActor, Actor
  <2>2. Popped(mailbox[r]) \in Boxes(GoodMsgs)
        /\ Head(mailbox[r].queue) \in GoodMsgs
    BY Zenon, <1>1, <2>1, BoxOps
  <2>3. PICK box \in Boxes(GoodMsgs) : box = Popped(mailbox[r])
    BY Zenon, <2>2
  <2>4. PICK m \in Msgs : m = Head(mailbox[r].queue)
    BY Zenon, <2>2 DEF GoodMsgs
  <2>5. PICK q \in Seq(Msgs) : q = Append(handled[r], m)
    BY Zenon, <1>1, AppendProperties
  <2>6. /\ mailbox' = [mailbox EXCEPT ![r] = box]
        /\ handled' = [handled EXCEPT ![r] = q]
    BY Zenon, <1>8, <2>3, <2>4, <2>5 DEF RunActor
  <2> QED  BY Zenon, <1>1, <1>4, <2>1, <2>6
<1> QED
  BY Zenon, <1>5, <1>6, <1>7, <1>8
  DEF Next, Progress, TellStep, vars, StartActor, TellOnly, Query, Break, Load,
      LoadAndDelete, Respond, LookUp, PushRemote, Dial, Send, Serve, Receive

(* Who pushes into the mailbox of a remote system has an answer, or is a   *)
(* caller that tells an actor there.                                       *)
LEMMA PushRemoteTo ==
  ASSUME Addressed, NEW th \in Thread, PushRemote(th)
  PROVE  /\ telling[th] # None
         /\ [ref |-> telling[th].ref, m |-> telling[th].m]
              \in GoodCalls(LinkOf(th))
         /\ Actor(telling[th].ref) => th = telling[th].m.from
<1>1. telling[th] # None /\ telling[th].step = "pushRemote"
  BY Zenon DEF PushRemote, At
<1>2. PICK t : t = telling[th]
  BY Zenon
<1>3. GoodTelling(th, t)
  BY Zenon, <1>1, <1>2 DEF Addressed
<1>4. t \in Tellings /\ t.m \in GoodMsgs /\ Address(t.ref) # SystemOf(th)
  BY Zenon, <1>1, <1>2, <1>3 DEF GoodTelling
<1>5. PICK c : c = [ref |-> t.ref, m |-> t.m]
  BY Zenon
<1>6. c \in Calls /\ c.ref = t.ref /\ c.m = t.m
  BY <1>4, <1>5 DEF Calls, Tellings
<1>7. Actor(t.ref) => th = t.m.from
  <2>1. ASSUME NEW l \in Link, l = Way(t.m.from, t.ref),
               th = Serving(l[1], l[2])
        PROVE  FALSE
    <3>1. SystemOf(th) = l[2]
      BY Zenon, <2>1, SystemOfThread
    <3>2. l[2] = Address(t.ref)
      BY Zenon, <2>1 DEF Way
    <3> QED  BY Zenon, <1>4, <3>1, <3>2
  <2> QED  BY Zenon, <1>3, <2>1 DEF GoodTelling, Actor, NotActor
<1>8. t.m.from \in Caller
  BY Zenon, <1>4 DEF GoodMsgs, Msgs
<1>9. Actor(t.ref) => LinkOf(th) = Way(t.m.from, t.ref)
  BY Zenon, <1>2, <1>7, <1>8, SystemOfThread DEF LinkOf, Way
<1>10. NotActor(t.ref) \/ Actor(t.ref)
  BY Zenon, <1>3 DEF GoodTelling
<1>11. c \in GoodCalls(LinkOf(th))
  BY Zenon, <1>4, <1>6, <1>9, <1>10 DEF GoodCalls
<1> QED  BY Zenon, <1>1, <1>2, <1>5, <1>7, <1>11

(* The first call is taken off a connection.                               *)
LEMMA ServedFirst ==
  ASSUME NEW S, NEW q \in Seq(S), q # <<>>
  PROVE  RemoveAt(q, NextCall(q)) = Tail(q) /\ q[NextCall(q)] = Head(q)
<1>1. SubSeq(q, 1, 0) = <<>>
  BY SubSeqEmpty
<1>2. Tail(q) = SubSeq(q, 2, Len(q)) /\ Tail(q) \in Seq(S)
  BY Zenon, TailIsSubSeq, HeadTailProperties
<1>3. <<>> \o Tail(q) = Tail(q)
  BY Zenon, <1>2, ConcatEmptySeq
<1>4. 1 - 1 = 0 /\ 1 + 1 = 2
  OBVIOUS
<1>5. RemoveAt(q, 1) = Tail(q)
  BY Zenon, <1>1, <1>2, <1>3, <1>4 DEF RemoveAt
<1>6. q[1] = Head(q)
  OBVIOUS
<1> QED  BY Zenon, <1>5, <1>6 DEF NextCall

LEMMA NetStep ==
  ASSUME Shape, ChannelInv, Addressed, [Next]_vars
  PROVE  /\ DOMAIN remotes' \subseteq Link
         /\ \A l \in DOMAIN remotes' : remotes'[l] \in Boxes(GoodCalls(l)')
         /\ DOMAIN wire' = Link
         /\ \A l \in Link : wire'[l] \in Seq(GoodCalls(l)')
<1> DEFINE R == /\ DOMAIN remotes' \subseteq Link
                /\ \A l \in DOMAIN remotes' :
                     remotes'[l] \in Boxes(GoodCalls(l)')
           W == /\ DOMAIN wire' = Link
                /\ \A l \in Link : wire'[l] \in Seq(GoodCalls(l)')
<1> SUFFICES R /\ W
  BY Zenon
<1>1. /\ DOMAIN remotes \subseteq Link
      /\ \A l \in DOMAIN remotes : remotes[l] \in Boxes(GoodCalls(l))
      /\ DOMAIN wire = Link
      /\ \A l \in Link : wire[l] \in Seq(GoodCalls(l))
  BY Zenon DEF Addressed
<1>2. \A l : /\ Seq(GoodCalls(l)) \subseteq Seq(GoodCalls(l)')
             /\ Boxes(GoodCalls(l)) \subseteq Boxes(GoodCalls(l)')
  BY Zenon, GoodStays
<1>3. ASSUME DOMAIN remotes' \subseteq Link,
             \A l \in DOMAIN remotes' : remotes'[l] \in Boxes(GoodCalls(l))
      PROVE  R
  BY Zenon, <1>2, <1>3
<1>4. ASSUME DOMAIN wire' = Link,
             \A l \in Link : wire'[l] \in Seq(GoodCalls(l))
      PROVE  W
  BY Zenon, <1>2, <1>4
<1>5. remotes' = remotes => R
  BY Zenon, <1>1, <1>3
<1>6. wire' = wire => W
  BY Zenon, <1>1, <1>4
<1> HIDE DEF R, W
<1>7. ASSUME NEW l \in Link, NEW b \in Boxes(GoodCalls(l)),
             remotes' = [remotes EXCEPT ![l] = b]
      PROVE  R
  BY Zenon, <1>1, <1>3, <1>7
<1>8. ASSUME NEW l \in Link, NEW q \in Seq(GoodCalls(l)),
             wire' = [wire EXCEPT ![l] = q]
      PROVE  W
  BY Zenon, <1>1, <1>4, <1>8
<1>9. ASSUME NEW s \in System, Close(s)
      PROVE  R /\ W
  <2>1. /\ remotes' = [l \in DOMAIN remotes |->
                   IF l[1] = s THEN ClosedBox(remotes[l]) ELSE remotes[l]]
        /\ wire' = wire
    BY Zenon, <1>9 DEF Close
  <2>2. \A l \in DOMAIN remotes : ClosedBox(remotes[l]) \in Boxes(GoodCalls(l))
    BY Zenon, <1>1, BoxOps
  <2> QED  BY Zenon, <1>1, <1>3, <1>6, <2>1, <2>2
<1>10. ASSUME NEW th \in Thread, LookUp(th)
       PROVE  R /\ W
  <2>1. CASE remotes' = remotes
    BY Zenon, <1>5, <1>6, <1>10, <2>1 DEF LookUp
  <2>2. CASE remotes' # remotes
    <3>1. PICK l : l = LinkOf(th)
      BY Zenon
    <3>2. /\ remotes' = [k \in DOMAIN remotes \cup {l} |->
                            IF k = l THEN NewMailbox ELSE remotes[k]]
          /\ telling[th] # None /\ ~IsLocal(th) /\ wire' = wire
      BY Zenon, <1>10, <2>2, <3>1 DEF LookUp, At
    <3>3. telling[th].ref \in AnyRef
      BY Zenon, <3>2 DEF Addressed, GoodTelling, Tellings
    <3>4. SystemOf(th) \in System /\ Address(telling[th].ref) \in System
      BY Zenon, <3>3, SystemOfThread, AnyAddress
    <3>5. l \in Link
      BY <3>1, <3>2, <3>4 DEF LinkOf, IsLocal, Link
    <3>6. \A k \in DOMAIN remotes' : remotes'[k] \in Boxes(GoodCalls(k))
      BY Zenon, <1>1, <3>2, NewBox
    <3> QED  BY Zenon, <1>1, <1>3, <1>6, <3>2, <3>5, <3>6
  <2> QED  BY Zenon, <2>1, <2>2
<1>11. ASSUME NEW th \in Thread, PushRemote(th)
       PROVE  R /\ W
  <2>1. PICK l, c : l = LinkOf(th) /\ c = [ref |-> telling[th].ref,
                                           m |-> telling[th].m]
    BY Zenon
  <2>2. c \in GoodCalls(l)
    BY Zenon, <1>11, <2>1, PushRemoteTo
  <2>3. /\ remotes' = [remotes EXCEPT ![l] = Pushed(remotes[l], c)]
        /\ wire' = wire
    BY Zenon, <1>11, <2>1 DEF PushRemote
  <2>4. CASE l \in DOMAIN remotes
    <3>1. Pushed(remotes[l], c) \in Boxes(GoodCalls(l))
      BY Zenon, <1>1, <2>2, <2>4, BoxOps
    <3> QED  BY Zenon, <1>1, <1>6, <1>7, <2>3, <2>4, <3>1
  <2>5. CASE l \notin DOMAIN remotes
    <3>1. DOMAIN remotes' = DOMAIN remotes
          /\ \A k \in DOMAIN remotes : remotes'[k] = remotes[k]
      BY Zenon, <2>3, <2>5
    <3> QED  BY Zenon, <1>1, <1>3, <1>6, <2>3, <3>1
  <2> QED  BY Zenon, <2>4, <2>5
<1>12. ASSUME NEW l \in Link, Dial(l)
       PROVE  R /\ W
  <2>0. l \in DOMAIN remotes
    <3>1. dialed[l] # "no"
      BY Zenon, <1>12 DEF Dial
    <3> QED  BY Zenon, <3>1 DEF Addressed
  <2>1. ClosedBox(remotes[l]) \in Boxes(GoodCalls(l))
    BY Zenon, <1>1, <2>0, BoxOps
  <2>2. \/ remotes' = remotes
        \/ remotes' = [remotes EXCEPT ![l] = ClosedBox(remotes[l])]
    BY Zenon, <1>12 DEF Dial
  <2>3. wire' = wire
    BY Zenon, <1>12 DEF Dial
  <2> QED  BY Zenon, <1>5, <1>6, <1>7, <2>1, <2>2, <2>3
<1>13. ASSUME NEW l \in Link, Send(l)
       PROVE  R /\ W
  <2>0. l \in DOMAIN remotes
    <3>1. dialed[l] # "no"
      BY Zenon, <1>13 DEF Send
    <3> QED  BY Zenon, <3>1 DEF Addressed
  <2>1. Popped(remotes[l]) \in Boxes(GoodCalls(l))
        /\ Head(remotes[l].queue) \in GoodCalls(l)
    BY Zenon, <1>1, <1>13, <2>0, BoxOps DEF Send
  <2>2. remotes' = [remotes EXCEPT ![l] = Popped(remotes[l])]
    BY Zenon, <1>13 DEF Send
  <2>3. PICK S : S = GoodCalls(l)
    BY Zenon
  <2>4. Append(wire[l], Head(remotes[l].queue)) \in Seq(S)
    BY Zenon, <1>1, <2>1, <2>3, AppendProperties
  <2>5. \/ wire' = wire
        \/ wire' = [wire EXCEPT ![l] =
                      Append(wire[l], Head(remotes[l].queue))]
    BY Zenon, <1>13 DEF Send
  <2>6. R
    BY Zenon, <1>7, <2>1, <2>2
  <2>7. W
    BY Zenon, <1>6, <1>8, <2>3, <2>4, <2>5
  <2> QED  BY Zenon, <2>6, <2>7
<1>15. ASSUME NEW l \in Link, Break(l)
       PROVE  R /\ W
  <2>1. wire' = [wire EXCEPT ![l] = <<>>] /\ remotes' = remotes
    BY Zenon, <1>15 DEF Break
  <2>2. <<>> \in Seq(GoodCalls(l))
    BY Zenon, EmptySeq
  <2> QED  BY Zenon, <1>5, <1>8, <2>1, <2>2
<1>16. ASSUME NEW l \in Link, Serve(l)
       PROVE  R /\ W
  <2>1. PICK S : S = GoodCalls(l)
    BY Zenon
  <2>2. wire[l] \in Seq(S) /\ wire[l] # <<>>
    BY Zenon, <1>1, <1>16, <2>1 DEF Serve
  <2>3. Tail(wire[l]) \in Seq(S)
    BY Zenon, <2>2, HeadTailProperties
  <2>4. wire' = [wire EXCEPT ![l] = Tail(wire[l])] /\ remotes' = remotes
    BY Zenon, <1>16, <2>2, ServedFirst DEF Serve
  <2> QED  BY Zenon, <1>5, <1>8, <2>1, <2>3, <2>4
<1>17. CASE remotes' = remotes /\ wire' = wire
  BY Zenon, <1>5, <1>6, <1>17
<1> QED
  BY Zenon, <1>9, <1>10, <1>11, <1>12, <1>13, <1>15, <1>16, <1>17
  DEF Next, Progress, TellStep, vars, netVars, StartActor, TellOnly, Query,
      Load, Push, LoadAndDelete, Respond, Receive, RunActor

LEMMA DialStep ==
  ASSUME Addressed, [Next]_vars
  PROVE  /\ DOMAIN dialed' = Link
         /\ \A l \in Link : dialed'[l] # "no" => l \in DOMAIN remotes'
<1> DEFINE Goal == /\ DOMAIN dialed' = Link
                   /\ \A l \in Link :
                        dialed'[l] # "no" => l \in DOMAIN remotes'
<1> SUFFICES Goal
  BY Zenon
<1>1. /\ DOMAIN dialed = Link
      /\ \A l \in Link : dialed[l] # "no" => l \in DOMAIN remotes
  BY Zenon DEF Addressed
<1>2. CASE dialed' = dialed /\ DOMAIN remotes' = DOMAIN remotes
  BY Zenon, <1>1, <1>2
<1>3. ASSUME NEW l \in Link, dialed[l] # "no", NEW new,
             dialed' = [dialed EXCEPT ![l] = new],
             DOMAIN remotes' = DOMAIN remotes
      PROVE  Goal
  BY Zenon, <1>1, <1>3
<1>4. ASSUME NEW th \in Thread, LookUp(th)
      PROVE  Goal
  <2>1. CASE dialed' = dialed /\ remotes' = remotes
    BY Zenon, <1>2, <2>1
  <2>2. CASE ~(dialed' = dialed /\ remotes' = remotes)
    <3>1. PICK l : l = LinkOf(th)
      BY Zenon
    <3>2. /\ DOMAIN remotes' = DOMAIN remotes \cup {l}
          /\ dialed' = [dialed EXCEPT ![l] = "dialing"]
      BY Zenon, <1>4, <2>2, <3>1 DEF LookUp
    <3> QED  BY Zenon, <1>1, <3>2
  <2> QED  BY Zenon, <2>1, <2>2
<1>5. ASSUME NEW l \in Link, Dial(l)
      PROVE  Goal
  BY Zenon, <1>3, <1>5 DEF Dial
<1>6. ASSUME NEW l \in Link, Break(l)
      PROVE  Goal
  BY Zenon, <1>3, <1>6 DEF Break
<1>7. ASSUME NEW l \in Link, Send(l)
      PROVE  Goal
  BY Zenon, <1>2, <1>7 DEF Send
<1>8. ASSUME NEW th \in Thread, PushRemote(th)
      PROVE  Goal
  BY Zenon, <1>2, <1>8 DEF PushRemote
<1>9. ASSUME NEW s \in System, Close(s)
      PROVE  Goal
  BY Zenon, <1>2, <1>9 DEF Close
<1> HIDE DEF Goal
<1> QED
  BY Zenon, <1>2, <1>4, <1>5, <1>6, <1>7, <1>8, <1>9
  DEF Next, Progress, TellStep, vars, netVars, StartActor, TellOnly, Query,
      Load, Push, LoadAndDelete, Respond, Receive, RunActor, Serve

LEMMA WaitingStep ==
  ASSUME Shape, ChannelInv, Addressed, [Next]_vars, NEW p \in Caller
  PROVE  /\ waiting'[p] \in AnyRef \cup {None}
         /\ (waiting[p] = None \/ NotActor(waiting[p]))'
<1> DEFINE Fits(w) == w = None \/ NotActor(w)
<1>1. PICK new, old : new = waiting'[p] /\ old = waiting[p]
  BY Zenon
<1>2. old \in AnyRef \cup {None} /\ Fits(old)
  BY Zenon, <1>1 DEF Addressed
<1>3. Fits(old)'
  BY Zenon, <1>2, RefsStay
<1>4. CASE new = old \/ new = None
  BY Zenon, <1>1, <1>2, <1>3, <1>4
<1>5. ASSUME NEW c \in Caller, Query(c)
      PROVE  new = old \/ (new \in AnyRef /\ NotActor(new)')
  <2>1. PICK ref \in AnyRef : /\ NotActor(ref)'
                             /\ waiting' = [waiting EXCEPT ![c] = ref]
    BY Zenon, <1>5, QueryRef
  <2>2. new = ref \/ new = old
    BY Zenon, <1>1, <2>1 DEF Shape
  <2> QED  BY Zenon, <2>1, <2>2
<1>6. ASSUME NEW c \in Caller, Receive(c)
      PROVE  new = old \/ new = None
  BY Zenon, <1>1, <1>6 DEF Receive, Shape
<1>7. CASE new \in AnyRef /\ NotActor(new)'
  BY Zenon, <1>1, <1>7
<1>8. new = old \/ new = None \/ (new \in AnyRef /\ NotActor(new)')
  BY Zenon, <1>1, <1>5, <1>6
  DEF Next, Progress, TellStep, vars, callVars, StartActor, Close, TellOnly,
      Break, Load, Push, LoadAndDelete, Respond, LookUp, PushRemote, Dial,
      Send, Serve, RunActor
<1> QED  BY Zenon, <1>4, <1>7, <1>8

LEMMA ToldStep ==
  ASSUME Addressed, [Next]_vars
  PROVE  /\ told' \in [Caller -> Nat]
         /\ \A p \in Caller : told[p] <= told'[p]
<1>1. told \in [Caller -> Nat] /\ \A p \in Caller : told[p] <= told[p]
  BY DEF Addressed
<1>2. ASSUME NEW p \in Caller, NEW r, NEW reply, Tell(p, r, reply)
      PROVE  /\ told' \in [Caller -> Nat]
             /\ \A q \in Caller : told[q] <= told'[q]
  BY <1>1, <1>2 DEF Tell
<1> QED
  BY Zenon, <1>1, <1>2
  DEF Next, Progress, TellStep, vars, callVars, StartActor, Close, TellOnly,
      Query, Break, Load, Push, LoadAndDelete, Respond, LookUp, PushRemote,
      Dial, Send, Serve, RunActor, Receive

LEMMA AddressedStep ==
  Shape /\ ChannelInv /\ Addressed /\ [Next]_vars => Addressed'
<1> SUFFICES ASSUME Shape, ChannelInv, Addressed, [Next]_vars
             PROVE  Addressed'
  BY Zenon
<1>1. \A th \in Thread : (telling[th] = None \/ GoodTelling(th, telling[th]))'
  BY Zenon, TellingStep
<1>2. \A p \in Caller : /\ waiting'[p] \in AnyRef \cup {None}
                        /\ (waiting[p] = None \/ NotActor(waiting[p]))'
  BY Zenon, WaitingStep
<1> QED  BY Zenon, <1>1, <1>2, MailStep, NetStep, DialStep, ToldStep
         DEF Addressed

LEMMA AddressedInit == Init => Addressed
<1> SUFFICES ASSUME Init
             PROVE  Addressed
  BY Zenon
<1>1. \A S : <<>> \in Seq(S)
  BY Zenon, EmptySeq
<1>2. mailbox \in [Ref -> Boxes(GoodMsgs)]
      /\ \A r \in Ref : mailbox[r].queue = <<>>
  BY Zenon, NewBox DEF Init
<1>3. DOMAIN remotes = {}
  BY Zenon DEF Init
<1>4. told \in [Caller -> Nat]
  BY DEF Init
<1>5. handled \in [Ref -> Seq(Msgs)] /\ \A r \in Ref : handled[r] = <<>>
  BY Zenon, <1>1 DEF Init
<1>6. /\ DOMAIN wire = Link
      /\ \A l \in Link : wire[l] \in Seq(GoodCalls(l))
  BY Zenon, <1>1 DEF Init
<1> QED  BY Zenon, <1>2, <1>3, <1>4, <1>5, <1>6 DEF Init, Addressed

-----------------------------------------------------------------------------
(* What p tells r, on its way.                                             *)

LEMMA SixOf ==
  ASSUME NEW a, NEW b, NEW c, NEW d, NEW e, NEW f
  PROVE  LET s == <<a, b, c, d, e, f>>
         IN /\ s[1] = a /\ s[2] = b /\ s[3] = c
            /\ s[4] = d /\ s[5] = e /\ s[6] = f
OBVIOUS

LEMMA OneToSix ==
  ASSUME NEW k \in 1 .. 6
  PROVE  k = 1 \/ k = 2 \/ k = 3 \/ k = 4 \/ k = 5 \/ k = 6
OBVIOUS

Server(p, r) == Serving(Way(p, r)[1], Way(p, r)[2])

LEMMA StagesNow ==
  ASSUME NEW p, NEW r
  PROVE  /\ Stages(p, r)[1] = Marks(handled[r], Own(p))
         /\ Stages(p, r)[2] = Marks(mailbox[r].queue, Own(p))
         /\ Stages(p, r)[3] = IF Way(p, r) \in Link
                              THEN InHand(Server(p, r), p, r) ELSE {}
         /\ Stages(p, r)[4] = IF Way(p, r) \in Link
                              THEN Marks(wire[Way(p, r)], OwnCall(p, r))
                              ELSE {}
         /\ Stages(p, r)[5] = IF Way(p, r) \in DOMAIN remotes
                              THEN Marks(remotes[Way(p, r)].queue,
                                         OwnCall(p, r))
                              ELSE {}
         /\ Stages(p, r)[6] = InHand(p, p, r)
BY Zenon, SixOf DEF Stages, Server

LEMMA StagesNext ==
  ASSUME NEW p, NEW r
  PROVE  /\ Stages(p, r)'[1] = Marks(handled'[r], Own(p))
         /\ Stages(p, r)'[2] = Marks(mailbox'[r].queue, Own(p))
         /\ Stages(p, r)'[3] = IF Way(p, r) \in Link
                               THEN InHand(Server(p, r), p, r)' ELSE {}
         /\ Stages(p, r)'[4] = IF Way(p, r) \in Link
                               THEN Marks(wire'[Way(p, r)], OwnCall(p, r))
                               ELSE {}
         /\ Stages(p, r)'[5] = IF Way(p, r) \in DOMAIN remotes'
                               THEN Marks(remotes'[Way(p, r)].queue,
                                          OwnCall(p, r))
                               ELSE {}
         /\ Stages(p, r)'[6] = InHand(p, p, r)'
BY Zenon, SixOf DEF Stages, Server

(* The tell of a goroutine goes on or ends.                                *)
Kept(th) ==
  \/ telling'[th] = telling[th]
  \/ telling'[th] = None
  \/ /\ telling[th] # None
     /\ telling'[th].ref = telling[th].ref /\ telling'[th].m = telling[th].m

LEMMA HandKept ==
  ASSUME NEW th, NEW p, NEW r, Kept(th)
  PROVE  InHand(th, p, r)' \subseteq InHand(th, p, r)
BY Zenon DEF Kept, InHand

(* Nothing is added to what p tells r, or moved.                           *)
QuietMail(r) ==
  handled'[r] = handled[r] /\ mailbox'[r].queue = mailbox[r].queue

QuietLink(l) ==
  /\ l \in Link => wire'[l] = wire[l] \/ wire'[l] = <<>>
  /\ l \in DOMAIN remotes' =>
       \/ l \in DOMAIN remotes /\ remotes'[l].queue = remotes[l].queue
       \/ remotes'[l].queue = <<>>
  /\ l \in Link => Kept(Serving(l[1], l[2]))

LEMMA QuietStages ==
  ASSUME NEW p, NEW r
  PROVE  /\ QuietMail(r) => /\ Stages(p, r)'[1] \subseteq Stages(p, r)[1]
                            /\ Stages(p, r)'[2] \subseteq Stages(p, r)[2]
         /\ QuietLink(Way(p, r)) =>
              /\ Stages(p, r)'[3] \subseteq Stages(p, r)[3]
              /\ Stages(p, r)'[4] \subseteq Stages(p, r)[4]
              /\ Stages(p, r)'[5] \subseteq Stages(p, r)[5]
         /\ Kept(p) => Stages(p, r)'[6] \subseteq Stages(p, r)[6]
<1> DEFINE l == Way(p, r)
           F == Stages(p, r)
           G == Stages(p, r)'
<1>1. /\ F[1] = Marks(handled[r], Own(p)) /\ G[1] = Marks(handled'[r], Own(p))
      /\ F[2] = Marks(mailbox[r].queue, Own(p))
      /\ G[2] = Marks(mailbox'[r].queue, Own(p))
  BY Zenon, StagesNow, StagesNext
<1>2. /\ F[3] = IF l \in Link THEN InHand(Server(p, r), p, r) ELSE {}
      /\ G[3] = IF l \in Link THEN InHand(Server(p, r), p, r)' ELSE {}
      /\ F[6] = InHand(p, p, r) /\ G[6] = InHand(p, p, r)'
  BY Zenon, StagesNow, StagesNext
<1>3. /\ F[4] = IF l \in Link THEN Marks(wire[l], OwnCall(p, r)) ELSE {}
      /\ G[4] = IF l \in Link THEN Marks(wire'[l], OwnCall(p, r)) ELSE {}
  BY Zenon, StagesNow, StagesNext
<1>4. /\ F[5] = IF l \in DOMAIN remotes
                THEN Marks(remotes[l].queue, OwnCall(p, r)) ELSE {}
      /\ G[5] = IF l \in DOMAIN remotes'
                THEN Marks(remotes'[l].queue, OwnCall(p, r)) ELSE {}
  BY Zenon, StagesNow, StagesNext
<1>5. l \in Link /\ QuietLink(l) => Kept(Server(p, r))
  BY Zenon DEF QuietLink, Server
<1> HIDE DEF l, F, G
<1>6. QuietMail(r) => G[1] = F[1] /\ G[2] = F[2]
  BY Zenon, <1>1 DEF QuietMail
<1>7. QuietLink(l) => G[3] \subseteq F[3]
  BY Zenon, <1>2, <1>5, HandKept
<1>8. QuietLink(l) => G[4] = F[4] \/ G[4] = {}
  BY Zenon, <1>3, MarksEmpty DEF QuietLink
<1>9. QuietLink(l) => G[5] = F[5] \/ G[5] = {}
  BY Zenon, <1>4, MarksEmpty DEF QuietLink
<1>10. Kept(p) => G[6] \subseteq F[6]
  BY Zenon, <1>2, HandKept
<1> QED  BY Zenon, <1>6, <1>7, <1>8, <1>9, <1>10 DEF l, F, G

LEMMA LessStages ==
  ASSUME Addressed, [Next]_vars, NEW p \in Caller, NEW r,
         Ordered(Stages(p, r), told[p]),
         \A k \in 1 .. 6 : Stages(p, r)'[k] \subseteq Stages(p, r)[k]
  PROVE  Ordered(Stages(p, r)', told'[p])
<1>1. told[p] \in Nat /\ told'[p] \in Nat /\ told[p] <= told'[p]
  BY Zenon, ToldStep DEF Addressed
<1>2. PICK F, G, n, o : /\ F = Stages(p, r) /\ G = Stages(p, r)'
                        /\ n = told[p] /\ o = told'[p]
  BY Zenon
<1>3. Ordered(G, o)
  BY Zenon, <1>1, <1>2, LessOrdered
<1> QED  BY Zenon, <1>2, <1>3

LEMMA QuietOrder ==
  ASSUME Addressed, [Next]_vars, NEW p \in Caller, NEW r,
         Ordered(Stages(p, r), told[p]),
         QuietMail(r), QuietLink(Way(p, r)), Kept(p)
  PROVE  Ordered(Stages(p, r)', told'[p])
BY Zenon, QuietStages, OneToSix, LessStages

(* The threads that take part are different ones.                          *)
LEMMA Apart ==
  /\ \A p \in Caller : p \in Thread /\ p \notin Ref
  /\ \A r \in Ref : r \in Thread
  /\ \A l \in Link : /\ Serving(l[1], l[2]) \in Thread
                     /\ Serving(l[1], l[2]) \notin Ref
                     /\ Serving(l[1], l[2]) \notin Caller
  /\ \A k, l \in Link : Serving(k[1], k[2]) = Serving(l[1], l[2]) => k = l
<1>1. \A l \in Link : Serving(l[1], l[2]) \notin Ref
  BY DEF Serving, Ref
<1>2. \A k, l \in Link : Serving(k[1], k[2]) = Serving(l[1], l[2]) => k = l
  BY DEF Serving, Link
<1>3. \A p \in Caller : p \in Thread /\ p \notin Ref
  BY Zenon, CallerAssumption DEF Thread
<1>4. \A l \in Link : /\ Serving(l[1], l[2]) \in Thread
                      /\ Serving(l[1], l[2]) \notin Caller
  BY Zenon, CallerAssumption DEF Thread
<1>5. \A r \in Ref : r \in Thread
  BY Zenon DEF Thread
<1> QED  BY Zenon, <1>1, <1>2, <1>3, <1>4, <1>5

LEMMA KeptOthers ==
  ASSUME Shape, NEW u, NEW t, telling' = [telling EXCEPT ![u] = t],
         NEW th \in Thread, th # u
  PROVE  Kept(th)
BY Zenon DEF Kept, Shape

LEMMA OwnNumber ==
  \A p : \A m \in Msgs : /\ m.from = p <=> m \in DOMAIN Own(p)
                         /\ m.from = p => Own(p)[m] = m.n
BY Zenon DEF Own

LEMMA StagePairs ==
  ASSUME NEW p, NEW r, NEW k \in 1 .. 6, NEW x \in Stages(p, r)'[k]
  PROVE  x = <<x[1], x[2]>>
<1> DEFINE G == Stages(p, r)'
           Pairs(T) == \A y \in T : y = <<y[1], y[2]>>
<1>1. /\ \A q, g : Pairs(Marks(q, g))
      /\ Pairs({})
  BY DEF Marks
<1>2. \A th : Pairs(InHand(th, p, r)')
  <2>1. \A n : \A y \in {<<1, n>>} : y = <<y[1], y[2]>>
    OBVIOUS
  <2> QED  BY Zenon, <2>1 DEF InHand
<1>3. /\ G[1] = Marks(handled'[r], Own(p))
      /\ G[2] = Marks(mailbox'[r].queue, Own(p))
      /\ G[6] = InHand(p, p, r)'
      /\ G[3] = {} \/ G[3] = InHand(Server(p, r), p, r)'
      /\ G[4] = {} \/ G[4] = Marks(wire'[Way(p, r)], OwnCall(p, r))
      /\ G[5] = {} \/ G[5] = Marks(remotes'[Way(p, r)].queue, OwnCall(p, r))
  BY Zenon, StagesNext
<1> HIDE DEF G, Pairs
<1>4. Pairs(G[1]) /\ Pairs(G[2])
  BY Zenon, <1>1, <1>3
<1>5. Pairs(G[3]) /\ Pairs(G[6])
  BY Zenon, <1>1, <1>2, <1>3
<1>6. Pairs(G[4]) /\ Pairs(G[5])
  BY Zenon, <1>1, <1>3
<1>7. Pairs(G[k])
  BY Zenon, <1>4, <1>5, <1>6, OneToSix
<1> QED  BY Zenon, <1>7 DEF G, Pairs

(* The first of stage b has become the last of stage a.                    *)
LEMMA MovedStages ==
  ASSUME Addressed, NEW p \in Caller, NEW r,
         Ordered(Stages(p, r), told[p]), told' = told,
         NEW a \in 1 .. 6, NEW b \in 1 .. 6, a < b, NEW z \in Nat \ {0},
         \A k \in 1 .. 6 : k # a /\ k # b =>
           Stages(p, r)'[k] \subseteq Stages(p, r)[k],
         \A k \in 1 .. 6 : a < k /\ k < b => Stages(p, r)[k] = {},
         \A x \in Stages(p, r)'[b] :
           x[1] \in Nat \ {0} /\ <<x[1] + 1, x[2]>> \in Stages(p, r)[b],
         \A x \in Stages(p, r)[a] : x[1] < z,
         \A x \in Stages(p, r)'[a] :
           \/ x \in Stages(p, r)[a]
           \/ x[1] = z /\ <<1, x[2]>> \in Stages(p, r)[b]
  PROVE  Ordered(Stages(p, r)', told'[p])
<1>1. PICK F, G, n : F = Stages(p, r) /\ G = Stages(p, r)' /\ n = told[p]
  BY Zenon
<1>2. n \in Nat
  BY Zenon, <1>1 DEF Addressed
<1>3. \A k \in 1 .. 6 : \A x \in G[k] : x = <<x[1], x[2]>>
  BY Zenon, <1>1, StagePairs
<1>4. Ordered(G, n)
  <2>1. /\ Ordered(F, n)
        /\ \A k \in 1 .. 6 : k # a /\ k # b => G[k] \subseteq F[k]
        /\ \A k \in 1 .. 6 : a < k /\ k < b => F[k] = {}
        /\ \A x \in G[b] : x[1] \in Nat \ {0} /\ <<x[1] + 1, x[2]>> \in F[b]
        /\ \A x \in F[a] : x[1] < z
        /\ \A x \in G[a] : x \in F[a] \/ (x[1] = z /\ <<1, x[2]>> \in F[b])
    BY Zenon, <1>1
  <2> QED  BY Zenon, <1>2, <1>3, <2>1, MovedOrdered
<1> QED  BY Zenon, <1>1, <1>4

LEMMA RunOrder ==
  ASSUME Shape, Addressed, NEW p \in Caller, NEW r \in Ref,
         Ordered(Stages(p, r), told[p]), RunActor(r)
  PROVE  Ordered(Stages(p, r)', told'[p])
<1>1. PICK q, h, m, g : /\ q = mailbox[r].queue /\ h = handled[r]
                        /\ m = Head(q) /\ g = Own(p)
  BY Zenon
<1>2. /\ mailbox[r] \in Boxes(GoodMsgs) /\ h \in Seq(Msgs)
      /\ CanPop(mailbox[r])
  BY Zenon, <1>1 DEF Addressed, RunActor
<1>3. q \in Seq(GoodMsgs) /\ q # <<>> /\ m \in GoodMsgs
      /\ Popped(mailbox[r]).queue = Tail(q)
  BY Zenon, <1>1, <1>2, BoxOps DEF Boxes
<1>4. m \in Msgs
  BY Zenon, <1>3 DEF GoodMsgs
<1>5. /\ mailbox'[r].queue = Tail(q) /\ handled'[r] = Append(h, m)
      /\ wire' = wire /\ remotes' = remotes /\ told' = told
  BY Zenon, <1>1, <1>3 DEF RunActor, Addressed, netVars, callVars
<1>6. \A th \in Thread : th # r => Kept(th)
  BY Zenon, KeptOthers DEF RunActor
<1>7. Kept(p) /\ QuietLink(Way(p, r))
  BY Zenon, <1>5, <1>6, Apart DEF QuietLink
<1> DEFINE F == Stages(p, r)
           G == Stages(p, r)'
<1>8. F[1] = Marks(h, g) /\ G[1] = Marks(Append(h, m), g)
  <2>1. F[1] = Marks(handled[r], Own(p)) /\ G[1] = Marks(handled'[r], Own(p))
    BY Zenon, StagesNow, StagesNext
  <2> QED  BY Zenon, <1>1, <1>5, <2>1
<1>9. F[2] = Marks(q, g) /\ G[2] = Marks(Tail(q), g)
  <2>1. /\ F[2] = Marks(mailbox[r].queue, Own(p))
        /\ G[2] = Marks(mailbox'[r].queue, Own(p))
    BY Zenon, StagesNow, StagesNext
  <2> QED  BY Zenon, <1>1, <1>5, <2>1
<1>10. /\ G[3] \subseteq F[3] /\ G[4] \subseteq F[4]
       /\ G[5] \subseteq F[5] /\ G[6] \subseteq F[6]
  BY Zenon, <1>7, QuietStages
<1>11. m \in DOMAIN g => <<1, g[m]>> \in Marks(q, g)
  BY Zenon, <1>1, <1>3, MarksTail
<1>12. \A x \in Marks(Tail(q), g) :
         x[1] \in Nat \ {0} /\ <<x[1] + 1, x[2]>> \in Marks(q, g)
  BY Zenon, <1>3, MarksTail
<1>13. /\ Len(h) + 1 \in Nat \ {0}
       /\ \A x \in Marks(h, g) : x[1] < Len(h) + 1
       /\ \A x \in Marks(Append(h, m), g) :
            \/ x \in Marks(h, g)
            \/ m \in DOMAIN g /\ x[1] = Len(h) + 1 /\ x[2] = g[m]
  <2>1. h \in Seq(Msgs)
    BY Zenon, <1>2
  <2>2. Len(h) + 1 \in Nat \ {0} /\ \A x \in Marks(h, g) : x[1] < Len(h) + 1
    BY Zenon, <1>4, <2>1, MarksAppend
  <2>3. \A x \in Marks(Append(h, m), g) :
          \/ x \in Marks(h, g)
          \/ m \in DOMAIN g /\ x[1] = Len(h) + 1 /\ x[2] = g[m]
    BY <1>4, <2>1, MarksAppend
  <2> QED  BY Zenon, <2>2, <2>3
<1> HIDE DEF F, G
<1>15. \A x \in G[1] :
         x \in F[1] \/ (x[1] = Len(h) + 1 /\ <<1, x[2]>> \in F[2])
  BY Zenon, <1>8, <1>9, <1>11, <1>13
<1>16. \A x \in G[2] : x[1] \in Nat \ {0} /\ <<x[1] + 1, x[2]>> \in F[2]
  BY Zenon, <1>9, <1>12
<1>17. \A x \in F[1] : x[1] < Len(h) + 1
  BY Zenon, <1>8, <1>13
<1>18. \A k \in 1 .. 6 : k # 1 /\ k # 2 => G[k] \subseteq F[k]
  BY Zenon, <1>10, OneToSix
<1>19. \A k \in 1 .. 6 : ~(1 < k /\ k < 2)
  OBVIOUS
<1>20. 1 \in 1 .. 6 /\ 2 \in 1 .. 6 /\ 1 < 2
  OBVIOUS
<1> QED  BY ZenonT(30), <1>5, <1>13, <1>15, <1>16, <1>17, <1>18, <1>19, <1>20,
            MovedStages DEF F, G

LEMMA PushOrder ==
  ASSUME Shape, Addressed, [Next]_vars, NEW p \in Caller, NEW r \in Ref,
         Ordered(Stages(p, r), told[p]), NEW th \in Thread, Push(th)
  PROVE  Ordered(Stages(p, r)', told'[p])
<1>1. PICK t, m, q, g : /\ t = telling[th] /\ m = t.m
                        /\ q = mailbox[r].queue /\ g = Own(p)
  BY Zenon
<1>2. /\ t # None /\ GoodTelling(th, t) /\ Actor(t.ref) /\ m \in GoodMsgs
      /\ Address(t.ref) = SystemOf(th)
  BY Zenon, <1>1, PushTo
<1>3. /\ mailbox' = [mailbox EXCEPT ![t.ref] = Pushed(mailbox[t.ref], m)]
      /\ telling' = [telling EXCEPT ![th] = None]
      /\ wire' = wire /\ remotes' = remotes /\ told' = told
      /\ handled' = handled
  BY Zenon, <1>1 DEF Push, Done, netVars, callVars
<1>4. telling'[th] = None /\ \A u \in Thread : Kept(u)
  <2>1. telling'[th] = None
    BY Zenon, <1>3 DEF Shape
  <2> QED  BY Zenon, <1>3, <2>1, KeptOthers DEF Kept
<1>5. Kept(p) /\ QuietLink(Way(p, r))
  BY Zenon, <1>3, <1>4, Apart DEF QuietLink
<1>6. mailbox \in [Ref -> Boxes(GoodMsgs)] /\ q \in Seq(GoodMsgs)
  BY Zenon, <1>1 DEF Addressed, Boxes
<1>7. CASE t.ref # r \/ ~mailbox[r].open
  <2>1. mailbox'[r] = mailbox[r]
    BY Zenon, <1>3, <1>6, <1>7 DEF Pushed
  <2>2. QuietMail(r)
    BY Zenon, <1>3, <2>1 DEF QuietMail
  <2> QED  BY Zenon, <1>5, <2>2, QuietOrder
<1>8. CASE t.ref = r /\ mailbox[r].open
  <2> DEFINE F == Stages(p, r)
             G == Stages(p, r)'
  <2>1. mailbox'[r].queue = Append(q, m)
    <3>1. mailbox'[r] = Pushed(mailbox[r], m)
      BY Zenon, <1>3, <1>6, <1>8
    <3>2. Pushed(mailbox[r], m).queue = Append(mailbox[r].queue, m)
      BY <1>8 DEF Pushed, Box
    <3> QED  BY Zenon, <1>1, <3>1, <3>2
  <2>2. F[2] = Marks(q, g) /\ G[2] = Marks(Append(q, m), g)
    <3>1. /\ F[2] = Marks(mailbox[r].queue, Own(p))
          /\ G[2] = Marks(mailbox'[r].queue, Own(p))
      BY Zenon, StagesNow, StagesNext
    <3> QED  BY Zenon, <1>1, <2>1, <3>1
  <2>3. /\ G[3] \subseteq F[3] /\ G[4] \subseteq F[4]
        /\ G[5] \subseteq F[5] /\ G[6] \subseteq F[6]
    BY Zenon, <1>5, QuietStages
  <2>4. G[1] \subseteq F[1]
    <3>1. F[1] = Marks(handled[r], Own(p)) /\ G[1] = Marks(handled'[r], Own(p))
      BY Zenon, StagesNow, StagesNext
    <3> QED  BY Zenon, <1>3, <3>1
  <2>5. Len(q) + 1 \in Nat \ {0} /\ \A x \in Marks(q, g) : x[1] < Len(q) + 1
    BY Zenon, <1>2, <1>6, MarksAppend
  <2>6. \A x \in Marks(Append(q, m), g) :
          \/ x \in Marks(q, g)
          \/ m \in DOMAIN g /\ x[1] = Len(q) + 1 /\ x[2] = g[m]
    BY <1>2, <1>6, MarksAppend
  <2>7. /\ m.from = p <=> m \in DOMAIN g
        /\ m.from = p => g[m] = m.n
    BY Zenon, <1>1, <1>2, OwnNumber DEF GoodMsgs
  <2>8. CASE m.from # p
    <3>1. G[2] \subseteq F[2]
      BY Zenon, <2>2, <2>6, <2>7, <2>8
    <3> HIDE DEF F, G
    <3>2. \A k \in 1 .. 6 : G[k] \subseteq F[k]
      BY Zenon, <2>3, <2>4, <3>1, OneToSix
    <3> QED  BY Zenon, <3>2, LessStages DEF F, G
  <2>9. ASSUME m.from = p, NEW b \in {3, 6}, G[b] = {}, <<1, m.n>> \in F[b],
               \A k \in 1 .. 6 : 2 < k /\ k < b => F[k] = {}
        PROVE  Ordered(G, told'[p])
    <3> HIDE DEF F, G
    <3>1. 2 \in 1 .. 6 /\ b \in 1 .. 6 /\ 2 < b
      BY <2>9
    <3>2. \A k \in 1 .. 6 : k # 2 /\ k # b => G[k] \subseteq F[k]
      BY Zenon, <2>3, <2>4, OneToSix
    <3>3. \A x \in G[2] :
            x \in F[2] \/ (x[1] = Len(q) + 1 /\ <<1, x[2]>> \in F[b])
      BY Zenon, <2>2, <2>6, <2>7, <2>9
    <3>4. \A x \in F[2] : x[1] < Len(q) + 1
      BY Zenon, <2>2, <2>5
    <3>5. \A x \in G[b] : x[1] \in Nat \ {0} /\ <<x[1] + 1, x[2]>> \in F[b]
      BY Zenon, <2>9
    <3>6. \A k \in 1 .. 6 : 2 < k /\ k < b => F[k] = {}
      BY Zenon, <2>9
    <3>7. told' = told /\ Len(q) + 1 \in Nat \ {0}
      BY Zenon, <1>3, <2>5
    <3> QED  BY ZenonT(30), <3>1, <3>2, <3>3, <3>4, <3>5, <3>6, <3>7,
                MovedStages DEF F, G
  <2>10. /\ telling[th] # None /\ telling[th].ref = r
         /\ telling[th].m.from = m.from /\ telling[th].m.n = m.n
    BY Zenon, <1>1, <1>2, <1>8
  <2>13. m.from = p => <<1, m.n>> \in InHand(th, p, r)
    BY Zenon, <2>10 DEF InHand
  <2>14. InHand(th, p, r)' = {}
    BY Zenon, <1>4 DEF InHand
  <2>11. CASE m.from = p /\ th = p
    <3>1. G[6] = {} /\ <<1, m.n>> \in F[6]
      <4>1. F[6] = InHand(p, p, r) /\ G[6] = InHand(p, p, r)'
        BY Zenon, StagesNow, StagesNext
      <4> QED  BY Zenon, <2>11, <2>13, <2>14, <4>1
    <3>2. Way(p, r) \notin Link
      <4>1. Home[p] = Address(r)
        BY Zenon, <1>2, <1>8, <2>11, SystemOfThread
      <4> QED  BY <4>1 DEF Way, Link
    <3>3. F[3] = {} /\ F[4] = {} /\ F[5] = {}
      <4>1. Way(p, r) \notin DOMAIN remotes
        BY Zenon, <3>2 DEF Addressed
      <4> QED  BY Zenon, <3>2, <4>1, StagesNow
    <3> HIDE DEF F, G
    <3>4. \A k \in 1 .. 6 : 2 < k /\ k < 6 => F[k] = {}
      <4>1. \A k \in 1 .. 6 : 2 < k /\ k < 6 => k \in {3, 4, 5}
        OBVIOUS
      <4> QED  BY Zenon, <3>3, <4>1
    <3>5. Ordered(G, told'[p])
      BY Zenon, <2>9, <2>11, <3>1, <3>4
    <3> QED  BY Zenon, <3>5 DEF G
  <2>12. CASE m.from = p /\ th # p
    <3>1. Way(p, r) \in Link /\ th = Server(p, r)
      <4>1. \E l \in Link : /\ l = Way(t.m.from, t.ref)
                            /\ th = Serving(l[1], l[2])
        BY Zenon, <1>1, <1>2, <2>12 DEF GoodTelling, Actor, NotActor
      <4> QED  BY Zenon, <1>1, <1>8, <2>12, <4>1 DEF Server
    <3>2. G[3] = {} /\ <<1, m.n>> \in F[3]
      <4>1. /\ F[3] = InHand(Server(p, r), p, r)
            /\ G[3] = InHand(Server(p, r), p, r)'
        BY Zenon, <3>1, StagesNow, StagesNext
      <4>2. F[3] = InHand(th, p, r) /\ G[3] = InHand(th, p, r)'
        <5>1. PICK u : u = Server(p, r)
          BY Zenon
        <5> QED  BY Zenon, <3>1, <4>1, <5>1
      <4> QED  BY Zenon, <2>12, <2>13, <2>14, <4>2
    <3> HIDE DEF F, G
    <3>3. \A k \in 1 .. 6 : ~(2 < k /\ k < 3)
      OBVIOUS
    <3>4. Ordered(G, told'[p])
      BY Zenon, <2>9, <2>12, <3>2, <3>3
    <3> QED  BY Zenon, <3>4 DEF G
  <2> QED  BY Zenon, <2>8, <2>11, <2>12
<1> QED  BY Zenon, <1>7, <1>8

LEMMA ServeOrder ==
  ASSUME Shape, Addressed, [Next]_vars, NEW p \in Caller, NEW r \in Ref,
         Ordered(Stages(p, r), told[p]), NEW k \in Link, Serve(k)
  PROVE  Ordered(Stages(p, r)', told'[p])
<1>1. PICK q, c, sv, l : /\ q = wire[k] /\ c = Head(q) /\ l = Way(p, r)
                         /\ sv = Serving(k[1], k[2])
  BY Zenon
<1>2. PICK S : S = GoodCalls(k)
  BY Zenon
<1>3. q \in Seq(S) /\ q # <<>> /\ DOMAIN wire = Link
  BY Zenon, <1>1, <1>2 DEF Addressed, Serve
<1>4. RemoveAt(q, NextCall(q)) = Tail(q) /\ q[NextCall(q)] = c
  BY Zenon, <1>1, <1>3, ServedFirst
<1>5. /\ telling[sv] = None
      /\ telling' = [telling EXCEPT ![sv] = Telling("tell", c.ref, c.m)]
      /\ wire' = [wire EXCEPT ![k] = Tail(q)]
      /\ remotes' = remotes /\ told' = told
      /\ handled' = handled /\ mailbox' = mailbox
  BY Zenon, <1>1, <1>4 DEF Serve, callVars
<1>6. Kept(p) /\ QuietMail(r)
  <2>1. p \in Thread /\ p # sv
    BY Zenon, <1>1, Apart
  <2> QED  BY Zenon, <1>5, <2>1, KeptOthers DEF QuietMail
<1>7. CASE k # l
  <2>1. l \in Link => Kept(Serving(l[1], l[2]))
    BY Zenon, <1>1, <1>5, <1>7, Apart, KeptOthers
  <2>2. l \in Link => wire'[l] = wire[l]
    BY Zenon, <1>3, <1>5, <1>7
  <2>3. QuietLink(l)
    BY Zenon, <1>5, <2>1, <2>2 DEF QuietLink
  <2> QED  BY Zenon, <1>1, <1>6, <2>3, QuietOrder
<1>8. CASE k = l
  <2> DEFINE F == Stages(p, r)
             G == Stages(p, r)'
             g == OwnCall(p, r)
  <2>0. Way(p, r) \in Link /\ Way(p, r) = k /\ Server(p, r) = sv
    BY Zenon, <1>1, <1>8 DEF Server
  <2>1. F[4] = Marks(q, g) /\ G[4] = Marks(Tail(q), g)
    <3>1. /\ F[4] = Marks(wire[Way(p, r)], OwnCall(p, r))
          /\ G[4] = Marks(wire'[Way(p, r)], OwnCall(p, r))
      BY Zenon, <2>0, StagesNow, StagesNext
    <3>2. wire[Way(p, r)] = q /\ wire'[Way(p, r)] = Tail(q)
      BY Zenon, <1>1, <1>3, <1>5, <2>0
    <3> QED  BY Zenon, <3>1, <3>2
  <2>2. F[3] = InHand(sv, p, r) /\ G[3] = InHand(sv, p, r)'
    <3>1. /\ F[3] = InHand(Server(p, r), p, r)
          /\ G[3] = InHand(Server(p, r), p, r)'
      BY Zenon, <2>0, StagesNow, StagesNext
    <3>2. PICK u : u = Server(p, r)
      BY Zenon
    <3> QED  BY Zenon, <2>0, <3>1, <3>2
  <2>3. F[3] = {}
    BY Zenon, <1>5, <2>2 DEF InHand
  <2>4. /\ G[1] \subseteq F[1] /\ G[2] \subseteq F[2] /\ G[6] \subseteq F[6]
    BY Zenon, <1>6, QuietStages
  <2>5. G[5] \subseteq F[5]
    <3>1. /\ F[5] = IF k \in DOMAIN remotes
                    THEN Marks(remotes[k].queue, g) ELSE {}
          /\ G[5] = IF k \in DOMAIN remotes'
                    THEN Marks(remotes'[k].queue, g) ELSE {}
      BY Zenon, <2>0, StagesNow, StagesNext
    <3>2. DOMAIN remotes' = DOMAIN remotes /\ remotes'[k] = remotes[k]
      BY Zenon, <1>5
    <3>3. G[5] = F[5]
      BY <3>1, <3>2
    <3> QED  BY Zenon, <3>3
  <2>6. c \in Calls
    <3>1. c \in S
      BY Zenon, <1>1, <1>3, HeadTailProperties
    <3> QED  BY Zenon, <1>2, <3>1 DEF GoodCalls
  <2>7. /\ \A x \in Marks(Tail(q), g) :
             x[1] \in Nat \ {0} /\ <<x[1] + 1, x[2]>> \in Marks(q, g)
        /\ c \in DOMAIN g => <<1, g[c]>> \in Marks(q, g)
    BY Zenon, <1>1, <1>3, MarksTail
  <2>8. \A x \in G[3] : x[1] = 1 /\ c.ref = r /\ c.m.from = p /\ x[2] = c.m.n
    <3>1. telling'[sv] = Telling("tell", c.ref, c.m)
      BY Zenon, <1>1, <1>5, Apart DEF Shape
    <3>2. telling'[sv].ref = c.ref /\ telling'[sv].m = c.m
      BY <3>1 DEF Telling
    <3>3. \A x \in G[3] : x = <<1, c.m.n>> /\ c.ref = r /\ c.m.from = p
      BY Zenon, <2>2, <3>2 DEF InHand
    <3> QED  BY <3>3
  <2>9. c.ref = r /\ c.m.from = p => <<1, c.m.n>> \in Marks(q, g)
    <3>1. c.ref = r /\ c.m.from = p => c \in DOMAIN g /\ g[c] = c.m.n
      BY Zenon, <2>6 DEF OwnCall
    <3> QED  BY Zenon, <2>7, <3>1
  <2> HIDE DEF F, G, g
  <2>10. \A x \in G[3] : x \in F[3] \/ (x[1] = 1 /\ <<1, x[2]>> \in F[4])
    BY Zenon, <2>1, <2>8, <2>9
  <2>11. \A x \in G[4] : x[1] \in Nat \ {0} /\ <<x[1] + 1, x[2]>> \in F[4]
    BY Zenon, <2>1, <2>7
  <2>12. \A x \in F[3] : x[1] < 1
    BY Zenon, <2>3
  <2>13. \A j \in 1 .. 6 : j # 3 /\ j # 4 => G[j] \subseteq F[j]
    BY Zenon, <2>4, <2>5, OneToSix
  <2>14. \A j \in 1 .. 6 : 3 < j /\ j < 4 => F[j] = {}
    <3>1. \A j \in 1 .. 6 : ~(3 < j /\ j < 4)
      OBVIOUS
    <3> QED  BY Zenon, <3>1
  <2>15. 3 \in 1 .. 6 /\ 4 \in 1 .. 6 /\ 3 < 4 /\ 1 \in Nat \ {0}
    OBVIOUS
  <2>16. told' = told
    BY Zenon, <1>5
  <2>17. PICK a \in 1 .. 6, b \in 1 .. 6 : a = 3 /\ b = 4 /\ a < b
    BY Zenon, <2>15
  <2>18. /\ \A j \in 1 .. 6 : j # a /\ j # b => G[j] \subseteq F[j]
         /\ \A j \in 1 .. 6 : a < j /\ j < b => F[j] = {}
         /\ \A x \in G[b] : x[1] \in Nat \ {0} /\ <<x[1] + 1, x[2]>> \in F[b]
         /\ \A x \in F[a] : x[1] < 1
         /\ \A x \in G[a] : x \in F[a] \/ (x[1] = 1 /\ <<1, x[2]>> \in F[b])
    BY Zenon, <2>10, <2>11, <2>12, <2>13, <2>14, <2>17
  <2>19. a < b /\ 1 \in Nat \ {0}
    BY Zenon, <2>15, <2>17
  <2> QED  BY Zenon, <2>16, <2>18, <2>19, MovedStages DEF F, G
<1> QED  BY Zenon, <1>7, <1>8

LEMMA SendOrder ==
  ASSUME Shape, Addressed, [Next]_vars, NEW p \in Caller, NEW r \in Ref,
         Ordered(Stages(p, r), told[p]), NEW k \in Link, Send(k)
  PROVE  Ordered(Stages(p, r)', told'[p])
<1>1. PICK q, w, c, l : /\ q = remotes[k].queue /\ w = wire[k] /\ c = Head(q)
                        /\ l = Way(p, r)
  BY Zenon
<1>2. PICK S : S = GoodCalls(k)
  BY Zenon
<1>3. k \in DOMAIN remotes
  <2>1. dialed[k] # "no"
    BY Zenon DEF Send
  <2> QED  BY Zenon, <2>1 DEF Addressed
<1>4. /\ DOMAIN wire = Link /\ w \in Seq(S) /\ remotes[k] \in Boxes(S)
      /\ CanPop(remotes[k])
  BY Zenon, <1>1, <1>2, <1>3 DEF Addressed, Send
<1>5. q \in Seq(S) /\ q # <<>> /\ c \in S /\ Popped(remotes[k]).queue = Tail(q)
  BY Zenon, <1>1, <1>4, BoxOps DEF Boxes
<1>6. /\ wire' = wire \/ wire' = [wire EXCEPT ![k] = Append(w, c)]
      /\ remotes' = [remotes EXCEPT ![k] = Popped(remotes[k])]
      /\ telling' = telling /\ told' = told
      /\ handled' = handled /\ mailbox' = mailbox
  BY Zenon, <1>1 DEF Send, callVars
<1>7. (\A th : Kept(th)) /\ QuietMail(r)
  BY Zenon, <1>6 DEF QuietMail, Kept
<1>8. CASE k # l
  <2>1. l \in Link => wire'[l] = wire[l]
    BY Zenon, <1>4, <1>6, <1>8
  <2>2. l \in DOMAIN remotes' =>
          l \in DOMAIN remotes /\ remotes'[l] = remotes[l]
    BY Zenon, <1>6, <1>8
  <2>3. QuietLink(l)
    BY Zenon, <1>7, <2>1, <2>2 DEF QuietLink
  <2> QED  BY Zenon, <1>1, <1>7, <2>3, QuietOrder
<1>9. CASE k = l
  <2> DEFINE F == Stages(p, r)
             G == Stages(p, r)'
             g == OwnCall(p, r)
             z == Len(w) + 1
  <2>0. Way(p, r) \in Link /\ Way(p, r) = k
    BY Zenon, <1>1, <1>9
  <2>1. /\ F[4] = Marks(w, g)
        /\ G[4] = Marks(w, g) \/ G[4] = Marks(Append(w, c), g)
    <3>1. /\ F[4] = Marks(wire[Way(p, r)], OwnCall(p, r))
          /\ G[4] = Marks(wire'[Way(p, r)], OwnCall(p, r))
      BY Zenon, <2>0, StagesNow, StagesNext
    <3>2. /\ wire[Way(p, r)] = w
          /\ wire'[Way(p, r)] = w \/ wire'[Way(p, r)] = Append(w, c)
      BY Zenon, <1>1, <1>4, <1>6, <2>0
    <3> QED  BY Zenon, <3>1, <3>2
  <2>2. F[5] = Marks(q, g) /\ G[5] = Marks(Tail(q), g)
    <3>0. /\ k \in DOMAIN remotes'
          /\ remotes'[k].queue = Tail(q) /\ remotes[k].queue = q
      BY Zenon, <1>1, <1>3, <1>5, <1>6
    <3>1. /\ F[5] = IF k \in DOMAIN remotes
                    THEN Marks(remotes[k].queue, g) ELSE {}
          /\ G[5] = IF k \in DOMAIN remotes'
                    THEN Marks(remotes'[k].queue, g) ELSE {}
      BY Zenon, <2>0, StagesNow, StagesNext
    <3> QED  BY Zenon, <1>3, <3>0, <3>1
  <2>3. /\ G[1] \subseteq F[1] /\ G[2] \subseteq F[2] /\ G[6] \subseteq F[6]
    BY Zenon, <1>7, QuietStages
  <2>4. G[3] \subseteq F[3]
    <3>1. /\ F[3] = InHand(Server(p, r), p, r)
          /\ G[3] = InHand(Server(p, r), p, r)'
      BY Zenon, <2>0, StagesNow, StagesNext
    <3> QED  BY Zenon, <1>7, <3>1, HandKept
  <2>5. c \in Calls
    BY Zenon, <1>2, <1>5 DEF GoodCalls
  <2>6. /\ \A x \in Marks(Tail(q), g) :
             x[1] \in Nat \ {0} /\ <<x[1] + 1, x[2]>> \in Marks(q, g)
        /\ c \in DOMAIN g => <<1, g[c]>> \in Marks(q, g)
    BY Zenon, <1>1, <1>5, MarksTail
  <2>7. z \in Nat \ {0} /\ \A x \in Marks(w, g) : x[1] < z
    BY Zenon, <1>4, <1>5, MarksAppend
  <2>8. \A x \in Marks(Append(w, c), g) :
          \/ x \in Marks(w, g)
          \/ c \in DOMAIN g /\ x[1] = z /\ x[2] = g[c]
    BY <1>4, <1>5, MarksAppend
  <2> HIDE DEF F, G, g, z
  <2>9. \A x \in G[4] : x \in F[4] \/ (x[1] = z /\ <<1, x[2]>> \in F[5])
    BY Zenon, <2>1, <2>2, <2>6, <2>8
  <2>10. \A x \in G[5] : x[1] \in Nat \ {0} /\ <<x[1] + 1, x[2]>> \in F[5]
    BY Zenon, <2>2, <2>6
  <2>11. \A x \in F[4] : x[1] < z
    BY Zenon, <2>1, <2>7
  <2>12. \A j \in 1 .. 6 : j # 4 /\ j # 5 => G[j] \subseteq F[j]
    BY Zenon, <2>3, <2>4, OneToSix
  <2>13. \A j \in 1 .. 6 : 4 < j /\ j < 5 => F[j] = {}
    <3>1. \A j \in 1 .. 6 : ~(4 < j /\ j < 5)
      OBVIOUS
    <3> QED  BY Zenon, <3>1
  <2>14. 4 \in 1 .. 6 /\ 5 \in 1 .. 6 /\ 4 < 5
    OBVIOUS
  <2>15. told' = told /\ z \in Nat \ {0}
    BY Zenon, <1>6, <2>7
  <2>16. PICK a \in 1 .. 6, b \in 1 .. 6 : a = 4 /\ b = 5 /\ a < b
    BY Zenon, <2>14
  <2>17. /\ \A j \in 1 .. 6 : j # a /\ j # b => G[j] \subseteq F[j]
         /\ \A j \in 1 .. 6 : a < j /\ j < b => F[j] = {}
         /\ \A x \in G[b] : x[1] \in Nat \ {0} /\ <<x[1] + 1, x[2]>> \in F[b]
         /\ \A x \in F[a] : x[1] < z
         /\ \A x \in G[a] : x \in F[a] \/ (x[1] = z /\ <<1, x[2]>> \in F[b])
    BY Zenon, <2>9, <2>10, <2>11, <2>12, <2>13, <2>16
  <2>18. a < b
    BY Zenon, <2>16
  <2> QED  BY ZenonT(30), <2>15, <2>17, <2>18, MovedStages DEF F, G
<1> QED  BY Zenon, <1>8, <1>9

LEMMA PushRemoteOrder ==
  ASSUME Shape, Addressed, [Next]_vars, NEW p \in Caller, NEW r \in Ref,
         Actor(r), Ordered(Stages(p, r), told[p]),
         NEW th \in Thread, PushRemote(th)
  PROVE  Ordered(Stages(p, r)', told'[p])
<1>1. PICK t, c, k, l : /\ t = telling[th] /\ k = LinkOf(th) /\ l = Way(p, r)
                        /\ c = [ref |-> t.ref, m |-> t.m]
  BY Zenon
<1>2. c.ref = t.ref /\ c.m = t.m
  BY <1>1
<1>3. t # None /\ c \in GoodCalls(k) /\ (Actor(t.ref) => th = t.m.from)
  BY Zenon, <1>1, PushRemoteTo
<1>4. /\ remotes' = [remotes EXCEPT ![k] = Pushed(remotes[k], c)]
      /\ telling' = [telling EXCEPT ![th] = None]
      /\ wire' = wire /\ mailbox' = mailbox /\ told' = told
      /\ handled' = handled
  BY Zenon, <1>1 DEF PushRemote, Done, callVars
<1>5. telling'[th] = None /\ \A u \in Thread : Kept(u)
  <2>1. telling'[th] = None
    BY Zenon, <1>4 DEF Shape
  <2> QED  BY Zenon, <1>4, <2>1, KeptOthers DEF Kept
<1>6. /\ Kept(p) /\ QuietMail(r)
      /\ l \in Link => Kept(Serving(l[1], l[2]))
  BY Zenon, <1>4, <1>5, Apart DEF QuietMail
<1>7. CASE k # l \/ l \notin DOMAIN remotes \/ ~remotes[l].open
  <2>1. l \in DOMAIN remotes' =>
          l \in DOMAIN remotes /\ remotes'[l] = remotes[l]
    BY Zenon, <1>4, <1>7 DEF Pushed
  <2>2. QuietLink(l)
    BY Zenon, <1>4, <1>6, <2>1 DEF QuietLink
  <2> QED  BY Zenon, <1>1, <1>6, <2>2, QuietOrder
<1>8. CASE k = l /\ l \in DOMAIN remotes /\ remotes[l].open
  <2> DEFINE F == Stages(p, r)
             G == Stages(p, r)'
             g == OwnCall(p, r)
  <2>1. PICK q, S : q = remotes[l].queue /\ S = GoodCalls(l)
    BY Zenon
  <2>2. q \in Seq(S) /\ c \in S
    <3>1. remotes[l] \in Boxes(GoodCalls(l))
      BY Zenon, <1>8 DEF Addressed
    <3> QED  BY Zenon, <1>3, <1>8, <2>1, <3>1 DEF Boxes
  <2>3. l \in DOMAIN remotes' /\ remotes'[l].queue = Append(q, c)
    <3>1. Pushed(remotes[l], c).queue = Append(remotes[l].queue, c)
      BY <1>8 DEF Pushed, Box
    <3> QED  BY Zenon, <1>4, <1>8, <2>1, <3>1
  <2>4. F[5] = Marks(q, g) /\ G[5] = Marks(Append(q, c), g)
    <3>1. /\ F[5] = IF Way(p, r) \in DOMAIN remotes
                    THEN Marks(remotes[Way(p, r)].queue, g) ELSE {}
          /\ G[5] = IF Way(p, r) \in DOMAIN remotes'
                    THEN Marks(remotes'[Way(p, r)].queue, g) ELSE {}
      BY Zenon, StagesNow, StagesNext
    <3>2. /\ F[5] = Marks(remotes[l].queue, g)
          /\ G[5] = Marks(remotes'[l].queue, g)
      BY Zenon, <1>1, <1>8, <2>3, <3>1
    <3> QED  BY Zenon, <2>1, <2>3, <3>2
  <2>5. /\ G[1] \subseteq F[1] /\ G[2] \subseteq F[2] /\ G[6] \subseteq F[6]
    BY Zenon, <1>6, QuietStages
  <2>6. G[3] \subseteq F[3] /\ G[4] \subseteq F[4]
    <3>1. /\ F[3] = IF l \in Link THEN InHand(Server(p, r), p, r) ELSE {}
          /\ G[3] = IF l \in Link THEN InHand(Server(p, r), p, r)' ELSE {}
      BY Zenon, <1>1, StagesNow, StagesNext
    <3>2. /\ F[4] = IF l \in Link THEN Marks(wire[l], OwnCall(p, r)) ELSE {}
          /\ G[4] = IF l \in Link THEN Marks(wire'[l], OwnCall(p, r)) ELSE {}
      BY Zenon, <1>1, StagesNow, StagesNext
    <3>3. l \in Link => Kept(Server(p, r))
      BY Zenon, <1>1, <1>6 DEF Server
    <3> HIDE DEF F, G
    <3>4. G[3] \subseteq F[3]
      BY Zenon, <3>1, <3>3, HandKept
    <3>5. G[4] = F[4]
      BY <1>4, <3>2
    <3> QED  BY Zenon, <3>4, <3>5
  <2>7. PICK z : z = Len(q) + 1
    BY Zenon
  <2>8. z \in Nat \ {0} /\ \A x \in Marks(q, g) : x[1] < z
    BY Zenon, <2>2, <2>7, MarksAppend
  <2>9. \A x \in Marks(Append(q, c), g) :
          \/ x \in Marks(q, g)
          \/ c \in DOMAIN g /\ x[1] = z /\ x[2] = g[c]
    BY <2>2, <2>7, MarksAppend
  <2>10. c \in DOMAIN g => c.ref = r /\ c.m.from = p /\ g[c] = c.m.n
    BY Zenon DEF OwnCall
  <2>11. CASE c \notin DOMAIN g
    <3> HIDE DEF F, G, g
    <3>1. G[5] \subseteq F[5]
      BY Zenon, <2>4, <2>9, <2>11
    <3>2. \A j \in 1 .. 6 : G[j] \subseteq F[j]
      BY Zenon, <2>5, <2>6, <3>1, OneToSix
    <3> QED  BY Zenon, <3>2, LessStages DEF F, G
  <2>12. CASE c \in DOMAIN g
    <3>1. /\ th = p /\ telling[p] # None /\ telling[p].ref = r
          /\ telling[p].m.from = p /\ telling[p].m.n = c.m.n
      BY Zenon, <1>1, <1>2, <1>3, <2>10, <2>12
    <3>2. <<1, c.m.n>> \in InHand(p, p, r) /\ InHand(p, p, r)' = {}
      BY Zenon, <1>5, <3>1 DEF InHand
    <3>3. F[6] = InHand(p, p, r) /\ G[6] = InHand(p, p, r)'
      BY Zenon, StagesNow, StagesNext
    <3>4. <<1, g[c]>> \in F[6] /\ G[6] = {}
      BY Zenon, <2>10, <2>12, <3>2, <3>3
    <3> HIDE DEF F, G, g
    <3>5. PICK a \in 1 .. 6, b \in 1 .. 6 : a = 5 /\ b = 6 /\ a < b
      OBVIOUS
    <3>6. \A j \in 1 .. 6 : ~(5 < j /\ j < 6)
      OBVIOUS
    <3>7. /\ \A j \in 1 .. 6 : j # 5 /\ j # 6 => G[j] \subseteq F[j]
          /\ \A x \in G[6] : x[1] \in Nat \ {0} /\ <<x[1] + 1, x[2]>> \in F[6]
          /\ \A x \in F[5] : x[1] < z
          /\ \A x \in G[5] : x \in F[5] \/ (x[1] = z /\ <<1, x[2]>> \in F[6])
      BY Zenon, <2>4, <2>5, <2>6, <2>8, <2>9, <3>4, OneToSix
    <3>8. /\ \A j \in 1 .. 6 : j # a /\ j # b => G[j] \subseteq F[j]
          /\ \A j \in 1 .. 6 : a < j /\ j < b => F[j] = {}
          /\ \A x \in G[b] : x[1] \in Nat \ {0} /\ <<x[1] + 1, x[2]>> \in F[b]
          /\ \A x \in F[a] : x[1] < z
          /\ \A x \in G[a] : x \in F[a] \/ (x[1] = z /\ <<1, x[2]>> \in F[b])
      BY Zenon, <3>5, <3>6, <3>7
    <3>9. a < b /\ told' = told /\ z \in Nat \ {0}
      BY Zenon, <1>4, <2>8, <3>5
    <3> QED  BY Zenon, <3>8, <3>9, MovedStages DEF F, G
  <2> QED  BY Zenon, <2>11, <2>12
<1> QED  BY Zenon, <1>7, <1>8

(* A tell gets a number above all others.                                  *)
LEMMA TellOrder ==
  ASSUME Shape, Addressed, [Next]_vars, NEW p \in Caller, NEW r \in Ref,
         Ordered(Stages(p, r), told[p]),
         NEW c \in Caller, NEW x, NEW reply, Tell(c, x, reply),
         mailbox' = mailbox, handled' = handled, UNCHANGED netVars
  PROVE  Ordered(Stages(p, r)', told'[p])
<1>1. PICK new : telling' = [telling EXCEPT ![c] = new]
                 /\ new = Telling("tell", x, Message(c, told[c] + 1, reply))
  BY Zenon DEF Tell
<1>2. QuietMail(r) /\ QuietLink(Way(p, r))
  <2>1. PICK l : l = Way(p, r)
    BY Zenon
  <2>2. l \in Link => Kept(Serving(l[1], l[2]))
    <3>1. l \in Link => /\ Serving(l[1], l[2]) \in Thread
                        /\ Serving(l[1], l[2]) # c
      BY Zenon, Apart
    <3>2. telling' = [telling EXCEPT ![c] = new]
      BY Zenon, <1>1
    <3> QED  BY Zenon, <3>1, <3>2, KeptOthers
  <2> QED  BY Zenon, <2>1, <2>2 DEF QuietMail, QuietLink, netVars
<1>3. CASE c # p
  <2>1. Kept(p)
    BY Zenon, <1>1, <1>3, Apart, KeptOthers
  <2> QED  BY Zenon, <1>2, <2>1, QuietOrder
<1>4. CASE c = p
  <2> DEFINE F == Stages(p, r)
             G == Stages(p, r)'
  <2>1. PICK n \in Nat : n = told[p]
    BY Zenon DEF Addressed
  <2>2. told'[p] = n + 1
    BY Zenon, <1>4, <2>1 DEF Tell, Addressed
  <2>3. /\ G[1] \subseteq F[1] /\ G[2] \subseteq F[2] /\ G[3] \subseteq F[3]
        /\ G[4] \subseteq F[4] /\ G[5] \subseteq F[5]
    BY Zenon, <1>2, QuietStages
  <2>4. \A y \in G[6] : y = <<1, n + 1>>
    <3>1. G[6] = InHand(p, p, r)'
      BY Zenon, StagesNext
    <3>2. telling'[p] = new
      BY Zenon, <1>1, <1>4, Apart DEF Shape
    <3>3. new.m.n = n + 1
      BY <1>1, <1>4, <2>1 DEF Telling, Message
    <3> QED  BY Zenon, <3>1, <3>2, <3>3 DEF InHand
  <2>5. Ordered(F, n)
    BY Zenon, <2>1
  <2> HIDE DEF F, G
  <2>6. \A j \in 1 .. 6 : \A y \in G[j] :
          \/ j # 6 /\ y \in F[j]
          \/ j = 6 /\ y = <<1, n + 1>>
    <3>1. \A j \in 1 .. 6 : j # 6 => G[j] \subseteq F[j]
      BY Zenon, <2>3, OneToSix
    <3> QED  BY Zenon, <2>4, <3>1
  <2>7. Ordered(G, n + 1)
    <3>1. ASSUME NEW j \in 1 .. 6, NEW y \in G[j]
          PROVE  y \in (Nat \ {0}) \X (0 .. n + 1)
      <4>1. CASE j # 6 /\ y \in F[j]
        <5>1. y \in (Nat \ {0}) \X (0 .. n)
          BY Zenon, <2>5, <4>1 DEF Ordered
        <5> QED  BY <5>1
      <4>2. CASE y = <<1, n + 1>>
        BY <4>2
      <4> QED  BY Zenon, <2>6, <3>1, <4>1, <4>2
    <3>2. ASSUME NEW a \in 1 .. 6, NEW b \in 1 .. 6, NEW y \in G[a],
                 NEW w \in G[b], a < b \/ (a = b /\ y[1] < w[1])
          PROVE  y[2] < w[2]
      <4>1. CASE a # 6 /\ b # 6
        <5>1. y \in F[a] /\ w \in F[b]
          BY Zenon, <2>6, <4>1
        <5> QED  BY Zenon, <2>5, <3>2, <5>1 DEF Ordered
      <4>2. CASE a # 6 /\ b = 6
        <5>1. y \in F[a] /\ w = <<1, n + 1>>
          BY Zenon, <2>6, <4>2
        <5>2. y \in (Nat \ {0}) \X (0 .. n)
          BY Zenon, <2>5, <5>1 DEF Ordered
        <5> QED  BY <5>1, <5>2
      <4>3. CASE a = 6
        <5>1. b = 6
          BY <3>2, <4>3
        <5>2. y = <<1, n + 1>> /\ w = <<1, n + 1>>
          BY Zenon, <2>6, <4>3, <5>1
        <5> QED  BY <3>2, <4>3, <5>1, <5>2
      <4> QED  BY Zenon, <4>1, <4>2, <4>3
    <3> QED  BY Zenon, <3>1, <3>2 DEF Ordered
  <2> QED  BY Zenon, <2>2, <2>7 DEF G
<1> QED  BY Zenon, <1>3, <1>4

(* The other steps leave what is on its way as it is, or lose some.        *)
LEMMA GoingOn ==
  ASSUME Shape, NEW th \in Thread,
         \/ Done(th)
         \/ telling[th] # None /\ \E step : Goto(th, step),
         NEW u \in Thread
  PROVE  Kept(u)
<1>1. CASE u # th
  BY Zenon, <1>1, KeptOthers DEF Done, Goto
<1>2. CASE u = th /\ Done(th)
  BY Zenon, <1>2 DEF Done, Kept, Shape
<1>3. ASSUME u = th, telling[th] # None, NEW step, Goto(th, step)
      PROVE  Kept(u)
  <2>1. telling'[th] = Telling(step, telling[th].ref, telling[th].m)
    BY Zenon, <1>3 DEF Goto, Shape
  <2>2. /\ telling'[th].ref = telling[th].ref
        /\ telling'[th].m = telling[th].m
    BY <2>1 DEF Telling
  <2> QED  BY Zenon, <1>3, <2>2 DEF Kept
<1> QED  BY Zenon, <1>1, <1>2, <1>3

LEMMA QuietFrame ==
  ASSUME Shape, Addressed, [Next]_vars, NEW p \in Caller, NEW r \in Ref,
         Ordered(Stages(p, r), told[p]),
         \A u \in Thread : Kept(u), handled' = handled,
         mailbox'[r].queue = mailbox[r].queue,
         \A l \in Link : wire'[l] = wire[l] \/ wire'[l] = <<>>,
         \A l \in DOMAIN remotes' :
           \/ l \in DOMAIN remotes /\ remotes'[l].queue = remotes[l].queue
           \/ remotes'[l].queue = <<>>
  PROVE  Ordered(Stages(p, r)', told'[p])
<1>1. PICK l : l = Way(p, r)
  BY Zenon
<1>2. l \in Link => Kept(Serving(l[1], l[2]))
  BY Zenon, Apart
<1>3. QuietMail(r) /\ QuietLink(l) /\ Kept(p)
  BY Zenon, <1>2, Apart DEF QuietMail, QuietLink
<1> QED  BY Zenon, <1>1, <1>3, QuietOrder

LEMMA QuietOrders ==
  ASSUME Shape, Addressed, [Next]_vars, NEW p \in Caller, NEW r \in Ref,
         Ordered(Stages(p, r), told[p])
  PROVE  /\ \A s \in System : StartActor(s) \/ Close(s)
              => Ordered(Stages(p, r)', told'[p])
         /\ \A l \in Link : Break(l) \/ Dial(l)
              => Ordered(Stages(p, r)', told'[p])
         /\ \A th \in Thread :
              Load(th) \/ LoadAndDelete(th) \/ Respond(th) \/ LookUp(th)
                => Ordered(Stages(p, r)', told'[p])
         /\ (\E c \in Caller : Receive(c)) \/ UNCHANGED vars
              => Ordered(Stages(p, r)', told'[p])
<1> DEFINE Goal == Ordered(Stages(p, r)', told'[p])
<1>1. telling' = telling => \A u \in Thread : Kept(u)
  BY Zenon DEF Kept
<1> HIDE DEF Goal
<1>2. ASSUME \A u \in Thread : Kept(u),
             UNCHANGED <<handled, mailbox, wire, remotes>>
      PROVE  Goal
  BY Zenon, <1>2, QuietFrame DEF Goal
<1>3. ASSUME NEW s \in System, StartActor(s)
      PROVE  Goal
  BY Zenon, <1>1, <1>2, <1>3 DEF StartActor, netVars
<1>4. ASSUME NEW s \in System, Close(s)
      PROVE  Goal
  <2>1. /\ mailbox' = [x \in Ref |-> IF x \in ActorsOf(s)
                                     THEN ClosedBox(mailbox[x])
                                     ELSE mailbox[x]]
        /\ remotes' = [l \in DOMAIN remotes |->
                   IF l[1] = s THEN ClosedBox(remotes[l]) ELSE remotes[l]]
        /\ wire' = wire /\ handled' = handled /\ telling' = telling
    BY Zenon, <1>4 DEF Close
  <2>2. \A b : ClosedBox(b).queue = b.queue
    BY DEF ClosedBox, Box
  <2>3. mailbox'[r].queue = mailbox[r].queue
    BY Zenon, <2>1, <2>2
  <2>4. \A l \in DOMAIN remotes' :
          l \in DOMAIN remotes /\ remotes'[l].queue = remotes[l].queue
    BY Zenon, <2>1, <2>2
  <2> QED  BY Zenon, <1>1, <2>1, <2>3, <2>4, QuietFrame DEF Goal
<1>5. ASSUME NEW k \in Link, Break(k)
      PROVE  Goal
  <2>1. /\ wire' = [wire EXCEPT ![k] = <<>>]
        /\ UNCHANGED <<remotes, handled, mailbox, telling>>
    BY Zenon, <1>5 DEF Break
  <2>2. \A l \in Link : wire'[l] = wire[l] \/ wire'[l] = <<>>
    BY Zenon, <2>1 DEF Addressed
  <2> QED  BY Zenon, <1>1, <2>1, <2>2, QuietFrame DEF Goal
<1>6. ASSUME NEW k \in Link, Dial(k)
      PROVE  Goal
  <2>1. /\ \/ remotes' = remotes
           \/ remotes' = [remotes EXCEPT ![k] = ClosedBox(remotes[k])]
        /\ UNCHANGED <<wire, handled, mailbox, telling>>
    BY Zenon, <1>6 DEF Dial
  <2>2. \A b : ClosedBox(b).queue = b.queue
    BY DEF ClosedBox, Box
  <2>3. \A l \in DOMAIN remotes' :
          l \in DOMAIN remotes /\ remotes'[l].queue = remotes[l].queue
    BY Zenon, <2>1, <2>2
  <2> QED  BY Zenon, <1>1, <2>1, <2>3, QuietFrame DEF Goal
<1>7. ASSUME NEW th \in Thread, Load(th) \/ LoadAndDelete(th) \/ Respond(th)
      PROVE  Goal
  <2>1. \/ Done(th)
        \/ telling[th] # None /\ \E step : Goto(th, step)
    BY Zenon, <1>7 DEF Load, LoadAndDelete, Respond, At
  <2>2. \A u \in Thread : Kept(u)
    BY Zenon, <2>1, GoingOn
  <2> QED  BY Zenon, <1>2, <1>7, <2>2
           DEF Load, LoadAndDelete, Respond, netVars
<1>8. ASSUME NEW th \in Thread, LookUp(th)
      PROVE  Goal
  <2>1. \/ Done(th)
        \/ telling[th] # None /\ \E step : Goto(th, step)
    BY Zenon, <1>8 DEF LookUp, At
  <2>2. \A u \in Thread : Kept(u)
    BY Zenon, <2>1, GoingOn
  <2>3. \/ remotes' = remotes
        \/ remotes' = [k \in DOMAIN remotes \cup {LinkOf(th)} |->
                         IF k = LinkOf(th) THEN NewMailbox ELSE remotes[k]]
    BY Zenon, <1>8 DEF LookUp
  <2>4. NewMailbox.queue = <<>>
    BY DEF NewMailbox, Box
  <2>5. \A l \in DOMAIN remotes' :
          \/ l \in DOMAIN remotes /\ remotes'[l].queue = remotes[l].queue
          \/ remotes'[l].queue = <<>>
    BY Zenon, <2>3, <2>4
  <2>6. UNCHANGED <<wire, handled, mailbox>>
    BY Zenon, <1>8 DEF LookUp
  <2> QED  BY Zenon, <2>2, <2>5, <2>6, QuietFrame DEF Goal
<1>9. (\E c \in Caller : Receive(c)) \/ UNCHANGED vars => Goal
  BY Zenon, <1>1, <1>2 DEF Receive, vars, netVars
<1> QED  BY Zenon, <1>3, <1>4, <1>5, <1>6, <1>7, <1>8, <1>9 DEF Goal

(* Nothing is on its way to a reference that is not given out.             *)
LEMMA NewOrder ==
  ASSUME Addressed, NEW p \in Caller, NEW r \in Ref, ~Actor(r), ~Given(r)
  PROVE  Ordered(Stages(p, r), told[p])
<1> DEFINE F == Stages(p, r)
           l == Way(p, r)
<1>1. ~NotActor(r)
  BY Zenon DEF NotActor
<1>2. \A th \in Thread : InHand(th, p, r) = {}
  BY Zenon, <1>1 DEF Addressed, GoodTelling, InHand
<1>3. ASSUME NEW k, NEW q \in Seq(GoodCalls(k))
      PROVE  Marks(q, OwnCall(p, r)) = {}
  <2>1. PICK S : S = GoodCalls(k)
    BY Zenon
  <2>2. \A c \in S : c.ref # r
    BY Zenon, <1>1, <2>1 DEF GoodCalls
  <2>3. \A c \in DOMAIN OwnCall(p, r) : c.ref = r
    BY Zenon DEF OwnCall
  <2>4. ASSUME NEW x \in Marks(q, OwnCall(p, r))
        PROVE  FALSE
    <3>1. q \in Seq(S)
      BY Zenon, <2>1
    <3>2. x[1] \in 1 .. Len(q) /\ q[x[1]] \in DOMAIN OwnCall(p, r)
      BY Zenon, <2>4, <3>1, MarksPlace
    <3>3. q[x[1]] \in S
      BY Zenon, <3>1, <3>2, ElementOfSeq
    <3> QED  BY Zenon, <2>2, <2>3, <3>2, <3>3
  <2> QED  BY Zenon, <2>4
<1>4. F[1] = {} /\ F[2] = {}
  <2>1. handled[r] = <<>> /\ mailbox[r].queue = <<>>
    BY Zenon DEF Addressed
  <2>2. /\ F[1] = Marks(handled[r], Own(p))
        /\ F[2] = Marks(mailbox[r].queue, Own(p))
    BY Zenon, StagesNow
  <2> QED  BY Zenon, <2>1, <2>2, MarksEmpty
<1>5. F[3] = {} /\ F[6] = {}
  <2>1. /\ F[3] = IF l \in Link THEN InHand(Server(p, r), p, r) ELSE {}
        /\ F[6] = InHand(p, p, r)
    BY Zenon, StagesNow
  <2>2. p \in Thread /\ (l \in Link => Server(p, r) \in Thread)
    BY Zenon, Apart DEF Server
  <2> HIDE DEF F, l
  <2> QED  BY Zenon, <1>2, <2>1, <2>2
<1>6. F[4] = {}
  <2>1. F[4] = IF l \in Link THEN Marks(wire[l], OwnCall(p, r)) ELSE {}
    BY Zenon, StagesNow
  <2> HIDE DEF F, l
  <2>2. l \in Link => wire[l] \in Seq(GoodCalls(l))
    BY Zenon DEF Addressed
  <2>3. l \in Link => Marks(wire[l], OwnCall(p, r)) = {}
    BY Zenon, <1>3, <2>2
  <2> QED  BY Zenon, <2>1, <2>3
<1>7. F[5] = {}
  <2>1. F[5] = IF l \in DOMAIN remotes
               THEN Marks(remotes[l].queue, OwnCall(p, r)) ELSE {}
    BY Zenon, StagesNow
  <2> HIDE DEF F, l
  <2>2. l \in DOMAIN remotes => remotes[l].queue \in Seq(GoodCalls(l))
    BY Zenon DEF Addressed, Boxes
  <2>3. l \in DOMAIN remotes => Marks(remotes[l].queue, OwnCall(p, r)) = {}
    BY Zenon, <1>3, <2>2
  <2> QED  BY Zenon, <2>1, <2>3
<1> HIDE DEF F
<1>8. \A k \in 1 .. 6 : F[k] = {}
  BY Zenon, <1>4, <1>5, <1>6, <1>7, OneToSix
<1>9. Ordered(F, told[p])
  BY Zenon, <1>8 DEF Ordered
<1> QED  BY Zenon, <1>9 DEF F

LEMMA OrderStep ==
  Shape /\ ChannelInv /\ Addressed /\ OrderInv /\ [Next]_vars => OrderInv'
<1> SUFFICES ASSUME Shape, ChannelInv, Addressed, OrderInv, [Next]_vars,
                    NEW p \in Caller, NEW r \in Ref, Actor(r)'
             PROVE  Ordered(Stages(p, r)', told'[p])
  BY Zenon DEF OrderInv
<1> DEFINE Goal == Ordered(Stages(p, r)', told'[p])
<1>1. CASE ~Actor(r)
  <2>1. ~Given(r) /\ \E s \in System : StartActor(s)
    BY Zenon, <1>1, RefsStay
  <2>2. Ordered(Stages(p, r), told[p])
    BY Zenon, <1>1, <2>1, NewOrder
  <2> QED  BY Zenon, <2>1, <2>2, QuietOrders
<1>2. CASE Actor(r)
  <2>1. Ordered(Stages(p, r), told[p])
    BY Zenon, <1>2 DEF OrderInv
  <2> HIDE DEF Goal
  <2>2. ASSUME NEW s \in System, StartActor(s) \/ Close(s)
        PROVE  Goal
    BY Zenon, <2>1, <2>2, QuietOrders DEF Goal
  <2>3. ASSUME NEW c \in Caller, TellOnly(c) \/ Query(c)
        PROVE  Goal
    BY Zenon, <2>1, <2>3, TellOrder DEF Goal, TellOnly, Query
  <2>4. ASSUME NEW l \in Link, Break(l) \/ Dial(l)
        PROVE  Goal
    BY Zenon, <2>1, <2>4, QuietOrders DEF Goal
  <2>5. ASSUME NEW l \in Link, Send(l)
        PROVE  Goal
    BY Zenon, <2>1, <2>5, SendOrder DEF Goal
  <2>6. ASSUME NEW l \in Link, Serve(l)
        PROVE  Goal
    BY Zenon, <2>1, <2>6, ServeOrder DEF Goal
  <2>7. ASSUME NEW th \in Thread,
               Load(th) \/ LoadAndDelete(th) \/ Respond(th) \/ LookUp(th)
        PROVE  Goal
    BY Zenon, <2>1, <2>7, QuietOrders DEF Goal
  <2>8. ASSUME NEW th \in Thread, Push(th)
        PROVE  Goal
    BY Zenon, <2>1, <2>8, PushOrder DEF Goal
  <2>9. ASSUME NEW th \in Thread, PushRemote(th)
        PROVE  Goal
    BY Zenon, <1>2, <2>1, <2>9, PushRemoteOrder DEF Goal
  <2>10. ASSUME NEW x \in Ref, RunActor(x)
         PROVE  Goal
    <3>1. CASE x = r
      BY Zenon, <2>1, <2>10, <3>1, RunOrder DEF Goal
    <3>2. CASE x # r
      <4>1. mailbox'[r] = mailbox[r] /\ handled'[r] = handled[r]
        BY Zenon, <2>10, <3>2 DEF RunActor, Addressed
      <4>2. \A th \in Thread : th # x => Kept(th)
        BY Zenon, <2>10, KeptOthers DEF RunActor
      <4>3. PICK l : l = Way(p, r)
        BY Zenon
      <4>4. UNCHANGED <<wire, remotes>>
        BY Zenon, <2>10 DEF RunActor, netVars
      <4>5. l \in Link => Kept(Serving(l[1], l[2]))
        BY Zenon, <4>2, Apart
      <4>6. QuietLink(l)
        BY Zenon, <4>4, <4>5 DEF QuietLink
      <4>7. Kept(p) /\ QuietMail(r)
        BY Zenon, <4>1, <4>2, Apart DEF QuietMail
      <4> QED  BY Zenon, <2>1, <4>3, <4>6, <4>7, QuietOrder DEF Goal
    <3> QED  BY Zenon, <3>1, <3>2
  <2>11. (\E c \in Caller : Receive(c)) \/ UNCHANGED vars => Goal
    BY Zenon, <2>1, QuietOrders DEF Goal
  <2>12. Goal
    BY Zenon, <2>2, <2>3, <2>4, <2>5, <2>6, <2>7, <2>8, <2>9, <2>10, <2>11
    DEF Next, Progress, TellStep
  <2> QED  BY Zenon, <2>12 DEF Goal
<1> QED  BY Zenon, <1>1, <1>2

(* So what was handled is in order.                                        *)
LEMMA OrderedHandled == Addressed /\ OrderInv => InOrder
<1> SUFFICES ASSUME Addressed, OrderInv, NEW r \in Ref,
                    NEW i \in DOMAIN handled[r], NEW j \in DOMAIN handled[r],
                    i < j, handled[r][i].from = handled[r][j].from
             PROVE  handled[r][i].n < handled[r][j].n
  BY Zenon DEF InOrder
<1>1. PICK h \in Seq(Msgs) : h = handled[r]
  BY Zenon DEF Addressed
<1>2. i \in 1 .. Len(h) /\ j \in 1 .. Len(h)
  BY Zenon, <1>1, LenProperties
<1>3. h[i] \in Msgs /\ h[j] \in Msgs
  BY Zenon, <1>2, ElementOfSeq
<1>4. PICK p \in Caller : p = h[i].from /\ p = h[j].from
  BY Zenon, <1>1, <1>3 DEF Msgs
<1>5. Actor(r)
  <2>1. handled[r] # <<>>
    BY <1>1, <1>2
  <2> QED  BY Zenon, <2>1 DEF Addressed
<1>6. Ordered(Stages(p, r), told[p])
  BY Zenon, <1>5 DEF OrderInv
<1>7. Stages(p, r)[1] = Marks(h, Own(p))
  <2>1. Stages(p, r)[1] = Marks(handled[r], Own(p))
    BY Zenon, StagesNow
  <2> QED  BY Zenon, <1>1, <2>1
<1>8. /\ h[i] \in DOMAIN Own(p) /\ Own(p)[h[i]] = h[i].n
      /\ h[j] \in DOMAIN Own(p) /\ Own(p)[h[j]] = h[j].n
  BY Zenon, <1>3, <1>4 DEF Own
<1>9. <<i, h[i].n>> \in Marks(h, Own(p)) /\ <<j, h[j].n>> \in Marks(h, Own(p))
  BY Zenon, <1>2, <1>8 DEF Marks
<1>10. PICK x, y \in Stages(p, r)[1] : x = <<i, h[i].n>> /\ y = <<j, h[j].n>>
  BY Zenon, <1>7, <1>9
<1>11. x[1] < y[1]
  BY <1>10
<1>12. x[2] < y[2]
  <2>1. 1 \in 1 .. 6
    OBVIOUS
  <2> QED  BY Zenon, <1>6, <1>10, <1>11, <2>1 DEF Ordered
<1> QED  BY <1>1, <1>10, <1>12

(* An actor handles what one caller tells it in the order of the tells and *)
(* at most once (actor_context.go, line 49), through mailboxes, over       *)
(* connections that are made, break and lose calls, and whatever closes:   *)
(* for any systems, callers, actors and numbers of messages.               *)
THEOREM ToldInOrder == Spec => []InOrder
<1>1. Init => Shape /\ ChannelInv /\ OneAnswer /\ Addressed /\ OrderInv
  <2>1. Init => OrderInv
    BY Zenon, NoneAssumption DEF Init, OrderInv, Actor
  <2> QED  BY Zenon, <2>1, InitShape, AddressedInit
<1>2. Shape /\ ChannelInv /\ OneAnswer /\ Addressed /\ OrderInv
        /\ [Next]_vars
        => (Shape /\ ChannelInv /\ OneAnswer /\ Addressed /\ OrderInv)'
  BY Zenon, ShapeStep, ChannelStep, AddressedStep, OrderStep
<1> QED  BY <1>1, <1>2, OrderedHandled, PTL DEF Spec, SafetySpec
=============================================================================
