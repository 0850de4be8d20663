-------------------------------- MODULE Lsp --------------------------------
(***************************************************************************)
(* An LSP client and an LSP server (lsp/lsp_reference.go) over a network   *)
(* that loses, repeats, delays, reorders and damages packets (lspnet).     *)
(*                                                                         *)
(* Each end has a loop around a select.  One iteration is one step: the    *)
(* case that was selected and everything that the loop does before it      *)
(* selects again, sending included.  The client's reader goroutine notes   *)
(* that something came before it hands the message to the loop, so this    *)
(* takes two steps; the server's loop does both.                           *)
(*                                                                         *)
(* The n-th payload that an end writes is the number n.                    *)
(***************************************************************************)
EXTENDS LspConn, SequencesExt

CONSTANTS
  InitialSeqNum,   \* the argument of NewClient
  MaxWrites,       \* bounds on the writes of "client" and of "server": what
                   \* they write in a behaviour is within one of them
  MaxConn,         \* bound on the connections that the server creates
  Repeats,         \* a packet may arrive any number of times or never;
                   \* otherwise it arrives once unless it is lost
  MaxLosses,       \* bound on packets lost or damaged, without Repeats
  None             \* nil

VARIABLES
  cli,        \* the client's end
  hand,       \* the message that the client's reader hands to the loop
  cstate,     \* "connecting", "open", "closing", or how it ended: "failed"
              \* (NewClient), "closed" or "broken" (Close returns nil or an
              \* error), "panicked", "hung"
  creading,   \* a Read of the client waits (lcuzvoeeux)
  srv,        \* the server's end of the connection, None without one
  sclosed,    \* the flag c of the connection: it is being closed
  nextId,     \* jjeqqw
  vorbpe,     \* what the server's Read will return, oldest first
  sreading,   \* a Read of the server waits (moocow)
  sstate,     \* "open", "closing" (neowem), "closed", "broken", "hung"
  slost,      \* ytiqeqe, a connection was lost while closing
  toServer, toClient,   \* packets on the way
  losses,     \* the number of packets lost or damaged
  wrote,      \* the number of payloads each end has written
  cgot, sgot  \* history: what Read returned, on the server for each id

cliVars == <<cli, hand, cstate, creading, cgot>>

srvVars == <<srv, sclosed, nextId, vorbpe, sreading, sstate, slost, sgot>>

netVars == <<toServer, toClient, losses>>

vars == <<cliVars, srvVars, netVars, wrote>>

(* The bounds allow the numbers of writes w.                               *)
MayWrite(w) ==
  \E b \in MaxWrites : w.client <= b.client /\ w.server <= b.server

Init ==
  /\ cli = [NewClientEnd(InitialSeqNum) EXCEPT !.out = {}]
  /\ hand = None
  /\ cstate = "connecting"
  /\ creading = FALSE
  /\ srv = None
  /\ sclosed = FALSE
  /\ nextId = 1
  /\ vorbpe = <<>>
  /\ sreading = FALSE
  /\ sstate = "open"
  /\ slost = FALSE
  /\ toServer = NewClientEnd(InitialSeqNum).out
  /\ toClient = {}
  /\ losses = 0
  /\ wrote = [client |-> 0, server |-> 0]
  /\ cgot = <<>>
  /\ sgot = [i \in 1 .. MaxConn |-> <<>>]

-----------------------------------------------------------------------------
(* The network.                                                            *)

(* What arrives when m is read from the network: m itself, a data message  *)
(* whose payload was changed, or a cumulative acknowledgement in place of  *)
(* the last of several when the other end has everything up to it.  Bytes  *)
(* appended to a payload are cut off again by ciqlyoibuh.                  *)
Arrivals(m, other) ==
  {m}
  \cup (IF m.type = "Data" THEN {[m EXCEPT !.payload = Garbled]} ELSE {})
  \cup (IF m.type = "Ack" /\ m.seq # 0 /\ other # None /\ m.seq < other.expect
        THEN {CAck(m.id, m.seq)} ELSE {})

(* A shortened payload is dropped by ciqlyoibuh.                           *)
MayBeShort(m) == m.type = "Data"

(* The packets after m has arrived as a.                                   *)
Left(packets, m) == IF Repeats THEN packets ELSE packets \ {m}

Losing(m, a) ==
  IF Repeats \/ m = a \/ m.type # "Data" THEN UNCHANGED losses
  ELSE losses < MaxLosses /\ losses' = losses + 1

(* With Repeats, a lost packet is one that never arrives.                  *)
Drop ==
  /\ ~Repeats /\ losses < MaxLosses
  /\ losses' = losses + 1
  /\ \/ \E m \in toServer : toServer' = toServer \ {m} /\ UNCHANGED toClient
     \/ \E m \in toClient : toClient' = toClient \ {m} /\ UNCHANGED toServer
  /\ UNCHANGED <<cliVars, srvVars, wrote>>

-----------------------------------------------------------------------------
(* The client.                                                             *)

Running == cstate \in {"connecting", "open", "closing"}

(* From the end of the select to the next one: send, answer Read, report   *)
(* the connection to NewClient, answer Close.  When the connection is made *)
(* and lost at once, the loop sends on the channel it has just set to nil. *)
ClientLoop(l, reading, state) ==
  LET got == reading /\ l.ready # <<>>
      connected == state = "connecting" /\ IsConnected(l)
  IN /\ toServer' = toServer \cup l.out
     /\ cli' = [l EXCEPT !.out = {}, !.ready = IF got THEN Tail(@) ELSE @]
     /\ cgot' = IF got THEN Append(cgot, Head(l.ready)) ELSE cgot
     /\ creading' = (reading /\ ~got /\ ~IsLost(l) /\ state # "closing")
     /\ cstate' =
          CASE connected /\ IsLost(l) -> "hung"
            [] connected /\ ~IsLost(l) -> "open"
            [] state = "connecting" /\ ~connected /\ IsLost(l) -> "failed"
            [] state = "closing" /\ Drained(l) -> "closed"
            [] state = "closing" /\ ~Drained(l) /\ IsLost(l) -> "broken"
            [] OTHER -> state
     /\ UNCHANGED <<toClient, losses, srvVars>>

ClientRead ==
  /\ cstate = "open" /\ ~creading
  /\ ClientLoop(cli, TRUE, cstate)
  /\ UNCHANGED <<hand, wrote>>

(* ujuassxdjg: on a lost connection the caller gets an error, and then the *)
(* write is made all the same.  It panics, or, when something has come in  *)
(* between, the loop answers again and nobody listens.                     *)
ClientWrite ==
  /\ cstate = "open" /\ MayWrite([wrote EXCEPT !.client = @ + 1])
  /\ IF IsLost(cli)
     THEN /\ \/ cstate' = "panicked"
             \/ toClient # {} /\ cstate' = "hung"
          /\ UNCHANGED <<cli, creading, cgot, srvVars, netVars, wrote>>
     ELSE /\ wrote' = [wrote EXCEPT !.client = @ + 1]
          /\ ClientLoop(Writing(cli, wrote.client + 1), creading, cstate)
  /\ UNCHANGED hand

ClientClose ==
  /\ cstate = "open"
  /\ ClientLoop(cli, creading, "closing")
  /\ UNCHANGED <<hand, wrote>>

ClientTick ==
  /\ Running
  /\ ClientLoop(Tick(cli), creading, cstate)
  /\ UNCHANGED <<hand, wrote>>

(* hsowlmmkwm: the reader notes that a packet came, whatever is in it; m   *)
(* arrives as a, or as None when it is too short.                          *)
ClientHear(m, a) ==
  /\ Running /\ hand = None
  /\ cli' = Hearing(cli)
  /\ hand' = a
  /\ toClient' = Left(toClient, m)
  /\ Losing(m, a)
  /\ UNCHANGED <<cstate, creading, cgot, srvVars, toServer, wrote>>

ClientTake ==
  /\ Running /\ hand # None
  /\ hand' = None
  /\ ClientLoop(OnMessage(cli, hand), creading, cstate)
  /\ UNCHANGED wrote

-----------------------------------------------------------------------------
(* The server.                                                             *)

(* A result of Read; an error has no payload.                              *)
Entry(id, payload) == [id |-> id, payload |-> payload]

(* ngb: a connection that was lost, or closed with nothing left to send,   *)
(* is forgotten.                                                           *)
Forgotten(l, closed) == IsLost(l) \/ (closed /\ Drained(l))

(* From the end of the select to the next one: qiee collects what is       *)
(* ready, hgi sends, ngb reports a lost connection and forgets lost and    *)
(* closed ones, ini answers Close, hvi answers Read.  With the last        *)
(* connection gone, ini waits for the reader to stop: a reader that has a  *)
(* packet waits for the loop to take it, and neither goes on.              *)
ServerLoop(l, closed, reading, state) ==
  LET lost == l # None /\ IsLost(l)
      gone == l = None \/ Forgotten(l, closed)
      finished == state = "closing" /\ gone
      brought == IF l = None THEN <<>>
                 ELSE [i \in DOMAIN l.ready |-> Entry(l.id, l.ready[i])]
      results == vorbpe \o brought
                   \o (IF lost THEN <<Entry(l.id, None)>> ELSE <<>>)
                   \o (IF finished THEN <<Entry(0, None)>> ELSE <<>>)
      failed == slost \/ (lost /\ state = "closing")
  IN \E hangs \in IF finished /\ toServer' # {} THEN BOOLEAN ELSE {FALSE} :
       LET got == reading /\ results # <<>> /\ ~hangs
       IN /\ toClient' = toClient \cup (IF l = None THEN {} ELSE l.out)
          /\ srv' = IF gone THEN None ELSE [l EXCEPT !.out = {}, !.ready = <<>>]
          /\ sclosed' = (closed /\ ~gone)
          /\ vorbpe' = IF got THEN Tail(results) ELSE results
          /\ sreading' = (reading /\ ~got)
          /\ sgot' = IF got /\ Head(results).payload # None
                     THEN [sgot EXCEPT ![Head(results).id] =
                             Append(@, Head(results).payload)]
                     ELSE sgot
          /\ slost' = failed
          /\ sstate' = CASE hangs -> "hung"
                         [] finished /\ ~hangs /\ failed -> "broken"
                         [] finished /\ ~hangs /\ ~failed -> "closed"
                         [] ~finished -> state
          /\ UNCHANGED cliVars

ServerRunning == sstate \in {"open", "closing"}

ServerRead ==
  /\ sstate = "open" /\ ~sreading
  /\ UNCHANGED <<toServer, losses>>
  /\ ServerLoop(srv, sclosed, TRUE, sstate)
  /\ UNCHANGED <<nextId, wrote>>

ServerWrite ==
  /\ sstate = "open" /\ srv # None /\ ~sclosed
  /\ ~IsLost(srv)
  /\ MayWrite([wrote EXCEPT !.server = @ + 1])
  /\ wrote' = [wrote EXCEPT !.server = @ + 1]
  /\ UNCHANGED <<toServer, losses>>
  /\ ServerLoop(Writing(srv, wrote.server + 1), sclosed, sreading, sstate)
  /\ UNCHANGED nextId

CloseConn ==
  /\ sstate = "open" /\ srv # None /\ ~sclosed
  /\ UNCHANGED <<toServer, losses>>
  /\ ServerLoop(srv, TRUE, sreading, sstate)
  /\ UNCHANGED <<nextId, wrote>>

ServerClose ==
  /\ sstate = "open"
  /\ UNCHANGED <<toServer, losses>>
  /\ ServerLoop(srv, srv # None, sreading, "closing")
  /\ UNCHANGED <<nextId, wrote>>

ServerTick ==
  /\ ServerRunning
  /\ UNCHANGED <<toServer, losses>>
  /\ ServerLoop(IF srv = None THEN None ELSE Tick(srv),
                sclosed, sreading, sstate)
  /\ UNCHANGED <<nextId, wrote>>

(* qip: a message for the connection, or a Connect that makes one.         *)
ServerReceive(m, a) ==
  /\ ServerRunning /\ srv # None
  /\ toServer' = Left(toServer, m)
  /\ ServerLoop(OnMessage(Hearing(srv), a), sclosed, sreading, sstate)
  /\ Losing(m, a)
  /\ UNCHANGED <<nextId, wrote>>

ServerAccept(m) ==
  /\ sstate = "open" /\ srv = None
  /\ m.type = "Connect" /\ nextId <= MaxConn
  /\ toServer' = Left(toServer, m)
  /\ ServerLoop(NewServerEnd(m.seq, nextId), FALSE, sreading, sstate)
  /\ nextId' = nextId + 1
  /\ UNCHANGED <<losses, wrote>>

MayHear(m) ==
  Arrivals(m, srv) \cup (IF MayBeShort(m) THEN {None} ELSE {})

Next ==
  \/ ClientRead \/ ClientWrite \/ ClientClose \/ ClientTick \/ ClientTake
  \/ \E m \in toClient : \E a \in MayHear(m) : ClientHear(m, a)
  \/ ServerRead \/ ServerWrite \/ CloseConn \/ ServerClose \/ ServerTick
  \/ \E m \in toServer : \E a \in Arrivals(m, cli) : ServerReceive(m, a)
  \/ \E m \in toServer : ServerAccept(m)
  \/ Drop

SafetySpec == Init /\ [][Next]_vars

(* The client's epoch timer runs, its loop takes what its reader has, and  *)
(* the client's data and their acknowledgements arrive unless they are     *)
(* lost.  The server's timer may stop, and nobody has to call anything.    *)
MostWrites == Max({b.client : b \in MaxWrites})

Fairness ==
  /\ WF_vars(ClientTick) /\ WF_vars(ClientTake)
  /\ \A n \in 1 .. MostWrites :
       LET m == Data(InitialSeqNum + n, n)
       IN WF_vars(m \in toServer /\ ServerReceive(m, m))
  /\ \A i \in 1 .. MaxConn, n \in 1 .. MostWrites :
       LET m == Ack(i, InitialSeqNum + n)
       IN SF_vars(m \in toClient /\ ClientHear(m, m))

Spec == SafetySpec /\ Fairness

-----------------------------------------------------------------------------
Count(n) == [i \in 1 .. n |-> i]

(* The client's packets made one connection only: once the server has      *)
(* forgotten a connection, a Connect that comes late makes another one.    *)
OneConnection == nextId <= 2

Channel == INSTANCE ReliableChannel WITH
  Payload <- 1 .. MostWrites, Conns <- 1 .. MaxConn,
  written <- Count(wrote.client), read <- sgot

(* Of each connection the server reads what the client wrote, in order and *)
(* once (lines 169 to 200, 886 to 899, 959 to 970), whatever is lost,      *)
(* repeated, reordered or damaged on the way.                              *)
IsReliable == Channel!Spec

(* The same of what the client reads (lines 518 to 528).                   *)
ClientReadsInOrder ==
  OneConnection => IsPrefix(cgot \o cli.ready, Count(wrote.server))

(* What the server's Read has returned or will return of a connection.     *)
Received(i) ==
  sgot[i] \o LET mine == SelectSeq(vorbpe,
                                   LAMBDA e : e.id = i /\ e.payload # None)
             IN [k \in DOMAIN mine |-> mine[k].payload]

(* When the client's Close returns nil (line 487) the server has all that  *)
(* was written, even if it has given the connection up since.              *)
CloseDelivers ==
  (cstate = "closed" /\ OneConnection) => Received(1) = Count(wrote.client)

(* Close of the client returns (lines 480 to 497): all is acknowledged, or *)
(* the connection is lost, although the server may have given up, and      *)
(* packets are lost as long as not all of them are.                        *)
CloseReturns == cstate = "closing" ~> cstate \in {"closed", "broken"}
=============================================================================
