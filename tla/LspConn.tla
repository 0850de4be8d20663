------------------------------ MODULE LspConn ------------------------------
(***************************************************************************)
(* One end of an LSP connection: the struct bxnzsdj of                     *)
(* lsp/lsp_reference.go, as a record, and its methods as operators from    *)
(* the record before to the record after.  Client and server use the same  *)
(* code.                                                                   *)
(*                                                                         *)
(*   id       rdcppgudji, the connection id; 0 until connected             *)
(*   isn      gksmgskml, the initial sequence number of both directions    *)
(*   next     hooppjkl, the sequence number of the next write              *)
(*   pending  ffieiqwlhhh, payloads written and not sent yet               *)
(*   unacked  qqbakktl with ssssshhwhh and rrrrrqwrqrkk: for each sequence *)
(*            number sent and not acknowledged, the payload, the backoff   *)
(*            and the epochs until it is sent again                        *)
(*   expect   bnmslkllh, the sequence number that is to be delivered next  *)
(*   buffer   aptnek, payloads that came too early                         *)
(*   ready    asdfghj, payloads to be read                                 *)
(*   heard    tttbejw, data or Connect came in this epoch                  *)
(*   silent   qbnwkal - wbjkdfjd, the epochs since something came, not     *)
(*            counted beyond EpochLimit                                    *)
(*   out      rfxtuoncvn, messages to be sent                              *)
(***************************************************************************)
EXTENDS Integers, Sequences, FiniteSets, FiniteSetsExt

CONSTANTS
  EpochLimit, WindowSize, MaxBackOffInterval, MaxUnackedMessages,  \* Params
  Garbled          \* a payload that does not agree with the checksum

ASSUME ParamsAssumption ==
  /\ EpochLimit \in Nat \ {0} /\ WindowSize \in Nat \ {0}
  /\ MaxBackOffInterval \in Nat /\ MaxUnackedMessages \in Nat \ {0}

Connect(isn) == [type |-> "Connect", seq |-> isn]

(* No end looks at the connection id of a data message.                    *)
Data(seq, payload) == [type |-> "Data", seq |-> seq, payload |-> payload]

Ack(id, seq) == [type |-> "Ack", id |-> id, seq |-> seq]

CAck(id, seq) == [type |-> "CAck", id |-> id, seq |-> seq]

Sending(l, m) == [l EXCEPT !.out = @ \cup {m}]

NewEnd(isn, id) ==
  [id |-> id, isn |-> isn, next |-> isn + 1, pending |-> <<>>,
   unacked |-> <<>>, expect |-> isn + 1, buffer |-> <<>>, ready |-> <<>>,
   heard |-> FALSE, silent |-> 0, out |-> {}]

NewClientEnd(isn) == Sending(NewEnd(isn, 0), Connect(isn))

NewServerEnd(isn, id) == Sending(NewEnd(isn, id), Ack(id, isn))

IsLost(l) == l.silent >= EpochLimit

IsConnected(l) == l.id > 0

(* Something came from the other end.                                      *)
Hearing(l) == [l EXCEPT !.silent = 0]

(* Mutant: what was sent is not waited for.                                *)
DrainedWhenSent(l) == l.pending = <<>>

(* Nothing is waiting to be sent or acknowledged.                          *)
Drained(l) == l.pending = <<>> /\ DOMAIN l.unacked = {}

FrontSeq(l) == l.next - Len(l.pending)

MinPending(l) == Min(DOMAIN l.unacked \cup {FrontSeq(l)})

(* How many sequence numbers from FrontSeq on are in the window.           *)
Room(l) == MinPending(l) + WindowSize - FrontSeq(l)

(* ngkdlse: pending payloads are sent while the window and the bound on    *)
(* unacknowledged messages allow.                                          *)
SendWindow(l) ==
  LET k == Max({0, Min({Len(l.pending), Room(l),
                        MaxUnackedMessages - Cardinality(DOMAIN l.unacked)})})
      new == FrontSeq(l) .. FrontSeq(l) + k - 1
      payload(n) == l.pending[n - FrontSeq(l) + 1]
  IN [l EXCEPT
        !.unacked = [n \in DOMAIN @ \cup new |->
           IF n \in new
           THEN [payload |-> payload(n), wait |-> 0,
                 backoff |-> Min({1, MaxBackOffInterval})]
           ELSE @[n]],
        !.pending = SubSeq(@, k + 1, Len(@)),
        !.out = @ \cup {Data(n, payload(n)) : n \in new}]

(* gkxcls, for a connection that is connected and not lost.                *)
Writing(l, payload) ==
  SendWindow([l EXCEPT !.pending = Append(@, payload), !.next = @ + 1])

(* Mutant: what came before its turn is not kept but delivered.            *)
DeliverAtOnce(l, m) ==
  [l EXCEPT !.ready = Append(@, m.payload), !.expect = m.seq + 1]

(* The payloads from expect on are moved to ready as far as they are there. *)
Deliver(l, m) ==
  LET buf == [n \in DOMAIN l.buffer \cup {m.seq} |->
                IF n = m.seq THEN m.payload ELSE l.buffer[n]]
      end == Min({n \in l.expect .. l.expect + Cardinality(DOMAIN buf) :
                    n \notin DOMAIN buf})
  IN [l EXCEPT
        !.buffer = [n \in DOMAIN buf \ (l.expect .. end - 1) |-> buf[n]],
        !.ready = @ \o [i \in 1 .. end - l.expect |-> buf[l.expect + i - 1]],
        !.expect = end]

(* Mutant: what comes again is delivered again.                            *)
OnDataAgain(l, m) ==
  IF ~IsConnected(l) \/ m.seq >= l.expect + WindowSize \/ m.payload = Garbled
  THEN l ELSE DeliverAtOnce(Sending(l, Ack(l.id, m.seq)), m)

(* bvmndthe: an acknowledgement goes out for everything below the end of   *)
(* the window, also for what was delivered before.                         *)
OnData(l, m) ==
  IF \/ ~IsConnected(l)
     \/ m.seq >= l.expect + WindowSize
     \/ m.payload = Garbled
  THEN l
  ELSE LET acked == Sending(l, Ack(l.id, m.seq))
       IN IF m.seq < l.expect THEN acked ELSE Deliver(acked, m)

(* vvvjlurqbu: Ack takes one message off unacked, CAck all up to its own.  *)
OnAck(l, m) ==
  LET gone == IF m.type = "Ack" THEN {m.seq} \cap DOMAIN l.unacked
              ELSE {n \in DOMAIN l.unacked : n <= m.seq}
  IN CASE ~IsConnected(l) ->
            IF m.seq = l.isn THEN [l EXCEPT !.id = m.id] ELSE l
       [] IsConnected(l) /\ (m.seq = 0 \/ gone = {}) -> l
       [] OTHER -> SendWindow([l EXCEPT !.unacked =
                     [n \in DOMAIN @ \ gone |-> @[n]]])

(* Qtbejekw                                                                *)
OnMessage(l, m) ==
  CASE m.type = "Connect" -> [l EXCEPT !.heard = TRUE]
    [] m.type = "Data" -> [OnData(l, m) EXCEPT !.heard = TRUE]
    [] OTHER -> OnAck(l, m)

(* One epoch of an unacknowledged message.                                 *)
Aged(u) ==
  IF u.wait > 0 THEN [u EXCEPT !.wait = @ - 1]
  ELSE [u EXCEPT !.wait = u.backoff,
                 !.backoff = Min({2 * @, MaxBackOffInterval})]

(* Mutant: a message is sent only once.                                    *)
ResentNever(l) == {}

Resent(l) ==
  {Data(n, l.unacked[n].payload) :
     n \in {k \in DOMAIN l.unacked : l.unacked[k].wait = 0}}

(* tyhdjska: the epoch timer.                                              *)
Tick(l) ==
  LET t == [l EXCEPT !.silent = Min({@ + 1, EpochLimit})]
      active == IsConnected(t) /\ ~IsLost(t)
  IN [t EXCEPT
        !.heard = FALSE,
        !.unacked = IF active THEN [n \in DOMAIN @ |-> Aged(@[n])] ELSE @,
        !.out = @ \cup (IF active THEN Resent(t) ELSE {})
                  \cup (IF active /\ ~t.heard THEN {Ack(t.id, 0)} ELSE {})
                  \cup (IF ~IsConnected(t) THEN {Connect(t.isn)} ELSE {})]
=============================================================================
