-------------------------------- MODULE Raft --------------------------------
(***************************************************************************)
(* The Raft peers of p2-raft-consensus/.../raft/raft.go, with the network  *)
(* of .../rpc/rpc.go between them.                                         *)
(*                                                                         *)
(* A peer is several goroutines sharing one struct under the mutex mux:    *)
(*   - mainRoutine, a select loop that turns into startAppendEntries while *)
(*     the peer leads;                                                     *)
(*   - one startElect goroutine per election timeout, which may outlive    *)
(*     the term it was started in;                                         *)
(*   - the RPC handlers RequestVote and AppendEntries;                     *)
(*   - one goroutine per outgoing call, which processes the reply;         *)
(*   - applyCommit goroutines.                                             *)
(* A critical section is one atomic step unless it blocks on a channel     *)
(* while it holds mux; then it is split there and mux records the holder.  *)
(*                                                                         *)
(* Indices are those of the Go code: rf.log[0] is a dummy entry of term 0, *)
(* so the Go length of a log is one more than the length of log[i] here.   *)
(***************************************************************************)
EXTENDS Integers, Sequences, FiniteSets

CONSTANTS N,             \* number of peers, len(rf.peers)
          Command,       \* the commands clients may submit
          MaxTerm,       \* bound: no election is started above this term
          Timeouts,      \* bound: election timeouts of each peer
          MaxElections,  \* the largest of them
          MaxRounds,     \* bound: broadcast rounds per peer while it leads
          MaxLog         \* bound: entries in a log

ASSUME NAssumption == N \in Nat \ {0}
ASSUME BoundAssumption ==
    /\ MaxTerm \in Nat
    /\ MaxElections \in Nat
    /\ Timeouts \in [0 .. N - 1 -> 0 .. MaxElections]
    /\ MaxRounds \in Nat
    /\ MaxLog \in Nat

Server == 0 .. N - 1
NoVote == -1
Follower  == "Follower"
Candidate == "Candidate"
Leader    == "Leader"
Eid == 1 .. MaxElections

VARIABLES
    \* fields of the Raft struct
    currentTerm, votedFor, electionState, log,
    commitIndex, lastApplied, nextIndex, matchIndex,
    \* mux[i]: "free", or which goroutine holds it while blocked on a channel
    mux,
    \* receivedHb[i]: number of values buffered in the channel (capacity N)
    receivedHb,
    \* mainPC[i]: where mainRoutine is; sendTo[i]: the next peer of its round;
    \* rounds[i]: rounds begun
    mainPC, sendTo, rounds,
    \* election goroutine e of peer i: its program point, rf_currentTerm,
    \* totalVotes and the Term of the reply it is acting on
    electPC, electTerm, totalVotes, replyTerm,
    \* applyPending[i]: an applyCommit goroutine has been spawned
    applyPending,
    \* blocked[i]: the request whose handler is blocked on a full receivedHb
    blocked,
    \* calls in flight: requests not yet delivered, replies not yet processed
    msgs,
    \* peers whose process has died of an index out of range
    panicked,
    \* what peer i has sent on applyCh
    applied,
    \* history, read by no action: votes granted, reigns begun, the term of
    \* the election that beLeader announced, and whether an election goroutine
    \* has applied a reply whose term was not above the peer's own
    granted, reigns, electedIn, staleReply,
    \* every position and entry that has been in a peer's log
    held

serverVars == <<currentTerm, votedFor, electionState>>
logVars    == <<log, commitIndex, lastApplied, applyPending, applied>>
leaderVars == <<nextIndex, matchIndex>>
mainVars   == <<mainPC, sendTo, rounds>>
electVars  == <<electPC, electTerm, totalVotes, replyTerm>>
syncVars   == <<mux, receivedHb, blocked>>
histVars   == <<granted, reigns, electedIn, staleReply, held>>
vars == <<serverVars, logVars, leaderVars, mainVars, electVars, syncVars,
          msgs, panicked, histVars>>

-----------------------------------------------------------------------------
(* Messages.  A call is identified by its sender, its goroutine (the       *)
(* election or the round that made it) and its destination.                *)

Entry == [term : Nat, command : Command]

RequestVoteArgs ==
    [type : {"RequestVote"}, from : Server, eid : Eid, to : Server,
     term : Nat, lastLogIndex : Nat, lastLogTerm : Nat]
RequestVoteReply ==
    [type : {"RequestVoteReply"}, from : Server, eid : Eid, to : Server,
     term : Nat, voteGranted : BOOLEAN]
AppendEntriesArgs ==
    [type : {"AppendEntries"}, from : Server, round : Nat, to : Server,
     term : Nat, prevLogIndex : Nat, prevLogTerm : Nat, entries : Seq(Entry),
     leaderCommit : Nat]
\* the reply, with the fields of the args its goroutine still uses
AppendEntriesReply ==
    [type : {"AppendEntriesReply"}, from : Server, round : Nat, to : Server,
     prevLogIndex : Nat, numEntries : Nat, success : BOOLEAN]

(* rpc.go: a call is executed at most once, after any delay and in any      *)
(* order.  A request or a reply that the network drops, or that a disabled *)
(* link or a dead server never lets through, is one that stays in msgs.    *)

\* ClientEnd.Call hands the requests to the network
Call(S) == msgs \cup S
\* ProcessReq runs the handler of request m; its reply r is on the way
Answer(calls, m, r) == (calls \ {m}) \cup {r}
\* Call returns true: the reply m has reached the goroutine that made the call
Return(m) == msgs \ {m}

\* rf.log[k].Term
TermAt(i, k) == IF k = 0 THEN 0 ELSE log[i][k].term
\* len(rf.log)
GoLen(i) == Len(log[i]) + 1
LastTerm(i) == TermAt(i, Len(log[i]))

\* mutant: one slot more than there are peers
HbCapacityPlusOne == N + 1
\* make(chan *AppendEntriesArgs, peerCount)
HbCapacity == N

Min2(a, b) == IF a <= b THEN a ELSE b

\* mutant: the critical section is entered without taking mux
FreeUnlocked(i) == i \notin panicked

\* no goroutine of the peer holds mux, and its process is alive
Free(i) == mux[i] = "free" /\ i \notin panicked

-----------------------------------------------------------------------------
(* args.Entries is a slice of rf.log itself, and the goroutine that makes  *)
(* the call encodes it after mux is released: an append that overwrites    *)
(* the shared array meanwhile may show, entry by entry, in any request of  *)
(* the peer still in flight (or not, when append moved to a new array).    *)

SharedEntry(m, newLog, k) ==
    /\ m.prevLogIndex + k <= Len(newLog)
    /\ newLog[m.prevLogIndex + k] # m.entries[k]

Racy(i, newLog) ==
    {m \in msgs : /\ m.type = "AppendEntries"
                  /\ m.from = i
                  /\ \E k \in DOMAIN m.entries : SharedEntry(m, newLog, k)}

Overwritten(m, newLog, K) ==
    [m EXCEPT !.entries =
        [k \in DOMAIN m.entries |->
            IF k \in K /\ SharedEntry(m, newLog, k)
            THEN newLog[m.prevLogIndex + k] ELSE m.entries[k]]]

\* the calls in flight once rf.log has become newLog
AfterWrite(i, newLog, seen) ==
    (msgs \ Racy(i, newLog))
        \cup {Overwritten(m, newLog, seen[m]) : m \in Racy(i, newLog)}

-----------------------------------------------------------------------------
(* NewPeer *)

Init ==
    /\ currentTerm = [i \in Server |-> 0]
    /\ votedFor = [i \in Server |-> NoVote]
    /\ electionState = [i \in Server |-> Follower]
    /\ log = [i \in Server |-> <<>>]
    /\ commitIndex = [i \in Server |-> 0]
    /\ lastApplied = [i \in Server |-> 0]
    /\ nextIndex = [i \in Server |-> [j \in Server |-> 1]]
    /\ matchIndex = [i \in Server |-> [j \in Server |-> 0]]
    /\ mux = [i \in Server |-> "free"]
    /\ receivedHb = [i \in Server |-> 0]
    /\ mainPC = [i \in Server |-> "select"]
    /\ sendTo = [i \in Server |-> 0]
    /\ rounds = [i \in Server |-> 0]
    /\ electPC = [i \in Server |-> [e \in Eid |-> "none"]]
    /\ electTerm = [i \in Server |-> [e \in Eid |-> 0]]
    /\ totalVotes = [i \in Server |-> [e \in Eid |-> 0]]
    /\ replyTerm = [i \in Server |-> [e \in Eid |-> 0]]
    /\ applyPending = [i \in Server |-> FALSE]
    /\ blocked = [i \in Server |-> {}]
    /\ msgs = {}
    /\ panicked = {}
    /\ applied = [i \in Server |-> <<>>]
    /\ granted = {}
    /\ reigns = {}
    /\ electedIn = [i \in Server |-> 0]
    /\ staleReply = FALSE
    /\ held = [i \in Server |-> {}]

-----------------------------------------------------------------------------
(* mainRoutine, the election timer: spawn startElect.  Its critical        *)
(* section runs later, whatever the peer has become by then.               *)

MainTick(i, e) ==
    /\ mainPC[i] = "select" /\ i \notin panicked
    /\ e <= Timeouts[i]
    /\ electPC[i][e] = "none"
    /\ \A d \in Eid : d < e => electPC[i][d] # "none"
    /\ electPC' = [electPC EXCEPT ![i][e] = "starting"]
    /\ UNCHANGED <<serverVars, logVars, leaderVars, mainVars, electTerm,
                   totalVotes, replyTerm, syncVars, msgs, panicked, histVars>>

\* startElect, up to and including the go sendRequestVoteChan loop
StartElect(i, e) ==
    /\ electPC[i][e] = "starting"
    /\ Free(i)
    /\ currentTerm[i] < MaxTerm
    /\ electionState' = [electionState EXCEPT ![i] = Candidate]
    /\ currentTerm' = [currentTerm EXCEPT ![i] = @ + 1]
    /\ votedFor' = [votedFor EXCEPT ![i] = i]
    /\ electPC' = [electPC EXCEPT ![i][e] = "wait"]
    /\ electTerm' = [electTerm EXCEPT ![i][e] = currentTerm[i] + 1]
    /\ totalVotes' = [totalVotes EXCEPT ![i][e] = 1]
    /\ msgs' = Call(
         {[type |-> "RequestVote", from |-> i, eid |-> e, to |-> j,
           term |-> currentTerm[i] + 1, lastLogIndex |-> GoLen(i),
           lastLogTerm |-> LastTerm(i)] : j \in Server \ {i}})
    /\ UNCHANGED <<logVars, leaderVars, mainVars, replyTerm, syncVars,
                   panicked, histVars>>

(* RequestVote, the handler *)

\* case1 || case2
UpToDate(i, m) ==
    \/ m.lastLogTerm > LastTerm(i)
    \/ /\ m.lastLogTerm = LastTerm(i)
       /\ m.lastLogIndex + 1 >= GoLen(i)

\* votedFor once a higher term in the request has been adopted
VotedForNow(i, m) == IF m.term > currentTerm[i] THEN NoVote ELSE votedFor[i]

\* mutant: votedFor is not consulted
MayVoteAlways(i, m) == TRUE
\* rf.votedFor == -1 || rf.votedFor == args.CandidateId
MayVote(i, m) == VotedForNow(i, m) \in {NoVote, m.from}

Grants(i, m) ==
    /\ m.term >= currentTerm[i]
    /\ MayVote(i, m)
    /\ UpToDate(i, m)

\* reply.Term: left 0 when the terms are equal and the vote is refused, and
\* the old term when a higher term is adopted but the vote refused
VoteReplyTerm(i, m) ==
    IF m.term < currentTerm[i] THEN currentTerm[i]
    ELSE IF Grants(i, m) THEN m.term
    ELSE IF m.term > currentTerm[i] THEN currentTerm[i]
    ELSE 0

RequestVote(i, m) ==
    /\ m.type = "RequestVote" /\ m.to = i
    /\ Free(i)
    /\ currentTerm' = [currentTerm EXCEPT
                         ![i] = IF m.term > @ THEN m.term ELSE @]
    /\ electionState' = [electionState EXCEPT
                           ![i] = IF m.term > currentTerm[i] THEN Follower ELSE @]
    /\ votedFor' = [votedFor EXCEPT
                      ![i] = IF Grants(i, m) THEN m.from ELSE VotedForNow(i, m)]
    /\ granted' = IF Grants(i, m)
                  THEN granted \cup {[voter |-> i, candidate |-> m.from,
                                      eid |-> m.eid, term |-> m.term]}
                  ELSE granted
    /\ msgs' = Answer(msgs, m,
         [type |-> "RequestVoteReply", from |-> m.from, eid |-> m.eid,
          to |-> i, term |-> VoteReplyTerm(i, m),
          voteGranted |-> Grants(i, m)])
    /\ UNCHANGED <<logVars, leaderVars, mainVars, electVars, syncVars,
                   panicked, reigns, electedIn, staleReply, held>>

-----------------------------------------------------------------------------
(* The rest of startElect: the select on replyChan and lostElect.          *)

Wins(votes) == votes > N \div 2

\* mutant: any reply counts as a vote
CountsAlways(m) == TRUE
\* if newReply.VoteGranted
Counts(m) == m.voteGranted

\* mutant: the state is left as it is
StepDownNot(i) == electionState
\* rf.electionState = Follower
StepDown(i) == [electionState EXCEPT ![i] = Follower]

\* case newReply := <-replyChan.  No mutex is held, and nothing compares the
\* election's term with the peer's present one.
ElectReply(i, e, m) ==
    /\ m.type = "RequestVoteReply" /\ m.from = i /\ m.eid = e
    /\ electPC[i][e] = "wait" /\ i \notin panicked
    /\ msgs' = Return(m)
    /\ \/ /\ m.term > electTerm[i][e]
          /\ electPC' = [electPC EXCEPT ![i][e] = "higher"]
          /\ replyTerm' = [replyTerm EXCEPT ![i][e] = m.term]
          /\ UNCHANGED totalVotes
       \/ /\ m.term <= electTerm[i][e]
          /\ Counts(m)
          /\ totalVotes' = [totalVotes EXCEPT ![i][e] = @ + 1]
          /\ electPC' = [electPC EXCEPT
                           ![i][e] = IF Wins(totalVotes[i][e] + 1)
                                     THEN "won" ELSE "wait"]
          /\ UNCHANGED replyTerm
       \/ /\ m.term <= electTerm[i][e]
          /\ ~Counts(m)
          /\ UNCHANGED <<totalVotes, electPC, replyTerm>>
    /\ UNCHANGED <<serverVars, logVars, leaderVars, mainVars, electTerm,
                   syncVars, panicked, histVars>>

\* a reply carried a higher term: adopt it, whatever the peer's term is now
ElectHigher(i, e) ==
    /\ electPC[i][e] = "higher"
    /\ Free(i)
    /\ currentTerm' = [currentTerm EXCEPT ![i] = replyTerm[i][e]]
    /\ electionState' = StepDown(i)
    /\ votedFor' = [votedFor EXCEPT ![i] = NoVote]
    /\ electPC' = [electPC EXCEPT ![i][e] = "done"]
    /\ staleReply' = (staleReply \/ replyTerm[i][e] <= currentTerm[i])
    /\ UNCHANGED <<logVars, leaderVars, mainVars, electTerm, totalVotes,
                   replyTerm, syncVars, msgs, panicked, granted, reigns,
                   electedIn, held>>

\* enough votes: take mux ...
ElectLock(i, e) ==
    /\ electPC[i][e] = "won"
    /\ Free(i)
    /\ mux' = [mux EXCEPT ![i] = "elect"]
    /\ electPC' = [electPC EXCEPT ![i][e] = "announce"]
    /\ UNCHANGED <<serverVars, logVars, leaderVars, mainVars, electTerm,
                   totalVotes, replyTerm, receivedHb, blocked, msgs, panicked,
                   histVars>>

\* ... and hold it over rf.beLeader <- true until mainRoutine selects it
Announce(i, e) ==
    /\ electPC[i][e] = "announce" /\ i \notin panicked
    /\ mainPC[i] = "select"
    /\ mux' = [mux EXCEPT ![i] = "free"]
    /\ electPC' = [electPC EXCEPT ![i][e] = "done"]
    /\ mainPC' = [mainPC EXCEPT ![i] = "becoming"]
    /\ electedIn' = [electedIn EXCEPT ![i] = electTerm[i][e]]
    /\ UNCHANGED <<serverVars, logVars, leaderVars, sendTo, rounds, electTerm,
                   totalVotes, replyTerm, receivedHb, blocked, msgs, panicked,
                   granted, reigns, staleReply, held>>

-----------------------------------------------------------------------------
(* mainRoutine, the other cases of its select.                             *)

\* case <-rf.receivedHb
MainHeartbeat(i) ==
    /\ mainPC[i] = "select" /\ i \notin panicked
    /\ receivedHb[i] > 0
    /\ receivedHb' = [receivedHb EXCEPT ![i] = @ - 1]
    /\ mainPC' = [mainPC EXCEPT ![i] = "heartbeat"]
    /\ UNCHANGED <<serverVars, logVars, leaderVars, sendTo, rounds, electVars,
                   mux, blocked, msgs, panicked, histVars>>

\* rf.mux.Lock(); a candidate goes on to rf.lostElect <- true holding it
MainHeartbeatLock(i) ==
    /\ mainPC[i] = "heartbeat"
    /\ Free(i)
    /\ \/ /\ electionState[i] = Candidate
          /\ mux' = [mux EXCEPT ![i] = "main"]
          /\ mainPC' = [mainPC EXCEPT ![i] = "lostElect"]
       \/ /\ electionState[i] # Candidate
          /\ mainPC' = [mainPC EXCEPT ![i] = "select"]
          /\ UNCHANGED mux
    /\ UNCHANGED <<serverVars, logVars, leaderVars, sendTo, rounds, electVars,
                   receivedHb, blocked, msgs, panicked, histVars>>

\* some election goroutine that is at its select receives it
LostElect(i, e) ==
    /\ mainPC[i] = "lostElect" /\ i \notin panicked
    /\ electPC[i][e] = "wait"
    /\ electPC' = [electPC EXCEPT ![i][e] = "done"]
    /\ electionState' = StepDown(i)
    /\ mux' = [mux EXCEPT ![i] = "free"]
    /\ mainPC' = [mainPC EXCEPT ![i] = "select"]
    /\ UNCHANGED <<currentTerm, votedFor, logVars, leaderVars, sendTo, rounds,
                   electTerm, totalVotes, replyTerm, receivedHb, blocked, msgs,
                   panicked, histVars>>

\* case <-rf.beLeader: take office in whatever term the peer has now
BecomeLeader(i) ==
    /\ mainPC[i] = "becoming"
    /\ Free(i)
    /\ nextIndex' = [nextIndex EXCEPT ![i] = [j \in Server |-> GoLen(i)]]
    /\ matchIndex' = [matchIndex EXCEPT ![i] = [j \in Server |-> 0]]
    /\ electionState' = [electionState EXCEPT ![i] = Leader]
    /\ mainPC' = [mainPC EXCEPT ![i] = "check"]
    /\ reigns' = reigns \cup {[server |-> i, term |-> currentTerm[i],
                               elected |-> electedIn[i]]}
    /\ UNCHANGED <<currentTerm, votedFor, logVars, sendTo, rounds, electVars,
                   syncVars, msgs, panicked, granted, electedIn, staleReply, held>>

-----------------------------------------------------------------------------
(* startAppendEntries, run by mainRoutine.  Leadership is checked once per *)
(* round; each request of the round is built in a critical section of its  *)
(* own, from whatever the peer's state is by then.                         *)

\* the loop skips i == rf_me
SkipSelf(i, k) == IF k = i THEN k + 1 ELSE k

CheckLeader(i) ==
    /\ mainPC[i] = "check"
    /\ Free(i)
    /\ \/ /\ electionState[i] # Leader
          /\ mainPC' = [mainPC EXCEPT ![i] = "select"]
          /\ UNCHANGED <<sendTo, rounds>>
       \/ /\ electionState[i] = Leader
          /\ rounds[i] < MaxRounds
          /\ SkipSelf(i, 0) < N
          /\ rounds' = [rounds EXCEPT ![i] = @ + 1]
          /\ sendTo' = [sendTo EXCEPT ![i] = SkipSelf(i, 0)]
          /\ mainPC' = [mainPC EXCEPT ![i] = "send"]
    /\ UNCHANGED <<serverVars, logVars, leaderVars, electVars, syncVars, msgs,
                   panicked, histVars>>

\* mutant: Entries starts one entry late
RequestSkipsOne(i, j) ==
    LET prev == nextIndex[i][j] - 1
    IN  [type |-> "AppendEntries", from |-> i, round |-> rounds[i], to |-> j,
         term |-> currentTerm[i], prevLogIndex |-> prev,
         prevLogTerm |-> TermAt(i, prev),
         entries |-> SubSeq(log[i], prev + 2, Len(log[i])),
         leaderCommit |-> commitIndex[i]]
\* the request for peer j; Entries is empty in a heartbeat
Request(i, j) ==
    LET prev == nextIndex[i][j] - 1
    IN  [type |-> "AppendEntries", from |-> i, round |-> rounds[i], to |-> j,
         term |-> currentTerm[i], prevLogIndex |-> prev,
         prevLogTerm |-> TermAt(i, prev),
         entries |-> SubSeq(log[i], prev + 1, Len(log[i])),
         leaderCommit |-> commitIndex[i]]

\* rf.log[rf.nextIndex[i]-1] is out of range if the log has been cut since
SendAppend(i) ==
    LET j     == sendTo[i]
        next  == SkipSelf(i, j + 1)
        panic == nextIndex[i][j] > GoLen(i)
    IN  /\ mainPC[i] = "send"
        /\ Free(i)
        /\ panicked' = IF panic THEN panicked \cup {i} ELSE panicked
        /\ msgs' = IF panic THEN msgs ELSE Call({Request(i, j)})
        /\ sendTo' = [sendTo EXCEPT ![i] = IF next < N THEN next ELSE 0]
        /\ mainPC' = [mainPC EXCEPT ![i] = IF next < N THEN "send" ELSE "check"]
        /\ UNCHANGED <<serverVars, logVars, leaderVars, rounds, electVars,
                       syncVars, histVars>>

-----------------------------------------------------------------------------
(* AppendEntries, the handler *)

PrevMatches(i, m) ==
    /\ m.prevLogIndex < GoLen(i)
    /\ TermAt(i, m.prevLogIndex) = m.prevLogTerm

\* the log has an entry at the place of the a-th entry of the request, of its term
Agrees(i, m, a) ==
    /\ m.prevLogIndex + a <= Len(log[i])
    /\ log[i][m.prevLogIndex + a].term = m.entries[a].term

\* the loop stops with argIdx = k
StopsAt(i, m, k) ==
    /\ \A a \in 1 .. k : Agrees(i, m, a)
    /\ k < Len(m.entries) => ~Agrees(i, m, k + 1)

\* rf.log[:rfIdx], then the entries from argIdx on: what follows the entries
\* that agree is cut off even if nothing in the request conflicts with it
MergedLog(i, m, k) ==
    SubSeq(log[i], 1, m.prevLogIndex + k)
        \o SubSeq(m.entries, k + 1, Len(m.entries))

ReplyTo(i, m, ok) ==
    [type |-> "AppendEntriesReply", from |-> m.from, round |-> m.round,
     to |-> i, prevLogIndex |-> m.prevLogIndex,
     numEntries |-> Len(m.entries), success |-> ok]

\* mutant: everything received is taken as committed
CommitAll(m, newLog) == Len(newLog)
\* min(last, args.LeaderCommit)
CommitTo(m, newLog) == Min2(Len(newLog), m.leaderCommit)

\* every position and entry a log has held (history)
Held(l) == {<<k, l[k]>> : k \in 1 .. Len(l)}

\* the entries fit: take them and advance the commit index
Accept(i, m, k) ==
    LET newLog  == MergedLog(i, m, k)
        advance == commitIndex[i] < m.leaderCommit
    IN  /\ PrevMatches(i, m)
        /\ StopsAt(i, m, k)
        /\ log' = [log EXCEPT ![i] = newLog]
        /\ commitIndex' = [commitIndex EXCEPT
                             ![i] = IF advance THEN CommitTo(m, newLog)
                                    ELSE @]
        /\ held' = [held EXCEPT ![i] = @ \cup Held(newLog)]
        /\ applyPending' = [applyPending EXCEPT ![i] = @ \/ advance]
        /\ \E seen \in [Racy(i, newLog) -> SUBSET (1 .. MaxLog)] :
             msgs' = Answer(AfterWrite(i, newLog, seen), m, ReplyTo(i, m, TRUE))

Reject(i, m) ==
    /\ ~PrevMatches(i, m)
    /\ msgs' = Answer(msgs, m, ReplyTo(i, m, FALSE))
    /\ UNCHANGED <<log, commitIndex, applyPending, held>>

\* the handler after rf.receivedHb <- args, for a term not below the peer's;
\* votedFor survives the change of term
Receive(i, m) ==
    /\ currentTerm' = [currentTerm EXCEPT
                         ![i] = IF m.term > @ THEN m.term ELSE @]
    /\ electionState' = [electionState EXCEPT
                           ![i] = IF m.term > currentTerm[i] THEN Follower ELSE @]
    /\ \/ \E k \in 0 .. Len(m.entries) : Accept(i, m, k)
       \/ Reject(i, m)
    /\ UNCHANGED <<votedFor, lastApplied, applied, leaderVars, mainVars,
                   electVars, panicked, granted, reigns, electedIn, staleReply>>

\* a request of an older term
AppendEntriesStale(i, m) ==
    /\ m.type = "AppendEntries" /\ m.to = i
    /\ Free(i)
    /\ m.term < currentTerm[i]
    /\ msgs' = Answer(msgs, m, ReplyTo(i, m, FALSE))
    /\ UNCHANGED <<serverVars, logVars, leaderVars, mainVars, electVars,
                   syncVars, panicked, histVars>>

AppendEntries(i, m) ==
    /\ m.type = "AppendEntries" /\ m.to = i
    /\ Free(i)
    /\ m.term >= currentTerm[i]
    /\ receivedHb[i] < HbCapacity
    /\ receivedHb' = [receivedHb EXCEPT ![i] = @ + 1]
    /\ Receive(i, m)
    /\ UNCHANGED <<mux, blocked>>

\* receivedHb is full: the handler blocks on it holding mux ...
AppendEntriesBlock(i, m) ==
    /\ m.type = "AppendEntries" /\ m.to = i
    /\ Free(i)
    /\ m.term >= currentTerm[i]
    /\ receivedHb[i] = HbCapacity
    /\ mux' = [mux EXCEPT ![i] = "handler"]
    /\ blocked' = [blocked EXCEPT ![i] = {m}]
    /\ msgs' = msgs \ {m}
    /\ UNCHANGED <<serverVars, logVars, leaderVars, mainVars, electVars,
                   receivedHb, panicked, histVars>>

\* ... until mainRoutine takes one out
AppendEntriesResume(i, m) ==
    /\ m \in blocked[i] /\ i \notin panicked
    /\ receivedHb[i] < HbCapacity
    /\ receivedHb' = [receivedHb EXCEPT ![i] = @ + 1]
    /\ mux' = [mux EXCEPT ![i] = "free"]
    /\ blocked' = [blocked EXCEPT ![i] = {}]
    /\ Receive(i, m)

-----------------------------------------------------------------------------
(* processAppendEntriesReply.  Neither the peer's state nor the term of    *)
(* the call is looked at: a late reply acts on the present nextIndex,      *)
(* matchIndex and log.                                                     *)

\* mutant: half of the peers are enough
EnoughHalf(votes) == votes >= N \div 2
\* vote > len(rf.peers)/2
Enough(votes) == votes > N \div 2

Replicas(i, k, match) ==
    1 + Cardinality({p \in Server \ {i} : match[p] >= k})

\* the first index above commitIndex that the loop commits, if any
Committable(i, match) ==
    {k \in commitIndex[i] + 1 .. Len(log[i]) :
        /\ log[i][k].term = currentTerm[i]
        /\ Enough(Replicas(i, k, match))}

NextIndexAfter(i, m) ==
    IF m.success THEN m.prevLogIndex + m.numEntries + 1
    ELSE IF nextIndex[i][m.to] > 1 /\ m.numEntries > 0
         THEN nextIndex[i][m.to] - 1
         ELSE nextIndex[i][m.to]

MatchIndexAfter(i, m) ==
    IF m.success THEN m.prevLogIndex + m.numEntries ELSE matchIndex[i][m.to]

ProcessAppendEntriesReply(i, m) ==
    LET match == [matchIndex[i] EXCEPT ![m.to] = MatchIndexAfter(i, m)]
        ready == Committable(i, match)
    IN  /\ m.type = "AppendEntriesReply" /\ m.from = i
        /\ Free(i)
        /\ nextIndex' = [nextIndex EXCEPT ![i][m.to] = NextIndexAfter(i, m)]
        /\ matchIndex' = [matchIndex EXCEPT ![i] = match]
        /\ \/ /\ ready = {}
              /\ UNCHANGED <<commitIndex, applyPending>>
           \/ \E k \in ready :
                /\ \A l \in ready : k <= l
                /\ commitIndex' = [commitIndex EXCEPT ![i] = k]
                /\ applyPending' = [applyPending EXCEPT ![i] = TRUE]
        /\ msgs' = Return(m)
        /\ UNCHANGED <<serverVars, log, lastApplied, applied, mainVars,
                       electVars, syncVars, panicked, histVars>>

-----------------------------------------------------------------------------
(* applyCommit: send the newly committed entries on applyCh, whose reader  *)
(* is always ready.  rf.log[i] is out of range if the log has become       *)
(* shorter than commitIndex since.                                         *)

\* mutant: start at lastApplied itself
ApplyFromLast(i) == IF lastApplied[i] = 0 THEN 1 ELSE lastApplied[i]
\* i := rf.lastApplied + 1
ApplyFrom(i) == lastApplied[i] + 1

ApplyCommit(i) ==
    /\ applyPending[i]
    /\ Free(i)
    /\ applied' = [applied EXCEPT
                     ![i] = @ \o SubSeq(log[i], ApplyFrom(i),
                                        Min2(commitIndex[i], Len(log[i])))]
    /\ applyPending' = [applyPending EXCEPT ![i] = FALSE]
    /\ lastApplied' = [lastApplied EXCEPT ![i] = commitIndex[i]]
    /\ panicked' = IF /\ commitIndex[i] > lastApplied[i]
                      /\ commitIndex[i] > Len(log[i])
                   THEN panicked \cup {i} ELSE panicked
    /\ UNCHANGED <<serverVars, log, commitIndex, leaderVars, mainVars,
                   electVars, syncVars, msgs, histVars>>

(* PutCommand, on a peer that believes it leads *)

PutCommand(i, c) ==
    LET newLog == Append(log[i], [term |-> currentTerm[i], command |-> c])
    IN  /\ electionState[i] = Leader
        /\ Free(i)
        /\ Len(log[i]) < MaxLog
        /\ log' = [log EXCEPT ![i] = newLog]
        /\ \E seen \in [Racy(i, newLog) -> SUBSET (1 .. MaxLog)] :
             msgs' = AfterWrite(i, newLog, seen)
        /\ held' = [held EXCEPT ![i] = @ \cup Held(newLog)]
        /\ UNCHANGED <<serverVars, commitIndex, lastApplied, applyPending,
                       applied, leaderVars, mainVars, electVars, syncVars,
                       panicked, granted, reigns, electedIn, staleReply>>

-----------------------------------------------------------------------------

Next ==
    \E i \in Server :
        \/ MainHeartbeat(i)
        \/ MainHeartbeatLock(i)
        \/ BecomeLeader(i)
        \/ CheckLeader(i)
        \/ SendAppend(i)
        \/ ApplyCommit(i)
        \/ \E c \in Command : PutCommand(i, c)
        \/ \E e \in Eid :
             \/ MainTick(i, e)
             \/ StartElect(i, e)
             \/ ElectHigher(i, e)
             \/ ElectLock(i, e)
             \/ Announce(i, e)
             \/ LostElect(i, e)
             \/ \E m \in msgs : ElectReply(i, e, m)
        \/ \E m \in msgs :
             \/ RequestVote(i, m)
             \/ AppendEntriesStale(i, m)
             \/ AppendEntries(i, m)
             \/ AppendEntriesBlock(i, m)
             \/ ProcessAppendEntriesReply(i, m)
        \/ \E m \in blocked[i] : AppendEntriesResume(i, m)

Spec == Init /\ [][Next]_vars

-----------------------------------------------------------------------------
(* Properties *)

ServerTypeOK ==
    /\ currentTerm \in [Server -> Nat]
    /\ votedFor \in [Server -> Server \cup {NoVote}]
    /\ electionState \in [Server -> {Follower, Candidate, Leader}]
LogTypeOK ==
    /\ log \in [Server -> Seq(Entry)]
    /\ commitIndex \in [Server -> Nat]
    /\ lastApplied \in [Server -> Nat]
    /\ applyPending \in [Server -> BOOLEAN]
    /\ applied \in [Server -> Seq(Entry)]
LeaderTypeOK ==
    /\ nextIndex \in [Server -> [Server -> Nat \ {0}]]
    /\ matchIndex \in [Server -> [Server -> Nat]]
MainTypeOK ==
    /\ mainPC \in [Server -> {"select", "heartbeat", "lostElect", "becoming",
                              "check", "send"}]
    /\ sendTo \in [Server -> Server]
    /\ rounds \in [Server -> Nat]
ElectTypeOK ==
    /\ electPC \in [Server -> [Eid -> {"none", "starting", "wait", "higher",
                                       "won", "announce", "done"}]]
    /\ electTerm \in [Server -> [Eid -> Nat]]
    /\ totalVotes \in [Server -> [Eid -> Nat]]
    /\ replyTerm \in [Server -> [Eid -> Nat]]
SyncTypeOK ==
    /\ mux \in [Server -> {"free", "main", "elect", "handler"}]
    /\ receivedHb \in [Server -> 0 .. N]
    /\ blocked \in [Server -> SUBSET AppendEntriesArgs]
MsgsTypeOK ==
    msgs \subseteq (RequestVoteArgs \cup RequestVoteReply
                        \cup AppendEntriesArgs \cup AppendEntriesReply)
HistTypeOK ==
    /\ granted \subseteq [voter : Server, candidate : Server, eid : Eid, term : Nat]
    /\ reigns \subseteq [server : Server, term : Nat, elected : Nat]
    /\ electedIn \in [Server -> Nat]
    /\ staleReply \in BOOLEAN
    /\ held \in [Server -> SUBSET (Nat \X Entry)]

\* The type of every variable: in particular the receivedHb channel never holds
\* more than its capacity, nextIndex never reaches 0, and every call in flight
\* is well formed.
TypeOK ==
    /\ ServerTypeOK
    /\ LogTypeOK
    /\ LeaderTypeOK
    /\ MainTypeOK
    /\ ElectTypeOK
    /\ SyncTypeOK
    /\ MsgsTypeOK
    /\ panicked \subseteq Server
    /\ HistTypeOK

\* The peers that granted their vote to candidate i in term t.
Voters(i, t) ==
    {j \in Server : \E g \in granted : /\ g.voter = j
                                       /\ g.candidate = i
                                       /\ g.term = t}

\* Votes are counted from replies that may be late, out of order or missing:
\* an election goroutine that goes on to announce a win (startElect,
\* totalVotes > rf_peerCount/2) holds the votes of a majority of distinct
\* peers, its own included, all granted for the term it asked for.
GenuineMajority ==
    \A i \in Server, e \in Eid :
        electPC[i][e] \in {"won", "announce"} =>
            2 * Cardinality({i} \cup Voters(i, electTerm[i][e])) > N

\* mux is held across a channel operation by at most one goroutine of a peer,
\* and is marked accordingly: mainRoutine on lostElect, an election goroutine
\* on beLeader, or the AppendEntries handler on receivedHb.
MutexHolder ==
    \A i \in Server :
        /\ mux[i] = "main" <=> mainPC[i] = "lostElect"
        /\ mux[i] = "elect" <=> \E e \in Eid : electPC[i][e] = "announce"
        /\ mux[i] = "handler" <=> blocked[i] # {}
        /\ \A d, e \in Eid : electPC[i][d] = "announce" /\ electPC[i][e] = "announce"
                               => d = e

\* A candidate is never left without an election that can still end: some
\* startElect goroutine of it is running, or its win has been announced to
\* mainRoutine.  (mainRoutine blocks on lostElect holding mux if there is
\* none.)
CandidateHasElection ==
    \A i \in Server :
        electionState[i] = Candidate =>
            \/ mainPC[i] = "becoming"
            \/ \E e \in Eid : electPC[i][e] \in {"wait", "higher", "won", "announce"}

\* One winner per term, as far as the code goes: whatever votes and replies
\* are delayed, no two peers take office on elections of the same term, unless
\* a late reply has made some peer forget its vote in a term it had already
\* reached (startElect's newReply.Term > rf_currentTerm branch).
ElectionSafetyUnlessStale ==
    ~staleReply =>
        \A r, s \in reigns : r.elected = s.elected => r.server = s.server

\* At no moment do two peers report, through GetState, that they lead in the
\* same term (the tests' checkOneLeader).
ElectionSafety ==
    \A i, j \in Server :
        /\ electionState[i] = Leader /\ electionState[j] = Leader
        /\ currentTerm[i] = currentTerm[j]
        => i = j

-----------------------------------------------------------------------------
(* Properties of replication while one term lasts (MaxTerm = 1).           *)

IsPrefixOf(s, t) == Len(s) <= Len(t) /\ s = SubSeq(t, 1, Len(s))

\* Whatever requests are lost, delayed or reordered, a follower's log is a
\* prefix of the log of the leader of the term (AppendEntries).
FollowerPrefix ==
    \A r \in reigns, i \in Server : IsPrefixOf(log[i], log[r.server])

\* What the peers send on applyCh agrees: of any two peers one has applied a
\* prefix of what the other has (raft_test.go compares them index by index).
AppliedAgree ==
    \A i, j \in Server :
        IsPrefixOf(applied[i], applied[j]) \/ IsPrefixOf(applied[j], applied[i])

\* Concurrent applyCommit goroutines apply every committed entry once and in
\* order: lastApplied counts what was sent, and never passes commitIndex.
AppliedInOrder ==
    \A i \in Server \ panicked :
        /\ Len(applied[i]) = lastApplied[i]
        /\ lastApplied[i] <= commitIndex[i]

\* A follower never believes committed what the leader does not.
CommitBehindLeader ==
    \A r \in reigns, i \in Server : commitIndex[i] <= commitIndex[r.server]

\* The leader's counting of late and reordered replies commits an entry only
\* once a majority of the peers has stored it (processAppendEntriesReply).
CommitMajority ==
    \A r \in reigns : \A k \in 1 .. commitIndex[r.server] :
            2 * Cardinality({j \in Server :
                    <<k, log[r.server][k]>> \in held[j]}) > N

=============================================================================
