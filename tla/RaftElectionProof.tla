------------------------- MODULE RaftElectionProof -------------------------
(***************************************************************************)
(* Elections of Raft, for any number of peers, elections and terms: a win  *)
(* rests on a majority of distinct votes, and no two peers are elected in  *)
(* the same term unless a late reply has made one of them forget a vote.   *)
(***************************************************************************)
EXTENDS RaftTypeProof, FiniteSetTheorems

USE DEF Call, Answer, Return

-----------------------------------------------------------------------------
(* The invariant, and the actions that leave votes and their counting alone. *)

VoteMsgs == {m \in msgs : m.type \in {"RequestVote", "RequestVoteReply"}}

Voted(i, e, j) ==
    \E g \in granted : g.voter = j /\ g.candidate = i /\ g.eid = e

\* A call of an election has at most one message in flight; a vote is on
\* record from the moment it is granted, for the term that was asked.
CallInv ==
    /\ \A m \in VoteMsgs : m.to # m.from /\ Running(m.from, m.eid)
    /\ \A m, n \in VoteMsgs :
         m.from = n.from /\ m.eid = n.eid /\ m.to = n.to => m = n
    /\ \A m \in VoteMsgs :
         m.type = "RequestVote" => /\ m.term = electTerm[m.from][m.eid]
                                   /\ ~Voted(m.from, m.eid, m.to)
    /\ \A m \in VoteMsgs :
         m.type = "RequestVoteReply" /\ m.voteGranted =>
             Voted(m.from, m.eid, m.to)
    /\ \A g \in granted : /\ g.voter # g.candidate
                          /\ Running(g.candidate, g.eid)
                          /\ g.term = electTerm[g.candidate][g.eid]

\* Until a late reply is applied, a peer's vote in its present term is the one
\* on record, its own elections are votes for itself, and it has voted for at
\* most one candidate in any term.
VoteInv ==
    ~staleReply =>
      /\ \A g \in granted :
           /\ g.term <= currentTerm[g.voter]
           /\ g.term = currentTerm[g.voter] => votedFor[g.voter] = g.candidate
      /\ \A i \in Server, e \in Eid :
           Running(i, e) =>
             /\ electTerm[i][e] <= currentTerm[i]
             /\ electTerm[i][e] = currentTerm[i] => votedFor[i] = i
             /\ \A g \in granted : g.voter = i => g.term # electTerm[i][e]
      /\ \A g, h \in granted :
           g.voter = h.voter /\ g.term = h.term => g.candidate = h.candidate

\* the peers whose vote the election has taken out of replyChan
Counted(i, e) ==
    {j \in Server :
        /\ Voted(i, e, j)
        /\ \A m \in VoteMsgs : ~(m.from = i /\ m.eid = e /\ m.to = j)}

\* totalVotes counts each vote once.
CountInv ==
    \A i \in Server, e \in Eid :
        Running(i, e) =>
            /\ totalVotes[i][e] <= 1 + Cardinality(Counted(i, e))
            /\ electPC[i][e] \in {"won", "announce"} => Wins(totalVotes[i][e])

Elected(i, t) ==
    /\ 2 * Cardinality({i} \cup Voters(i, t)) > N
    /\ \E e \in Eid : Running(i, e) /\ electTerm[i][e] = t

\* Whoever has taken office, or is about to, was elected.
ReignInv ==
    /\ \A i \in Server : mainPC[i] = "becoming" => Elected(i, electedIn[i])
    /\ \A r \in reigns : Elected(r.server, r.elected)

ElectionInv == TypeOK /\ CallInv /\ VoteInv /\ CountInv /\ ReignInv

LEMMA PeersCardinality ==
    /\ IsFiniteSet(Server) /\ Cardinality(Server) = N
    /\ \A S \in SUBSET Server : IsFiniteSet(S) /\ Cardinality(S) \in Nat
    /\ \A S, T \in SUBSET Server :
         S \subseteq T => Cardinality(S) <= Cardinality(T)
  <1>1. IsFiniteSet(Server) /\ Cardinality(Server) = N
    BY NAssumption, FS_Interval DEF Server
  <1>2. \A S \in SUBSET Server : IsFiniteSet(S) /\ Cardinality(S) \in Nat
    BY Zenon, <1>1, FS_Subset, FS_CardinalityType
  <1>3. \A S, T \in SUBSET Server :
          S \subseteq T => Cardinality(S) <= Cardinality(T)
    BY Zenon, <1>2, FS_Subset
  <1> QED  BY Zenon, <1>1, <1>2, <1>3

-----------------------------------------------------------------------------
(* Steps that leave the elections alone.                                   *)

LEMMA VoteMsgType ==
    ASSUME TypeOK, NEW m \in VoteMsgs
    PROVE  /\ m \in msgs
           /\ m.from \in Server /\ m.eid \in Eid /\ m.to \in Server
           /\ m.term \in Nat
           /\ m.type = "RequestVote" => m \in RequestVoteArgs
           /\ m.type = "RequestVoteReply" => m \in RequestVoteReply
  <1>1. m \in AllMessages /\ m.type \in {"RequestVote", "RequestVoteReply"}
    BY Zenon DEF VoteMsgs, TypeOK, MsgsTypeOK, AllMessages
  <1>2. m \in RequestVoteArgs \/ m \in RequestVoteReply
    BY Zenon, <1>1, MessageByType
  <1> QED  BY Zenon, <1>1, <1>2, MessageByType
           DEF VoteMsgs, RequestVoteArgs, RequestVoteReply

LEMMA GrantedType ==
    ASSUME TypeOK, NEW g \in granted
    PROVE  /\ g.voter \in Server /\ g.candidate \in Server /\ g.eid \in Eid
           /\ g.term \in Nat
  BY Zenon DEF TypeOK, HistTypeOK

\* An append changes AppendEntries requests at most.
LEMMA AfterWriteVotes ==
    ASSUME TypeOK, NEW i \in Server, NEW newLog, NEW seen
    PROVE  {m \in AfterWrite(i, newLog, seen) :
              m.type \in {"RequestVote", "RequestVoteReply"}} = VoteMsgs
  <1>1. ASSUME NEW m \in Racy(i, newLog), NEW K
        PROVE  Overwritten(m, newLog, K).type = "AppendEntries"
    <2>1. m \in AppendEntriesArgs
      BY Zenon, MessageByType DEF Racy, TypeOK, MsgsTypeOK, AllMessages
    <2> QED  BY Zenon, <2>1 DEF Overwritten, AppendEntriesArgs
  <1>2. \A m \in Racy(i, newLog) : m.type = "AppendEntries"
    BY Zenon DEF Racy
  <1> QED  BY Zenon, <1>1, <1>2 DEF AfterWrite, VoteMsgs

\* No vote is asked for, cast or counted, and no election is won.
Quiet ==
    /\ UNCHANGED <<electTerm, totalVotes, granted>>
    /\ VoteMsgs' = VoteMsgs
    /\ \A i \in Server, e \in Eid :
         /\ Running(i, e)' = Running(i, e)
         /\ electPC'[i][e] \in {"won", "announce"} =>
              electPC[i][e] \in {"won", "announce"}

LEMMA QuietStep ==
    ASSUME ElectionInv, Quiet
    PROVE  /\ CallInv' /\ CountInv'
           /\ \A i \in Server, t \in Nat : Elected(i, t)' = Elected(i, t)
  <1>1. /\ \A i, e, j : Voted(i, e, j)' = Voted(i, e, j)
        /\ \A i, t : Voters(i, t)' = Voters(i, t)
        /\ \A i, e : Counted(i, e)' = Counted(i, e)
    BY Zenon DEF Quiet, Voted, Voters, Counted
  <1>2. CallInv'
    <2>1. \A m \in VoteMsgs : Running(m.from, m.eid)' = Running(m.from, m.eid)
      BY Zenon, VoteMsgType DEF ElectionInv, Quiet
    <2>2. \A g \in granted : Running(g.candidate, g.eid)'
                               = Running(g.candidate, g.eid)
      BY Zenon, GrantedType DEF ElectionInv, Quiet
    <2> QED  BY Zenon, <1>1, <2>1, <2>2 DEF ElectionInv, CallInv, Quiet
  <1>3. CountInv'
    BY Zenon, <1>1 DEF ElectionInv, CountInv, Quiet, Wins
  <1>4. \A i \in Server, t \in Nat : Elected(i, t)' = Elected(i, t)
    BY Zenon, <1>1 DEF Elected, Quiet
  <1> QED  BY Zenon, <1>2, <1>3, <1>4

\* Terms grow, and a vote is forgotten only with its term.
TermsGrow ==
    \A i \in Server :
        /\ currentTerm'[i] >= currentTerm[i]
        /\ currentTerm'[i] = currentTerm[i] => votedFor'[i] = votedFor[i]

LEMMA QuietVotes ==
    ASSUME ElectionInv, TypeOK', Quiet, ~staleReply, TermsGrow
    PROVE  VoteInv'
  <1>1. \A i \in Server : currentTerm[i] \in Nat /\ currentTerm'[i] \in Nat
    BY Zenon DEF ElectionInv, TypeOK, ServerTypeOK
  <1>2. \A i \in Server, e \in Eid : electTerm[i][e] \in Nat
    BY DEF ElectionInv, TypeOK, ElectTypeOK
  <1>3. ASSUME NEW g \in granted
        PROVE  /\ g.term <= currentTerm'[g.voter]
               /\ g.term = currentTerm'[g.voter] =>
                    votedFor'[g.voter] = g.candidate
    BY <1>1, GrantedType DEF ElectionInv, VoteInv, TermsGrow
  <1>4. ASSUME NEW i \in Server, NEW e \in Eid, Running(i, e)
        PROVE  /\ electTerm[i][e] <= currentTerm'[i]
               /\ electTerm[i][e] = currentTerm'[i] => votedFor'[i] = i
    BY <1>1, <1>2, <1>4 DEF ElectionInv, VoteInv, TermsGrow
  <1> QED  BY <1>3, <1>4 DEF ElectionInv, VoteInv, Quiet

\* Neither does anyone take office or apply a late reply.
Neutral ==
    /\ Quiet
    /\ TermsGrow
    /\ UNCHANGED <<reigns, electedIn, staleReply>>
    /\ \A i \in Server : mainPC'[i] = "becoming" => mainPC[i] = "becoming"

LEMMA NeutralStep ==
    ASSUME ElectionInv, TypeOK', Neutral
    PROVE  ElectionInv'
  <1>1. VoteInv'
    BY Zenon, QuietVotes DEF Neutral, VoteInv
  <1>2. ReignInv'
    <2>1. /\ \A i \in Server : electedIn[i] \in Nat
          /\ \A r \in reigns : r.server \in Server /\ r.elected \in Nat
      BY Zenon DEF ElectionInv, TypeOK, HistTypeOK
    <2> QED  BY Zenon, <2>1, QuietStep DEF ElectionInv, ReignInv, Neutral
  <1> QED  BY Zenon, <1>1, <1>2, QuietStep DEF ElectionInv, Neutral

\* A step that touches no election.
LEMMA QuietElections ==
    ASSUME UNCHANGED <<electVars, granted>>, VoteMsgs' = VoteMsgs
    PROVE  Quiet
  BY Zenon DEF Quiet, Running, electVars

\* mainRoutine outside an election, replication and clients
LEMMA NeutralActions ==
    ASSUME TypeOK, NEW i \in Server,
           \/ MainHeartbeat(i) \/ MainHeartbeatLock(i)
           \/ CheckLeader(i) \/ SendAppend(i) \/ ApplyCommit(i)
           \/ \E c \in Command : PutCommand(i, c)
           \/ \E m \in msgs : \/ AppendEntriesStale(i, m)
                              \/ AppendEntries(i, m)
                              \/ AppendEntriesBlock(i, m)
                              \/ ProcessAppendEntriesReply(i, m)
           \/ \E m \in blocked[i] : AppendEntriesResume(i, m)
    PROVE  Neutral
  <1> DEFINE Strict ==
         /\ UNCHANGED <<electVars, granted, reigns, electedIn, staleReply>>
         /\ VoteMsgs' = VoteMsgs
         /\ \A j \in Server :
              /\ currentTerm'[j] >= currentTerm[j]
              /\ votedFor'[j] = votedFor[j]
              /\ mainPC'[j] = "becoming" => mainPC[j] = "becoming"
  <1> SUFFICES Strict
    BY Zenon, QuietElections DEF Neutral, TermsGrow
  <1>0. /\ \A j \in Server : currentTerm[j] \in Nat
        /\ mainPC \in [Server -> {"select", "heartbeat", "lostElect", "becoming",
                                  "check", "send"}]
        /\ currentTerm \in [Server -> Nat]
    BY Zenon DEF TypeOK, ServerTypeOK, MainTypeOK
  <1>1. CASE MainHeartbeat(i)
    BY <1>0, <1>1 DEF MainHeartbeat, VoteMsgs, serverVars, histVars
  <1>2. CASE MainHeartbeatLock(i)
    BY <1>0, <1>2 DEF MainHeartbeatLock, VoteMsgs, serverVars, histVars
  <1>3. CASE CheckLeader(i)
    BY <1>0, <1>3 DEF CheckLeader, VoteMsgs, serverVars, histVars
  <1>4. CASE SendAppend(i)
    <2>1. VoteMsgs' = VoteMsgs
      <3>1. \A j : Request(i, j).type = "AppendEntries"
        BY Zenon DEF Request
      <3> QED  BY Zenon, <1>4, <3>1 DEF SendAppend, VoteMsgs
    <2> QED  BY SMTT(40), <1>0, <1>4, <2>1 DEF SendAppend, serverVars, histVars
  <1>5. CASE ApplyCommit(i)
    <2>1. UNCHANGED <<electVars, granted, reigns, electedIn, staleReply,
                      currentTerm, votedFor, mainPC, msgs>>
      BY Zenon, <1>5 DEF ApplyCommit, serverVars, histVars, mainVars
    <2> QED  BY <1>0, <2>1 DEF VoteMsgs
  <1>6. ASSUME NEW c \in Command, PutCommand(i, c)
        PROVE  Strict
    <2>1. VoteMsgs' = VoteMsgs
      BY Zenon, <1>6, AfterWriteVotes DEF PutCommand, VoteMsgs
    <2>2. UNCHANGED <<electVars, granted, reigns, electedIn, staleReply,
                      currentTerm, votedFor, mainPC>>
      BY Zenon, <1>6 DEF PutCommand, serverVars, mainVars
    <2> QED  BY <1>0, <2>1, <2>2
  <1>7. \A m, ok : ReplyTo(i, m, ok).type = "AppendEntriesReply"
    BY Zenon DEF ReplyTo
  <1>8. ASSUME NEW m \in msgs, AppendEntriesStale(i, m)
        PROVE  Strict
    <2>1. VoteMsgs' = VoteMsgs
      BY Zenon, <1>7, <1>8 DEF AppendEntriesStale, VoteMsgs
    <2> QED  BY <1>0, <1>8, <2>1
             DEF AppendEntriesStale, serverVars, histVars, mainVars
  <1>9. ASSUME NEW m \in msgs, AppendEntriesBlock(i, m)
        PROVE  Strict
    <2>1. VoteMsgs' = VoteMsgs
      BY Zenon, <1>9 DEF AppendEntriesBlock, VoteMsgs
    <2> QED  BY <1>0, <1>9, <2>1
             DEF AppendEntriesBlock, serverVars, histVars, mainVars
  <1>10. ASSUME NEW m \in msgs, ProcessAppendEntriesReply(i, m)
         PROVE  Strict
    <2>1. VoteMsgs' = VoteMsgs
      BY Zenon, <1>10 DEF ProcessAppendEntriesReply, VoteMsgs
    <2> QED  BY <1>0, <1>10, <2>1
             DEF ProcessAppendEntriesReply, serverVars, histVars, mainVars
  <1>11. ASSUME NEW m \in AppendEntriesArgs, Receive(i, m)
         PROVE  Strict
    <2>1. m.type = "AppendEntries" /\ m.term \in Nat
      BY Zenon DEF AppendEntriesArgs
    <2>2. VoteMsgs' = VoteMsgs
      <3>1. ASSUME NEW k, Accept(i, m, k) PROVE VoteMsgs' = VoteMsgs
        <4>1. PICK seen : msgs' = (AfterWrite(i, MergedLog(i, m, k), seen) \ {m})
                                     \cup {ReplyTo(i, m, TRUE)}
          BY Zenon, <3>1 DEF Accept
        <4> QED  BY Zenon, <1>7, <2>1, <4>1, AfterWriteVotes DEF VoteMsgs
      <3>2. CASE Reject(i, m)
        BY Zenon, <1>7, <2>1, <3>2 DEF Reject, VoteMsgs
      <3> QED  BY Zenon, <1>11, <3>1, <3>2 DEF Receive
    <2>3. \A j \in Server : /\ currentTerm'[j] >= currentTerm[j]
                            /\ votedFor'[j] = votedFor[j]
                            /\ mainPC'[j] = mainPC[j]
      <3>1. /\ currentTerm' = [currentTerm EXCEPT
                                ![i] = IF m.term > @ THEN m.term ELSE @]
            /\ UNCHANGED <<votedFor, mainPC>>
        BY Zenon, <1>11 DEF Receive, mainVars
      <3>2. currentTerm'[i] = IF m.term > currentTerm[i] THEN m.term ELSE currentTerm[i]
        BY Zenon, <1>0, <3>1
      <3>3. \A j \in Server : j # i => currentTerm'[j] = currentTerm[j]
        BY Zenon, <1>0, <3>1
      <3>4. currentTerm'[i] >= currentTerm[i] /\ \A j \in Server : currentTerm[j] >= currentTerm[j]
        BY <1>0, <2>1, <3>2
      <3> QED  BY Zenon, <3>1, <3>3, <3>4
    <2> QED  BY Zenon, <1>11, <2>2, <2>3 DEF Receive
  <1>12. ASSUME NEW m \in msgs, AppendEntries(i, m)
         PROVE  Strict
    <2>1. m \in AppendEntriesArgs
      BY Zenon, <1>12, MessageByType
      DEF TypeOK, MsgsTypeOK, AllMessages, AppendEntries
    <2> QED  BY Zenon, <1>11, <1>12, <2>1 DEF AppendEntries
  <1>13. ASSUME NEW m \in blocked[i], AppendEntriesResume(i, m)
         PROVE  Strict
    <2>1. m \in AppendEntriesArgs
      BY Zenon DEF TypeOK, SyncTypeOK
    <2> QED  BY Zenon, <1>11, <1>13, <2>1 DEF AppendEntriesResume
  <1> QED  BY <1>1, <1>2, <1>3, <1>4, <1>5, <1>6, <1>8, <1>9, <1>10, <1>12,
              <1>13

-----------------------------------------------------------------------------
(* The actions of an election.                                             *)

\* A goroutine that moves to another program point, its votes unchanged.
LEMMA QuietMove ==
    ASSUME TypeOK, NEW i \in Server, NEW e \in Eid, NEW pc,
           electPC' = [electPC EXCEPT ![i][e] = pc],
           pc \notin {"none", "starting"} <=> Running(i, e),
           pc \in {"won", "announce"} => electPC[i][e] \in {"won", "announce"},
           UNCHANGED <<electTerm, totalVotes, granted, msgs>>
    PROVE  Quiet
  <1>1. \A a \in Server, b \in Eid :
           electPC'[a][b] = IF a = i /\ b = e THEN pc ELSE electPC[a][b]
    BY Zenon DEF TypeOK, ElectTypeOK
  <1>2. VoteMsgs' = VoteMsgs
    BY Zenon DEF VoteMsgs
  <1>3. \A a \in Server, b \in Eid : Running(a, b)' = Running(a, b)
    BY <1>1 DEF Running
  <1> QED  BY <1>1, <1>2, <1>3 DEF Quiet

LEMMA MoveActions ==
    ASSUME TypeOK, NEW i \in Server, NEW e \in Eid,
           MainTick(i, e) \/ ElectLock(i, e) \/ LostElect(i, e)
    PROVE  Neutral
  <1>0. /\ currentTerm \in [Server -> Nat]
        /\ mainPC \in [Server -> {"select", "heartbeat", "lostElect", "becoming",
                                  "check", "send"}]
    BY Zenon DEF TypeOK, ServerTypeOK, MainTypeOK
  <1>1. CASE MainTick(i, e)
    <2>1. Quiet
      BY Zenon, <1>1, QuietMove DEF MainTick, Running, histVars
    <2> QED  BY <1>0, <1>1, <2>1
             DEF MainTick, Neutral, TermsGrow, serverVars, mainVars, histVars
  <1>2. CASE ElectLock(i, e)
    <2>1. Quiet
      BY Zenon, <1>2, QuietMove DEF ElectLock, Running, histVars
    <2> QED  BY <1>0, <1>2, <2>1
             DEF ElectLock, Neutral, TermsGrow, serverVars, mainVars, histVars
  <1>3. CASE LostElect(i, e)
    <2>1. Quiet
      BY Zenon, <1>3, QuietMove DEF LostElect, Running, histVars
    <2> QED  BY <1>0, <1>3, <2>1 DEF LostElect, Neutral, TermsGrow, histVars
  <1> QED  BY Zenon, <1>1, <1>2, <1>3

\* A higher term is adopted from a reply; a late one ends the guarantee.
LEMMA HigherStep ==
    ASSUME ElectionInv, TypeOK', NEW i \in Server, NEW e \in Eid,
           ElectHigher(i, e)
    PROVE  ElectionInv'
  <1>1. Quiet
    BY Zenon, QuietMove DEF ElectHigher, Running, ElectionInv
  <1>2. VoteInv'
    <2>1. CASE staleReply'
      BY Zenon, <2>1 DEF VoteInv
    <2>2. CASE ~staleReply'
      <3>1. ~staleReply /\ ~(replyTerm[i][e] <= currentTerm[i])
        BY Zenon, <2>2 DEF ElectHigher
      <3>2. /\ currentTerm \in [Server -> Nat] /\ replyTerm[i][e] \in Nat
            /\ votedFor \in [Server -> Server \cup {NoVote}]
        BY Zenon DEF ElectionInv, TypeOK, ServerTypeOK, ElectTypeOK
      <3>3. TermsGrow
        BY <3>1, <3>2 DEF ElectHigher, TermsGrow
      <3> QED  BY Zenon, <1>1, <3>1, <3>3, QuietVotes
    <2> QED  BY Zenon, <2>1, <2>2
  <1>3. ReignInv'
    <2>1. /\ \A j \in Server : electedIn[j] \in Nat
          /\ \A r \in reigns : r.server \in Server /\ r.elected \in Nat
      BY Zenon DEF ElectionInv, TypeOK, HistTypeOK
    <2> QED  BY Zenon, <1>1, <2>1, QuietStep
             DEF ElectionInv, ReignInv, ElectHigher, mainVars
  <1> QED  BY Zenon, <1>1, <1>2, <1>3, QuietStep DEF ElectionInv

\* The votes an election has counted are a majority once it is won.
LEMMA WinnerIsElected ==
    ASSUME ElectionInv, NEW i \in Server, NEW e \in Eid,
           electPC[i][e] \in {"won", "announce"}
    PROVE  Elected(i, electTerm[i][e])
  <1> DEFINE t == electTerm[i][e]
  <1>1. Running(i, e)
    BY Zenon DEF Running
  <1>2. Counted(i, e) \subseteq Voters(i, t)
    BY Zenon DEF ElectionInv, CallInv, Counted, Voted, Voters
  <1>3. i \notin Counted(i, e)
    BY Zenon DEF ElectionInv, CallInv, Counted, Voted
  <1>4. IsFiniteSet(Server)
    BY NAssumption, FS_Interval DEF Server
  <1>5. /\ IsFiniteSet(Counted(i, e)) /\ IsFiniteSet({i} \cup Voters(i, t))
        /\ Cardinality(Counted(i, e)) \in Nat
    <2>1. Counted(i, e) \subseteq Server /\ {i} \cup Voters(i, t) \subseteq Server
      BY Zenon DEF Counted, Voters
    <2> QED  BY Zenon, <1>4, <2>1, FS_Subset, FS_CardinalityType
  <1>6. /\ Cardinality(Counted(i, e) \cup {i}) = Cardinality(Counted(i, e)) + 1
        /\ IsFiniteSet(Counted(i, e) \cup {i})
    BY Zenon, <1>3, <1>5, FS_AddElement
  <1>7. /\ Cardinality(Counted(i, e) \cup {i}) <= Cardinality({i} \cup Voters(i, t))
        /\ Cardinality({i} \cup Voters(i, t)) \in Nat
    <2>1. Counted(i, e) \cup {i} \subseteq {i} \cup Voters(i, t)
      BY Zenon, <1>2
    <2> QED  BY Zenon, <1>5, <2>1, FS_Subset, FS_CardinalityType
  <1>8. totalVotes[i][e] > N \div 2 /\ totalVotes[i][e] \in Nat
    BY Zenon, <1>1 DEF ElectionInv, CountInv, Wins, TypeOK, ElectTypeOK
  <1>9. totalVotes[i][e] <= 1 + Cardinality(Counted(i, e))
    BY Zenon, <1>1 DEF ElectionInv, CountInv
  <1>10. 2 * Cardinality({i} \cup Voters(i, t)) > N
    <2> DEFINE c == Cardinality({i} \cup Voters(i, t))
    <2>1. c \in Nat /\ c > N \div 2
      BY <1>5, <1>6, <1>7, <1>8, <1>9, NAssumption
    <2> HIDE DEF c
    <2>2. 2 * c > N
      BY <2>1, NAssumption
    <2> QED  BY Zenon, <2>2 DEF c
  <1> QED  BY Zenon, <1>1, <1>10 DEF Elected

LEMMA OfficeActions ==
    ASSUME ElectionInv, TypeOK', NEW i \in Server,
           (\E e \in Eid : Announce(i, e)) \/ BecomeLeader(i)
    PROVE  ElectionInv'
  <1>0. /\ \A j \in Server : electedIn[j] \in Nat
        /\ \A r \in reigns : r.server \in Server /\ r.elected \in Nat
        /\ mainPC \in [Server -> {"select", "heartbeat", "lostElect", "becoming",
                                  "check", "send"}]
        /\ currentTerm \in [Server -> Nat]
        /\ \A j \in Server, b \in Eid : electTerm[j][b] \in Nat
        /\ electedIn \in [Server -> Nat]
    BY
    DEF ElectionInv, TypeOK, HistTypeOK, MainTypeOK, ServerTypeOK, ElectTypeOK
  <1>1. ASSUME NEW e \in Eid, Announce(i, e)
        PROVE  ElectionInv'
    <2>1. Quiet
      BY Zenon, <1>1, QuietMove DEF Announce, Running, ElectionInv
    <2>2. TermsGrow
      BY <1>0, <1>1 DEF Announce, TermsGrow, serverVars
    <2>3. VoteInv'
      BY <1>1, <2>1, <2>2, QuietVotes DEF Announce, VoteInv
    <2>4. Elected(i, electTerm[i][e])'
      BY Zenon, <1>0, <1>1, <2>1, WinnerIsElected, QuietStep
      DEF Announce, Quiet
    <2>5. ReignInv'
      BY SMTT(40), <1>0, <1>1, <2>1, <2>4, QuietStep
      DEF ElectionInv, ReignInv, Announce, Quiet
    <2> QED  BY Zenon, <2>1, <2>3, <2>5, QuietStep DEF ElectionInv
  <1>2. CASE BecomeLeader(i)
    <2>1. Quiet
      BY <1>2, QuietElections DEF BecomeLeader, VoteMsgs
    <2>2. TermsGrow
      BY SMTT(40), <1>0, <1>2 DEF BecomeLeader, TermsGrow
    <2>3. VoteInv'
      BY Zenon, <1>2, <2>1, <2>2, QuietVotes DEF BecomeLeader, VoteInv
    <2>4. ReignInv'
      <3>1. /\ \A j \in Server, t \in Nat : Elected(j, t)' = Elected(j, t)
            /\ mainPC[i] = "becoming" /\ Elected(i, electedIn[i])
        BY Zenon, <1>2, <2>1, QuietStep DEF ElectionInv, ReignInv, BecomeLeader
      <3>2. /\ UNCHANGED electedIn
            /\ mainPC' = [mainPC EXCEPT ![i] = "check"]
            /\ reigns' = reigns \cup {[server |-> i, term |-> currentTerm[i],
                                       elected |-> electedIn[i]]}
        BY Zenon, <1>2 DEF BecomeLeader
      <3>3. \A j \in Server : mainPC'[j] = "becoming" => mainPC[j] = "becoming"
        BY Zenon, <1>0, <3>2
      <3>4. \A r \in reigns' : /\ r.server \in Server /\ r.elected \in Nat
                               /\ Elected(r.server, r.elected)
        BY <1>0, <3>1, <3>2 DEF ElectionInv, ReignInv
      <3> QED  BY <1>0, <3>1, <3>2, <3>3, <3>4 DEF ElectionInv, ReignInv
    <2> QED  BY Zenon, <2>1, <2>3, <2>4, QuietStep DEF ElectionInv
  <1> QED  BY Zenon, <1>1, <1>2

-----------------------------------------------------------------------------
(* The actions that ask for votes, count them and grant them.              *)

\* startElect asks for votes in a term nobody has asked for yet.
LEMMA StartStep ==
    ASSUME ElectionInv, TypeOK', NEW i \in Server, NEW e \in Eid,
           StartElect(i, e)
    PROVE  ElectionInv'
  <1> DEFINE t == currentTerm[i] + 1
             new == {[type |-> "RequestVote", from |-> i, eid |-> e, to |-> j,
                      term |-> t, lastLogIndex |-> GoLen(i),
                      lastLogTerm |-> LastTerm(i)] : j \in Server \ {i}}
  <1>0. /\ electPC \in [Server -> [Eid -> {"none", "starting", "wait", "higher",
                                           "won", "announce", "done"}]]
        /\ electTerm \in [Server -> [Eid -> Nat]]
        /\ totalVotes \in [Server -> [Eid -> Nat]]
        /\ currentTerm \in [Server -> Nat]
        /\ votedFor \in [Server -> Server \cup {NoVote}]
    BY Zenon DEF ElectionInv, TypeOK, ElectTypeOK, ServerTypeOK
  <1>1. /\ ~Running(i, e) /\ Running(i, e)'
        /\ \A a \in Server, b \in Eid :
             <<a, b>> # <<i, e>> => /\ Running(a, b)' = Running(a, b)
                                    /\ electPC'[a][b] = electPC[a][b]
                                    /\ electTerm'[a][b] = electTerm[a][b]
                                    /\ totalVotes'[a][b] = totalVotes[a][b]
        /\ electPC'[i][e] = "wait" /\ electTerm'[i][e] = t /\ totalVotes'[i][e] = 1
    BY Zenon, <1>0 DEF StartElect, Running
  <1>2. VoteMsgs' = VoteMsgs \cup new
    BY DEF StartElect, VoteMsgs
  <1>3. UNCHANGED <<granted, reigns, electedIn, staleReply, mainPC>>
    BY Zenon DEF StartElect, histVars, mainVars
  <1>4. /\ \A a, b, c : Voted(a, b, c)' = Voted(a, b, c)
        /\ \A a, u : Voters(a, u)' = Voters(a, u)
    BY Zenon, <1>3 DEF Voted, Voters
  <1>5. \A m \in new : /\ m.type = "RequestVote" /\ m.from = i /\ m.eid = e
                       /\ m.to \in Server \ {i} /\ m.term = t
    BY SMTT(40)
  <1>6. \A m, n \in new : m.to = n.to => m = n
    OBVIOUS
  <1> HIDE DEF new, t
  <1>7. \A m \in VoteMsgs : /\ <<m.from, m.eid>> # <<i, e>>
                            /\ m.from \in Server /\ m.eid \in Eid
    BY Zenon, <1>1, VoteMsgType DEF ElectionInv, CallInv
  <1>8. \A g \in granted : /\ <<g.candidate, g.eid>> # <<i, e>>
                           /\ g.candidate \in Server /\ g.eid \in Eid
    BY Zenon, <1>1, GrantedType DEF ElectionInv, CallInv
  <1>9. CallInv'
    <2>1. \A m \in VoteMsgs' : m.to # m.from /\ Running(m.from, m.eid)'
      BY <1>1, <1>2, <1>5, <1>7 DEF ElectionInv, CallInv
    <2>2. \A m, n \in VoteMsgs' :
            m.from = n.from /\ m.eid = n.eid /\ m.to = n.to => m = n
      BY SMTT(40), <1>2, <1>5, <1>6, <1>7 DEF ElectionInv, CallInv
    <2>3. \A m \in VoteMsgs' :
            m.type = "RequestVote" => /\ m.term = electTerm'[m.from][m.eid]
                                      /\ ~Voted(m.from, m.eid, m.to)'
      <3>1. \A m \in new : ~Voted(m.from, m.eid, m.to)
        BY <1>5, <1>8 DEF Voted
      <3> QED  BY SMTT(40), <1>1, <1>2, <1>4, <1>5, <1>7, <3>1
               DEF ElectionInv, CallInv
    <2>4. \A m \in VoteMsgs' :
            m.type = "RequestVoteReply" /\ m.voteGranted =>
                Voted(m.from, m.eid, m.to)'
      BY Zenon, <1>2, <1>4, <1>5 DEF ElectionInv, CallInv
    <2>5. \A g \in granted' : /\ g.voter # g.candidate
                              /\ Running(g.candidate, g.eid)'
                              /\ g.term = electTerm'[g.candidate][g.eid]
      BY <1>1, <1>3, <1>8 DEF ElectionInv, CallInv
    <2> QED  BY <2>1, <2>2, <2>3, <2>4, <2>5 DEF CallInv
  <1>10. VoteInv'
    <2> SUFFICES ASSUME ~staleReply PROVE VoteInv'
      BY Zenon, <1>3 DEF VoteInv
    <2>0. t = currentTerm[i] + 1 /\ t \in Nat /\ currentTerm[i] \in Nat
      BY <1>0 DEF t
    <2>1. /\ currentTerm'[i] = t /\ votedFor'[i] = i
          /\ \A a \in Server : a # i => /\ currentTerm'[a] = currentTerm[a]
                                        /\ votedFor'[a] = votedFor[a]
      BY Zenon, <1>0 DEF StartElect, t
    <2>2. ASSUME NEW g \in granted
          PROVE  /\ g.term <= currentTerm'[g.voter]
                 /\ g.term = currentTerm'[g.voter] => votedFor'[g.voter] = g.candidate
                 /\ g.voter = i => g.term # t
      <3>1. g.voter \in Server /\ g.term \in Nat
        BY Zenon, GrantedType DEF ElectionInv
      <3>2. /\ g.term <= currentTerm[g.voter]
            /\ g.term = currentTerm[g.voter] => votedFor[g.voter] = g.candidate
        BY Zenon DEF ElectionInv, VoteInv
      <3> QED  BY SMTT(40), <2>0, <2>1, <3>1, <3>2
    <2>3. ASSUME NEW a \in Server, NEW b \in Eid, Running(a, b)'
          PROVE  /\ electTerm'[a][b] <= currentTerm'[a]
                 /\ electTerm'[a][b] = currentTerm'[a] => votedFor'[a] = a
                 /\ \A g \in granted : g.voter = a => g.term # electTerm'[a][b]
      <3>1. CASE a = i /\ b = e
        BY SMTT(40), <1>1, <2>0, <2>1, <2>2, <3>1
      <3>2. CASE <<a, b>> # <<i, e>>
        <4>1. Running(a, b) /\ electTerm'[a][b] = electTerm[a][b]
          BY Zenon, <1>1, <2>3, <3>2
        <4>2. /\ electTerm[a][b] <= currentTerm[a]
              /\ electTerm[a][b] = currentTerm[a] => votedFor[a] = a
              /\ \A g \in granted : g.voter = a => g.term # electTerm[a][b]
          BY Zenon, <4>1 DEF ElectionInv, VoteInv
        <4>3. electTerm[a][b] \in Nat
          BY Zenon, <1>0
        <4> QED  BY SMTT(40), <2>0, <2>1, <4>1, <4>2, <4>3
      <3> QED  BY <3>1, <3>2
    <2> QED  BY <1>3, <2>2, <2>3 DEF ElectionInv, VoteInv
  <1>11. CountInv'
    <2>1. ASSUME NEW a \in Server, NEW b \in Eid, <<a, b>> # <<i, e>>
          PROVE  Counted(a, b)' = Counted(a, b)
      BY <1>2, <1>4, <1>5, <2>1 DEF Counted
    <2>2. Cardinality(Counted(i, e)') \in Nat
      BY Zenon, PeersCardinality DEF Counted
    <2>3. ASSUME NEW a \in Server, NEW b \in Eid, Running(a, b)'
          PROVE  /\ totalVotes'[a][b] <= 1 + Cardinality(Counted(a, b)')
                 /\ electPC'[a][b] \in {"won", "announce"} => Wins(totalVotes'[a][b])
      <3>1. CASE <<a, b>> = <<i, e>>
        BY <1>1, <2>2, <3>1
      <3>2. CASE <<a, b>> # <<i, e>>
        BY Zenon, <1>1, <2>1, <2>3, <3>2 DEF ElectionInv, CountInv
      <3> QED  BY <3>1, <3>2
    <2> QED  BY <2>3 DEF CountInv, Wins
  <1>12. ReignInv'
    <2>1. \A a \in Server : \A u : Elected(a, u) => Elected(a, u)'
      BY Zenon, <1>1, <1>4 DEF Elected
    <2>2. \A r \in reigns : r.server \in Server
      BY Zenon DEF ElectionInv, TypeOK, HistTypeOK
    <2> QED  BY <1>3, <2>1, <2>2 DEF ElectionInv, ReignInv
  <1> QED  BY <1>9, <1>10, <1>11, <1>12 DEF ElectionInv

\* A reply is taken out of replyChan.
LEMMA ReplyStep ==
    ASSUME ElectionInv, TypeOK', NEW i \in Server, NEW e \in Eid,
           NEW m \in msgs, ElectReply(i, e, m)
    PROVE  ElectionInv'
  <1>0. /\ electPC \in [Server -> [Eid -> {"none", "starting", "wait", "higher",
                                           "won", "announce", "done"}]]
        /\ totalVotes \in [Server -> [Eid -> Nat]]
    BY Zenon DEF ElectionInv, TypeOK, ElectTypeOK
  <1>1. /\ UNCHANGED <<electTerm, granted, reigns, electedIn, staleReply, mainPC,
                       currentTerm, votedFor>>
        /\ m \in VoteMsgs /\ VoteMsgs' = VoteMsgs \ {m}
        /\ m.type = "RequestVoteReply" /\ m.from = i /\ m.eid = e
    BY Zenon DEF ElectReply, serverVars, mainVars, histVars, VoteMsgs
  <1>2. /\ \A a, b, c : Voted(a, b, c)' = Voted(a, b, c)
        /\ \A a, u : Voters(a, u)' = Voters(a, u)
    BY <1>1 DEF Voted, Voters
  <1>3. \/ /\ electPC' = [electPC EXCEPT ![i][e] = "higher"]
           /\ UNCHANGED totalVotes
        \/ /\ m.voteGranted
           /\ totalVotes' = [totalVotes EXCEPT ![i][e] = @ + 1]
           /\ electPC' = [electPC EXCEPT ![i][e] = IF Wins(totalVotes[i][e] + 1)
                                                   THEN "won" ELSE "wait"]
        \/ UNCHANGED <<totalVotes, electPC>>
    BY DEF ElectReply, Counts
  <1>4. /\ electPC[i][e] = "wait" /\ Running(i, e)
        /\ \A a \in Server, b \in Eid :
             /\ Running(a, b)' = Running(a, b)
             /\ <<a, b>> # <<i, e>> => /\ electPC'[a][b] = electPC[a][b]
                                       /\ totalVotes'[a][b] = totalVotes[a][b]
    <2>1. electPC[i][e] = "wait"
      BY Zenon DEF ElectReply
    <2>2. PICK pc : /\ pc \in {"higher", "won", "wait"}
                    /\ electPC' = [electPC EXCEPT ![i][e] = pc]
      <3>1. electPC = [electPC EXCEPT ![i][e] = "wait"]
        BY Zenon, <1>0, <2>1
      <3>2. (IF Wins(totalVotes[i][e] + 1) THEN "won" ELSE "wait") \in {"won", "wait"}
        BY Zenon
      <3> QED  BY Zenon, <1>3, <3>1, <3>2
    <2>3. \A a \in Server, b \in Eid :
            electPC'[a][b] = IF a = i /\ b = e THEN pc ELSE electPC[a][b]
      BY Zenon, <1>0, <2>2
    <2>4. \A a \in Server, b \in Eid :
            <<a, b>> # <<i, e>> => totalVotes'[a][b] = totalVotes[a][b]
      <3>1. \/ totalVotes' = [totalVotes EXCEPT ![i][e] = @ + 1]
            \/ totalVotes' = totalVotes
        BY Zenon, <1>3
      <3> QED  BY <1>0, <3>1
    <2> QED  BY <2>1, <2>2, <2>3, <2>4 DEF Running
  <1>5. CallInv'
    <2>1. \A n \in VoteMsgs : Running(n.from, n.eid)' = Running(n.from, n.eid)
      BY Zenon, <1>4, VoteMsgType DEF ElectionInv
    <2>2. \A g \in granted : Running(g.candidate, g.eid)' = Running(g.candidate, g.eid)
      <3>1. \A g \in granted : g.candidate \in Server /\ g.eid \in Eid
        BY Zenon, GrantedType DEF ElectionInv
      <3> QED  BY Zenon, <1>4, <3>1
    <2> QED  BY Zenon, <1>1, <1>2, <2>1, <2>2 DEF ElectionInv, CallInv
  <1>6. VoteInv'
    BY SMTT(40), <1>1, <1>4 DEF ElectionInv, VoteInv
  <1>7. ReignInv'
    <2>1. \A a \in Server : \A u : Elected(a, u)' = Elected(a, u)
      BY Zenon, <1>1, <1>2, <1>4 DEF Elected
    <2>2. \A r \in reigns : r.server \in Server
      BY Zenon DEF ElectionInv, TypeOK, HistTypeOK
    <2>3. ReignInv
      BY Zenon DEF ElectionInv
    <2>4. \A a \in Server : mainPC'[a] = "becoming" => Elected(a, electedIn[a])'
      BY Zenon, <1>1, <2>1, <2>3 DEF ReignInv
    <2>5. \A r \in reigns' : Elected(r.server, r.elected)'
      BY Zenon, <1>1, <2>1, <2>2, <2>3 DEF ReignInv
    <2> QED  BY Zenon, <2>4, <2>5 DEF ReignInv
  <1>8. CountInv'
    <2>1. \A a, b : Counted(a, b) \subseteq Counted(a, b)'
      BY Zenon, <1>1, <1>2 DEF Counted
    <2>2. \A a, b : /\ Counted(a, b) \in SUBSET Server
                    /\ Counted(a, b)' \in SUBSET Server
      BY DEF Counted
    <2>3. \A a, b : /\ Cardinality(Counted(a, b)) \in Nat
                    /\ Cardinality(Counted(a, b)') \in Nat
                    /\ Cardinality(Counted(a, b)) <= Cardinality(Counted(a, b)')
      BY <2>1, <2>2, PeersCardinality
    <2>4. m.voteGranted =>
            Cardinality(Counted(i, e)) + 1 <= Cardinality(Counted(i, e)')
      <3> SUFFICES ASSUME m.voteGranted
                   PROVE  Cardinality(Counted(i, e)) + 1 <= Cardinality(Counted(i, e)')
        OBVIOUS
      <3>1. m.to \in Server /\ Voted(i, e, m.to)
        BY <1>1, VoteMsgType DEF ElectionInv, CallInv
      <3>2. m.to \notin Counted(i, e)
        BY Zenon, <1>1 DEF Counted
      <3>3. m.to \in Counted(i, e)'
        BY <1>1, <1>2, <3>1 DEF ElectionInv, CallInv, Counted
      <3>4. Counted(i, e) \cup {m.to} \subseteq Counted(i, e)'
        BY Zenon, <2>1, <3>3
      <3>5. Cardinality(Counted(i, e) \cup {m.to}) = Cardinality(Counted(i, e)) + 1
        BY Zenon, <2>2, <3>2, FS_AddElement, PeersCardinality
      <3>6. Counted(i, e) \cup {m.to} \in SUBSET Server
        BY <2>2, <3>1
      <3>7. Cardinality(Counted(i, e) \cup {m.to}) <= Cardinality(Counted(i, e)')
        BY Zenon, <2>2, <3>4, <3>6, PeersCardinality
      <3> QED  BY Zenon, <3>5, <3>7
    <2>5. ASSUME NEW a \in Server, NEW b \in Eid, Running(a, b),
                 <<a, b>> # <<i, e>>
          PROVE  /\ totalVotes'[a][b] <= 1 + Cardinality(Counted(a, b)')
                 /\ electPC'[a][b] \in {"won", "announce"} => Wins(totalVotes'[a][b])
      <3>1. /\ totalVotes[a][b] <= 1 + Cardinality(Counted(a, b))
            /\ electPC[a][b] \in {"won", "announce"} => Wins(totalVotes[a][b])
            /\ totalVotes[a][b] \in Nat
        BY Zenon, <1>0, <2>5 DEF ElectionInv, CountInv
      <3> QED  BY SMTT(40), <1>4, <2>3, <2>5, <3>1
    <2>6. /\ totalVotes'[i][e] <= 1 + Cardinality(Counted(i, e)')
          /\ electPC'[i][e] \in {"won", "announce"} => Wins(totalVotes'[i][e])
      <3>1. totalVotes[i][e] <= 1 + Cardinality(Counted(i, e)) /\ totalVotes[i][e] \in Nat
        BY Zenon, <1>0, <1>4 DEF ElectionInv, CountInv
      <3>2. CASE /\ electPC' = [electPC EXCEPT ![i][e] = "higher"]
                 /\ UNCHANGED totalVotes
        BY <1>0, <2>3, <3>1, <3>2
      <3>3. CASE /\ m.voteGranted
                 /\ totalVotes' = [totalVotes EXCEPT ![i][e] = @ + 1]
                 /\ electPC' = [electPC EXCEPT ![i][e] = IF Wins(totalVotes[i][e] + 1)
                                                         THEN "won" ELSE "wait"]
        <4>1. totalVotes'[i][e] = totalVotes[i][e] + 1
          BY <1>0, <3>3
        <4>2. electPC'[i][e] = IF Wins(totalVotes[i][e] + 1) THEN "won" ELSE "wait"
          BY Zenon, <1>0, <3>3
        <4>3. totalVotes'[i][e] <= 1 + Cardinality(Counted(i, e)')
          BY <2>3, <2>4, <3>1, <3>3, <4>1
        <4> QED  BY Zenon, <4>1, <4>2, <4>3
      <3>4. CASE UNCHANGED <<totalVotes, electPC>>
        BY SMTT(40), <1>4, <2>3, <3>1, <3>4
      <3> QED  BY <1>3, <3>2, <3>3, <3>4
    <2> QED  BY <1>4, <2>5, <2>6 DEF CountInv, Wins
  <1> QED  BY <1>5, <1>6, <1>7, <1>8 DEF ElectionInv

\* The handler RequestVote: the reply replaces the request.
LEMMA VoteStep ==
    ASSUME ElectionInv, TypeOK', NEW i \in Server, NEW m \in msgs,
           RequestVote(i, m)
    PROVE  ElectionInv'
  <1> DEFINE r == [type |-> "RequestVoteReply", from |-> m.from, eid |-> m.eid,
                   to |-> i, term |-> VoteReplyTerm(i, m),
                   voteGranted |-> Grants(i, m)]
             v == [voter |-> i, candidate |-> m.from, eid |-> m.eid, term |-> m.term]
  <1>1. /\ UNCHANGED <<electPC, electTerm, totalVotes, reigns, electedIn,
                       staleReply, mainPC>>
        /\ m \in VoteMsgs /\ VoteMsgs' = (VoteMsgs \ {m}) \cup {r}
        /\ m.type = "RequestVote" /\ m.to = i
        /\ granted' = IF Grants(i, m) THEN granted \cup {v} ELSE granted
    BY SMTT(40) DEF RequestVote, electVars, mainVars, VoteMsgs
  <1>2. /\ r.type = "RequestVoteReply" /\ r.from = m.from /\ r.eid = m.eid
        /\ r.to = i /\ r.voteGranted = Grants(i, m)
        /\ v.voter = i /\ v.candidate = m.from /\ v.eid = m.eid /\ v.term = m.term
    OBVIOUS
  <1> HIDE DEF r, v
  <1>3. /\ m.from \in Server /\ m.eid \in Eid /\ m.term \in Nat /\ m.from # i
        /\ Running(m.from, m.eid) /\ m.term = electTerm[m.from][m.eid]
        /\ ~Voted(m.from, m.eid, i)
    BY Zenon, <1>1, VoteMsgType DEF ElectionInv, CallInv
  <1>4. /\ \A a, b : Running(a, b)' = Running(a, b)
        /\ \A a, b, c : Voted(a, b, c)' =
             (Voted(a, b, c) \/ (Grants(i, m) /\ a = m.from /\ b = m.eid /\ c = i))
        /\ \A a, u : Voters(a, u) \subseteq Voters(a, u)'
    BY Zenon, <1>1, <1>2 DEF Running, Voted, Voters
  <1>5. CallInv'
    <2>1. \A n \in VoteMsgs' : n.to # n.from /\ Running(n.from, n.eid)'
      BY Zenon, <1>1, <1>2, <1>3, <1>4 DEF ElectionInv, CallInv
    <2>2. \A n, o \in VoteMsgs' :
            n.from = o.from /\ n.eid = o.eid /\ n.to = o.to => n = o
      BY SMTT(40), <1>1, <1>2 DEF ElectionInv, CallInv
    <2>3. \A n \in VoteMsgs' :
            n.type = "RequestVote" => /\ n.term = electTerm'[n.from][n.eid]
                                      /\ ~Voted(n.from, n.eid, n.to)'
      BY Zenon, <1>1, <1>2, <1>4 DEF ElectionInv, CallInv
    <2>4. \A n \in VoteMsgs' :
            n.type = "RequestVoteReply" /\ n.voteGranted =>
                Voted(n.from, n.eid, n.to)'
      BY Zenon, <1>1, <1>2, <1>4 DEF ElectionInv, CallInv
    <2>5. \A g \in granted' : /\ g.voter # g.candidate
                              /\ Running(g.candidate, g.eid)'
                              /\ g.term = electTerm'[g.candidate][g.eid]
      BY Zenon, <1>1, <1>2, <1>3, <1>4 DEF ElectionInv, CallInv
    <2> QED  BY Zenon, <2>1, <2>2, <2>3, <2>4, <2>5 DEF CallInv
  <1>6. VoteInv'
    <2> SUFFICES ASSUME ~staleReply PROVE VoteInv'
      BY Zenon, <1>1 DEF VoteInv
    <2>0. /\ currentTerm \in [Server -> Nat]
          /\ votedFor \in [Server -> Server \cup {NoVote}]
          /\ \A a \in Server, b \in Eid : electTerm[a][b] \in Nat
          /\ NoVote \notin Server
      BY NAssumption
      DEF ElectionInv, TypeOK, ServerTypeOK, ElectTypeOK, NoVote, Server
    <2>1. /\ currentTerm'[i] = IF m.term > currentTerm[i] THEN m.term
                               ELSE currentTerm[i]
          /\ votedFor'[i] = IF Grants(i, m) THEN m.from ELSE VotedForNow(i, m)
          /\ \A a \in Server : a # i => /\ currentTerm'[a] = currentTerm[a]
                                        /\ votedFor'[a] = votedFor[a]
      BY Zenon, <2>0 DEF RequestVote
    <2>2. Grants(i, m) =>
            /\ m.term >= currentTerm[i]
            /\ m.term = currentTerm[i] => votedFor[i] \in {NoVote, m.from}
      BY SMTT(40), <1>3, <2>0 DEF Grants, MayVote, VotedForNow
    <2>3. ASSUME NEW g \in granted
          PROVE  /\ g.term <= currentTerm'[g.voter]
                 /\ g.term = currentTerm'[g.voter] => votedFor'[g.voter] = g.candidate
                 /\ Grants(i, m) /\ g.voter = i /\ g.term = m.term =>
                      g.candidate = m.from
      <3>1. /\ g.voter \in Server /\ g.candidate \in Server /\ g.term \in Nat
            /\ g.term <= currentTerm[g.voter]
            /\ g.term = currentTerm[g.voter] => votedFor[g.voter] = g.candidate
        BY GrantedType DEF ElectionInv, VoteInv
      <3>2. CASE g.voter # i
        BY Zenon, <2>1, <3>1, <3>2
      <3>3. CASE g.voter = i
        <4>1. /\ currentTerm[i] \in Nat /\ m.term \in Nat /\ g.term \in Nat
              /\ g.term <= currentTerm[i]
              /\ g.term = currentTerm[i] => votedFor[i] = g.candidate
          BY Zenon, <1>3, <2>0, <3>1, <3>3
        <4>2. g.term <= currentTerm'[i]
          BY <2>1, <4>1
        <4>3. g.term = currentTerm'[i] => ~(m.term > currentTerm[i]) /\ g.term = currentTerm[i]
          BY <2>1, <4>1
        <4>4. Grants(i, m) /\ ~(m.term > currentTerm[i]) =>
                /\ m.term = currentTerm[i]
                /\ votedFor[i] \in {NoVote, m.from}
          BY <2>2, <4>1
        <4>5. g.candidate # NoVote
          BY Zenon, <2>0, <3>1
        <4>6. Grants(i, m) /\ g.term = m.term => g.candidate = m.from
          <5>1. Grants(i, m) /\ g.term = m.term => ~(m.term > currentTerm[i])
            BY <4>1
          <5> QED  BY <4>1, <4>4, <4>5, <5>1
        <4>7. g.term = currentTerm'[i] => votedFor'[i] = g.candidate
          <5>1. ~(m.term > currentTerm[i]) => VotedForNow(i, m) = votedFor[i]
            BY DEF VotedForNow
          <5> QED  BY Zenon, <2>1, <4>1, <4>3, <4>4, <4>6, <5>1
        <4> QED  BY <3>3, <4>2, <4>6, <4>7
      <3> QED  BY Zenon, <3>2, <3>3
    <2>4. ASSUME NEW a \in Server, NEW b \in Eid, Running(a, b)
          PROVE  /\ electTerm[a][b] <= currentTerm'[a]
                 /\ electTerm[a][b] = currentTerm'[a] => votedFor'[a] = a
                 /\ Grants(i, m) /\ a = i => m.term # electTerm[a][b]
      <3>1. /\ electTerm[a][b] <= currentTerm[a]
            /\ electTerm[a][b] = currentTerm[a] => votedFor[a] = a
            /\ electTerm[a][b] \in Nat
        BY Zenon, <2>0, <2>4 DEF ElectionInv, VoteInv
      <3>2. CASE a # i
        BY <2>1, <3>1, <3>2
      <3>3. CASE a = i
        <4>1. /\ currentTerm[i] \in Nat /\ m.term \in Nat /\ electTerm[i][b] \in Nat
              /\ electTerm[i][b] <= currentTerm[i]
              /\ electTerm[i][b] = currentTerm[i] => votedFor[i] = i
          BY <1>3, <2>0, <3>1, <3>3
        <4>2. electTerm[i][b] <= currentTerm'[i]
          BY <2>1, <4>1
        <4>3. electTerm[i][b] = currentTerm'[i] =>
                ~(m.term > currentTerm[i]) /\ electTerm[i][b] = currentTerm[i]
          BY <2>1, <4>1
        <4>4. Grants(i, m) => m.term # electTerm[i][b]
          <5>1. Grants(i, m) /\ m.term = electTerm[i][b] =>
                  /\ m.term = currentTerm[i]
                  /\ votedFor[i] \in {NoVote, m.from}
            BY <2>2, <4>1
          <5>2. i # NoVote /\ i # m.from
            BY Zenon, <1>3, <2>0
          <5> QED  BY Zenon, <4>1, <5>1, <5>2
        <4>5. electTerm[i][b] = currentTerm'[i] => votedFor'[i] = i
          <5>1. ~(m.term > currentTerm[i]) => VotedForNow(i, m) = votedFor[i]
            BY DEF VotedForNow
          <5>2. Grants(i, m) /\ ~(m.term > currentTerm[i]) => m.term = currentTerm[i]
            BY <2>2, <4>1
          <5> QED  BY Zenon, <2>1, <4>1, <4>3, <4>4, <5>1, <5>2
        <4> QED  BY Zenon, <3>3, <4>2, <4>4, <4>5
      <3> QED  BY Zenon, <3>2, <3>3
    <2>5. Grants(i, m) => m.term = currentTerm'[i] /\ votedFor'[i] = m.from
      <3>1. currentTerm[i] \in Nat /\ m.term \in Nat
        BY <1>3, <2>0
      <3> QED  BY <2>1, <2>2, <3>1
    <2>6. \A g \in granted' :
            /\ g.term <= currentTerm'[g.voter]
            /\ g.term = currentTerm'[g.voter] => votedFor'[g.voter] = g.candidate
      BY SMTT(40), <1>1, <1>2, <1>3, <2>3, <2>5
    <2>7. \A a \in Server, b \in Eid :
            Running(a, b) =>
              \A g \in granted' : g.voter = a => g.term # electTerm[a][b]
      BY SMTT(40), <1>1, <1>2, <2>4 DEF ElectionInv, VoteInv
    <2>8. \A g, h \in granted' :
            g.voter = h.voter /\ g.term = h.term => g.candidate = h.candidate
      BY SMTT(40), <1>1, <1>2, <2>3 DEF ElectionInv, VoteInv
    <2> QED  BY Zenon, <1>1, <1>4, <2>4, <2>6, <2>7, <2>8 DEF VoteInv
  <1>7. CountInv'
    <2>1. ASSUME NEW a, NEW b, NEW j \in Server
          PROVE  j \in Counted(a, b)' <=> j \in Counted(a, b)
      <3>1. CASE a = m.from /\ b = m.eid /\ j = i
        <4>1. r \in VoteMsgs' /\ r.from = a /\ r.eid = b /\ r.to = j
          BY Zenon, <1>1, <1>2, <3>1
        <4>2. m \in VoteMsgs /\ m.from = a /\ m.eid = b /\ m.to = j
          BY <1>1, <3>1
        <4> QED  BY <4>1, <4>2 DEF Counted
      <3>2. CASE ~(a = m.from /\ b = m.eid /\ j = i)
        <4>1. Voted(a, b, j)' <=> Voted(a, b, j)
          BY Zenon, <1>4, <3>2
        <4>2. \A n \in VoteMsgs' : n = r \/ n \in VoteMsgs
          BY <1>1
        <4>3. \A n \in VoteMsgs : n = m \/ n \in VoteMsgs'
          BY Zenon, <1>1
        <4>4. /\ ~(m.from = a /\ m.eid = b /\ m.to = j)
              /\ ~(r.from = a /\ r.eid = b /\ r.to = j)
          BY <1>1, <1>2, <3>2
        <4> QED  BY Zenon, <4>1, <4>2, <4>3, <4>4 DEF Counted
      <3> QED  BY Zenon, <3>1, <3>2
    <2>2. \A a, b : Counted(a, b)' = Counted(a, b)
      BY Zenon, <2>1 DEF Counted
    <2> QED  BY Zenon, <1>1, <1>4, <2>2 DEF ElectionInv, CountInv, Wins
  <1>8. ReignInv'
    <2>1. ASSUME NEW a \in Server, NEW u, Elected(a, u)
          PROVE  Elected(a, u)'
      <3>1. /\ {a} \cup Voters(a, u) \in SUBSET Server
            /\ ({a} \cup Voters(a, u))' \in SUBSET Server
            /\ {a} \cup Voters(a, u) \subseteq ({a} \cup Voters(a, u))'
        BY Zenon, <1>4 DEF Voters
      <3>2. /\ Cardinality({a} \cup Voters(a, u))
                 <= Cardinality(({a} \cup Voters(a, u))')
            /\ Cardinality({a} \cup Voters(a, u)) \in Nat
            /\ Cardinality(({a} \cup Voters(a, u))') \in Nat
        BY Zenon, <3>1, PeersCardinality
      <3>3. Cardinality(({a} \cup Voters(a, u))') = Cardinality({a} \cup Voters(a, u)')
        OBVIOUS
      <3>4. 2 * Cardinality({a} \cup Voters(a, u)') > N
        BY <2>1, <3>2, <3>3, NAssumption DEF Elected
      <3> QED  BY Zenon, <1>1, <1>4, <2>1, <3>4 DEF Elected
    <2>2. \A q \in reigns : q.server \in Server
      BY Zenon DEF ElectionInv, TypeOK, HistTypeOK
    <2> QED  BY Zenon, <1>1, <2>1, <2>2 DEF ElectionInv, ReignInv
  <1> QED  BY Zenon, <1>5, <1>6, <1>7, <1>8 DEF ElectionInv

-----------------------------------------------------------------------------
(* The theorems.                                                           *)

LEMMA ElectionInit == Init => ElectionInv
  <1> SUFFICES ASSUME Init PROVE ElectionInv
    BY Zenon
  <1>1. TypeOK
    BY Zenon, TypeInit
  <1>2. /\ VoteMsgs = {} /\ granted = {} /\ reigns = {}
        /\ \A i \in Server : mainPC[i] = "select"
        /\ \A i \in Server, e \in Eid : ~Running(i, e)
    BY DEF Init, VoteMsgs, Running
  <1> QED  BY Zenon, <1>1, <1>2
           DEF ElectionInv, CallInv, VoteInv, CountInv, ReignInv

LEMMA ElectionStep == ElectionInv /\ [Next]_vars => ElectionInv'
  <1> SUFFICES ASSUME ElectionInv, [Next]_vars PROVE ElectionInv'
    BY Zenon
  <1>1. TypeOK /\ TypeOK'
    BY TypeStep DEF ElectionInv
  <1>2. CASE UNCHANGED vars
    <2>1. Neutral
      <3>1. \A i \in Server : currentTerm[i] \in Nat
        BY Zenon, <1>1 DEF TypeOK, ServerTypeOK
      <3>2. /\ UNCHANGED <<electVars, granted, msgs, reigns, electedIn, staleReply>>
            /\ UNCHANGED <<currentTerm, votedFor, mainPC>>
        BY Zenon, <1>2 DEF vars, serverVars, mainVars, histVars
      <3>3. Quiet
        BY <3>2, QuietElections DEF VoteMsgs
      <3> QED  BY <3>1, <3>2, <3>3 DEF Neutral, TermsGrow
    <2> QED  BY Zenon, <1>1, <2>1, NeutralStep
  <1>3. CASE Next
    BY Zenon, <1>1, <1>3, NeutralActions, MoveActions, NeutralStep, HigherStep,
       OfficeActions, StartStep, ReplyStep, VoteStep DEF Next
  <1> QED  BY <1>2, <1>3

\* An election goroutine announces a win only with the votes of a majority of
\* distinct peers, all granted for the term it asked for, whatever replies are
\* lost, late or reordered (startElect and RequestVote).
THEOREM WinsAreGenuine == Spec => []GenuineMajority
  <1>1. ElectionInv => GenuineMajority
    BY Zenon, WinnerIsElected DEF GenuineMajority, Elected
  <1> QED  BY <1>1, ElectionInit, ElectionStep, PTL DEF Spec

\* No two peers take office on elections of the same term, until an election
\* goroutine applies a reply whose term its peer had already reached
\* (startElect's newReply.Term > rf_currentTerm branch).
THEOREM OneWinnerPerTerm == Spec => []ElectionSafetyUnlessStale
  <1>1. ElectionInv => ElectionSafetyUnlessStale
    <2> SUFFICES ASSUME ElectionInv, ~staleReply,
                        NEW r \in reigns, NEW s \in reigns, r.elected = s.elected
                 PROVE  r.server = s.server
      BY Zenon DEF ElectionSafetyUnlessStale
    <2> DEFINE t == r.elected
               R == {r.server} \cup Voters(r.server, t)
               S == {s.server} \cup Voters(s.server, t)
    <2>1. Elected(r.server, t) /\ Elected(s.server, t)
      BY Zenon DEF ElectionInv, ReignInv
    <2>2. /\ R \subseteq Server /\ S \subseteq Server
          /\ r.server \in Server /\ s.server \in Server
      BY DEF ElectionInv, TypeOK, HistTypeOK, Voters
    <2>3. PICK j : j \in R /\ j \in S
      <3>1. 2 * Cardinality(R) > N /\ 2 * Cardinality(S) > N
        BY Zenon, <2>1 DEF Elected
      <3>2. Cardinality(R) \in Nat /\ Cardinality(S) \in Nat
        BY <2>2, PeersCardinality
      <3>3. Cardinality(R) + Cardinality(S) > Cardinality(Server)
        <4> HIDE DEF R, S
        <4> QED  BY <3>1, <3>2, NAssumption, PeersCardinality
      <3>4. R \cap S # {}
        <4> HIDE DEF R, S
        <4> QED  BY Zenon, <2>2, <3>3, PeersCardinality, FS_MajoritiesIntersect
      <3> QED  BY <3>4
    <2>4. ASSUME NEW a \in Server, Elected(a, t), NEW c
          PROVE  a \notin Voters(c, t)
      BY <2>4 DEF ElectionInv, VoteInv, Voters, Elected
    <2>5. CASE j = r.server \/ j = s.server
      BY <2>1, <2>2, <2>3, <2>4, <2>5
    <2>6. CASE j \in Voters(r.server, t) /\ j \in Voters(s.server, t)
      BY <2>6 DEF ElectionInv, VoteInv, Voters
    <2> QED  BY <2>3, <2>5, <2>6
  <1> QED  BY <1>1, ElectionInit, ElectionStep, PTL DEF Spec
=============================================================================
