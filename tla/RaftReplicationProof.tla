------------------------ MODULE RaftReplicationProof ------------------------
(***************************************************************************)
(* Replication in Raft as long as one peer only has ever led, for any      *)
(* number of peers, terms, elections, rounds and entries; and what the     *)
(* elections give it: while one term lasts there is one leader.            *)
(***************************************************************************)
EXTENDS RaftElectionProof

USE DEF Call, Answer, Return

\* peer i has taken office
Led(i) == \E r \in reigns : r.server = i

\* One peer only has ever led, in however many terms.
OneLeader == \A r, s \in reigns : r.server = s.server

Requests == {m \in msgs : m.type = "AppendEntries"}
                \cup UNION {blocked[i] : i \in Server}
Replies == {m \in msgs : m.type = "AppendEntriesReply"}

\* Whoever leads, or is in a round of requests, has taken office; a round skips
\* the peer itself.
OfficeInv ==
    \A i \in Server :
        /\ electionState[i] = Leader \/ mainPC[i] \in {"check", "send"} => Led(i)
        /\ mainPC[i] = "send" => sendTo[i] # i

\* Without a leader nothing is in a log.
EmptyInv ==
    reigns = {} => \A i \in Server : /\ log[i] = <<>> /\ applied[i] = <<>>
                                     /\ commitIndex[i] = 0

\* The entries of a request are those of the leader's log, up to what was its
\* end, and what it says is committed is among them.
Genuine(m) ==
    /\ Led(m.from) /\ m.to # m.from
    /\ m.prevLogIndex + Len(m.entries) <= Len(log[m.from])
    /\ \A k \in 1 .. Len(m.entries) :
         m.entries[k] = log[m.from][m.prevLogIndex + k]
    /\ m.leaderCommit <= commitIndex[m.from]
    /\ m.leaderCommit <= m.prevLogIndex + Len(m.entries)

RequestInv == \A m \in Requests : Genuine(m)

\* A handler blocked on receivedHb is one of its own peer.
BlockedInv == \A i \in Server : \A m \in blocked[i] : m.to = i

\* Peer j has had the first n entries of l's log in its own.
Stored(l, j, n) ==
    /\ n <= Len(log[l])
    /\ \A k \in 1 .. n : <<k, log[l][k]>> \in held[j]

\* A reply that reports success is right about what the peer has had.
Truthful(m) ==
    /\ Led(m.from) /\ m.to # m.from
    /\ m.success => Stored(m.from, m.to, m.prevLogIndex + m.numEntries)

ReplyInv == \A m \in Replies : Truthful(m)

\* So is the leader's record of it.
MatchInv ==
    \A l \in Server : Led(l) =>
        /\ Stored(l, l, Len(log[l]))
        /\ commitIndex[l] <= Len(log[l])
        /\ \A j \in Server \ {l} : Stored(l, j, matchIndex[l][j])

\* What a peer has applied is what the leader has.
AppliedInv ==
    \A l, i \in Server : Led(l) => IsPrefixOf(applied[i], log[l])

\* Some peers, enough of them together with l itself, have had the x-th entry of
\* l's log.
Replicated(l, x) ==
    \E R \in SUBSET (Server \ {l}) :
        /\ Enough(1 + Cardinality(R))
        /\ \A j \in R \cup {l} : <<x, log[l][x]>> \in held[j]

CommitInv ==
    \A l \in Server : Led(l) => \A x \in 1 .. commitIndex[l] : Replicated(l, x)

ReplicationInv ==
    /\ TypeOK /\ OfficeInv /\ EmptyInv /\ RequestInv /\ BlockedInv /\ ReplyInv
    /\ MatchInv /\ AppliedInv /\ AppliedInOrder
    /\ FollowerPrefix /\ CommitBehindLeader /\ CommitInv

-----------------------------------------------------------------------------
(* Facts about logs and messages.                                          *)

LEMMA PrefixElements ==
    ASSUME NEW S, NEW s \in Seq(S), NEW t \in Seq(S)
    PROVE  IsPrefixOf(s, t) <=> /\ Len(s) <= Len(t)
                                /\ \A k \in 1 .. Len(s) : s[k] = t[k]
  <1>1. Len(s) \in Nat /\ Len(t) \in Nat
    BY Zenon, SeqLength
  <1>2. ASSUME Len(s) <= Len(t)
        PROVE  /\ SubSeq(t, 1, Len(s)) \in Seq(S)
               /\ Len(SubSeq(t, 1, Len(s))) = Len(s)
               /\ \A k \in 1 .. Len(s) : SubSeq(t, 1, Len(s))[k] = t[k]
    <2>1. \A k \in 1 .. Len(s) : t[k] \in S
      BY <1>1, <1>2, SeqLength
    <2> QED  BY <1>1, <1>2, <2>1, SubSequence
  <1>3. ASSUME Len(s) <= Len(t), \A k \in 1 .. Len(s) : s[k] = t[k]
        PROVE  s = SubSeq(t, 1, Len(s))
    BY Zenon, <1>1, <1>2, <1>3, SameElements
  <1> QED  BY Zenon, <1>2, <1>3 DEF IsPrefixOf

LEMMA PrefixAgrees ==
    ASSUME NEW S, NEW s \in Seq(S), NEW t \in Seq(S), IsPrefixOf(s, t)
    PROVE  \A k \in 1 .. Len(s) : s[k] = t[k]
  BY PrefixElements

LEMMA LogType ==
    ASSUME TypeOK, NEW i \in Server
    PROVE  /\ log[i] \in Seq(Entry) /\ Len(log[i]) \in Nat
           /\ applied[i] \in Seq(Entry) /\ Len(applied[i]) \in Nat
           /\ commitIndex[i] \in Nat /\ lastApplied[i] \in Nat
           /\ held[i] \subseteq Nat \X Entry
  BY Zenon, SeqLength DEF TypeOK, LogTypeOK, HistTypeOK

LEMMA RequestType ==
    ASSUME TypeOK, NEW m \in Requests
    PROVE  /\ m \in AppendEntriesArgs
           /\ m.from \in Server /\ m.to \in Server
           /\ m.prevLogIndex \in Nat /\ m.leaderCommit \in Nat
           /\ m.entries \in Seq(Entry) /\ Len(m.entries) \in Nat
  <1>1. m \in AppendEntriesArgs
    BY Zenon, MessageByType
    DEF Requests, TypeOK, MsgsTypeOK, AllMessages, SyncTypeOK
  <1> QED  BY Zenon, <1>1, SeqLength DEF AppendEntriesArgs

LEMMA ReplyType ==
    ASSUME TypeOK, NEW m \in Replies
    PROVE  /\ m \in AppendEntriesReply
           /\ m.from \in Server /\ m.to \in Server
           /\ m.prevLogIndex \in Nat /\ m.numEntries \in Nat
           /\ m.success \in BOOLEAN
  <1>1. m \in AppendEntriesReply
    BY Zenon, MessageByType DEF Replies, TypeOK, MsgsTypeOK, AllMessages
  <1> QED  BY Zenon, <1>1 DEF AppendEntriesReply

LEMMA ReignServer ==
    ASSUME TypeOK, NEW r \in reigns
    PROVE  r.server \in Server /\ Led(r.server)
  BY Zenon DEF TypeOK, HistTypeOK, Led

LEMMA OnlyLeader ==
    ASSUME OneLeader, NEW i, NEW j, Led(i), Led(j)
    PROVE  i = j
  BY Zenon DEF OneLeader, Led

-----------------------------------------------------------------------------
(* Steps that leave logs and commit indices alone.                         *)

Kept ==
    /\ UNCHANGED <<log, commitIndex, lastApplied, applied, matchIndex>>
    /\ UNCHANGED <<reigns, held>>
    /\ panicked \subseteq panicked'

\* nobody begins to lead
NoNewLeader ==
    \A i \in Server :
        /\ electionState'[i] = Leader => electionState[i] = Leader
        /\ mainPC'[i] \in {"check", "send"} => mainPC[i] \in {"check", "send"}
        /\ mainPC'[i] = "send" => \/ sendTo'[i] # i
                                  \/ mainPC[i] = "send" /\ sendTo'[i] = sendTo[i]

LEMMA KeptStep ==
    ASSUME ReplicationInv, TypeOK', Kept, NoNewLeader, BlockedInv',
           \A m \in Requests' : m \in Requests \/ Genuine(m),
           \A m \in Replies' : m \in Replies \/ Truthful(m)
    PROVE  ReplicationInv'
  <1>1. /\ \A i : Led(i)' = Led(i)
        /\ \A l, j, n : Stored(l, j, n)' = Stored(l, j, n)
    BY Zenon DEF Kept, Led, Stored
  <1>2. OfficeInv'
    BY Zenon, <1>1 DEF ReplicationInv, OfficeInv, NoNewLeader
  <1>3. EmptyInv'
    BY Zenon DEF ReplicationInv, EmptyInv, Kept
  <1>4. RequestInv'
    <2>1. \A m : Genuine(m)' = Genuine(m)
      BY Zenon, <1>1 DEF Genuine, Kept
    <2> QED  BY Zenon, <2>1 DEF ReplicationInv, RequestInv
  <1>5. ReplyInv'
    <2>1. \A m : Truthful(m)' = Truthful(m)
      BY Zenon, <1>1 DEF Truthful, Kept
    <2> QED  BY Zenon, <2>1 DEF ReplicationInv, ReplyInv
  <1>6. MatchInv'
    BY Zenon, <1>1 DEF ReplicationInv, MatchInv, Kept
  <1>7. AppliedInv' /\ AppliedInOrder'
    BY Zenon, <1>1 DEF ReplicationInv, AppliedInv, AppliedInOrder, Kept
  <1>8. FollowerPrefix' /\ CommitBehindLeader'
    BY Zenon DEF ReplicationInv, FollowerPrefix, CommitBehindLeader, Kept
  <1>9. CommitInv'
    <2>1. \A l, x : Replicated(l, x)' = Replicated(l, x)
      BY Zenon DEF Replicated, Kept
    <2> QED  BY Zenon, <1>1, <2>1 DEF ReplicationInv, CommitInv, Kept
  <1> QED  BY Zenon, <1>2, <1>3, <1>4, <1>5, <1>6, <1>7, <1>8, <1>9
           DEF ReplicationInv

\* mainRoutine and startAppendEntries
LEMMA KeptMain ==
    ASSUME ReplicationInv, TypeOK', NEW i \in Server,
           \/ MainHeartbeat(i) \/ MainHeartbeatLock(i) \/ CheckLeader(i)
           \/ SendAppend(i)
    PROVE  ReplicationInv'
  <1>0. TypeOK /\ mainPC \in [Server -> {"select", "heartbeat", "lostElect",
                                         "becoming", "check", "send"}]
    BY Zenon DEF ReplicationInv, TypeOK, MainTypeOK
  <1>1. CASE MainHeartbeat(i)
    <2>1. Kept /\ NoNewLeader /\ UNCHANGED <<msgs, blocked>>
      BY Zenon, <1>0, <1>1
      DEF MainHeartbeat, Kept, NoNewLeader, logVars, leaderVars, histVars,
          serverVars
    <2> QED  BY Zenon, <2>1, KeptStep
             DEF Requests, Replies, ReplicationInv, BlockedInv
  <1>2. CASE MainHeartbeatLock(i)
    <2>1. Kept /\ NoNewLeader /\ UNCHANGED <<msgs, blocked>>
      BY Zenon, <1>0, <1>2
      DEF MainHeartbeatLock, Kept, NoNewLeader, logVars, leaderVars, histVars,
          serverVars
    <2> QED  BY Zenon, <2>1, KeptStep
             DEF Requests, Replies, ReplicationInv, BlockedInv
  <1>3. CASE CheckLeader(i)
    <2>1. Kept /\ UNCHANGED <<msgs, blocked>>
      BY Zenon, <1>3
      DEF CheckLeader, Kept, logVars, leaderVars, histVars, syncVars
    <2>2. NoNewLeader
      <3>1. SkipSelf(i, 0) # i
        BY DEF SkipSelf, Server
      <3> QED  BY <1>0, <1>3, <3>1
               DEF CheckLeader, NoNewLeader, serverVars, TypeOK, MainTypeOK
    <2> QED  BY Zenon, <2>1, <2>2, KeptStep
             DEF Requests, Replies, ReplicationInv, BlockedInv
  <1>4. CASE SendAppend(i)
    <2> DEFINE j == sendTo[i]
    <2>0. /\ j \in Server
          /\ nextIndex[i][j] \in Nat \ {0}
      BY <1>0 DEF TypeOK, MainTypeOK, LeaderTypeOK
    <2>1. Kept /\ NoNewLeader /\ UNCHANGED blocked
      <3> DEFINE next == SkipSelf(i, j + 1)
      <3>1. Kept /\ UNCHANGED blocked /\ UNCHANGED electionState
        BY Zenon, <1>4
        DEF SendAppend, Kept, logVars, leaderVars, histVars, serverVars,
            syncVars
      <3>2. /\ sendTo' = [sendTo EXCEPT ![i] = IF next < N THEN next ELSE 0]
            /\ mainPC' = [mainPC EXCEPT
                            ![i] = IF next < N THEN "send" ELSE "check"]
            /\ mainPC[i] = "send"
        BY Zenon, <1>4 DEF SendAppend
      <3>3. next # i
        BY <2>0 DEF SkipSelf, Server
      <3> HIDE DEF next, j
      <3> QED  BY <1>0, <3>1, <3>2, <3>3
               DEF NoNewLeader, TypeOK, MainTypeOK
    <2>2. CASE nextIndex[i][j] > GoLen(i)
      <3>1. UNCHANGED msgs
        BY Zenon, <1>4, <2>2 DEF SendAppend
      <3> QED  BY Zenon, <2>1, <3>1, KeptStep
               DEF Requests, Replies, ReplicationInv, BlockedInv
    <2>3. CASE ~(nextIndex[i][j] > GoLen(i))
      <3> DEFINE q == Request(i, j)
                 prev == nextIndex[i][j] - 1
      <3>1. msgs' = msgs \cup {q}
        BY Zenon, <1>4, <2>3 DEF SendAppend
      <3>3. /\ log[i] \in Seq(Entry) /\ Len(log[i]) \in Nat
            /\ commitIndex[i] \in Nat
        BY Zenon, <1>0, LogType
      <3>4. prev \in Nat /\ prev <= Len(log[i])
        BY <2>0, <2>3, <3>3 DEF GoLen
      <3>s. PICK s : s = SubSeq(log[i], prev + 1, Len(log[i]))
        BY Zenon
      <3>5. /\ Len(s) = Len(log[i]) - prev
            /\ \A k \in 1 .. Len(s) : s[k] = log[i][prev + k]
        <4>1. \A k \in prev + 1 .. Len(log[i]) : log[i][k] \in Entry
          BY <3>3, <3>4, SeqLength
        <4> HIDE DEF prev
        <4> QED  BY <3>3, <3>4, <3>s, <4>1, SubSequence
      <3>6. Led(i) /\ commitIndex[i] <= Len(log[i])
        BY Zenon, <1>4 DEF SendAppend, ReplicationInv, OfficeInv, MatchInv
      <3>7. j # i
        BY Zenon, <1>4 DEF SendAppend, ReplicationInv, OfficeInv
      <3>8. /\ q.type = "AppendEntries" /\ q.from = i /\ q.to = j
            /\ q.prevLogIndex = prev /\ q.leaderCommit = commitIndex[i]
            /\ q.entries = s
        BY Zenon, <3>s DEF Request
      <3> HIDE DEF q, prev, j
      <3>9. Genuine(q)
        <4>1. /\ q.prevLogIndex \in Nat /\ Len(q.entries) \in Nat
              /\ q.prevLogIndex + Len(q.entries) = Len(log[q.from])
              /\ \A k \in 1 .. Len(q.entries) :
                   q.entries[k] = log[q.from][q.prevLogIndex + k]
          BY <3>3, <3>4, <3>5, <3>8
        <4>2. /\ q.prevLogIndex + Len(q.entries) <= Len(log[q.from])
              /\ q.leaderCommit <= commitIndex[q.from]
              /\ q.leaderCommit <= q.prevLogIndex + Len(q.entries)
          BY <3>3, <3>6, <3>8, <4>1
        <4>3. Led(q.from) /\ q.to # q.from
          BY Zenon, <3>6, <3>7, <3>8
        <4> QED  BY Zenon, <4>1, <4>2, <4>3 DEF Genuine
      <3> QED  BY Zenon, <2>1, <3>1, <3>8, <3>9, KeptStep
               DEF Requests, Replies, ReplicationInv, BlockedInv
    <2> QED  BY Zenon, <2>2, <2>3
  <1> QED  BY Zenon, <1>1, <1>2, <1>3, <1>4

\* startElect; no message it sends or receives is about entries
LEMMA KeptElect ==
    ASSUME ReplicationInv, TypeOK', NEW i \in Server, NEW e \in Eid,
           \/ MainTick(i, e) \/ StartElect(i, e) \/ ElectHigher(i, e)
           \/ ElectLock(i, e) \/ Announce(i, e) \/ LostElect(i, e)
           \/ \E m \in msgs : ElectReply(i, e, m)
    PROVE  ReplicationInv'
  <1>0. /\ mainPC \in [Server -> {"select", "heartbeat", "lostElect",
                                  "becoming", "check", "send"}]
        /\ electionState \in [Server -> {Follower, Candidate, Leader}]
    BY Zenon DEF ReplicationInv, TypeOK, MainTypeOK, ServerTypeOK
  <1> USE DEF Follower, Candidate, Leader
  <1>1. CASE MainTick(i, e) \/ \E m \in msgs : ElectReply(i, e, m)
    <2>1. Kept /\ NoNewLeader /\ UNCHANGED blocked /\ msgs' \subseteq msgs
      BY Zenon, <1>0, <1>1
      DEF MainTick, ElectReply, Kept, NoNewLeader, logVars, leaderVars,
          histVars, serverVars, mainVars, syncVars
    <2> QED  BY Zenon, <2>1, KeptStep
             DEF Requests, Replies, ReplicationInv, BlockedInv
  <1>2. CASE StartElect(i, e)
    <2> DEFINE new == {[type |-> "RequestVote", from |-> i, eid |-> e, to |-> j,
                        term |-> currentTerm[i] + 1, lastLogIndex |-> GoLen(i),
                        lastLogTerm |-> LastTerm(i)] : j \in Server \ {i}}
    <2>1. Kept /\ NoNewLeader /\ UNCHANGED blocked
      BY Zenon, <1>0, <1>2
      DEF StartElect, Kept, NoNewLeader, logVars, leaderVars, histVars,
          mainVars, syncVars
    <2>2. msgs' = msgs \cup new
      BY Zenon, <1>2 DEF StartElect
    <2>3. \A q \in new : q.type = "RequestVote"
      BY SMTT(20)
    <2> HIDE DEF new
    <2> QED  BY Zenon, <2>1, <2>2, <2>3, KeptStep
             DEF Requests, Replies, ReplicationInv, BlockedInv
  <1>3. CASE \/ ElectHigher(i, e) \/ ElectLock(i, e) \/ Announce(i, e)
             \/ LostElect(i, e)
    <2>1. Kept /\ UNCHANGED <<msgs, blocked>>
      BY Zenon, <1>3
      DEF ElectHigher, ElectLock, Announce, LostElect, Kept, logVars,
          leaderVars, histVars, syncVars
    <2>2. NoNewLeader
      BY Zenon, <1>0, <1>3
      DEF ElectHigher, ElectLock, Announce, LostElect, StepDown, NoNewLeader,
          serverVars, mainVars
    <2> QED  BY Zenon, <2>1, <2>2, KeptStep
             DEF Requests, Replies, ReplicationInv, BlockedInv
  <1> QED  BY Zenon, <1>1, <1>2, <1>3

LEMMA RefusalTruthful ==
    ASSUME ReplicationInv, NEW i \in Server, NEW m \in Requests, m.to = i
    PROVE  /\ Truthful(ReplyTo(i, m, FALSE))
           /\ ReplyTo(i, m, FALSE).type = "AppendEntriesReply"
  <1> DEFINE r == ReplyTo(i, m, FALSE)
  <1>1. /\ r.type = "AppendEntriesReply" /\ r.from = m.from /\ r.to = i
        /\ r.success = FALSE
    BY Zenon DEF ReplyTo
  <1>2. Genuine(m)
    BY Zenon DEF ReplicationInv, RequestInv
  <1> HIDE DEF r
  <1>3. Truthful(r)
    BY Zenon, <1>1, <1>2 DEF Genuine, Truthful
  <1> QED  BY Zenon, <1>1, <1>3 DEF r

\* the handlers, where they refuse or block
LEMMA KeptHandler ==
    ASSUME ReplicationInv, TypeOK', NEW i \in Server, NEW m \in msgs,
           \/ RequestVote(i, m) \/ AppendEntriesStale(i, m)
           \/ AppendEntriesBlock(i, m)
    PROVE  ReplicationInv'
  <1>0. /\ electionState \in [Server -> {Follower, Candidate, Leader}]
        /\ blocked \in [Server -> SUBSET AppendEntriesArgs]
    BY Zenon DEF ReplicationInv, TypeOK, ServerTypeOK, SyncTypeOK
  <1>1. CASE RequestVote(i, m)
    <2> DEFINE r == [type |-> "RequestVoteReply", from |-> m.from,
                     eid |-> m.eid, to |-> i, term |-> VoteReplyTerm(i, m),
                     voteGranted |-> Grants(i, m)]
    <2>1. Kept /\ NoNewLeader /\ UNCHANGED blocked
      BY Zenon, <1>0, <1>1
      DEF RequestVote, Kept, NoNewLeader, logVars, leaderVars, mainVars,
          syncVars, Follower, Candidate, Leader
    <2>2. msgs' = (msgs \ {m}) \cup {r}
      BY Zenon, <1>1 DEF RequestVote
    <2>3. r.type = "RequestVoteReply"
      BY Zenon
    <2> HIDE DEF r
    <2> QED  BY Zenon, <2>1, <2>2, <2>3, KeptStep
             DEF Requests, Replies, ReplicationInv, BlockedInv
  <1>2. CASE AppendEntriesStale(i, m)
    <2>1. Kept /\ NoNewLeader /\ UNCHANGED blocked
      BY Zenon, <1>2
      DEF AppendEntriesStale, Kept, NoNewLeader, logVars, leaderVars, mainVars,
          syncVars, serverVars, histVars
    <2>2. /\ msgs' = (msgs \ {m}) \cup {ReplyTo(i, m, FALSE)}
          /\ m \in Requests /\ m.to = i
      BY Zenon, <1>2 DEF AppendEntriesStale, Requests
    <2> QED  BY Zenon, <2>1, <2>2, RefusalTruthful, KeptStep
             DEF Requests, Replies, ReplicationInv, BlockedInv
  <1>3. CASE AppendEntriesBlock(i, m)
    <2>1. Kept /\ NoNewLeader
      BY Zenon, <1>3
      DEF AppendEntriesBlock, Kept, NoNewLeader, logVars, leaderVars, mainVars,
          syncVars, serverVars, histVars
    <2>2. /\ msgs' = msgs \ {m} /\ m \in Requests /\ m.to = i
          /\ blocked' = [blocked EXCEPT ![i] = {m}]
      BY Zenon, <1>3 DEF AppendEntriesBlock, Requests
    <2>3. BlockedInv'
      BY Zenon, <1>0, <2>2 DEF BlockedInv, ReplicationInv
    <2>4. Requests' \subseteq Requests /\ Replies' \subseteq Replies
      BY <1>0, <2>2 DEF Requests, Replies
    <2> QED  BY Zenon, <2>1, <2>3, <2>4, KeptStep
  <1> QED  BY Zenon, <1>1, <1>2, <1>3

-----------------------------------------------------------------------------
(* Steps in which the leader's log and commit index, and what peers have   *)
(* held, can only grow.                                                    *)

Grows ==
    /\ UNCHANGED reigns
    /\ \A l \in Server : Led(l) =>
         /\ Len(log[l]) <= Len(log'[l])
         /\ \A k \in 1 .. Len(log[l]) : log'[l][k] = log[l][k]
         /\ commitIndex[l] <= commitIndex'[l]
    /\ \A j \in Server : held[j] \subseteq held'[j]

LEMMA GrowsKeeps ==
    ASSUME TypeOK, TypeOK', Grows
    PROVE  /\ \A i : Led(i)' = Led(i)
           /\ \A l, j \in Server, n \in Nat :
                Led(l) /\ Stored(l, j, n) => Stored(l, j, n)'
           /\ \A m \in Requests : Genuine(m) => Genuine(m)'
           /\ \A m \in Replies : Truthful(m) => Truthful(m)'
  <1>1. \A i : Led(i)' = Led(i)
    BY Zenon DEF Grows, Led
  <1>2. \A l \in Server : /\ Len(log[l]) \in Nat /\ commitIndex[l] \in Nat
                          /\ Len(log'[l]) \in Nat /\ commitIndex'[l] \in Nat
    <2>1. \A l \in Server : log'[l] \in Seq(Entry) /\ commitIndex'[l] \in Nat
      BY Zenon DEF TypeOK, LogTypeOK
    <2> QED  BY Zenon, <2>1, LogType, SeqLength
  <1>3. ASSUME NEW l \in Server, NEW j \in Server, NEW n \in Nat, Led(l),
               Stored(l, j, n)
        PROVE  Stored(l, j, n)'
    <2>1. n <= Len(log[l]) /\ Len(log[l]) <= Len(log'[l])
      BY Zenon, <1>3 DEF Stored, Grows
    <2>2. \A k \in 1 .. n : log'[l][k] = log[l][k]
      BY <1>2, <1>3, <2>1 DEF Grows
    <2>3. \A k \in 1 .. n : <<k, log[l][k]>> \in held'[j]
      BY Zenon, <1>3 DEF Stored, Grows
    <2> QED  BY <1>2, <2>1, <2>2, <2>3 DEF Stored
  <1>4. ASSUME NEW m \in Requests, Genuine(m)
        PROVE  Genuine(m)'
    <2> DEFINE l == m.from
    <2>1. /\ l \in Server /\ m.prevLogIndex \in Nat /\ m.leaderCommit \in Nat
          /\ Len(m.entries) \in Nat
      BY Zenon, RequestType
    <2>2. /\ Led(l) /\ m.to # l
          /\ m.prevLogIndex + Len(m.entries) <= Len(log[l])
          /\ \A k \in 1 .. Len(m.entries) :
               m.entries[k] = log[l][m.prevLogIndex + k]
          /\ m.leaderCommit <= commitIndex[l]
          /\ m.leaderCommit <= m.prevLogIndex + Len(m.entries)
      BY Zenon, <1>4 DEF Genuine
    <2> HIDE DEF l
    <2>3. /\ m.prevLogIndex + Len(m.entries) <= Len(log'[l])
          /\ m.leaderCommit <= commitIndex'[l]
      BY <1>2, <2>1, <2>2 DEF Grows
    <2>4. \A k \in 1 .. Len(m.entries) :
            m.entries[k] = log'[l][m.prevLogIndex + k]
      <3> SUFFICES ASSUME NEW k \in 1 .. Len(m.entries)
                   PROVE  m.entries[k] = log'[l][m.prevLogIndex + k]
        BY Zenon
      <3>1. m.prevLogIndex + k \in 1 .. Len(log[l])
        BY <1>2, <2>1, <2>2
      <3> QED  BY Zenon, <2>1, <2>2, <3>1 DEF Grows
    <2> QED  BY Zenon, <1>1, <2>2, <2>3, <2>4 DEF Genuine, l
  <1>5. ASSUME NEW m \in Replies, Truthful(m)
        PROVE  Truthful(m)'
    <2>1. /\ m.from \in Server /\ m.to \in Server
          /\ m.prevLogIndex + m.numEntries \in Nat
      BY ReplyType
    <2> QED  BY Zenon, <1>1, <1>3, <1>5, <2>1 DEF Truthful
  <1> QED  BY Zenon, <1>1, <1>3, <1>4, <1>5

LEMMA GrowsReplicated ==
    ASSUME TypeOK, Grows, NEW l \in Server, Led(l), NEW x \in 1 .. Len(log[l]),
           Replicated(l, x)
    PROVE  Replicated(l, x)'
  <1>1. log'[l][x] = log[l][x] /\ \A j \in Server : held[j] \subseteq held'[j]
    BY Zenon DEF Grows
  <1> QED  BY Zenon, <1>1 DEF Replicated

\* Nothing in flight shares an array that is written, unless a peer that has
\* led loses an entry.
LEMMA NothingRacy ==
    ASSUME ReplicationInv, NEW i \in Server, NEW newLog, NEW seen,
           Led(i) => \A k \in 1 .. Len(log[i]) : newLog[k] = log[i][k]
    PROVE  AfterWrite(i, newLog, seen) = msgs
  <1>1. Racy(i, newLog) = {}
    <2> SUFFICES ASSUME NEW m \in msgs, m.type = "AppendEntries", m.from = i,
                        NEW k \in DOMAIN m.entries, SharedEntry(m, newLog, k)
                 PROVE  FALSE
      BY Zenon DEF Racy
    <2>1. m \in Requests
      BY Zenon DEF Requests
    <2>2. Genuine(m)
      BY Zenon, <2>1 DEF ReplicationInv, RequestInv
    <2>3. /\ m.entries \in Seq(Entry) /\ Len(m.entries) \in Nat
          /\ m.prevLogIndex \in Nat /\ Len(log[i]) \in Nat
      BY Zenon, <2>1, RequestType, LogType DEF ReplicationInv
    <2>4. k \in 1 .. Len(m.entries)
      BY Zenon, <2>3, SeqLength
    <2>5. m.prevLogIndex + k \in 1 .. Len(log[i])
      BY <2>2, <2>3, <2>4 DEF Genuine
    <2>6. /\ m.entries[k] = log[i][m.prevLogIndex + k]
          /\ newLog[m.prevLogIndex + k] = log[i][m.prevLogIndex + k]
      BY Zenon, <2>2, <2>4, <2>5 DEF Genuine
    <2> QED  BY Zenon, <2>6 DEF SharedEntry
  <1> QED  BY Zenon, <1>1 DEF AfterWrite

\* A log merged with a genuine request is the leader's, up to the end of what
\* the request carries.
LEMMA MergedIsPrefix ==
    ASSUME TypeOK, NEW i \in Server, NEW m \in Requests, Genuine(m),
           IsPrefixOf(log[i], log[m.from]),
           NEW k \in 0 .. Len(m.entries), PrevMatches(i, m), StopsAt(i, m, k)
    PROVE  /\ MergedLog(i, m, k) \in Seq(Entry)
           /\ Len(MergedLog(i, m, k)) = m.prevLogIndex + Len(m.entries)
           /\ \A x \in 1 .. m.prevLogIndex + Len(m.entries) :
                MergedLog(i, m, k)[x] = log[m.from][x]
  <1> DEFINE l == m.from
             prev == m.prevLogIndex
             n == Len(m.entries)
             a == SubSeq(log[i], 1, prev + k)
             b == SubSeq(m.entries, k + 1, n)
  <1>1. /\ l \in Server /\ prev \in Nat /\ n \in Nat
        /\ m.entries \in Seq(Entry)
        /\ log[i] \in Seq(Entry) /\ Len(log[i]) \in Nat
        /\ log[l] \in Seq(Entry) /\ Len(log[l]) \in Nat
    BY Zenon, RequestType, LogType
  <1>2. k \in Nat /\ k <= n /\ prev + k <= Len(log[i])
    <2>1. CASE k = 0
      BY <1>1, <2>1 DEF PrevMatches, GoLen
    <2>2. CASE k # 0
      <3>1. k \in 1 .. k /\ k \in Nat /\ k <= n
        BY <1>1, <2>2
      <3>2. Agrees(i, m, k)
        BY Zenon, <3>1 DEF StopsAt
      <3> QED  BY Zenon, <3>1, <3>2 DEF Agrees
    <2> QED  BY Zenon, <2>1, <2>2
  <1>3. /\ a \in Seq(Entry) /\ Len(a) = prev + k
        /\ \A x \in 1 .. prev + k : a[x] = log[i][x]
    <2>1. \A x \in 1 .. prev + k : log[i][x] \in Entry
      BY <1>1, <1>2, SeqLength
    <2> HIDE DEF prev
    <2> QED  BY <1>1, <1>2, <2>1, SubSequence
  <1>4. /\ b \in Seq(Entry) /\ Len(b) = n - k
        /\ \A x \in 1 .. n - k : b[x] = m.entries[k + x]
    <2>1. \A x \in k + 1 .. n : m.entries[x] \in Entry
      BY <1>1, <1>2, SeqLength
    <2> HIDE DEF n
    <2> QED  BY <1>1, <1>2, <2>1, SubSequence
  <1>5. MergedLog(i, m, k) = a \o b
    BY Zenon DEF MergedLog
  <1>6. /\ Len(log[i]) <= Len(log[l])
        /\ \A x \in 1 .. Len(log[i]) : log[i][x] = log[l][x]
    <2>1. IsPrefixOf(log[i], log[l])
      BY Zenon
    <2> HIDE DEF l
    <2> QED  BY <1>1, <2>1, PrefixElements
  <1>7. /\ prev + n <= Len(log[l])
        /\ \A x \in 1 .. n : m.entries[x] = log[l][prev + x]
    BY Zenon DEF Genuine
  <1> HIDE DEF a, b, l, prev, n
  <1>8. /\ a \o b \in Seq(Entry) /\ Len(a \o b) = prev + n
        /\ \A x \in 1 .. prev + k : (a \o b)[x] = a[x]
        /\ \A x \in prev + k + 1 .. prev + n : (a \o b)[x] = b[x - (prev + k)]
    <2>1. /\ a \o b \in Seq(Entry) /\ Len(a \o b) = Len(a) + Len(b)
          /\ \A x \in 1 .. Len(a) + Len(b) :
               (a \o b)[x] = IF x <= Len(a) THEN a[x] ELSE b[x - Len(a)]
      BY Zenon, <1>3, <1>4, Concatenated
    <2>2. Len(a) = prev + k /\ Len(a) + Len(b) = prev + n
      BY <1>1, <1>2, <1>3, <1>4
    <2>3. ASSUME NEW x \in 1 .. prev + k
          PROVE  (a \o b)[x] = a[x]
      <3>1. x \in 1 .. prev + n /\ x <= prev + k
        BY <1>1, <1>2
      <3> QED  BY Zenon, <2>1, <2>2, <3>1
    <2>4. ASSUME NEW x \in prev + k + 1 .. prev + n
          PROVE  (a \o b)[x] = b[x - (prev + k)]
      <3>1. x \in 1 .. prev + n /\ ~(x <= prev + k)
        BY <1>1, <1>2
      <3> QED  BY Zenon, <2>1, <2>2, <3>1
    <2> QED  BY Zenon, <2>1, <2>2, <2>3, <2>4
  <1>9. ASSUME NEW x \in 1 .. prev + k
        PROVE  (a \o b)[x] = log[l][x]
    <2>1. x \in 1 .. Len(log[i])
      BY <1>1, <1>2
    <2> QED  BY Zenon, <1>3, <1>6, <1>8, <2>1
  <1>10. ASSUME NEW x \in prev + k + 1 .. prev + n
         PROVE  (a \o b)[x] = log[l][x]
    <2>1. x - (prev + k) \in 1 .. n - k /\ k + (x - (prev + k)) = x - prev
      BY <1>1, <1>2
    <2>2. b[x - (prev + k)] = m.entries[x - prev]
      BY Zenon, <1>4, <2>1
    <2>3. x - prev \in 1 .. n /\ prev + (x - prev) = x
      BY <1>1, <1>2
    <2> QED  BY Zenon, <1>7, <1>8, <2>2, <2>3
  <1>11. \A x \in 1 .. prev + n : (a \o b)[x] = log[l][x]
    <2>1. \A x \in 1 .. prev + n :
            x \in 1 .. prev + k \/ x \in prev + k + 1 .. prev + n
      BY <1>1, <1>2
    <2> QED  BY Zenon, <1>9, <1>10, <2>1
  <1> QED  BY Zenon, <1>5, <1>8, <1>11 DEF l, prev, n

\* AppendEntries takes the entries of a request
LEMMA AcceptStep ==
    ASSUME ReplicationInv, OneLeader, TypeOK', NEW i \in Server,
           NEW m \in Requests, m.to = i, NEW k \in 0 .. Len(m.entries),
           Accept(i, m, k), NoNewLeader, BlockedInv',
           \A q \in blocked'[i] : q \in blocked[i],
           \A j \in Server \ {i} : blocked'[j] = blocked[j],
           UNCHANGED <<lastApplied, applied, matchIndex, panicked, reigns>>
    PROVE  ReplicationInv'
  <1> DEFINE l == m.from
             newLog == MergedLog(i, m, k)
             end == m.prevLogIndex + Len(m.entries)
  <1>0. TypeOK /\ Genuine(m)
    BY Zenon DEF ReplicationInv, RequestInv
  <1>1. /\ l \in Server /\ Led(l) /\ l # i
        /\ m.prevLogIndex \in Nat /\ Len(m.entries) \in Nat /\ end \in Nat
        /\ m.leaderCommit \in Nat /\ m.leaderCommit <= commitIndex[l]
        /\ m.leaderCommit <= end /\ end <= Len(log[l])
    BY <1>0, RequestType DEF Genuine
  <1>2. \A j \in Server : Led(j) => j = l
    BY Zenon, <1>1, OnlyLeader
  <1>3. \A r \in reigns : r.server = l
    BY Zenon, <1>0, <1>2, ReignServer
  <1>4. \A j \in Server : /\ IsPrefixOf(log[j], log[l])
                          /\ commitIndex[j] <= commitIndex[l]
    BY Zenon, <1>1, <1>3
    DEF Led, ReplicationInv, FollowerPrefix, CommitBehindLeader
  <1>5. /\ newLog \in Seq(Entry) /\ Len(newLog) = end
        /\ \A x \in 1 .. end : newLog[x] = log[l][x]
    BY Zenon, <1>0, <1>4, MergedIsPrefix DEF Accept
  <1>6. \A j \in Server : /\ log[j] \in Seq(Entry) /\ Len(log[j]) \in Nat
                          /\ commitIndex[j] \in Nat /\ lastApplied[j] \in Nat
    BY Zenon, <1>0, LogType
  <1>7. /\ log' = [log EXCEPT ![i] = newLog]
        /\ held' = [held EXCEPT ![i] = @ \cup Held(newLog)]
    BY Zenon DEF Accept
  <1>8. /\ \A j \in Server \ {i} : /\ log'[j] = log[j] /\ held'[j] = held[j]
                                   /\ commitIndex'[j] = commitIndex[j]
        /\ log'[i] = newLog /\ held'[i] = held[i] \cup Held(newLog)
    BY Zenon, <1>0, <1>7 DEF Accept, TypeOK, LogTypeOK, HistTypeOK
  <1>9. /\ commitIndex[i] <= commitIndex'[i]
        /\ commitIndex'[i] <= commitIndex[l]
    <2>1. commitIndex'[i] = IF commitIndex[i] < m.leaderCommit
                            THEN CommitTo(m, newLog) ELSE commitIndex[i]
      BY Zenon, <1>0 DEF Accept, TypeOK, LogTypeOK
    <2>2. CommitTo(m, newLog) = m.leaderCommit
      BY <1>1, <1>5 DEF CommitTo, Min2
    <2>3. CASE commitIndex[i] < m.leaderCommit
      BY <1>1, <1>6, <2>1, <2>2, <2>3
    <2>4. CASE ~(commitIndex[i] < m.leaderCommit)
      BY <1>4, <1>6, <2>1, <2>4
    <2> QED  BY Zenon, <2>3, <2>4
  <1>10. msgs' = (msgs \ {m}) \cup {ReplyTo(i, m, TRUE)}
    <2>1. PICK seen : msgs' = Answer(AfterWrite(i, newLog, seen), m,
                                     ReplyTo(i, m, TRUE))
      BY Zenon DEF Accept
    <2>2. AfterWrite(i, newLog, seen) = msgs
      BY Zenon, <1>1, <1>2, NothingRacy
    <2> QED  BY Zenon, <2>1, <2>2
  <1> HIDE DEF newLog, l, end
  <1>11. Grows
    BY <1>1, <1>2, <1>6, <1>8 DEF Grows
  <1>12. /\ \A j : Led(j)' = Led(j)
         /\ \A p, j \in Server, n \in Nat :
              Led(p) /\ Stored(p, j, n) => Stored(p, j, n)'
         /\ \A q \in Requests : Genuine(q) => Genuine(q)'
         /\ \A q \in Replies : Truthful(q) => Truthful(q)'
    BY Zenon, <1>0, <1>11, GrowsKeeps
  <1>13. /\ ReplyTo(i, m, TRUE).type = "AppendEntriesReply"
         /\ Truthful(ReplyTo(i, m, TRUE))'
    <2> DEFINE r == ReplyTo(i, m, TRUE)
    <2>1. /\ r.type = "AppendEntriesReply" /\ r.from = l /\ r.to = i
          /\ r.prevLogIndex + r.numEntries = end
      BY Zenon DEF ReplyTo, l, end
    <2>2. Stored(l, i, end)'
      <3>1. \A x \in 1 .. end : <<x, newLog[x]>> \in Held(newLog)
        BY Zenon, <1>5 DEF Held
      <3>2. \A x \in 1 .. end : <<x, log'[l][x]>> \in held'[i]
        BY <1>1, <1>5, <1>8, <3>1
      <3> QED  BY Zenon, <1>1, <1>8, <3>2 DEF Stored
    <2> HIDE DEF r
    <2> QED  BY Zenon, <1>1, <1>12, <2>1, <2>2 DEF Truthful, r
  <1>14. OfficeInv'
    BY Zenon, <1>12 DEF ReplicationInv, OfficeInv, NoNewLeader
  <1>15. EmptyInv'
    BY Zenon, <1>1 DEF EmptyInv, Led
  <1>16. RequestInv' /\ ReplyInv'
    <2>1. Requests' \subseteq Requests
      <3>1. \A j \in Server : blocked'[j] \subseteq blocked[j]
        BY Zenon
      <3>2. \A q \in msgs' : q.type = "AppendEntries" => q \in msgs
        BY Zenon, <1>10, <1>13
      <3> QED  BY <3>1, <3>2 DEF Requests
    <2>2. \A q \in Replies' : q \in Replies \/ q = ReplyTo(i, m, TRUE)
      BY Zenon, <1>10 DEF Replies
    <2> QED  BY Zenon, <1>12, <1>13, <2>1, <2>2
             DEF ReplicationInv, RequestInv, ReplyInv
  <1>17. MatchInv'
    <2>1. \A j \in Server \ {l} : matchIndex[l][j] \in Nat
      BY Zenon, <1>0, <1>1 DEF TypeOK, LeaderTypeOK
    <2> QED  BY Zenon, <1>1, <1>2, <1>6, <1>8, <1>12, <2>1
             DEF ReplicationInv, MatchInv
  <1>18. AppliedInv'
    BY Zenon, <1>1, <1>2, <1>8, <1>12 DEF ReplicationInv, AppliedInv
  <1>19. AppliedInOrder'
    <2>1. \A j \in Server : /\ commitIndex'[j] \in Nat
                            /\ commitIndex[j] <= commitIndex'[j]
      <3>1. \A j \in Server : commitIndex'[j] \in Nat
        BY Zenon DEF TypeOK, LogTypeOK
      <3>2. \A j \in Server \ {i} : commitIndex[j] <= commitIndex'[j]
        BY <1>6, <1>8
      <3> QED  BY Zenon, <1>9, <3>1, <3>2
    <2> QED  BY <1>6, <2>1 DEF ReplicationInv, AppliedInOrder
  <1>20. FollowerPrefix'
    <2>1. IsPrefixOf(newLog, log[l])
      BY Zenon, <1>1, <1>5, <1>6, PrefixElements
    <2> QED  BY Zenon, <1>1, <1>3, <1>4, <1>8, <2>1 DEF FollowerPrefix
  <1>21. CommitBehindLeader'
    BY <1>1, <1>3, <1>4, <1>8, <1>9 DEF CommitBehindLeader
  <1>22. CommitInv'
    <2>1. commitIndex'[l] = commitIndex[l] /\ commitIndex[l] <= Len(log[l])
      BY Zenon, <1>1, <1>8 DEF ReplicationInv, MatchInv
    <2>2. \A x \in 1 .. commitIndex[l] : x \in 1 .. Len(log[l])
      BY <1>1, <1>6, <2>1
    <2>3. \A x \in 1 .. commitIndex[l] : Replicated(l, x)'
      BY Zenon, <1>0, <1>1, <1>11, <2>2, GrowsReplicated
      DEF ReplicationInv, CommitInv
    <2> QED  BY Zenon, <1>2, <1>12, <2>1, <2>3 DEF CommitInv
  <1> QED  BY Zenon, <1>14, <1>15, <1>16, <1>17, <1>18, <1>19, <1>20, <1>21,
              <1>22
           DEF ReplicationInv

LEMMA ReceiveStep ==
    ASSUME ReplicationInv, OneLeader, TypeOK', NEW i \in Server, NEW m,
           \/ m \in msgs /\ AppendEntries(i, m)
           \/ m \in blocked[i] /\ AppendEntriesResume(i, m)
    PROVE  ReplicationInv'
  <1>0. /\ electionState \in [Server -> {Follower, Candidate, Leader}]
        /\ blocked \in [Server -> SUBSET AppendEntriesArgs]
    BY Zenon DEF ReplicationInv, TypeOK, ServerTypeOK, SyncTypeOK
  <1>1. m \in Requests /\ m.to = i /\ Receive(i, m)
    BY Zenon DEF AppendEntries, AppendEntriesResume, Requests, ReplicationInv,
           BlockedInv
  <1>2. \A j \in Server : /\ blocked'[j] \subseteq blocked[j]
                          /\ j # i => blocked'[j] = blocked[j]
    BY Zenon, <1>0 DEF AppendEntries, AppendEntriesResume
  <1>3. BlockedInv'
    BY Zenon, <1>2 DEF ReplicationInv, BlockedInv
  <1>4. /\ NoNewLeader
        /\ UNCHANGED <<lastApplied, applied, matchIndex, panicked, reigns>>
    BY Zenon, <1>0, <1>1
    DEF Receive, NoNewLeader, mainVars, leaderVars, Follower, Candidate, Leader
  <1>5. CASE Reject(i, m)
    <2>1. Kept
      BY Zenon, <1>4, <1>5 DEF Reject, Kept
    <2>2. msgs' = (msgs \ {m}) \cup {ReplyTo(i, m, FALSE)}
      BY <1>5 DEF Reject
    <2>3. /\ Truthful(ReplyTo(i, m, FALSE))
          /\ ReplyTo(i, m, FALSE).type = "AppendEntriesReply"
      BY Zenon, <1>1, RefusalTruthful
    <2>4. /\ \A q \in Requests' : q \in Requests
          /\ \A q \in Replies' : q \in Replies \/ Truthful(q)
      <3>1. \A q \in msgs' : q.type = "AppendEntries" => q \in msgs
        BY Zenon, <2>2, <2>3
      <3> QED  BY Zenon, <1>2, <2>2, <2>3, <3>1 DEF Requests, Replies
    <2> QED  BY Zenon, <1>3, <1>4, <2>1, <2>4, KeptStep
  <1>6. ASSUME NEW k \in 0 .. Len(m.entries), Accept(i, m, k)
        PROVE  ReplicationInv'
    BY Zenon, <1>1, <1>2, <1>3, <1>4, <1>6, AcceptStep
  <1> QED  BY Zenon, <1>1, <1>5, <1>6 DEF Receive

\* processAppendEntriesReply
LEMMA ReplyProcessed ==
    ASSUME ReplicationInv, OneLeader, TypeOK', NEW i \in Server,
           NEW m \in msgs, ProcessAppendEntriesReply(i, m)
    PROVE  ReplicationInv'
  <1>0. TypeOK
    BY Zenon DEF ReplicationInv
  <1>. PICK match :
         match = [matchIndex[i] EXCEPT ![m.to] = MatchIndexAfter(i, m)]
    BY Zenon
  <1>. PICK ready : ready = Committable(i, match)
    BY Zenon
  <1>1. m \in Replies /\ m.from = i /\ Truthful(m)
    BY Zenon DEF ProcessAppendEntriesReply, Replies, ReplicationInv, ReplyInv
  <1>2. /\ Led(i) /\ m.to # i /\ m.to \in Server
        /\ m.prevLogIndex + m.numEntries \in Nat
        /\ m.success \in BOOLEAN
        /\ m.success => Stored(i, m.to, m.prevLogIndex + m.numEntries)
    BY <1>0, <1>1, ReplyType DEF Truthful
  <1>3. \A r \in reigns : r.server = i
    BY Zenon, <1>0, <1>2, ReignServer, OnlyLeader
  <1>4. /\ UNCHANGED <<log, lastApplied, applied, reigns, held, panicked>>
        /\ UNCHANGED <<electionState, mainPC, sendTo, blocked>>
        /\ msgs' = msgs \ {m}
        /\ matchIndex' = [matchIndex EXCEPT ![i] = match]
    BY DEF ProcessAppendEntriesReply, serverVars, mainVars, syncVars, histVars
  <1>5. \A j \in Server : /\ Len(log[j]) \in Nat /\ commitIndex[j] \in Nat
                          /\ commitIndex'[j] \in Nat /\ lastApplied[j] \in Nat
    BY Zenon, <1>0, LogType DEF TypeOK, LogTypeOK
  <1>6. /\ \A j \in Server : match[j] \in Nat
        /\ \A j \in Server \ {i} : Stored(i, j, match[j])
    <2>1. matchIndex[i] \in [Server -> Nat]
      BY Zenon, <1>0 DEF TypeOK, LeaderTypeOK
    <2>2. \A j \in Server \ {i} : Stored(i, j, matchIndex[i][j])
      BY Zenon, <1>2 DEF ReplicationInv, MatchInv
    <2>3. /\ MatchIndexAfter(i, m) \in Nat
          /\ Stored(i, m.to, MatchIndexAfter(i, m))
      BY Zenon, <1>2, <2>1, <2>2 DEF MatchIndexAfter
    <2> QED  BY Zenon, <1>2, <2>1, <2>2, <2>3
  <1>7. Stored(i, i, Len(log[i])) /\ commitIndex[i] <= Len(log[i])
    BY Zenon, <1>2 DEF ReplicationInv, MatchInv
  <1>8. /\ \A j \in Server \ {i} : commitIndex'[j] = commitIndex[j]
        /\ commitIndex[i] <= commitIndex'[i]
        /\ commitIndex'[i] <= Len(log[i])
        /\ \A x \in commitIndex[i] + 1 .. commitIndex'[i] : Replicated(i, x)
    <2>1. commitIndex \in [Server -> Nat]
      BY Zenon, <1>0 DEF TypeOK, LogTypeOK
    <2>2. CASE UNCHANGED commitIndex
      BY <1>5, <1>7, <2>2
    <2>3. CASE ~UNCHANGED commitIndex
      <3>. PICK k \in ready : commitIndex' = [commitIndex EXCEPT ![i] = k]
        BY Zenon, <2>3 DEF ProcessAppendEntriesReply
      <3> DEFINE R == {p \in Server \ {i} : match[p] >= k}
      <3>1. k \in commitIndex[i] + 1 .. Len(log[i]) /\ Enough(1 + Cardinality(R))
        BY Zenon DEF Committable, Replicas
      <3>2. commitIndex'[i] = k /\ \A j \in Server \ {i} :
                                     commitIndex'[j] = commitIndex[j]
        BY Zenon, <2>1
      <3>3. ASSUME NEW x \in 1 .. k
            PROVE  Replicated(i, x)
        <4>1. ASSUME NEW p \in R
              PROVE  <<x, log[i][x]>> \in held[p]
          <5>1. p \in Server \ {i} /\ match[p] \in Nat /\ match[p] >= k
            BY Zenon, <1>6
          <5>2. x \in 1 .. match[p]
            BY <1>5, <3>1, <5>1
          <5> QED  BY Zenon, <1>6, <5>1, <5>2 DEF Stored
        <4>2. <<x, log[i][x]>> \in held[i]
          <5>1. x \in 1 .. Len(log[i])
            BY <1>5, <3>1
          <5> QED  BY Zenon, <1>7, <5>1 DEF Stored
        <4>3. R \in SUBSET (Server \ {i})
          BY Zenon
        <4> HIDE DEF R
        <4> QED  BY Zenon, <3>1, <4>1, <4>2, <4>3 DEF Replicated
      <3> HIDE DEF R
      <3> QED  BY <1>5, <3>1, <3>2, <3>3
    <2> QED  BY Zenon, <2>2, <2>3
  <1>9. Grows
    BY <1>2, <1>3, <1>4, <1>5, <1>8 DEF Grows, Led
  <1>10. /\ \A j : Led(j)' = Led(j)
         /\ \A p, j \in Server, n \in Nat :
              Led(p) /\ Stored(p, j, n) => Stored(p, j, n)'
         /\ \A q \in Requests : Genuine(q) => Genuine(q)'
         /\ \A q \in Replies : Truthful(q) => Truthful(q)'
    BY Zenon, <1>0, <1>9, GrowsKeeps
  <1>11. OfficeInv' /\ EmptyInv' /\ BlockedInv'
    BY Zenon, <1>2, <1>4, <1>10
    DEF ReplicationInv, OfficeInv, EmptyInv, BlockedInv, Led
  <1>12. RequestInv' /\ ReplyInv'
    <2>1. Requests' \subseteq Requests /\ Replies' \subseteq Replies
      BY Zenon, <1>4 DEF Requests, Replies
    <2> QED  BY Zenon, <1>10, <2>1 DEF ReplicationInv, RequestInv, ReplyInv
  <1>13. MatchInv'
    <2>1. matchIndex'[i] = match
      BY Zenon, <1>0, <1>4 DEF TypeOK, LeaderTypeOK
    <2>2. \A l \in Server : Led(l) => l = i
      BY Zenon, <1>2, OnlyLeader
    <2>3. \A j \in Server \ {i} : Stored(i, j, match[j])'
      BY Zenon, <1>2, <1>6, <1>10
    <2>4. Stored(i, i, Len(log[i]))' /\ commitIndex'[i] <= Len(log'[i])
      BY Zenon, <1>2, <1>4, <1>5, <1>7, <1>8, <1>10
    <2> QED  BY Zenon, <1>4, <1>10, <2>1, <2>2, <2>3, <2>4 DEF MatchInv
  <1>14. AppliedInv' /\ FollowerPrefix'
    BY Zenon, <1>4, <1>10 DEF ReplicationInv, AppliedInv, FollowerPrefix
  <1>15. AppliedInOrder'
    BY <1>4, <1>5, <1>8 DEF ReplicationInv, AppliedInOrder
  <1>16. CommitBehindLeader'
    <2>1. \A j \in Server : commitIndex[j] <= commitIndex[i]
      BY Zenon, <1>2 DEF Led, ReplicationInv, CommitBehindLeader
    <2> QED  BY <1>3, <1>4, <1>5, <1>8, <2>1 DEF CommitBehindLeader
  <1>17. CommitInv'
    <2>1. \A x \in 1 .. commitIndex[i] : Replicated(i, x)
      BY Zenon, <1>2 DEF ReplicationInv, CommitInv
    <2>2. \A x \in 1 .. commitIndex'[i] :
            /\ x \in 1 .. Len(log[i])
            /\ \/ x \in 1 .. commitIndex[i]
               \/ x \in commitIndex[i] + 1 .. commitIndex'[i]
      BY <1>5, <1>8
    <2>3. \A x \in 1 .. commitIndex'[i] : Replicated(i, x)'
      BY Zenon, <1>0, <1>2, <1>8, <1>9, <2>1, <2>2, GrowsReplicated
    <2>4. \A l \in Server : Led(l) => l = i
      BY Zenon, <1>2, OnlyLeader
    <2> QED  BY Zenon, <1>10, <2>3, <2>4 DEF CommitInv
  <1> QED  BY Zenon, <1>11, <1>12, <1>13, <1>14, <1>15, <1>16, <1>17
           DEF ReplicationInv

\* Adding the entries of s from Len(a) + 1 to n, as applyCommit does.
LEMMA ExtendTo ==
    ASSUME NEW S, NEW a \in Seq(S), NEW s \in Seq(S), NEW n \in Nat,
           n <= Len(s), NEW new, new = a \o SubSeq(s, Len(a) + 1, n)
    PROVE  /\ new \in Seq(S)
           /\ Len(new) = IF Len(a) <= n THEN n ELSE Len(a)
           /\ \A x \in 1 .. Len(a) : new[x] = a[x]
           /\ \A x \in Len(a) + 1 .. Len(new) : new[x] = s[x]
  <1>1. PICK c \in Nat : c = Len(a)
    BY Zenon, SeqLength
  <1>2. PICK b : b = SubSeq(s, c + 1, n)
    BY Zenon
  <1>3. Len(s) \in Nat
    BY Zenon, SeqLength
  <1>4. /\ b \in Seq(S) /\ Len(b) = IF c + 1 <= n THEN n - c ELSE 0
        /\ \A x \in 1 .. n - c : b[x] = s[c + x]
    <2>1. \A x \in c + 1 .. n : s[x] \in S
      BY <1>3, SeqLength
    <2>2. /\ b \in Seq(S)
          /\ Len(b) = IF c + 1 <= n THEN n - (c + 1) + 1 ELSE 0
          /\ \A x \in 1 .. n - (c + 1) + 1 : b[x] = s[c + 1 + x - 1]
      BY <1>2, <2>1, SubSequence
    <2>3. /\ n - (c + 1) + 1 = n - c
          /\ \A x \in 1 .. n - c : c + 1 + x - 1 = c + x
      BY n \in Nat, c \in Nat
    <2> QED  BY Zenon, <2>2, <2>3
  <1>5. /\ new \in Seq(S) /\ Len(new) = c + Len(b)
        /\ \A x \in 1 .. c + Len(b) :
             new[x] = IF x <= c THEN a[x] ELSE b[x - c]
    BY <1>1, <1>2, <1>4, Concatenated
  <1>6. Len(b) \in Nat /\ Len(new) = IF c <= n THEN n ELSE c
    BY <1>4, <1>5
  <1>7. ASSUME NEW x \in 1 .. c
        PROVE  new[x] = a[x]
    <2>1. x \in 1 .. c + Len(b) /\ x <= c
      BY <1>6
    <2> QED  BY Zenon, <1>5, <2>1
  <1>8. ASSUME NEW x \in c + 1 .. Len(new)
        PROVE  new[x] = s[x]
    <2>1. x \in 1 .. c + Len(b) /\ ~(x <= c)
      BY <1>5, <1>6
    <2>2. x - c \in 1 .. n - c /\ c + (x - c) = x
      BY <1>6
    <2> QED  BY Zenon, <1>4, <1>5, <2>1, <2>2
  <1> QED  BY Zenon, <1>1, <1>5, <1>6, <1>7, <1>8

\* applyCommit
LEMMA ApplyStep ==
    ASSUME ReplicationInv, TypeOK', NEW i \in Server, ApplyCommit(i)
    PROVE  ReplicationInv'
  <1>0. TypeOK /\ i \notin panicked
    BY Zenon DEF ReplicationInv, ApplyCommit, Free
  <1>1. /\ Len(applied[i]) = lastApplied[i]
        /\ lastApplied[i] <= commitIndex[i]
    BY Zenon, <1>0 DEF ReplicationInv, AppliedInOrder
  <1>2. \A j \in Server : /\ log[j] \in Seq(Entry) /\ Len(log[j]) \in Nat
                          /\ applied[j] \in Seq(Entry) /\ Len(applied[j]) \in Nat
                          /\ commitIndex[j] \in Nat /\ lastApplied[j] \in Nat
    BY Zenon, <1>0, LogType
  <1>n. PICK n : n = Min2(commitIndex[i], Len(log[i]))
    BY Zenon
  <1>a. PICK new : new = applied[i] \o SubSeq(log[i], lastApplied[i] + 1, n)
    BY Zenon
  <1>3. n \in Nat /\ n <= commitIndex[i] /\ n <= Len(log[i])
        /\ (commitIndex[i] <= Len(log[i]) => n = commitIndex[i])
    BY <1>2, <1>n DEF Min2
  <1>4. /\ new \in Seq(Entry)
        /\ Len(new) = IF lastApplied[i] <= n THEN n ELSE lastApplied[i]
        /\ \A x \in 1 .. Len(applied[i]) : new[x] = applied[i][x]
        /\ \A x \in Len(applied[i]) + 1 .. Len(new) : new[x] = log[i][x]
    <2>1. PICK a, t : a = applied[i] /\ t = log[i]
      BY Zenon
    <2>2. /\ a \in Seq(Entry) /\ t \in Seq(Entry) /\ n \in Nat /\ n <= Len(t)
          /\ new = a \o SubSeq(t, Len(a) + 1, n)
      BY Zenon, <1>1, <1>2, <1>3, <1>a, <2>1
    <2>3. /\ new \in Seq(Entry)
          /\ Len(new) = IF Len(a) <= n THEN n ELSE Len(a)
          /\ \A x \in 1 .. Len(a) : new[x] = a[x]
          /\ \A x \in Len(a) + 1 .. Len(new) : new[x] = t[x]
      BY <2>2, ExtendTo
    <2> QED  BY Zenon, <1>1, <2>1, <2>3
  <1>5. /\ UNCHANGED <<log, commitIndex, matchIndex, reigns, held, msgs>>
        /\ UNCHANGED <<electionState, mainPC, sendTo, blocked>>
        /\ lastApplied' = [lastApplied EXCEPT ![i] = commitIndex[i]]
        /\ applied' = [applied EXCEPT ![i] = new]
    BY Zenon, <1>n, <1>a
    DEF ApplyCommit, ApplyFrom, serverVars, leaderVars, mainVars, syncVars,
           histVars
  <1>6. /\ applied'[i] = new /\ lastApplied'[i] = commitIndex[i]
        /\ \A j \in Server \ {i} : /\ applied'[j] = applied[j]
                                   /\ lastApplied'[j] = lastApplied[j]
    BY Zenon, <1>0, <1>5 DEF TypeOK, LogTypeOK
  <1>7. /\ panicked' \in {panicked, panicked \cup {i}}
        /\ i \notin panicked' => \/ ~(commitIndex[i] > lastApplied[i])
                                 \/ ~(commitIndex[i] > Len(log[i]))
    BY Zenon, <1>0 DEF ApplyCommit
  <1>8. /\ \A l : Led(l)' = Led(l)
        /\ \A l, j, x : Stored(l, j, x)' = Stored(l, j, x)
    BY Zenon, <1>5 DEF Led, Stored
  <1>9. OfficeInv' /\ BlockedInv'
    BY Zenon, <1>5, <1>8 DEF ReplicationInv, OfficeInv, BlockedInv
  <1>10. RequestInv' /\ ReplyInv'
    <2>1. /\ Requests' = Requests /\ Replies' = Replies
          /\ \A m : Genuine(m)' = Genuine(m)
          /\ \A m : Truthful(m)' = Truthful(m)
      BY Zenon, <1>5, <1>8 DEF Requests, Replies, Genuine, Truthful
    <2> QED  BY Zenon, <2>1 DEF ReplicationInv, RequestInv, ReplyInv
  <1>11. MatchInv' /\ FollowerPrefix' /\ CommitBehindLeader' /\ CommitInv'
    <2>1. \A l, x : Replicated(l, x)' = Replicated(l, x)
      BY Zenon, <1>5 DEF Replicated
    <2> QED  BY Zenon, <1>5, <1>8, <2>1
             DEF ReplicationInv, MatchInv, FollowerPrefix, CommitBehindLeader,
                 CommitInv
  <1>12. EmptyInv'
    <2>1. CASE reigns = {}
      <3>1. log[i] = <<>> /\ applied[i] = <<>> /\ commitIndex[i] = 0
        BY Zenon, <2>1 DEF ReplicationInv, EmptyInv
      <3>2. Len(new) = 0
        BY Zenon, <1>1, <1>2, <1>3, <1>4, <3>1
      <3>3. new = <<>>
        BY Zenon, <1>4, <3>2, EmptySequence
      <3> QED  BY Zenon, <1>5, <1>6, <2>1, <3>3 DEF ReplicationInv, EmptyInv
    <2>2. CASE reigns # {}
      BY Zenon, <1>5, <2>2 DEF EmptyInv
    <2> QED  BY Zenon, <2>1, <2>2
  <1>13. AppliedInv'
    <2> SUFFICES ASSUME NEW l \in Server, Led(l)
                 PROVE  IsPrefixOf(new, log[l])
      BY Zenon, <1>5, <1>6, <1>8 DEF ReplicationInv, AppliedInv
    <2>1. /\ Len(applied[i]) <= Len(log[l])
          /\ \A x \in 1 .. Len(applied[i]) : applied[i][x] = log[l][x]
      BY <1>2, PrefixElements DEF ReplicationInv, AppliedInv
    <2>2. /\ Len(log[i]) <= Len(log[l])
          /\ \A x \in 1 .. Len(log[i]) : log[i][x] = log[l][x]
      BY <1>2, PrefixElements DEF ReplicationInv, FollowerPrefix, Led
    <2>3. Len(new) \in Nat /\ Len(new) <= Len(log[l])
      BY <1>1, <1>2, <1>3, <1>4, <2>1, <2>2
    <2>4. ASSUME NEW x \in 1 .. Len(new)
          PROVE  new[x] = log[l][x]
      <3>1. CASE x \in 1 .. Len(applied[i])
        BY Zenon, <1>4, <2>1, <3>1
      <3>2. CASE x \in Len(applied[i]) + 1 .. Len(new)
        <4>1. x \in 1 .. Len(log[i])
          BY <1>1, <1>2, <1>3, <1>4, <3>2
        <4> QED  BY Zenon, <1>4, <2>2, <3>2, <4>1
      <3> QED  BY <1>2, <2>3, <3>1, <3>2
    <2> QED  BY Zenon, <1>2, <1>4, <2>3, <2>4, PrefixElements
  <1>14. AppliedInOrder'
    <2>1. i \notin panicked' => Len(new) = commitIndex[i]
      BY <1>1, <1>2, <1>3, <1>4, <1>7
    <2>2. ASSUME NEW j \in Server \ panicked'
          PROVE  /\ Len(applied'[j]) = lastApplied'[j]
                 /\ lastApplied'[j] <= commitIndex'[j]
      <3>1. CASE j = i
        BY <1>2, <1>5, <1>6, <2>1, <2>2, <3>1
      <3>2. CASE j # i
        <4>1. j \in Server \ panicked
          BY Zenon, <1>7, <2>2
        <4> QED  BY Zenon, <1>5, <1>6, <3>2, <4>1
                 DEF ReplicationInv, AppliedInOrder
      <3> QED  BY Zenon, <3>1, <3>2
    <2> QED  BY Zenon, <2>2 DEF AppliedInOrder
  <1> QED  BY Zenon, <1>9, <1>10, <1>11, <1>12, <1>13, <1>14 DEF ReplicationInv

\* PutCommand on the leader
LEMMA PutStep ==
    ASSUME ReplicationInv, OneLeader, TypeOK', NEW i \in Server,
           NEW c \in Command, PutCommand(i, c)
    PROVE  ReplicationInv'
  <1>. PICK e : e = [term |-> currentTerm[i], command |-> c]
    BY Zenon
  <1>. PICK n : n = Len(log[i])
    BY Zenon
  <1>0. TypeOK /\ Led(i)
    BY Zenon DEF ReplicationInv, OfficeInv, PutCommand
  <1>1. \A r \in reigns : r.server = i
    BY Zenon, <1>0, ReignServer, OnlyLeader
  <1>2. \A j \in Server : /\ log[j] \in Seq(Entry) /\ Len(log[j]) \in Nat
                          /\ applied[j] \in Seq(Entry)
                          /\ commitIndex[j] \in Nat
    BY Zenon, <1>0, LogType
  <1>3. e \in Entry /\ n \in Nat
    BY Zenon, <1>0, <1>2 DEF TypeOK, ServerTypeOK, Entry
  <1>4. PICK new : new = Append(log[i], e)
    BY Zenon
  <1>5. /\ new \in Seq(Entry) /\ Len(new) = n + 1
        /\ \A x \in 1 .. n : new[x] = log[i][x]
    BY <1>2, <1>3, <1>4, Appended
  <1>6. /\ UNCHANGED <<commitIndex, lastApplied, applied, matchIndex, reigns>>
        /\ UNCHANGED <<electionState, mainPC, sendTo, blocked, panicked>>
        /\ log' = [log EXCEPT ![i] = new]
        /\ held' = [held EXCEPT ![i] = @ \cup Held(new)]
    BY Zenon, <1>4 DEF PutCommand, serverVars, leaderVars, mainVars, syncVars
  <1>7. msgs' = msgs
    <2>1. PICK seen : msgs' = AfterWrite(i, new, seen)
      BY Zenon, <1>4 DEF PutCommand
    <2> QED  BY Zenon, <1>5, <2>1, NothingRacy
  <1>8. /\ \A j \in Server \ {i} : log'[j] = log[j] /\ held'[j] = held[j]
        /\ log'[i] = new /\ held'[i] = held[i] \cup Held(new)
    BY Zenon, <1>0, <1>6 DEF TypeOK, LogTypeOK, HistTypeOK
  <1>9. Grows
    <2>1. \A l \in Server : Led(l) => l = i
      BY Zenon, <1>0, OnlyLeader
    <2> QED  BY <1>2, <1>3, <1>5, <1>6, <1>8, <2>1 DEF Grows
  <1>10. /\ \A j : Led(j)' = Led(j)
         /\ \A p, j \in Server, x \in Nat :
              Led(p) /\ Stored(p, j, x) => Stored(p, j, x)'
         /\ \A q \in Requests : Genuine(q) => Genuine(q)'
         /\ \A q \in Replies : Truthful(q) => Truthful(q)'
    BY Zenon, <1>0, <1>9, GrowsKeeps
  <1>11. OfficeInv' /\ EmptyInv' /\ BlockedInv'
    BY Zenon, <1>0, <1>6, <1>10
    DEF ReplicationInv, OfficeInv, EmptyInv, BlockedInv, Led
  <1>12. RequestInv' /\ ReplyInv'
    <2>1. Requests' = Requests /\ Replies' = Replies
      BY Zenon, <1>6, <1>7 DEF Requests, Replies
    <2> QED  BY Zenon, <1>10, <2>1 DEF ReplicationInv, RequestInv, ReplyInv
  <1>13. MatchInv'
    <2>1. \A l \in Server : Led(l) => l = i
      BY <1>0, OnlyLeader
    <2>2. \A j \in Server \ {i} : Stored(i, j, matchIndex[i][j])'
      <3>1. \A j \in Server : matchIndex[i][j] \in Nat
        BY Zenon, <1>0 DEF TypeOK, LeaderTypeOK
      <3>2. \A j \in Server \ {i} : Stored(i, j, matchIndex[i][j])
        BY Zenon, <1>0 DEF ReplicationInv, MatchInv
      <3>3. \A j \in Server \ {i}, x \in Nat : Stored(i, j, x) => Stored(i, j, x)'
        BY Zenon, <1>0, <1>10
      <3> QED  BY Zenon, <1>6, <3>1, <3>2, <3>3 DEF Stored
    <2>3. Stored(i, i, Len(log[i]))'
      <3>1. \A x \in 1 .. n + 1 : <<x, new[x]>> \in Held(new)
        BY Zenon, <1>5 DEF Held
      <3> QED  BY <1>3, <1>5, <1>8, <3>1 DEF Stored
    <2>4. commitIndex'[i] <= Len(log'[i])
      <3>1. commitIndex[i] <= n
        BY Zenon, <1>0 DEF ReplicationInv, MatchInv
      <3> QED  BY <1>2, <1>3, <1>5, <1>6, <1>8, <3>1
    <2> QED  BY Zenon, <1>10, <2>1, <2>2, <2>3, <2>4 DEF MatchInv
  <1>14. ASSUME NEW s \in Seq(Entry), IsPrefixOf(s, log[i])
         PROVE  IsPrefixOf(s, new)
    <2>1. Len(s) \in Nat /\ Len(s) <= n
      BY Zenon, <1>2, <1>14, SeqLength, PrefixElements
    <2>2. \A x \in 1 .. Len(s) : s[x] = log[i][x]
      BY Zenon, <1>2, <1>14, PrefixAgrees
    <2>3. \A x \in 1 .. Len(s) : s[x] = new[x]
      BY <1>3, <1>5, <2>1, <2>2
    <2>4. Len(s) <= Len(new)
      BY <1>3, <1>5, <2>1
    <2> QED  BY Zenon, <1>5, <2>3, <2>4, PrefixElements
  <1>15. AppliedInv'
    <2>1. \A l \in Server : Led(l) => l = i
      BY <1>0, OnlyLeader
    <2> QED  BY Zenon, <1>2, <1>6, <1>8, <1>10, <1>14, <2>1
             DEF ReplicationInv, AppliedInv
  <1>16. FollowerPrefix'
    <2>1. \A j \in Server \ {i} : IsPrefixOf(log[j], new)
      BY Zenon, <1>0, <1>2, <1>14 DEF ReplicationInv, FollowerPrefix, Led
    <2>2. IsPrefixOf(new, new)
      BY <1>3, <1>5, PrefixElements
    <2> QED  BY Zenon, <1>1, <1>6, <1>8, <2>1, <2>2 DEF FollowerPrefix
  <1>17. AppliedInOrder' /\ CommitBehindLeader'
    BY Zenon, <1>6 DEF ReplicationInv, AppliedInOrder, CommitBehindLeader
  <1>18. CommitInv'
    <2>1. \A x \in 1 .. commitIndex[i] : x \in 1 .. Len(log[i])
      <3>1. commitIndex[i] <= Len(log[i])
        BY Zenon, <1>0 DEF ReplicationInv, MatchInv
      <3> QED  BY <1>2, <3>1
    <2>2. \A x \in 1 .. commitIndex[i] : Replicated(i, x)'
      BY Zenon, <1>0, <1>9, <2>1, GrowsReplicated DEF ReplicationInv, CommitInv
    <2>3. \A l \in Server : Led(l) => l = i
      BY <1>0, OnlyLeader
    <2> QED  BY Zenon, <1>6, <1>10, <2>2, <2>3 DEF CommitInv
  <1> QED  BY Zenon, <1>11, <1>12, <1>13, <1>15, <1>16, <1>17, <1>18
           DEF ReplicationInv

\* mainRoutine takes office: for the first time, when every log is empty, or
\* again
LEMMA OfficeStep ==
    ASSUME ReplicationInv, OneLeader', TypeOK', NEW i \in Server,
           BecomeLeader(i)
    PROVE  ReplicationInv'
  <1>0. TypeOK
    BY Zenon DEF ReplicationInv
  <1>. PICK new : new = [server |-> i, term |-> currentTerm[i],
                         elected |-> electedIn[i]]
    BY Zenon
  <1>1. /\ UNCHANGED <<log, commitIndex, lastApplied, applied, held, msgs>>
        /\ UNCHANGED <<blocked, panicked, sendTo>>
        /\ matchIndex' = [matchIndex EXCEPT ![i] = [j \in Server |-> 0]]
        /\ electionState' = [electionState EXCEPT ![i] = Leader]
        /\ mainPC' = [mainPC EXCEPT ![i] = "check"]
        /\ reigns' = reigns \cup {new}
    BY Zenon DEF BecomeLeader, logVars, syncVars
  <1>2. new.server = i
    BY Zenon
  <1>3. \A r \in reigns' : r.server = i
    BY Zenon, <1>1, <1>2 DEF OneLeader
  <1>4. \A j : Led(j)' <=> j = i
    BY Zenon, <1>1, <1>2, <1>3 DEF Led
  <1>5. /\ \A j : Led(j) => j = i
        /\ reigns # {} => Led(i)
    BY Zenon, <1>1, <1>3 DEF Led
  <1>6. \A j \in Server : /\ log[j] \in Seq(Entry) /\ Len(log[j]) \in Nat
                          /\ applied[j] \in Seq(Entry)
                          /\ commitIndex[j] \in Nat
    BY Zenon, <1>0, LogType
  <1>7. OfficeInv'
    BY Zenon, <1>0, <1>1, <1>4, <1>5
    DEF ReplicationInv, OfficeInv, TypeOK, ServerTypeOK, MainTypeOK
  <1>8. EmptyInv' /\ BlockedInv' /\ AppliedInOrder'
    BY Zenon, <1>1 DEF EmptyInv, ReplicationInv, BlockedInv, AppliedInOrder
  <1>9. /\ \A l, j, n : Stored(l, j, n)' = Stored(l, j, n)
        /\ Requests' = Requests /\ Replies' = Replies
    BY Zenon, <1>1 DEF Stored, Requests, Replies
  <1>10. RequestInv'
    <2>1. \A m : Genuine(m) => Genuine(m)'
      BY Zenon, <1>1, <1>4, <1>5 DEF Genuine
    <2> QED  BY Zenon, <1>9, <2>1 DEF ReplicationInv, RequestInv
  <1>11. ReplyInv'
    <2>1. \A m : Truthful(m) => Truthful(m)'
      BY Zenon, <1>4, <1>5, <1>9 DEF Truthful
    <2> QED  BY Zenon, <1>9, <2>1 DEF ReplicationInv, ReplyInv
  <1>12. /\ Stored(i, i, Len(log[i])) /\ commitIndex[i] <= Len(log[i])
         /\ \A j \in Server : /\ IsPrefixOf(applied[j], log[i])
                              /\ IsPrefixOf(log[j], log[i])
                              /\ commitIndex[j] <= commitIndex[i]
         /\ \A k \in 1 .. commitIndex[i] : Replicated(i, k)
    <2>1. CASE reigns = {}
      <3>1. \A j \in Server : /\ log[j] = <<>> /\ applied[j] = <<>>
                              /\ commitIndex[j] = 0
        BY Zenon, <2>1 DEF ReplicationInv, EmptyInv
      <3>2. \A j \in Server : Len(log[j]) = 0 /\ Len(applied[j]) = 0
        BY <3>1
      <3>3. \A j \in Server : /\ IsPrefixOf(applied[j], log[i])
                              /\ IsPrefixOf(log[j], log[i])
        BY <1>6, <3>2, PrefixElements
      <3> QED  BY <3>1, <3>2, <3>3 DEF Stored
    <2>2. CASE reigns # {}
      <3>1. Led(i) /\ \E r \in reigns : r.server = i
        BY Zenon, <1>5, <2>2 DEF Led
      <3> QED  BY Zenon, <3>1 DEF ReplicationInv, MatchInv, AppliedInv,
               FollowerPrefix, CommitBehindLeader, CommitInv
    <2> QED  BY Zenon, <2>1, <2>2
  <1>13. MatchInv'
    <2>1. \A j \in Server : matchIndex'[i][j] = 0
      BY Zenon, <1>0, <1>1 DEF TypeOK, LeaderTypeOK
    <2>2. \A j \in Server : Stored(i, j, 0)'
      BY <1>1, <1>6 DEF Stored
    <2>3. \A j \in Server \ {i} : Stored(i, j, matchIndex[i][j])'
      BY Zenon, <2>1, <2>2 DEF Stored
    <2>4. Stored(i, i, Len(log[i]))'
      BY Zenon, <1>1, <1>12 DEF Stored
    <2> QED  BY Zenon, <1>1, <1>4, <1>12, <2>3, <2>4 DEF MatchInv
  <1>14. AppliedInv'
    BY Zenon, <1>1, <1>4, <1>12 DEF AppliedInv
  <1>15. FollowerPrefix' /\ CommitBehindLeader'
    BY Zenon, <1>1, <1>3, <1>12 DEF FollowerPrefix, CommitBehindLeader
  <1>16. CommitInv'
    <2>1. \A l, x : Replicated(l, x)' = Replicated(l, x)
      BY Zenon, <1>1 DEF Replicated
    <2> QED  BY Zenon, <1>1, <1>4, <1>12, <2>1 DEF CommitInv
  <1> QED  BY Zenon, <1>7, <1>8, <1>10, <1>11, <1>13, <1>14, <1>15, <1>16
           DEF ReplicationInv

-----------------------------------------------------------------------------

LEMMA ReplicationInit == Init => ReplicationInv
  <1> SUFFICES ASSUME Init PROVE ReplicationInv
    BY Zenon
  <1>1. TypeOK
    BY Zenon, TypeInit
  <1>2. /\ reigns = {} /\ msgs = {}
        /\ \A i \in Server : /\ log[i] = <<>> /\ applied[i] = <<>>
                             /\ commitIndex[i] = 0 /\ lastApplied[i] = 0
                             /\ electionState[i] = Follower
                             /\ mainPC[i] = "select" /\ blocked[i] = {}
    BY Zenon DEF Init
  <1>3. ~\E i : Led(i)
    BY Zenon, <1>2 DEF Led
  <1>4. Requests = {} /\ Replies = {}
    BY Zenon, <1>2 DEF Requests, Replies
  <1>5. AppliedInOrder
    BY <1>2 DEF AppliedInOrder
  <1>6. OfficeInv /\ EmptyInv /\ BlockedInv
    BY Zenon, <1>2 DEF OfficeInv, EmptyInv, BlockedInv, Follower, Leader
  <1>7. RequestInv /\ ReplyInv /\ MatchInv /\ AppliedInv /\ CommitInv
    BY Zenon, <1>3, <1>4
    DEF RequestInv, ReplyInv, MatchInv, AppliedInv, CommitInv
  <1>8. FollowerPrefix /\ CommitBehindLeader
    BY Zenon, <1>2 DEF FollowerPrefix, CommitBehindLeader
  <1> QED  BY Zenon, <1>1, <1>5, <1>6, <1>7, <1>8 DEF ReplicationInv

LEMMA ReplicationStep ==
    ReplicationInv /\ OneLeader /\ OneLeader' /\ [Next]_vars => ReplicationInv'
  <1> SUFFICES ASSUME ReplicationInv, OneLeader, OneLeader', [Next]_vars
               PROVE  ReplicationInv'
    BY Zenon
  <1>1. TypeOK'
    BY Zenon, TypeStep DEF ReplicationInv
  <1>2. CASE UNCHANGED vars
    <2>1. Kept /\ NoNewLeader /\ UNCHANGED <<msgs, blocked>>
      BY Zenon, <1>2
      DEF vars, Kept, NoNewLeader, serverVars, logVars, leaderVars, mainVars,
          syncVars, histVars
    <2> QED  BY Zenon, <1>1, <2>1, KeptStep
             DEF Requests, Replies, ReplicationInv, BlockedInv
  <1>3. CASE Next
    BY Zenon, <1>1, <1>3, KeptMain, KeptElect, KeptHandler, ReceiveStep,
       ReplyProcessed, ApplyStep, PutStep, OfficeStep DEF Next
  <1> QED  BY Zenon, <1>2, <1>3

LEMMA AppliedPrefixes ==
    ReplicationInv /\ OneLeader => AppliedAgree
  <1> SUFFICES ASSUME ReplicationInv, OneLeader, NEW i \in Server,
                      NEW j \in Server
               PROVE  \/ IsPrefixOf(applied[i], applied[j])
                      \/ IsPrefixOf(applied[j], applied[i])
    BY Zenon DEF AppliedAgree
  <1>1. \A k \in Server : /\ log[k] \in Seq(Entry)
                          /\ applied[k] \in Seq(Entry) /\ Len(applied[k]) \in Nat
    BY Zenon, LogType DEF ReplicationInv
  <1>2. CASE reigns = {}
    <2>1. applied[i] = <<>> /\ applied[j] = <<>>
      BY Zenon, <1>2 DEF ReplicationInv, EmptyInv
    <2>2. Len(applied[i]) = 0 /\ Len(applied[j]) = 0
      BY Zenon, <2>1
    <2> QED  BY <1>1, <2>2, PrefixElements
  <1>3. CASE reigns # {}
    <2>1. PICK l \in Server : Led(l)
      BY Zenon, <1>3, ReignServer DEF ReplicationInv
    <2>2. \A k \in Server : \A x \in 1 .. Len(applied[k]) :
            applied[k][x] = log[l][x]
      <3> SUFFICES ASSUME NEW k \in Server
                   PROVE  \A x \in 1 .. Len(applied[k]) :
                            applied[k][x] = log[l][x]
        OBVIOUS
      <3>1. IsPrefixOf(applied[k], log[l])
        BY Zenon, <2>1 DEF ReplicationInv, AppliedInv
      <3> QED  BY Zenon, <1>1, <2>1, <3>1, PrefixAgrees
    <2>3. ASSUME NEW p \in Server, NEW q \in Server,
                 Len(applied[p]) <= Len(applied[q])
          PROVE  IsPrefixOf(applied[p], applied[q])
      <3>1. \A x \in 1 .. Len(applied[p]) : applied[p][x] = applied[q][x]
        BY <1>1, <2>2, <2>3
      <3> QED  BY Zenon, <1>1, <2>3, <3>1, PrefixElements
    <2> QED  BY <1>1, <2>3
  <1> QED  BY Zenon, <1>2, <1>3

LEMMA ReplicationCorrect == Spec /\ []OneLeader => []ReplicationInv
  BY ReplicationInit, ReplicationStep, PTL DEF Spec

\* As long as one peer only has ever led, in however many terms, and whatever
\* requests and replies are lost, late or reordered, every log is a prefix of
\* that peer's log (AppendEntries, which cuts off what follows the request's
\* entries).
THEOREM LogsFollowLeader == Spec /\ []OneLeader => []FollowerPrefix
  <1>1. ReplicationInv => FollowerPrefix
    BY Zenon DEF ReplicationInv
  <1> QED  BY <1>1, ReplicationCorrect, PTL

\* Of any two peers one has then sent on applyCh a prefix of what the other has
\* (applyCommit).
THEOREM AppliedPrefixesAgree == Spec /\ []OneLeader => []AppliedAgree
  BY AppliedPrefixes, ReplicationCorrect, PTL

\* Each peer that has not panicked has applied each entry once, in order, and
\* none beyond its commitIndex, however many applyCommit goroutines it runs.
THEOREM AppliedOnce == Spec /\ []OneLeader => []AppliedInOrder
  <1>1. ReplicationInv => AppliedInOrder
    BY Zenon DEF ReplicationInv
  <1> QED  BY <1>1, ReplicationCorrect, PTL

\* No peer's commitIndex passes the leader's (AppendEntries takes the smaller
\* of LeaderCommit and the end of its log).
THEOREM FollowersCommitBehind == Spec /\ []OneLeader => []CommitBehindLeader
  <1>1. ReplicationInv => CommitBehindLeader
    BY Zenon DEF ReplicationInv
  <1> QED  BY <1>1, ReplicationCorrect, PTL

-----------------------------------------------------------------------------
\* If no election is started above term 1, one peer only ever leads (startElect
\* and RequestVote): the replication theorems then need no hypothesis.
THEOREM OneTermOneLeader ==
    ASSUME MaxTerm = 1
    PROVE  Spec => []OneLeader
  <1>1. ElectionInv /\ ElectionSafetyUnlessStale /\ TermInv => OneLeader
    <2> SUFFICES ASSUME ElectionInv, ElectionSafetyUnlessStale, TermInv,
                        NEW r \in reigns, NEW s \in reigns
                 PROVE  r.server = s.server
      BY Zenon DEF OneLeader
    <2>1. \A q \in reigns : q.elected = 1
      <3> SUFFICES ASSUME NEW q \in reigns PROVE q.elected = 1
        BY Zenon
      <3>1. Elected(q.server, q.elected) /\ q.server \in Server
        BY Zenon DEF ElectionInv, ReignInv, TypeOK, HistTypeOK
      <3>2. PICK e \in Eid : /\ Running(q.server, e)
                             /\ electTerm[q.server][e] = q.elected
        BY Zenon, <3>1 DEF Elected
      <3>3. q.elected \in 1 .. 1
        BY Zenon, <3>1, <3>2 DEF TermInv
      <3> QED  BY <3>3
    <2>2. ~staleReply
      BY DEF TermInv
    <2> QED  BY Zenon, <2>1, <2>2 DEF ElectionSafetyUnlessStale
  <1>2. Spec => []ElectionInv
    BY ElectionInit, ElectionStep, PTL DEF Spec
  <1>3. ElectionInv => TypeOK
    BY Zenon DEF ElectionInv
  <1>4. Spec => []TermInv
    BY <1>2, <1>3, TermInit, TermStep, PTL DEF Spec
  <1> QED  BY <1>1, <1>2, <1>4, OneWinnerPerTerm, PTL

\* Whatever the leader has committed, a majority of the peers has had in its
\* log at that place (processAppendEntriesReply, which trusts late replies).
THEOREM CommittedByMajority == Spec /\ []OneLeader => []CommitMajority
  <1>1. ReplicationInv => CommitMajority
    <2> SUFFICES ASSUME ReplicationInv, NEW r \in reigns,
                        NEW k \in 1 .. commitIndex[r.server]
                 PROVE  2 * Cardinality({j \in Server :
                              <<k, log[r.server][k]>> \in held[j]}) > N
      BY Zenon DEF CommitMajority
    <2> DEFINE l == r.server
               H == {j \in Server : <<k, log[l][k]>> \in held[j]}
    <2>1. l \in Server /\ Replicated(l, k)
      BY Zenon, ReignServer DEF ReplicationInv, CommitInv
    <2>2. PICK R \in SUBSET (Server \ {l}) :
            /\ Enough(1 + Cardinality(R))
            /\ \A j \in R \cup {l} : <<k, log[l][k]>> \in held[j]
      BY <2>1 DEF Replicated
    <2>3. R \cup {l} \subseteq H /\ H \subseteq Server /\ l \notin R
      BY <2>1, <2>2
    <2>4. Cardinality(R) \in Nat /\ Cardinality(R \cup {l}) = Cardinality(R) + 1
      BY Zenon, <2>2, <2>3, PeersCardinality, FS_AddElement
    <2>5. /\ Cardinality(R \cup {l}) <= Cardinality(H)
          /\ Cardinality(H) \in Nat
      <3> HIDE DEF H, l
      <3> QED  BY <2>3, PeersCardinality
    <2> HIDE DEF H
    <2>6. 2 * Cardinality(H) > N
      BY <2>2, <2>4, <2>5, NAssumption DEF Enough
    <2> QED  BY <2>6 DEF H
  <1> QED  BY <1>1, ReplicationCorrect, PTL

\* While one term lasts, for any number of peers, commands and rounds: logs are
\* prefixes of the leader's, what is applied agrees and is applied once and in
\* order, and what is committed is held by a majority and is committed by the
\* leader first.
THEOREM ReplicationInOneTerm ==
    ASSUME MaxTerm = 1
    PROVE  Spec => []( /\ FollowerPrefix /\ AppliedAgree /\ AppliedInOrder
                       /\ CommitBehindLeader /\ CommitMajority )
  BY OneTermOneLeader, LogsFollowLeader, AppliedPrefixesAgree, AppliedOnce,
     FollowersCommitBehind, CommittedByMajority, PTL
=============================================================================
