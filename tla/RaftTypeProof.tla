--------------------------- MODULE RaftTypeProof ---------------------------
(***************************************************************************)
(* Type correctness of Raft, for any number of peers and any bounds.       *)
(***************************************************************************)
EXTENDS Raft, TLAPS

USE DEF Call, Answer, Return

-----------------------------------------------------------------------------
(* Facts about sequences.                                                  *)

LEMMA SeqLength ==
    ASSUME NEW S, NEW s \in Seq(S)
    PROVE  /\ Len(s) \in Nat /\ DOMAIN s = 1 .. Len(s)
           /\ s \in [1 .. Len(s) -> S]
           /\ \A k \in 1 .. Len(s) : s[k] \in S
  OBVIOUS

LEMMA EmptySequence ==
    ASSUME NEW S
    PROVE  /\ <<>> \in Seq(S) /\ Len(<<>>) = 0
           /\ \A s \in Seq(S) : Len(s) = 0 => s = <<>>
  OBVIOUS

LEMMA SameElements ==
    ASSUME NEW S, NEW s \in Seq(S), NEW t \in Seq(S), Len(s) = Len(t),
           \A k \in 1 .. Len(s) : s[k] = t[k]
    PROVE  s = t
  OBVIOUS

LEMMA Appended ==
    ASSUME NEW S, NEW s \in Seq(S), NEW e \in S
    PROVE  /\ Append(s, e) \in Seq(S) /\ Len(Append(s, e)) = Len(s) + 1
           /\ \A k \in 1 .. Len(s) : Append(s, e)[k] = s[k]
           /\ Append(s, e)[Len(s) + 1] = e
  OBVIOUS

LEMMA Concatenated ==
    ASSUME NEW S, NEW s \in Seq(S), NEW t \in Seq(S)
    PROVE  /\ s \o t \in Seq(S) /\ Len(s \o t) = Len(s) + Len(t)
           /\ \A k \in 1 .. Len(s) + Len(t) :
                (s \o t)[k] = IF k <= Len(s) THEN s[k] ELSE t[k - Len(s)]
  OBVIOUS

LEMMA SubSequence ==
    ASSUME NEW S, NEW s, NEW a \in Int, NEW b \in Int,
           \A k \in a .. b : s[k] \in S
    PROVE  /\ SubSeq(s, a, b) \in Seq(S)
           /\ Len(SubSeq(s, a, b)) = IF a <= b THEN b - a + 1 ELSE 0
           /\ \A k \in 1 .. b - a + 1 : SubSeq(s, a, b)[k] = s[a + k - 1]
  OBVIOUS

-----------------------------------------------------------------------------
(* Facts about the operators of the model.                                 *)

LEMMA SubSeqType ==
    ASSUME NEW S, NEW s \in Seq(S), NEW a \in Nat \ {0}, NEW b \in Int,
           b <= Len(s)
    PROVE  SubSeq(s, a, b) \in Seq(S)
  <1>1. \A k \in a .. b : s[k] \in S
    BY SeqLength
  <1> QED  BY <1>1, SubSequence

LEMMA FunIsSeq ==
    ASSUME NEW S, NEW n \in Nat, NEW f \in [1 .. n -> S]
    PROVE  f \in Seq(S)
  BY SeqLength

LEMMA TermAtType ==
    ASSUME LogTypeOK, NEW i \in Server, NEW k \in Nat, k <= Len(log[i])
    PROVE  TermAt(i, k) \in Nat
  <1>1. log[i] \in Seq(Entry)
    BY Zenon DEF LogTypeOK
  <1>2. k # 0 => log[i][k] \in Entry
    BY <1>1, SeqLength
  <1> QED  BY Zenon, <1>2 DEF TermAt, Entry

LEMMA LogLength ==
    ASSUME LogTypeOK, NEW i \in Server
    PROVE  /\ log[i] \in Seq(Entry)
           /\ Len(log[i]) \in Nat
           /\ GoLen(i) \in Nat \ {0}
           /\ LastTerm(i) \in Nat
  <1>1. log[i] \in Seq(Entry) /\ Len(log[i]) \in Nat
    BY Zenon, SeqLength DEF LogTypeOK
  <1>2. LastTerm(i) \in Nat
    BY <1>1, TermAtType DEF LastTerm
  <1> QED  BY <1>1, <1>2 DEF GoLen

\* The loop of AppendEntries stops inside both the request and the log.
LEMMA MergedLogType ==
    ASSUME LogTypeOK, NEW i \in Server, NEW m \in AppendEntriesArgs,
           NEW k \in 0 .. Len(m.entries), PrevMatches(i, m), StopsAt(i, m, k)
    PROVE  MergedLog(i, m, k) \in Seq(Entry)
  <1>1. m.entries \in Seq(Entry) /\ m.prevLogIndex \in Nat
    BY Zenon DEF AppendEntriesArgs
  <1>2. Len(m.entries) \in Nat
    BY Zenon, <1>1, SeqLength
  <1>3. log[i] \in Seq(Entry) /\ Len(log[i]) \in Nat
    BY Zenon, LogLength
  <1>4. k \in Nat /\ k <= Len(m.entries) /\ m.prevLogIndex + k <= Len(log[i])
    <2>1. CASE k = 0
      BY <1>1, <1>2, <1>3, <2>1 DEF PrevMatches, GoLen
    <2>2. CASE k # 0
      BY <1>2, <2>2 DEF StopsAt, Agrees
    <2> QED  BY Zenon, <2>1, <2>2
  <1>5. SubSeq(log[i], 1, m.prevLogIndex + k) \in Seq(Entry)
    BY <1>1, <1>3, <1>4, SubSeqType
  <1>6. SubSeq(m.entries, k + 1, Len(m.entries)) \in Seq(Entry)
    BY <1>1, <1>2, <1>4, SubSeqType
  <1> QED  BY Zenon, <1>5, <1>6, Concatenated DEF MergedLog

AllMessages ==
    RequestVoteArgs \cup RequestVoteReply
        \cup AppendEntriesArgs \cup AppendEntriesReply

LEMMA MessageByType ==
    ASSUME NEW m \in AllMessages
    PROVE  /\ m.type = "RequestVote" => m \in RequestVoteArgs
           /\ m.type = "RequestVoteReply" => m \in RequestVoteReply
           /\ m.type = "AppendEntries" => m \in AppendEntriesArgs
           /\ m.type = "AppendEntriesReply" => m \in AppendEntriesReply
  BY Zenon
  DEF AllMessages, RequestVoteArgs, RequestVoteReply, AppendEntriesArgs,
         AppendEntriesReply

\* An overwritten shared array leaves every call in flight well formed.
LEMMA AfterWriteType ==
    ASSUME MsgsTypeOK, NEW i \in Server, NEW newLog \in Seq(Entry), NEW seen
    PROVE  AfterWrite(i, newLog, seen) \subseteq AllMessages
  <1>1. ASSUME NEW m \in Racy(i, newLog), NEW K
        PROVE  Overwritten(m, newLog, K) \in AppendEntriesArgs
    <2>1. m \in AppendEntriesArgs
      BY Zenon, <1>1, MessageByType DEF Racy, MsgsTypeOK, AllMessages
    <2>2. m.entries \in Seq(Entry) /\ m.prevLogIndex \in Nat
      BY Zenon, <2>1 DEF AppendEntriesArgs
    <2>3. /\ Len(m.entries) \in Nat
          /\ DOMAIN m.entries = 1 .. Len(m.entries)
          /\ m.entries \in [1 .. Len(m.entries) -> Entry]
          /\ Len(newLog) \in Nat
          /\ newLog \in [1 .. Len(newLog) -> Entry]
      BY Zenon, <2>2, SeqLength
    <2> DEFINE f == [k \in DOMAIN m.entries |->
                       IF k \in K /\ SharedEntry(m, newLog, k)
                       THEN newLog[m.prevLogIndex + k] ELSE m.entries[k]]
    <2>4. \A k \in 1 .. Len(m.entries) : f[k] \in Entry
      BY <2>2, <2>3 DEF SharedEntry
    <2>5. f \in [1 .. Len(m.entries) -> Entry]
      BY Zenon, <2>3, <2>4
    <2>6. f \in Seq(Entry)
      BY Zenon, <2>3, <2>5, FunIsSeq
    <2>7. Overwritten(m, newLog, K) = [m EXCEPT !.entries = f]
      BY Zenon DEF Overwritten
    <2> HIDE DEF f
    <2> QED  BY Zenon, <2>1, <2>6, <2>7 DEF AppendEntriesArgs
  <1> QED  BY <1>1 DEF AfterWrite, MsgsTypeOK, AllMessages

-----------------------------------------------------------------------------
(* The invariant, action by action.                                        *)

LEMMA TypeFrame ==
    ASSUME TypeOK
    PROVE  /\ UNCHANGED serverVars => ServerTypeOK'
           /\ UNCHANGED logVars => LogTypeOK'
           /\ UNCHANGED leaderVars => LeaderTypeOK'
           /\ UNCHANGED mainVars => MainTypeOK'
           /\ UNCHANGED electVars => ElectTypeOK'
           /\ UNCHANGED syncVars => SyncTypeOK'
           /\ UNCHANGED msgs => MsgsTypeOK'
           /\ UNCHANGED panicked => (panicked \subseteq Server)'
           /\ UNCHANGED histVars => HistTypeOK'
  <1>1. UNCHANGED serverVars => ServerTypeOK'
    BY Zenon DEF TypeOK, serverVars, ServerTypeOK
  <1>2. UNCHANGED logVars => LogTypeOK'
    BY Zenon DEF TypeOK, logVars, LogTypeOK
  <1>3. UNCHANGED leaderVars => LeaderTypeOK'
    BY Zenon DEF TypeOK, leaderVars, LeaderTypeOK
  <1>4. UNCHANGED mainVars => MainTypeOK'
    BY Zenon DEF TypeOK, mainVars, MainTypeOK
  <1>5. UNCHANGED electVars => ElectTypeOK'
    BY Zenon DEF TypeOK, electVars, ElectTypeOK
  <1>6. UNCHANGED syncVars => SyncTypeOK'
    BY Zenon DEF TypeOK, syncVars, SyncTypeOK
  <1>7. UNCHANGED msgs => MsgsTypeOK'
    BY Zenon DEF TypeOK, MsgsTypeOK
  <1>8. UNCHANGED panicked => (panicked \subseteq Server)'
    BY Zenon DEF TypeOK
  <1>9. UNCHANGED histVars => HistTypeOK'
    BY Zenon DEF TypeOK, histVars, HistTypeOK
  <1> QED  BY Zenon, <1>1, <1>2, <1>3, <1>4, <1>5, <1>6, <1>7, <1>8, <1>9

LEMMA TypeInit == Init => TypeOK
  <1> SUFFICES ASSUME Init PROVE TypeOK
    BY Zenon
  <1> USE NAssumption DEF Init, Server
  <1>1. ServerTypeOK  BY Zenon DEF ServerTypeOK
  <1>2. LogTypeOK  BY Zenon, EmptySequence DEF LogTypeOK
  <1>3. LeaderTypeOK  BY DEF LeaderTypeOK
  <1>4. MainTypeOK  BY DEF MainTypeOK
  <1>5. ElectTypeOK  BY Zenon DEF ElectTypeOK
  <1>6. SyncTypeOK  BY DEF SyncTypeOK
  <1>7. MsgsTypeOK  BY Zenon DEF MsgsTypeOK
  <1>8. HistTypeOK  BY Zenon DEF HistTypeOK
  <1>9. panicked \subseteq Server  BY Zenon
  <1> HIDE DEF Init, Server
  <1> QED  BY Zenon, <1>1, <1>2, <1>3, <1>4, <1>5, <1>6, <1>7, <1>8, <1>9
           DEF TypeOK

\* mainRoutine and startAppendEntries
LEMMA TypeMain ==
    ASSUME TypeOK, NEW i \in Server,
           \/ MainHeartbeat(i) \/ MainHeartbeatLock(i) \/ BecomeLeader(i)
           \/ CheckLeader(i) \/ SendAppend(i)
    PROVE  TypeOK'
  <1>1. CASE MainHeartbeat(i)
    <2>1. MainTypeOK'
      BY Zenon, <1>1 DEF TypeOK, MainTypeOK, MainHeartbeat
    <2>2. SyncTypeOK'
      BY <1>1, NAssumption DEF TypeOK, SyncTypeOK, MainHeartbeat
    <2> QED  BY Zenon, <1>1, <2>1, <2>2, TypeFrame DEF TypeOK, MainHeartbeat
  <1>2. CASE MainHeartbeatLock(i)
    <2>1. MainTypeOK'
      BY Zenon, <1>2 DEF TypeOK, MainTypeOK, MainHeartbeatLock
    <2>2. SyncTypeOK'
      BY Zenon, <1>2 DEF TypeOK, SyncTypeOK, MainHeartbeatLock
    <2> QED  BY Zenon, <1>2, <2>1, <2>2, TypeFrame
             DEF TypeOK, MainHeartbeatLock
  <1>3. CASE BecomeLeader(i)
    <2>1. ServerTypeOK'
      BY Zenon, <1>3 DEF TypeOK, ServerTypeOK, BecomeLeader
    <2>2. LeaderTypeOK'
      <3>1. GoLen(i) \in Nat \ {0}
        BY Zenon, LogLength DEF TypeOK
      <3> QED  BY Zenon, <1>3, <3>1 DEF TypeOK, LeaderTypeOK, BecomeLeader
    <2>3. MainTypeOK'
      BY Zenon, <1>3 DEF TypeOK, MainTypeOK, BecomeLeader
    <2>4. HistTypeOK'
      BY <1>3 DEF TypeOK, HistTypeOK, ServerTypeOK, BecomeLeader
    <2> QED  BY Zenon, <1>3, <2>1, <2>2, <2>3, <2>4, TypeFrame
             DEF TypeOK, BecomeLeader
  <1>4. CASE CheckLeader(i)
    <2>1. MainTypeOK'
      <3>1. SkipSelf(i, 0) < N => SkipSelf(i, 0) \in Server
        BY NAssumption DEF SkipSelf, Server
      <3> QED  BY <1>4, <3>1 DEF TypeOK, MainTypeOK, CheckLeader
    <2> QED  BY Zenon, <1>4, <2>1, TypeFrame DEF TypeOK, CheckLeader
  <1>5. CASE SendAppend(i)
    <2> DEFINE j == sendTo[i]
    <2>1. j \in Server /\ nextIndex[i][j] \in Nat \ {0}
      BY DEF TypeOK, MainTypeOK, LeaderTypeOK
    <2>2. MainTypeOK'
      <3> DEFINE next == SkipSelf(i, j + 1)
      <3>1. (IF next < N THEN next ELSE 0) \in Server
        BY <2>1, NAssumption DEF SkipSelf, Server
      <3>2. /\ sendTo' = [sendTo EXCEPT ![i] = IF next < N THEN next ELSE 0]
            /\ mainPC' = [mainPC EXCEPT ![i] = IF next < N THEN "send" ELSE "check"]
            /\ UNCHANGED rounds
        BY Zenon, <1>5 DEF SendAppend
      <3> HIDE DEF next
      <3> QED  BY Zenon, <3>1, <3>2 DEF TypeOK, MainTypeOK
    <2>3. (panicked \subseteq Server)'
      BY Zenon, <1>5 DEF TypeOK, SendAppend
    <2>4. ASSUME ~(nextIndex[i][j] > GoLen(i))
          PROVE  Request(i, j) \in AppendEntriesArgs
      <3> DEFINE prev == nextIndex[i][j] - 1
                 prevTerm == TermAt(i, prev)
                 entries == SubSeq(log[i], prev + 1, Len(log[i]))
                 round == rounds[i]
                 term == currentTerm[i]
                 commit == commitIndex[i]
      <3>1. prev \in Nat /\ prev <= Len(log[i])
        BY <2>1, <2>4, LogLength DEF TypeOK, GoLen
      <3>2. prevTerm \in Nat
        BY Zenon, <3>1, TermAtType DEF TypeOK
      <3>3. entries \in Seq(Entry)
        BY <3>1, LogLength, SubSeqType DEF TypeOK
      <3>4. term \in Nat /\ commit \in Nat /\ round \in Nat
        BY Zenon DEF TypeOK, ServerTypeOK, LogTypeOK, MainTypeOK
      <3>5. Request(i, j) =
              [type |-> "AppendEntries", from |-> i, round |-> round, to |-> j,
               term |-> term, prevLogIndex |-> prev, prevLogTerm |-> prevTerm,
               entries |-> entries, leaderCommit |-> commit]
        BY Zenon DEF Request
      <3> HIDE DEF prev, prevTerm, entries, round, term, commit, j
      <3> QED  BY <2>1, <3>1, <3>2, <3>3, <3>4, <3>5 DEF AppendEntriesArgs
    <2>5. MsgsTypeOK'
      BY Zenon, <1>5, <2>4 DEF TypeOK, MsgsTypeOK, SendAppend
    <2> QED  BY Zenon, <1>5, <2>2, <2>3, <2>5, TypeFrame DEF TypeOK, SendAppend
  <1> QED  BY Zenon, <1>1, <1>2, <1>3, <1>4, <1>5

\* startElect
LEMMA TypeElect ==
    ASSUME TypeOK, NEW i \in Server, NEW e \in Eid,
           \/ MainTick(i, e) \/ StartElect(i, e) \/ ElectHigher(i, e)
           \/ ElectLock(i, e) \/ Announce(i, e) \/ LostElect(i, e)
    PROVE  TypeOK'
  <1>1. CASE MainTick(i, e)
    <2>1. ElectTypeOK'
      BY Zenon, <1>1 DEF TypeOK, ElectTypeOK, MainTick
    <2> QED  BY Zenon, <1>1, <2>1, TypeFrame DEF TypeOK, MainTick
  <1>2. CASE StartElect(i, e)
    <2>1. currentTerm[i] \in Nat
      BY Zenon DEF TypeOK, ServerTypeOK
    <2>2. ServerTypeOK'
      BY <1>2, <2>1 DEF TypeOK, ServerTypeOK, StartElect
    <2>3. ElectTypeOK'
      <3>1. /\ electPC \in [Server -> [Eid -> {"none", "starting", "wait", "higher",
                                               "won", "announce", "done"}]]
            /\ electPC' = [electPC EXCEPT ![i][e] = "wait"]
        BY Zenon, <1>2 DEF TypeOK, ElectTypeOK, StartElect
      <3>2. /\ electTerm \in [Server -> [Eid -> Nat]]
            /\ electTerm' = [electTerm EXCEPT ![i][e] = currentTerm[i] + 1]
            /\ currentTerm[i] + 1 \in Nat
        <4>1. electTerm' = [electTerm EXCEPT ![i][e] = currentTerm[i] + 1]
          BY Zenon, <1>2 DEF StartElect
        <4> QED  BY <2>1, <4>1 DEF TypeOK, ElectTypeOK
      <3>3. /\ totalVotes \in [Server -> [Eid -> Nat]]
            /\ totalVotes' = [totalVotes EXCEPT ![i][e] = 1]
            /\ UNCHANGED replyTerm /\ replyTerm \in [Server -> [Eid -> Nat]]
        BY Zenon, <1>2 DEF TypeOK, ElectTypeOK, StartElect
      <3>4. electPC' \in [Server -> [Eid -> {"none", "starting", "wait", "higher",
                                             "won", "announce", "done"}]]
        BY Zenon, <3>1
      <3>5. electTerm' \in [Server -> [Eid -> Nat]]
        BY Zenon, <3>2
      <3>6. totalVotes' \in [Server -> [Eid -> Nat]]
        BY Zenon, <3>3
      <3> QED  BY Zenon, <3>3, <3>4, <3>5, <3>6 DEF ElectTypeOK
    <2>4. MsgsTypeOK'
      <3>1. GoLen(i) \in Nat /\ LastTerm(i) \in Nat
        BY Zenon, LogLength DEF TypeOK
      <3>2. ASSUME NEW j \in Server
            PROVE  [type |-> "RequestVote", from |-> i, eid |-> e, to |-> j,
                    term |-> currentTerm[i] + 1, lastLogIndex |-> GoLen(i),
                    lastLogTerm |-> LastTerm(i)] \in RequestVoteArgs
        BY <2>1, <3>1 DEF RequestVoteArgs
      <3> QED  BY Zenon, <1>2, <3>2 DEF TypeOK, MsgsTypeOK, StartElect
    <2> QED  BY Zenon, <1>2, <2>2, <2>3, <2>4, TypeFrame DEF TypeOK, StartElect
  <1>3. CASE ElectHigher(i, e)
    <2>1. ServerTypeOK'
      BY Zenon, <1>3
      DEF TypeOK, ServerTypeOK, ElectTypeOK, ElectHigher, StepDown
    <2>2. ElectTypeOK'
      BY Zenon, <1>3 DEF TypeOK, ElectTypeOK, ElectHigher
    <2>3. HistTypeOK'
      BY Zenon, <1>3 DEF TypeOK, HistTypeOK, ElectHigher
    <2> QED  BY Zenon, <1>3, <2>1, <2>2, <2>3, TypeFrame
             DEF TypeOK, ElectHigher
  <1>4. CASE ElectLock(i, e)
    <2>1. ElectTypeOK'
      BY Zenon, <1>4 DEF TypeOK, ElectTypeOK, ElectLock
    <2>2. SyncTypeOK'
      BY Zenon, <1>4 DEF TypeOK, SyncTypeOK, ElectLock
    <2> QED  BY Zenon, <1>4, <2>1, <2>2, TypeFrame DEF TypeOK, ElectLock
  <1>5. CASE Announce(i, e)
    <2>1. ElectTypeOK'
      BY Zenon, <1>5 DEF TypeOK, ElectTypeOK, Announce
    <2>2. SyncTypeOK'
      BY Zenon, <1>5 DEF TypeOK, SyncTypeOK, Announce
    <2>3. MainTypeOK'
      BY Zenon, <1>5 DEF TypeOK, MainTypeOK, Announce
    <2>4. HistTypeOK'
      BY <1>5 DEF TypeOK, HistTypeOK, ElectTypeOK, Announce
    <2> QED  BY Zenon, <1>5, <2>1, <2>2, <2>3, <2>4, TypeFrame
             DEF TypeOK, Announce
  <1>6. CASE LostElect(i, e)
    <2>1. ServerTypeOK'
      BY Zenon, <1>6 DEF TypeOK, ServerTypeOK, LostElect, StepDown
    <2>2. ElectTypeOK'
      BY Zenon, <1>6 DEF TypeOK, ElectTypeOK, LostElect
    <2>3. SyncTypeOK'
      BY Zenon, <1>6 DEF TypeOK, SyncTypeOK, LostElect
    <2>4. MainTypeOK'
      BY Zenon, <1>6 DEF TypeOK, MainTypeOK, LostElect
    <2> QED  BY Zenon, <1>6, <2>1, <2>2, <2>3, <2>4, TypeFrame
             DEF TypeOK, LostElect
  <1> QED  BY Zenon, <1>1, <1>2, <1>3, <1>4, <1>5, <1>6

\* RequestVote and its replies
LEMMA TypeVote ==
    ASSUME TypeOK, NEW i \in Server, NEW m \in msgs,
           RequestVote(i, m) \/ \E e \in Eid : ElectReply(i, e, m)
    PROVE  TypeOK'
  <1>1. CASE RequestVote(i, m)
    <2>1. m \in RequestVoteArgs
      BY Zenon, <1>1, MessageByType
      DEF TypeOK, MsgsTypeOK, RequestVote, AllMessages
    <2>2. /\ m.from \in Server /\ m.eid \in Eid /\ m.term \in Nat
          /\ currentTerm[i] \in Nat /\ votedFor[i] \in Server \cup {NoVote}
      BY Zenon, <2>1 DEF TypeOK, ServerTypeOK, RequestVoteArgs
    <2>3. Grants(i, m) \in BOOLEAN
      BY Zenon DEF Grants
    <2>4. VoteReplyTerm(i, m) \in Nat
      BY Zenon, <2>2, <2>3 DEF VoteReplyTerm
    <2>5. VotedForNow(i, m) \in Server \cup {NoVote}
      BY Zenon, <2>2 DEF VotedForNow
    <2>6. ServerTypeOK'
      BY Zenon, <1>1, <2>2, <2>3, <2>5 DEF TypeOK, ServerTypeOK, RequestVote
    <2>7. HistTypeOK'
      BY <1>1, <2>2, <2>3 DEF TypeOK, HistTypeOK, RequestVote
    <2>8. MsgsTypeOK'
      <3>1. [type |-> "RequestVoteReply", from |-> m.from, eid |-> m.eid,
             to |-> i, term |-> VoteReplyTerm(i, m),
             voteGranted |-> Grants(i, m)] \in RequestVoteReply
        BY Zenon, <2>2, <2>3, <2>4 DEF RequestVoteReply
      <3> QED  BY Zenon, <1>1, <3>1 DEF TypeOK, MsgsTypeOK, RequestVote
    <2> QED  BY Zenon, <1>1, <2>6, <2>7, <2>8, TypeFrame
             DEF TypeOK, RequestVote
  <1>2. ASSUME NEW e \in Eid, ElectReply(i, e, m)
        PROVE  TypeOK'
    <2>1. m \in RequestVoteReply
      BY Zenon, <1>2, MessageByType
      DEF TypeOK, MsgsTypeOK, ElectReply, AllMessages
    <2>2. m.term \in Nat
      BY Zenon, <2>1 DEF RequestVoteReply
    <2>3. MsgsTypeOK'
      BY Zenon, <1>2 DEF TypeOK, MsgsTypeOK, ElectReply
    <2>4. ElectTypeOK'
      <3> DEFINE PC == {"none", "starting", "wait", "higher", "won", "announce",
                        "done"}
      <3>1. totalVotes' \in [Server -> [Eid -> Nat]]
        <4>1. \/ totalVotes' = [totalVotes EXCEPT ![i][e] = @ + 1]
              \/ UNCHANGED totalVotes
          BY Zenon, <1>2 DEF ElectReply
        <4>2. totalVotes \in [Server -> [Eid -> Nat]]
          BY Zenon DEF TypeOK, ElectTypeOK
        <4> QED  BY <4>1, <4>2
      <3>2. replyTerm' \in [Server -> [Eid -> Nat]]
        <4>1. \/ replyTerm' = [replyTerm EXCEPT ![i][e] = m.term]
              \/ UNCHANGED replyTerm
          BY Zenon, <1>2 DEF ElectReply
        <4>2. replyTerm \in [Server -> [Eid -> Nat]]
          BY Zenon DEF TypeOK, ElectTypeOK
        <4> QED  BY <2>2, <4>1, <4>2
      <3>3. PICK pc \in PC : electPC' = [electPC EXCEPT ![i][e] = pc]
                              \/ UNCHANGED electPC
        <4>1. CASE electPC' = [electPC EXCEPT ![i][e] = "higher"]
          BY Zenon, <4>1
        <4>2. CASE UNCHANGED electPC
          BY Zenon, <4>2
        <4>3. CASE electPC' = [electPC EXCEPT ![i][e] = IF Wins(totalVotes[i][e] + 1)
                                                          THEN "won" ELSE "wait"]
          BY Zenon, <4>3
        <4> QED  BY Zenon, <1>2, <4>1, <4>2, <4>3 DEF ElectReply
      <3>4. electPC' \in [Server -> [Eid -> PC]]
        <4>1. electPC \in [Server -> [Eid -> PC]]
          BY Zenon DEF TypeOK, ElectTypeOK
        <4> HIDE DEF PC
        <4> QED  BY <3>3, <4>1
      <3>5. UNCHANGED electTerm
        BY Zenon, <1>2 DEF ElectReply
      <3> QED  BY Zenon, <3>1, <3>2, <3>4, <3>5 DEF TypeOK, ElectTypeOK
    <2> QED  BY Zenon, <1>2, <2>3, <2>4, TypeFrame DEF TypeOK, ElectReply
  <1> QED  BY Zenon, <1>1, <1>2

\* AppendEntries: the common part, for a request of either origin
LEMMA TypeReceive ==
    ASSUME TypeOK, NEW i \in Server, NEW m \in AppendEntriesArgs, Receive(i, m)
    PROVE  /\ ServerTypeOK' /\ LogTypeOK' /\ LeaderTypeOK' /\ MainTypeOK'
           /\ ElectTypeOK' /\ MsgsTypeOK' /\ (panicked \subseteq Server)'
           /\ HistTypeOK'
  <1>1. /\ m.term \in Nat /\ m.leaderCommit \in Nat /\ m.prevLogIndex \in Nat
        /\ m.from \in Server /\ m.round \in Nat /\ Len(m.entries) \in Nat
    BY Zenon, SeqLength DEF AppendEntriesArgs
  <1>2. ServerTypeOK'
    <2>1. currentTerm[i] \in Nat
      BY Zenon DEF TypeOK, ServerTypeOK
    <2> QED  BY Zenon, <1>1, <2>1 DEF TypeOK, ServerTypeOK, Receive
  <1>3. \A ok \in BOOLEAN : ReplyTo(i, m, ok) \in AppendEntriesReply
    BY Zenon, <1>1 DEF ReplyTo, AppendEntriesReply
  <1>4. ASSUME NEW k \in 0 .. Len(m.entries), Accept(i, m, k)
        PROVE  /\ LogTypeOK' /\ MsgsTypeOK' /\ HistTypeOK'
    <2> DEFINE new == MergedLog(i, m, k)
    <2>1. new \in Seq(Entry) /\ Len(new) \in Nat
      BY Zenon, <1>4, MergedLogType, SeqLength DEF TypeOK, Accept
    <2> HIDE DEF new
    <2>2. log' = [log EXCEPT ![i] = new]
      BY Zenon, <1>4 DEF Accept, new
    <2>3. CommitTo(m, new) \in Nat
      BY Zenon, <1>1, <2>1 DEF CommitTo, Min2
    <2>4. commitIndex' \in [Server -> Nat] /\ applyPending' \in [Server -> BOOLEAN]
      BY Zenon, <1>4, <2>3 DEF Accept, new, TypeOK, LogTypeOK
    <2>5. LogTypeOK'
      BY Zenon, <2>1, <2>2, <2>4 DEF TypeOK, LogTypeOK, Receive
    <2>6. HistTypeOK'
      <3>1. Held(new) \subseteq Nat \X Entry
        BY <2>1, SeqLength DEF Held
      <3>2. held' = [held EXCEPT ![i] = @ \cup Held(new)]
        BY Zenon, <1>4 DEF Accept, new
      <3>3. held' \in [Server -> SUBSET (Nat \X Entry)]
        BY Zenon, <3>1, <3>2 DEF TypeOK, HistTypeOK
      <3> QED  BY Zenon, <3>3 DEF TypeOK, HistTypeOK, Receive
    <2>7. MsgsTypeOK'
      <3>1. PICK seen : msgs' = (AfterWrite(i, new, seen) \ {m})
                                   \cup {ReplyTo(i, m, TRUE)}
        BY Zenon, <1>4 DEF Accept, new
      <3>2. AfterWrite(i, new, seen) \subseteq AllMessages
        BY Zenon, <2>1, AfterWriteType DEF TypeOK
      <3> QED  BY Zenon, <1>3, <3>1, <3>2 DEF MsgsTypeOK, AllMessages
    <2> QED  BY Zenon, <2>5, <2>6, <2>7
  <1>5. ASSUME Reject(i, m)
        PROVE  /\ LogTypeOK' /\ MsgsTypeOK' /\ HistTypeOK'
    <2>1. LogTypeOK'
      BY Zenon, <1>5 DEF TypeOK, LogTypeOK, Receive, Reject
    <2>2. MsgsTypeOK'
      BY Zenon, <1>3, <1>5 DEF TypeOK, MsgsTypeOK, Reject
    <2>3. HistTypeOK'
      BY Zenon, <1>5 DEF TypeOK, HistTypeOK, Receive, Reject
    <2> QED  BY Zenon, <2>1, <2>2, <2>3
  <1>6. LogTypeOK' /\ MsgsTypeOK' /\ HistTypeOK'
    BY Zenon, <1>4, <1>5 DEF Receive
  <1> QED  BY Zenon, <1>2, <1>6, TypeFrame DEF Receive

LEMMA TypeAppendEntries ==
    ASSUME TypeOK, NEW i \in Server, NEW m,
           \/ m \in msgs /\ AppendEntriesStale(i, m)
           \/ m \in msgs /\ AppendEntries(i, m)
           \/ m \in msgs /\ AppendEntriesBlock(i, m)
           \/ m \in blocked[i] /\ AppendEntriesResume(i, m)
    PROVE  TypeOK'
  <1>1. m \in AppendEntriesArgs
    BY Zenon, MessageByType DEF TypeOK, MsgsTypeOK, SyncTypeOK, AllMessages,
       AppendEntriesStale, AppendEntries, AppendEntriesBlock, AppendEntriesResume
  <1>2. CASE AppendEntriesStale(i, m)
    <2>1. ReplyTo(i, m, FALSE) \in AppendEntriesReply
      BY Zenon, <1>1, SeqLength
      DEF ReplyTo, AppendEntriesReply, AppendEntriesArgs
    <2>2. MsgsTypeOK'
      BY Zenon, <1>2, <2>1 DEF TypeOK, MsgsTypeOK, AppendEntriesStale
    <2> QED  BY Zenon, <1>2, <2>2, TypeFrame DEF TypeOK, AppendEntriesStale
  <1>3. CASE AppendEntries(i, m)
    <2>1. SyncTypeOK'
      BY SMTT(40), <1>3, NAssumption
      DEF TypeOK, SyncTypeOK, AppendEntries, HbCapacity
    <2> QED  BY Zenon, <1>1, <1>3, <2>1, TypeReceive DEF TypeOK, AppendEntries
  <1>4. CASE AppendEntriesBlock(i, m)
    <2>1. SyncTypeOK'
      BY Zenon, <1>1, <1>4 DEF TypeOK, SyncTypeOK, AppendEntriesBlock
    <2>2. MsgsTypeOK'
      BY Zenon, <1>4 DEF TypeOK, MsgsTypeOK, AppendEntriesBlock
    <2> QED  BY Zenon, <1>4, <2>1, <2>2, TypeFrame
             DEF TypeOK, AppendEntriesBlock
  <1>5. CASE AppendEntriesResume(i, m)
    <2>1. SyncTypeOK'
      BY <1>5, NAssumption
      DEF TypeOK, SyncTypeOK, AppendEntriesResume, HbCapacity
    <2> QED  BY Zenon, <1>1, <1>5, <2>1, TypeReceive
             DEF TypeOK, AppendEntriesResume
  <1> QED  BY Zenon, <1>2, <1>3, <1>4, <1>5

\* processAppendEntriesReply, applyCommit and PutCommand
LEMMA TypeProcessReply ==
    ASSUME TypeOK, NEW i \in Server, NEW m \in msgs,
           ProcessAppendEntriesReply(i, m)
    PROVE  TypeOK'
  <1>1. m \in AppendEntriesReply
    BY Zenon, MessageByType
    DEF TypeOK, MsgsTypeOK, AllMessages, ProcessAppendEntriesReply
  <1>2. m.to \in Server /\ m.prevLogIndex \in Nat /\ m.numEntries \in Nat
    BY Zenon, <1>1 DEF AppendEntriesReply
  <1>3. nextIndex[i][m.to] \in Nat \ {0} /\ matchIndex[i][m.to] \in Nat
    BY Zenon, <1>2 DEF TypeOK, LeaderTypeOK
  <1>4. NextIndexAfter(i, m) \in Nat \ {0} /\ MatchIndexAfter(i, m) \in Nat
    BY SMTT(40), <1>2, <1>3 DEF NextIndexAfter, MatchIndexAfter
  <1>5. LeaderTypeOK'
    <2>1. nextIndex' \in [Server -> [Server -> Nat \ {0}]]
      BY Zenon, <1>2, <1>4 DEF TypeOK, LeaderTypeOK, ProcessAppendEntriesReply
    <2>2. [matchIndex[i] EXCEPT ![m.to] = MatchIndexAfter(i, m)] \in [Server -> Nat]
      BY Zenon, <1>4 DEF TypeOK, LeaderTypeOK
    <2>3. matchIndex' \in [Server -> [Server -> Nat]]
      BY Zenon, <2>2 DEF TypeOK, LeaderTypeOK, ProcessAppendEntriesReply
    <2> QED  BY Zenon, <2>1, <2>3 DEF LeaderTypeOK
  <1>6. LogTypeOK'
    <2>1. commitIndex[i] \in Nat /\ Len(log[i]) \in Nat
      BY Zenon, LogLength DEF TypeOK, LogTypeOK
    <2>2. \A match : Committable(i, match) \subseteq Nat
      BY <2>1 DEF Committable
    <2>3. \/ UNCHANGED <<commitIndex, applyPending>>
          \/ \E k \in Nat :
                /\ commitIndex' = [commitIndex EXCEPT ![i] = k]
                /\ applyPending' = [applyPending EXCEPT ![i] = TRUE]
      BY Zenon, <2>2 DEF ProcessAppendEntriesReply
    <2>4. commitIndex' \in [Server -> Nat] /\ applyPending' \in [Server -> BOOLEAN]
      BY Zenon, <2>3 DEF TypeOK, LogTypeOK
    <2> QED  BY Zenon, <2>4 DEF TypeOK, LogTypeOK, ProcessAppendEntriesReply
  <1>7. MsgsTypeOK'
    BY Zenon DEF TypeOK, MsgsTypeOK, ProcessAppendEntriesReply
  <1> QED  BY Zenon, <1>5, <1>6, <1>7, TypeFrame
           DEF TypeOK, ProcessAppendEntriesReply

LEMMA TypeApplyCommit ==
    ASSUME TypeOK, NEW i \in Server, ApplyCommit(i)
    PROVE  TypeOK'
  <1> DEFINE last == Min2(commitIndex[i], Len(log[i]))
             new  == SubSeq(log[i], ApplyFrom(i), last)
  <1>1. /\ commitIndex[i] \in Nat /\ lastApplied[i] \in Nat
        /\ log[i] \in Seq(Entry) /\ Len(log[i]) \in Nat
    BY Zenon, LogLength DEF TypeOK, LogTypeOK
  <1>2. last \in Nat /\ last <= Len(log[i]) /\ ApplyFrom(i) \in Nat \ {0}
    BY SMTT(40), <1>1 DEF Min2, ApplyFrom
  <1> HIDE DEF last
  <1>3. new \in Seq(Entry)
    BY <1>1, <1>2, SubSeqType
  <1>4. applied' \in [Server -> Seq(Entry)]
    <2>1. applied[i] \in Seq(Entry)
      BY Zenon DEF TypeOK, LogTypeOK
    <2>2. applied[i] \o new \in Seq(Entry)
      BY Zenon, <1>3, <2>1, Concatenated
    <2>3. applied' = [applied EXCEPT ![i] = applied[i] \o new]
      BY Zenon DEF ApplyCommit, last
    <2> HIDE DEF new
    <2> QED  BY Zenon, <2>2, <2>3 DEF TypeOK, LogTypeOK
  <1>5. LogTypeOK'
    BY Zenon, <1>1, <1>4 DEF TypeOK, LogTypeOK, ApplyCommit
  <1>6. (panicked \subseteq Server)'
    BY Zenon DEF TypeOK, ApplyCommit
  <1> QED  BY Zenon, <1>5, <1>6, TypeFrame DEF TypeOK, ApplyCommit

LEMMA TypePutCommand ==
    ASSUME TypeOK, NEW i \in Server, NEW c \in Command, PutCommand(i, c)
    PROVE  TypeOK'
  <1> DEFINE entry == [term |-> currentTerm[i], command |-> c]
             new   == Append(log[i], entry)
  <1>1. entry \in Entry
    BY Zenon DEF TypeOK, ServerTypeOK, Entry
  <1>2. new \in Seq(Entry) /\ Len(new) \in Nat
    BY Zenon, <1>1, LogLength, Appended, SeqLength DEF TypeOK
  <1>3. /\ log' = [log EXCEPT ![i] = new]
        /\ held' = [held EXCEPT ![i] = @ \cup Held(new)]
    BY Zenon DEF PutCommand
  <1>4. PICK seen : msgs' = AfterWrite(i, new, seen)
    BY Zenon DEF PutCommand
  <1> HIDE DEF new
  <1>5. LogTypeOK'
    BY Zenon, <1>2, <1>3 DEF TypeOK, LogTypeOK, PutCommand
  <1>6. MsgsTypeOK'
    BY Zenon, <1>2, <1>4, AfterWriteType DEF TypeOK, MsgsTypeOK, AllMessages
  <1>7. HistTypeOK'
    <2>1. Held(new) \subseteq Nat \X Entry
      BY <1>2, SeqLength DEF Held
    <2>2. held' \in [Server -> SUBSET (Nat \X Entry)]
      BY Zenon, <1>3, <2>1 DEF TypeOK, HistTypeOK
    <2> QED  BY Zenon, <2>2 DEF TypeOK, HistTypeOK, PutCommand
  <1> QED  BY Zenon, <1>5, <1>6, <1>7, TypeFrame DEF TypeOK, PutCommand

LEMMA TypeStep == TypeOK /\ [Next]_vars => TypeOK'
  <1> SUFFICES ASSUME TypeOK, [Next]_vars PROVE TypeOK'
    BY Zenon
  <1>1. CASE UNCHANGED vars
    BY Zenon, <1>1, TypeFrame DEF TypeOK, vars
  <1>2. CASE Next
    BY Zenon, <1>2, TypeMain, TypeElect, TypeVote, TypeAppendEntries,
       TypeProcessReply, TypeApplyCommit, TypePutCommand DEF Next
  <1> QED  BY Zenon, <1>1, <1>2

\* Every variable of Raft keeps its type, whatever the number of peers and
\* the bounds: the receivedHb channel never overflows, no index of nextIndex
\* reaches 0, every request and reply in flight is well formed.
THEOREM TypeCorrect == Spec => []TypeOK
  BY TypeInit, TypeStep, PTL DEF Spec

-----------------------------------------------------------------------------
(* The mutex and the candidates.                                           *)

\* The condition on one peer.
Holder(i) ==
    /\ mux[i] = "main" <=> mainPC[i] = "lostElect"
    /\ mux[i] = "elect" <=> \E e \in Eid : electPC[i][e] = "announce"
    /\ mux[i] = "handler" <=> blocked[i] # {}
    /\ \A d, e \in Eid : electPC[i][d] = "announce" /\ electPC[i][e] = "announce"
                           => d = e

LEMMA HolderFrame ==
    ASSUME NEW j \in Server, Holder(j), mux'[j] = mux[j], blocked'[j] = blocked[j],
           mainPC'[j] = "lostElect" <=> mainPC[j] = "lostElect",
           \A e \in Eid : electPC'[j][e] = "announce" <=> electPC[j][e] = "announce"
    PROVE  Holder(j)'
  BY Zenon DEF Holder

LEMMA MutexStep == TypeOK /\ MutexHolder /\ [Next]_vars => MutexHolder'
  <1> SUFFICES ASSUME TypeOK, MutexHolder, [Next]_vars, NEW j \in Server
               PROVE  Holder(j)'
    BY Zenon DEF MutexHolder, Holder
  <1>0. /\ Holder(j)
        /\ mux \in [Server -> {"free", "main", "elect", "handler"}]
        /\ mainPC \in [Server -> {"select", "heartbeat", "lostElect", "becoming",
                                  "check", "send"}]
        /\ electPC \in [Server -> [Eid -> {"none", "starting", "wait", "higher",
                                           "won", "announce", "done"}]]
        /\ blocked \in [Server -> SUBSET AppendEntriesArgs]
    BY Zenon
    DEF MutexHolder, Holder, TypeOK, SyncTypeOK, MainTypeOK, ElectTypeOK
  <1>1. CASE UNCHANGED vars
    BY Zenon, <1>0, <1>1, HolderFrame DEF vars, syncVars, mainVars, electVars
  <1>2. CASE Next
    <2> PICK i \in Server :
        \/ MainHeartbeat(i)
        \/ MainHeartbeatLock(i)
        \/ BecomeLeader(i)
        \/ CheckLeader(i)
        \/ SendAppend(i)
        \/ ApplyCommit(i)
        \/ \E c \in Command : PutCommand(i, c)
        \/ \E e \in Eid :
             \/ MainTick(i, e)
             \/ StartElect(i, e)
             \/ ElectHigher(i, e)
             \/ ElectLock(i, e)
             \/ Announce(i, e)
             \/ LostElect(i, e)
             \/ \E m \in msgs : ElectReply(i, e, m)
        \/ \E m \in msgs :
             \/ RequestVote(i, m)
             \/ AppendEntriesStale(i, m)
             \/ AppendEntries(i, m)
             \/ AppendEntriesBlock(i, m)
             \/ ProcessAppendEntriesReply(i, m)
        \/ \E m \in blocked[i] : AppendEntriesResume(i, m)
      BY Zenon, <1>2 DEF Next
    <2>1. CASE MainHeartbeat(i)
      BY Zenon, <1>0, <2>1, HolderFrame DEF MainHeartbeat, electVars
    <2>2. CASE MainHeartbeatLock(i)
      BY <1>0, <2>2 DEF MainHeartbeatLock, Holder, Free, electVars
    <2>3. CASE BecomeLeader(i)
      BY Zenon, <1>0, <2>3, HolderFrame DEF BecomeLeader, electVars, syncVars
    <2>4. CASE CheckLeader(i)
      BY Zenon, <1>0, <2>4, HolderFrame DEF CheckLeader, electVars, syncVars
    <2>5. CASE SendAppend(i)
      BY Zenon, <1>0, <2>5, HolderFrame DEF SendAppend, electVars, syncVars
    <2>6. CASE ApplyCommit(i)
      BY Zenon, <1>0, <2>6, HolderFrame
      DEF ApplyCommit, mainVars, electVars, syncVars
    <2>7. CASE \E c \in Command : PutCommand(i, c)
      BY Zenon, <1>0, <2>7, HolderFrame
      DEF PutCommand, mainVars, electVars, syncVars
    <2>8. ASSUME NEW e \in Eid, MainTick(i, e) PROVE Holder(j)'
      <3>1. \A d \in Eid : electPC'[j][d] = "announce" <=> electPC[j][d] = "announce"
        BY Zenon, <1>0, <2>8 DEF MainTick
      <3> QED  BY Zenon, <1>0, <2>8, <3>1, HolderFrame
               DEF MainTick, mainVars, syncVars
    <2>9. ASSUME NEW e \in Eid, StartElect(i, e) PROVE Holder(j)'
      <3>1. \A d \in Eid : electPC'[j][d] = "announce" <=> electPC[j][d] = "announce"
        BY Zenon, <1>0, <2>9 DEF StartElect
      <3> QED  BY Zenon, <1>0, <2>9, <3>1, HolderFrame
               DEF StartElect, mainVars, syncVars
    <2>10. ASSUME NEW e \in Eid, ElectHigher(i, e) PROVE Holder(j)'
      <3>1. \A d \in Eid : electPC'[j][d] = "announce" <=> electPC[j][d] = "announce"
        BY Zenon, <1>0, <2>10 DEF ElectHigher
      <3> QED  BY Zenon, <1>0, <2>10, <3>1, HolderFrame
               DEF ElectHigher, mainVars, syncVars
    <2>11. ASSUME NEW e \in Eid, ElectLock(i, e) PROVE Holder(j)'
      BY <1>0, <2>11 DEF ElectLock, Holder, Free, mainVars
    <2>12. ASSUME NEW e \in Eid, Announce(i, e) PROVE Holder(j)'
      BY <1>0, <2>12 DEF Announce, Holder
    <2>13. ASSUME NEW e \in Eid, LostElect(i, e) PROVE Holder(j)'
      BY Zenon, <1>0, <2>13 DEF LostElect, Holder
    <2>14. ASSUME NEW e \in Eid, NEW m \in msgs, ElectReply(i, e, m) PROVE Holder(j)'
      <3>1. \A d \in Eid : electPC'[j][d] = "announce" <=> electPC[j][d] = "announce"
        <4>1. PICK pc : /\ pc # "announce"
                        /\ electPC' = [electPC EXCEPT ![i][e] = pc] \/ UNCHANGED electPC
          <5>1. (IF Wins(totalVotes[i][e] + 1) THEN "won" ELSE "wait") # "announce"
            BY Zenon
          <5> QED  BY Zenon, <2>14, <5>1 DEF ElectReply
        <4>2. electPC[i][e] # "announce"
          BY Zenon, <2>14 DEF ElectReply
        <4> QED  BY <1>0, <4>1, <4>2
      <3> QED  BY Zenon, <1>0, <2>14, <3>1, HolderFrame
               DEF ElectReply, mainVars, syncVars
    <2>15. CASE \E m \in msgs : RequestVote(i, m)
      BY Zenon, <1>0, <2>15, HolderFrame
      DEF RequestVote, mainVars, electVars, syncVars
    <2>16. CASE \E m \in msgs : AppendEntriesStale(i, m)
      BY Zenon, <1>0, <2>16, HolderFrame
      DEF AppendEntriesStale, mainVars, electVars, syncVars
    <2>17. CASE \E m \in msgs : AppendEntries(i, m)
      BY Zenon, <1>0, <2>17, HolderFrame
      DEF AppendEntries, Receive, mainVars, electVars
    <2>18. CASE \E m \in msgs : AppendEntriesBlock(i, m)
      <3>1. PICK m : /\ mux[i] = "free" /\ mux' = [mux EXCEPT ![i] = "handler"]
                     /\ blocked' = [blocked EXCEPT ![i] = {m}]
                     /\ UNCHANGED <<mainPC, electPC>>
        BY Zenon, <2>18 DEF AppendEntriesBlock, Free, mainVars, electVars
      <3>2. CASE j = i
        <4>1. mux'[j] = "handler" /\ blocked'[j] # {} /\ mux[j] = "free"
          BY Zenon, <1>0, <3>1, <3>2
        <4> QED  BY Zenon, <1>0, <3>1, <4>1 DEF Holder
      <3>3. CASE j # i
        BY Zenon, <1>0, <3>1, <3>3, HolderFrame
      <3> QED  BY Zenon, <3>2, <3>3
    <2>19. CASE \E m \in msgs : ProcessAppendEntriesReply(i, m)
      BY Zenon, <1>0, <2>19, HolderFrame
      DEF ProcessAppendEntriesReply, mainVars, electVars, syncVars
    <2>20. CASE \E m \in blocked[i] : AppendEntriesResume(i, m)
      <3>1. /\ blocked[i] # {} /\ mux' = [mux EXCEPT ![i] = "free"]
            /\ blocked' = [blocked EXCEPT ![i] = {}]
            /\ UNCHANGED <<mainPC, electPC>>
        BY Zenon, <2>20 DEF AppendEntriesResume, Receive, mainVars, electVars
      <3>2. CASE j = i
        <4>1. mux'[j] = "free" /\ blocked'[j] = {} /\ mux[j] = "handler"
          BY Zenon, <1>0, <3>1, <3>2 DEF Holder
        <4> QED  BY Zenon, <1>0, <3>1, <4>1 DEF Holder
      <3>3. CASE j # i
        BY Zenon, <1>0, <3>1, <3>3, HolderFrame
      <3> QED  BY Zenon, <3>2, <3>3
    <2> QED  BY Zenon, <2>1, <2>2, <2>3, <2>4, <2>5, <2>6, <2>7, <2>8, <2>9,
                <2>10, <2>11,
                <2>12, <2>13, <2>14, <2>15, <2>16, <2>17, <2>18, <2>19, <2>20
  <1> QED  BY Zenon, <1>1, <1>2

\* At every moment at most one goroutine of a peer sits inside its critical
\* section on a channel operation, and mux tells which: mainRoutine sending
\* lostElect, an election sending beLeader, or AppendEntries sending receivedHb.
THEOREM MutexCorrect == Spec => []MutexHolder
  <1>1. Init => MutexHolder
    BY DEF Init, MutexHolder
  <1> QED  BY <1>1, TypeCorrect, MutexStep, PTL DEF Spec

-----------------------------------------------------------------------------

Live == {"wait", "higher", "won", "announce"}

\* The condition on one peer.
CandidateOK(i) ==
    electionState[i] = Candidate =>
        mainPC[i] = "becoming" \/ \E e \in Eid : electPC[i][e] \in Live

LEMMA CandidateFrame ==
    ASSUME NEW j \in Server, CandidateOK(j),
           electionState'[j] = Candidate => electionState[j] = Candidate,
           mainPC[j] = "becoming" => mainPC'[j] = "becoming",
           \A e \in Eid : electPC[j][e] \in Live => electPC'[j][e] \in Live
    PROVE  CandidateOK(j)'
  BY Zenon DEF CandidateOK

LEMMA CandidateStep ==
    TypeOK /\ CandidateHasElection /\ [Next]_vars => CandidateHasElection'
  <1> SUFFICES ASSUME TypeOK, CandidateHasElection, [Next]_vars, NEW j \in Server
               PROVE  CandidateOK(j)'
    BY Zenon DEF CandidateHasElection, CandidateOK, Live
  <1>0. /\ CandidateOK(j)
        /\ electionState \in [Server -> {Follower, Candidate, Leader}]
        /\ mainPC \in [Server -> {"select", "heartbeat", "lostElect", "becoming",
                                  "check", "send"}]
        /\ electPC \in [Server -> [Eid -> {"none", "starting", "wait", "higher",
                                           "won", "announce", "done"}]]
    BY Zenon
    DEF CandidateHasElection, CandidateOK, Live, TypeOK, ServerTypeOK,
    MainTypeOK,
       ElectTypeOK
  <1>1. Follower # Candidate /\ Leader # Candidate
    BY Zenon DEF Follower, Candidate, Leader
  <1>2. CASE UNCHANGED vars
    BY Zenon, <1>0, <1>2, CandidateFrame
    DEF vars, serverVars, mainVars, electVars
  <1>3. ASSUME NEW i \in Server,
               \/ MainHeartbeat(i) \/ MainHeartbeatLock(i) \/ CheckLeader(i)
               \/ SendAppend(i) \/ ApplyCommit(i) \/ \E c \in Command : PutCommand(i, c)
        PROVE  CandidateOK(j)'
    BY Zenon, <1>0, <1>3, CandidateFrame
    DEF MainHeartbeat, MainHeartbeatLock, CheckLeader, SendAppend, ApplyCommit,
        PutCommand, serverVars, mainVars, electVars
  <1>4. ASSUME NEW i \in Server, BecomeLeader(i) PROVE CandidateOK(j)'
    <2>1. CASE i = j
      BY Zenon, <1>0, <1>1, <1>4, <2>1 DEF BecomeLeader, CandidateOK
    <2>2. CASE i # j
      BY Zenon, <1>0, <1>4, <2>2, CandidateFrame DEF BecomeLeader, electVars
    <2> QED  BY Zenon, <2>1, <2>2
  <1>5. ASSUME NEW i \in Server, NEW e \in Eid, StartElect(i, e)
        PROVE  CandidateOK(j)'
    <2>1. CASE i = j
      <3>1. electPC'[j][e] = "wait"
        BY Zenon, <1>0, <1>5, <2>1 DEF StartElect
      <3> QED  BY Zenon, <3>1 DEF CandidateOK, Live
    <2>2. CASE i # j
      BY Zenon, <1>0, <1>5, <2>2, CandidateFrame DEF StartElect, mainVars
    <2> QED  BY Zenon, <2>1, <2>2
  <1>6. ASSUME NEW i \in Server, NEW e \in Eid, MainTick(i, e) \/ ElectLock(i, e)
        PROVE  CandidateOK(j)'
    <2>1. \A d \in Eid : electPC[j][d] \in Live => electPC'[j][d] \in Live
      BY <1>0, <1>6 DEF MainTick, ElectLock, Live
    <2> QED  BY Zenon, <1>0, <1>6, <2>1, CandidateFrame
             DEF MainTick, ElectLock, serverVars, mainVars
  <1>7. ASSUME NEW i \in Server, NEW e \in Eid,
               ElectHigher(i, e) \/ LostElect(i, e) \/ Announce(i, e)
        PROVE  CandidateOK(j)'
    <2>1. CASE i = j
      BY Zenon, <1>0, <1>1, <1>7, <2>1
      DEF ElectHigher, LostElect, Announce, StepDown, CandidateOK
    <2>2. CASE i # j
      BY Zenon, <1>0, <1>7, <2>2, CandidateFrame
      DEF ElectHigher, LostElect, Announce, StepDown, serverVars, mainVars
    <2> QED  BY <2>1, <2>2
  <1>8. ASSUME NEW i \in Server, NEW e \in Eid, NEW m \in msgs, ElectReply(i, e, m)
        PROVE  CandidateOK(j)'
    <2>1. PICK pc : /\ pc \in Live
                    /\ electPC' = [electPC EXCEPT ![i][e] = pc] \/ UNCHANGED electPC
      <3>1. (IF Wins(totalVotes[i][e] + 1) THEN "won" ELSE "wait") \in Live
        BY Zenon DEF Live
      <3>2. "higher" \in Live
        BY Zenon DEF Live
      <3> QED  BY Zenon, <1>8, <3>1, <3>2 DEF ElectReply
    <2>2. \A d \in Eid : electPC[j][d] \in Live => electPC'[j][d] \in Live
      BY <1>0, <2>1
    <2> QED  BY Zenon, <1>0, <1>8, <2>2, CandidateFrame
             DEF ElectReply, serverVars, mainVars
  <1>9. ASSUME NEW i \in Server, NEW m, RequestVote(i, m) \/ Receive(i, m)
        PROVE  CandidateOK(j)'
    BY Zenon, <1>0, <1>1, <1>9, CandidateFrame
    DEF RequestVote, Receive, mainVars, electVars
  <1>10. ASSUME NEW i \in Server, NEW m,
                \/ AppendEntriesStale(i, m) \/ AppendEntriesBlock(i, m)
                \/ ProcessAppendEntriesReply(i, m)
         PROVE  CandidateOK(j)'
    BY Zenon, <1>0, <1>10, CandidateFrame
    DEF AppendEntriesStale, AppendEntriesBlock, ProcessAppendEntriesReply,
        serverVars,
        mainVars, electVars
  <1>11. CASE Next
    BY Zenon, <1>11, <1>3, <1>4, <1>5, <1>6, <1>7, <1>8, <1>9, <1>10
    DEF Next, AppendEntries, AppendEntriesResume
  <1> QED  BY <1>2, <1>11

\* A candidate always has an election goroutine that can still end, or a win
\* that mainRoutine has received (startElect, mainRoutine, the RPC handlers).
THEOREM CandidatesHaveElections == Spec => []CandidateHasElection
  <1>1. Init => CandidateHasElection
    BY Zenon DEF Init, CandidateHasElection, Follower, Candidate
  <1> QED  BY <1>1, TypeCorrect, CandidateStep, PTL DEF Spec

-----------------------------------------------------------------------------
(* One term is enough for one leader: no election starts above MaxTerm, so *)
(* with MaxTerm = 1 no reply ever carries a higher term.                   *)

\* startElect of the election has gone through its critical section
Running(i, e) == electPC[i][e] \notin {"none", "starting"}

\* Every term in a peer, an election or a message is at most MaxTerm, and a
\* reply that ends an election is of a term above the election's.
TermInv ==
    /\ \A i \in Server : currentTerm[i] <= MaxTerm
    /\ \A m \in msgs : m.type # "AppendEntriesReply" => m.term <= MaxTerm
    /\ \A i \in Server : \A m \in blocked[i] : m.term <= MaxTerm
    /\ \A i \in Server, e \in Eid :
         /\ Running(i, e) => electTerm[i][e] \in 1 .. MaxTerm
         /\ electPC[i][e] = "higher" =>
              replyTerm[i][e] \in electTerm[i][e] + 1 .. MaxTerm
    /\ MaxTerm = 1 => ~staleReply

LEMMA TermFrame ==
    ASSUME TermInv, UNCHANGED <<electPC, electTerm, replyTerm, staleReply>>,
           \A i \in Server : currentTerm'[i] <= MaxTerm,
           \A m \in msgs' : \/ m \in msgs
                            \/ m.type # "AppendEntriesReply" => m.term <= MaxTerm,
           \A i \in Server : \A m \in blocked'[i] : m.term <= MaxTerm
    PROVE  TermInv'
  <1>1. \A i \in Server, e \in Eid : Running(i, e)' = Running(i, e)
    BY Zenon DEF Running
  <1> QED  BY Zenon, <1>1 DEF TermInv

\* A request that an append has overwritten keeps its term.
LEMMA AfterWriteTerm ==
    ASSUME TypeOK, TermInv, NEW i \in Server, NEW newLog, NEW seen,
           NEW m \in AfterWrite(i, newLog, seen), m.type # "AppendEntriesReply"
    PROVE  m.term <= MaxTerm
  <1>1. CASE m \in msgs
    BY Zenon, <1>1 DEF TermInv
  <1>2. ASSUME NEW q \in Racy(i, newLog), m = Overwritten(q, newLog, seen[q])
        PROVE  m.term <= MaxTerm
    <2>1. q \in AppendEntriesArgs /\ q \in msgs /\ q.type = "AppendEntries"
      BY Zenon, MessageByType DEF Racy, TypeOK, MsgsTypeOK, AllMessages
    <2>2. PICK f : m = [q EXCEPT !.entries = f]
      BY Zenon, <1>2 DEF Overwritten
    <2>3. m.term = q.term
      BY Zenon, <2>1, <2>2 DEF AppendEntriesArgs
    <2> QED  BY Zenon, <2>1, <2>3 DEF TermInv
  <1> QED  BY Zenon, <1>1, <1>2 DEF AfterWrite

LEMMA TermElect ==
    ASSUME TypeOK, TermInv, TypeOK', NEW i \in Server, NEW e \in Eid,
           \/ MainTick(i, e) \/ StartElect(i, e) \/ ElectHigher(i, e)
           \/ ElectLock(i, e) \/ Announce(i, e) \/ LostElect(i, e)
           \/ \E m \in msgs : ElectReply(i, e, m)
    PROVE  TermInv'
  <1>0. /\ electPC \in [Server -> [Eid -> {"none", "starting", "wait", "higher",
                                           "won", "announce", "done"}]]
        /\ electTerm \in [Server -> [Eid -> Nat]]
        /\ replyTerm \in [Server -> [Eid -> Nat]]
        /\ currentTerm \in [Server -> Nat]
    BY Zenon DEF TypeOK, ElectTypeOK, ServerTypeOK
  <1>1. CASE StartElect(i, e)
    <2> DEFINE t == currentTerm[i] + 1
               new == {[type |-> "RequestVote", from |-> i, eid |-> e, to |-> j,
                        term |-> t, lastLogIndex |-> GoLen(i),
                        lastLogTerm |-> LastTerm(i)] : j \in Server \ {i}}
    <2>1. /\ electPC' = [electPC EXCEPT ![i][e] = "wait"]
          /\ currentTerm' = [currentTerm EXCEPT ![i] = @ + 1]
          /\ currentTerm[i] < MaxTerm
          /\ UNCHANGED <<replyTerm, blocked, staleReply>>
      BY Zenon, <1>1 DEF StartElect, syncVars, histVars
    <2>2. electTerm' = [electTerm EXCEPT ![i][e] = t] /\ msgs' = msgs \cup new
      BY Zenon, <1>1 DEF StartElect
    <2>3. t \in 1 .. MaxTerm
      BY <1>0, <2>1, BoundAssumption
    <2>4. \A m \in new : m.term = t
      OBVIOUS
    <2> HIDE DEF new
    <2>5. /\ \A j \in Server : currentTerm'[j] <= MaxTerm
          /\ \A m \in msgs' : m.type # "AppendEntriesReply" => m.term <= MaxTerm
          /\ \A j \in Server : \A m \in blocked'[j] : m.term <= MaxTerm
      <3>1. \A j \in Server : currentTerm'[j] <= MaxTerm
        BY <1>0, <2>1, <2>3 DEF TermInv
      <3>2. \A m \in new : m.term <= MaxTerm
        BY <1>0, <2>3, <2>4, BoundAssumption
      <3>3. \A m \in msgs' : m.type # "AppendEntriesReply" => m.term <= MaxTerm
        BY Zenon, <2>2, <3>2 DEF TermInv
      <3> QED  BY Zenon, <2>1, <3>1, <3>3 DEF TermInv
    <2>6. ASSUME NEW j \in Server, NEW d \in Eid
          PROVE  /\ Running(j, d)' => electTerm'[j][d] \in 1 .. MaxTerm
                 /\ electPC'[j][d] = "higher" =>
                      replyTerm'[j][d] \in electTerm'[j][d] + 1 .. MaxTerm
      <3>1. CASE j = i /\ d = e
        <4>1. electPC'[j][d] = "wait" /\ electTerm'[j][d] = t
          BY Zenon, <1>0, <2>1, <2>2, <3>1
        <4> QED  BY Zenon, <2>3, <4>1
      <3>2. CASE ~(j = i /\ d = e)
        <4>1. electPC'[j][d] = electPC[j][d] /\ electTerm'[j][d] = electTerm[j][d]
          BY Zenon, <1>0, <2>1, <2>2, <3>2
        <4> QED  BY Zenon, <2>1, <4>1 DEF TermInv, Running
      <3> QED  BY Zenon, <3>1, <3>2
    <2> QED  BY Zenon, <2>1, <2>5, <2>6 DEF TermInv
  <1>2. CASE MainTick(i, e)
    <2>1. /\ electPC' = [electPC EXCEPT ![i][e] = "starting"]
          /\ UNCHANGED <<electTerm, replyTerm, staleReply, currentTerm, msgs,
                         blocked>>
      BY Zenon, <1>2 DEF MainTick, serverVars, syncVars, histVars
    <2>2. \A j \in Server, d \in Eid :
            electPC'[j][d] = "starting" \/ electPC'[j][d] = electPC[j][d]
      BY Zenon, <1>0, <2>1
    <2> QED  BY Zenon, <2>1, <2>2 DEF TermInv, Running
  <1>3. CASE ElectHigher(i, e)
    <2>1. /\ electPC[i][e] = "higher"
          /\ electPC' = [electPC EXCEPT ![i][e] = "done"]
          /\ currentTerm' = [currentTerm EXCEPT ![i] = replyTerm[i][e]]
          /\ UNCHANGED <<electTerm, replyTerm, msgs, blocked>>
      BY Zenon, <1>3 DEF ElectHigher, syncVars
    <2>2. /\ Running(i, e) /\ electTerm[i][e] \in 1 .. MaxTerm
          /\ replyTerm[i][e] \in electTerm[i][e] + 1 .. MaxTerm
      BY Zenon, <2>1 DEF TermInv, Running
    <2>3. MaxTerm # 1
      BY <2>2, BoundAssumption
    <2>4. \A j \in Server, d \in Eid :
            \/ electPC'[j][d] = electPC[j][d]
            \/ electPC'[j][d] = "done" /\ Running(j, d)
      BY Zenon, <1>0, <2>1, <2>2
    <2>5. \A j \in Server : currentTerm'[j] <= MaxTerm
      BY <1>0, <2>1, <2>2 DEF TermInv
    <2> QED  BY Zenon, <2>1, <2>3, <2>4, <2>5 DEF TermInv, Running
  <1>4. CASE ElectLock(i, e) \/ Announce(i, e) \/ LostElect(i, e)
    <2>1. /\ Running(i, e)
          /\ electPC' \in {[electPC EXCEPT ![i][e] = "announce"],
                           [electPC EXCEPT ![i][e] = "done"]}
          /\ UNCHANGED <<electTerm, replyTerm, staleReply, currentTerm, msgs,
                         blocked>>
      BY Zenon, <1>4
      DEF ElectLock, Announce, LostElect, Running, serverVars, syncVars,
                  histVars
    <2>2. \A j \in Server, d \in Eid :
            \/ electPC'[j][d] = electPC[j][d]
            \/ electPC'[j][d] \in {"announce", "done"} /\ Running(j, d)
      BY <1>0, <2>1
    <2> QED  BY Zenon, <2>1, <2>2 DEF TermInv, Running
  <1>5. ASSUME NEW m \in msgs, ElectReply(i, e, m)
        PROVE  TermInv'
    <2>1. /\ electPC[i][e] = "wait" /\ Running(i, e)
          /\ m.type = "RequestVoteReply" /\ msgs' \subseteq msgs
          /\ UNCHANGED <<electTerm, staleReply, currentTerm, blocked>>
      BY Zenon, <1>5 DEF ElectReply, Running, serverVars, syncVars, histVars
    <2>2. m.term \in Nat /\ m.term <= MaxTerm
      BY Zenon, <2>1, MessageByType
      DEF TermInv, TypeOK, MsgsTypeOK, AllMessages, RequestVoteReply
    <2>3. CASE /\ m.term > electTerm[i][e]
               /\ electPC' = [electPC EXCEPT ![i][e] = "higher"]
               /\ replyTerm' = [replyTerm EXCEPT ![i][e] = m.term]
      <3>0. /\ electPC' = [electPC EXCEPT ![i][e] = "higher"]
            /\ replyTerm' = [replyTerm EXCEPT ![i][e] = m.term]
        BY Zenon, <2>3
      <3>1. \A j \in Server, d \in Eid :
              ~(j = i /\ d = e) => /\ electPC'[j][d] = electPC[j][d]
                                   /\ replyTerm'[j][d] = replyTerm[j][d]
        BY Zenon, <1>0, <3>0
      <3>2. electPC'[i][e] = "higher" /\ replyTerm'[i][e] = m.term
        BY Zenon, <1>0, <3>0
      <3>3. m.term \in electTerm[i][e] + 1 .. MaxTerm
        BY <1>0, <2>2, <2>3, BoundAssumption
      <3> QED  BY <2>1, <3>1, <3>2, <3>3 DEF TermInv, Running
    <2>4. CASE /\ UNCHANGED replyTerm
               /\ \/ electPC' \in {[electPC EXCEPT ![i][e] = "won"],
                                   [electPC EXCEPT ![i][e] = "wait"]}
                  \/ UNCHANGED electPC
      <3>1. \A j \in Server, d \in Eid :
              \/ electPC'[j][d] = electPC[j][d]
              \/ electPC'[j][d] \in {"won", "wait"} /\ Running(j, d)
        <4>1. ASSUME NEW v \in {"won", "wait"},
                     electPC' = [electPC EXCEPT ![i][e] = v]
              PROVE  <3>1
          BY Zenon, <1>0, <2>1, <4>1
        <4> QED  BY Zenon, <2>4, <4>1
      <3> QED  BY Zenon, <2>1, <2>4, <3>1 DEF TermInv, Running
    <2> QED  BY Zenon, <1>5, <2>3, <2>4 DEF ElectReply
  <1> QED  BY Zenon, <1>1, <1>2, <1>3, <1>4, <1>5

LEMMA TermHandlers ==
    ASSUME TypeOK, TermInv, TypeOK', NEW i \in Server, NEW m,
           \/ m \in msgs /\ RequestVote(i, m)
           \/ m \in msgs /\ AppendEntriesStale(i, m)
           \/ m \in msgs /\ AppendEntries(i, m)
           \/ m \in msgs /\ AppendEntriesBlock(i, m)
           \/ m \in msgs /\ ProcessAppendEntriesReply(i, m)
           \/ m \in blocked[i] /\ AppendEntriesResume(i, m)
    PROVE  TermInv'
  <1>0. /\ currentTerm \in [Server -> Nat] /\ MaxTerm \in Nat
        /\ blocked \in [Server -> SUBSET AppendEntriesArgs]
    BY Zenon, BoundAssumption DEF TypeOK, ServerTypeOK, SyncTypeOK
  <1>1. \A j \in Server : currentTerm[j] \in Nat /\ currentTerm[j] <= MaxTerm
    BY Zenon, <1>0 DEF TermInv
  <1>2. ASSUME NEW ok PROVE ReplyTo(i, m, ok).type = "AppendEntriesReply"
    BY Zenon DEF ReplyTo
  <1>3. CASE m \in msgs /\ RequestVote(i, m)
    <2> DEFINE r == [type |-> "RequestVoteReply", from |-> m.from,
                     eid |-> m.eid, to |-> i, term |-> VoteReplyTerm(i, m),
                     voteGranted |-> Grants(i, m)]
    <2>1. m.term \in Nat /\ m.term <= MaxTerm
      BY Zenon, <1>3, MessageByType
      DEF TermInv, TypeOK, MsgsTypeOK, AllMessages, RequestVoteArgs,
          RequestVote
    <2>2. VoteReplyTerm(i, m) <= MaxTerm
      BY <1>0, <1>1, <2>1 DEF VoteReplyTerm
    <2>3. /\ currentTerm' = [currentTerm EXCEPT
                               ![i] = IF m.term > @ THEN m.term ELSE @]
          /\ UNCHANGED <<electPC, electTerm, replyTerm, staleReply, blocked>>
      BY Zenon, <1>3 DEF RequestVote, electVars, syncVars
    <2>4. msgs' = (msgs \ {m}) \cup {r}
      BY Zenon, <1>3 DEF RequestVote
    <2>5. r.term <= MaxTerm
      BY Zenon, <2>2
    <2> HIDE DEF r
    <2>6. \A j \in Server : currentTerm'[j] <= MaxTerm
      BY Zenon, <1>0, <1>1, <2>1, <2>3
    <2> QED  BY Zenon, <2>3, <2>4, <2>5, <2>6, TermFrame DEF TermInv
  <1>4. CASE m \in msgs /\ AppendEntriesStale(i, m)
    <2>1. /\ UNCHANGED <<electPC, electTerm, replyTerm, staleReply, blocked,
                         currentTerm>>
          /\ msgs' = (msgs \ {m}) \cup {ReplyTo(i, m, FALSE)}
      BY Zenon, <1>4
      DEF AppendEntriesStale, electVars, syncVars, histVars, serverVars
    <2> QED  BY Zenon, <1>1, <1>2, <2>1, TermFrame DEF TermInv
  <1>5. CASE m \in msgs /\ AppendEntriesBlock(i, m)
    <2>1. /\ UNCHANGED <<electPC, electTerm, replyTerm, staleReply, currentTerm>>
          /\ msgs' = msgs \ {m} /\ blocked' = [blocked EXCEPT ![i] = {m}]
          /\ m.type = "AppendEntries"
      BY Zenon, <1>5
      DEF AppendEntriesBlock, electVars, syncVars, histVars, serverVars
    <2>2. m.term <= MaxTerm
      BY Zenon, <1>5, <2>1 DEF TermInv
    <2>3. \A j \in Server : \A q \in blocked'[j] : q.term <= MaxTerm
      BY Zenon, <1>0, <2>1, <2>2 DEF TermInv
    <2> QED  BY Zenon, <1>1, <2>1, <2>3, TermFrame
  <1>6. CASE m \in msgs /\ ProcessAppendEntriesReply(i, m)
    <2>1. /\ UNCHANGED <<electPC, electTerm, replyTerm, staleReply, currentTerm,
                         blocked>>
          /\ msgs' = msgs \ {m}
      BY Zenon, <1>6
      DEF ProcessAppendEntriesReply, electVars, syncVars, histVars, serverVars
    <2> QED  BY Zenon, <1>1, <2>1, TermFrame DEF TermInv
  <1>7. CASE \/ m \in msgs /\ AppendEntries(i, m)
             \/ m \in blocked[i] /\ AppendEntriesResume(i, m)
    <2>1. /\ Receive(i, m) /\ m \in AppendEntriesArgs /\ m.term <= MaxTerm
          /\ \A j \in Server : blocked'[j] \subseteq blocked[j]
      BY Zenon, <1>0, <1>7, MessageByType
      DEF AppendEntries, AppendEntriesResume, TermInv, TypeOK, MsgsTypeOK,
          AllMessages
    <2>2. m.term \in Nat
      BY Zenon, <2>1 DEF AppendEntriesArgs
    <2>3. /\ currentTerm' = [currentTerm EXCEPT
                               ![i] = IF m.term > @ THEN m.term ELSE @]
          /\ UNCHANGED <<electPC, electTerm, replyTerm, staleReply>>
      BY Zenon, <2>1 DEF Receive, electVars
    <2>4. \A j \in Server : currentTerm'[j] <= MaxTerm
      BY Zenon, <1>0, <1>1, <2>1, <2>2, <2>3
    <2>5. \A q \in msgs' : q.type # "AppendEntriesReply" => q.term <= MaxTerm
      <3>1. CASE Reject(i, m)
        <4>1. msgs' = (msgs \ {m}) \cup {ReplyTo(i, m, FALSE)}
          BY Zenon, <3>1 DEF Reject
        <4> QED  BY Zenon, <1>2, <4>1 DEF TermInv
      <3>2. ASSUME NEW k, Accept(i, m, k)
            PROVE  <2>5
        <4>1. PICK seen :
                msgs' = Answer(AfterWrite(i, MergedLog(i, m, k), seen), m,
                               ReplyTo(i, m, TRUE))
          BY Zenon, <3>2 DEF Accept
        <4> QED  BY Zenon, <1>2, <4>1, AfterWriteTerm
      <3> QED  BY Zenon, <2>1, <3>1, <3>2 DEF Receive
    <2> QED  BY Zenon, <2>1, <2>3, <2>4, <2>5, TermFrame DEF TermInv
  <1> QED  BY Zenon, <1>3, <1>4, <1>5, <1>6, <1>7

LEMMA TermMain ==
    ASSUME TypeOK, TermInv, TypeOK', NEW i \in Server,
           \/ MainHeartbeat(i) \/ MainHeartbeatLock(i) \/ BecomeLeader(i)
           \/ CheckLeader(i) \/ SendAppend(i) \/ ApplyCommit(i)
           \/ \E c \in Command : PutCommand(i, c)
    PROVE  TermInv'
  <1>1. /\ UNCHANGED <<electPC, electTerm, replyTerm, staleReply, currentTerm>>
        /\ UNCHANGED blocked
    BY Zenon DEF MainHeartbeat, MainHeartbeatLock, BecomeLeader, CheckLeader,
           SendAppend, ApplyCommit, PutCommand, electVars, histVars, serverVars,
           syncVars
  <1>2. \A m \in msgs' :
          m.type # "AppendEntriesReply" => m.term <= MaxTerm
    <2>1. CASE \/ MainHeartbeat(i) \/ MainHeartbeatLock(i) \/ BecomeLeader(i)
               \/ CheckLeader(i) \/ ApplyCommit(i)
      <3>1. UNCHANGED msgs
        BY Zenon, <2>1
        DEF MainHeartbeat, MainHeartbeatLock, BecomeLeader, CheckLeader,
                    ApplyCommit
      <3> QED  BY Zenon, <3>1 DEF TermInv
    <2>2. CASE SendAppend(i)
      <3>1. Request(i, sendTo[i]).term = currentTerm[i]
        BY Zenon DEF Request
      <3>2. msgs' \subseteq msgs \cup {Request(i, sendTo[i])}
        BY Zenon, <2>2 DEF SendAppend
      <3> QED  BY Zenon, <3>1, <3>2 DEF TermInv
    <2>3. ASSUME NEW c \in Command, PutCommand(i, c)
          PROVE  <1>2
      <3>1. PICK newLog, seen : msgs' = AfterWrite(i, newLog, seen)
        BY Zenon, <2>3 DEF PutCommand
      <3> QED  BY Zenon, <3>1, AfterWriteTerm
    <2> QED  BY Zenon, <2>1, <2>2, <2>3
  <1> QED  BY Zenon, <1>1, <1>2, TermFrame DEF TermInv

LEMMA TermInit == Init => TermInv
  BY BoundAssumption DEF Init, TermInv, Running

LEMMA TermStep == TypeOK /\ TermInv /\ [Next]_vars => TermInv'
  <1> SUFFICES ASSUME TypeOK, TermInv, [Next]_vars PROVE TermInv'
    BY Zenon
  <1>1. TypeOK'
    BY Zenon, TypeStep
  <1>2. CASE UNCHANGED vars
    BY Zenon, <1>2, TermFrame
    DEF TermInv, vars, serverVars, electVars, syncVars, histVars
  <1>3. CASE Next
    BY Zenon, <1>1, <1>3, TermElect, TermHandlers, TermMain DEF Next
  <1> QED  BY Zenon, <1>2, <1>3
=============================================================================
