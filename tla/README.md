# Formal models of the distributed-systems projects

The repository holds four Go programs that share no code: a TCP key-value
server (p0), a bitcoin miner over a reliable transport (p1), the Raft consensus
library (p2) and a game on a replicated store of actors (p3). This directory
holds TLA+ models of them, the TLC configurations that check the models on
small instances, and proofs checked by TLAPS that hold for every instance.

## Inventory

| Part | State | Operations | What makes it hard |
|---|---|---|---|
| p2 Raft peer, `raft/raft.go` | term, vote, role, log, commit and apply indices, nextIndex, matchIndex, mutex, three channels | election timeout, vote request and reply, heartbeat, broadcast, append request and reply, apply, PutCommand | goroutines of old elections outlive their term; channel operations under the mutex; late, lost and reordered calls |
| p2 RPC network, `rpc/rpc.go` | calls in flight, enabled links, server table | call, deliver, reply, drop, delay, disable | at-most-once execution, either half of a call may be lost |
| p1 LSP client and server, `lsp/` | connection table, sequence numbers, send window, unacknowledged set, backoff, receive buffer, epochs | connect, data, ack, epoch tick, read, write, close | loss, duplication, reordering, corruption; connection loss racing Read, Write and Close |
| p1 mining server, `bitcoin/server` | requests, free miners, work queue, work in progress | join, request, result, connection lost | reassigning the work of a lost miner; replies of lost clients; chunk arithmetic |
| p1 miner and client, `bitcoin/` | none between messages | mine a range, print a result | unsigned overflow at the end of a range |
| p1 `lspnet` | drop and delay percentages | read, write | external network |
| p0 server, `p0partA` | active and dropped counts, store, per-client write queues | accept, command, drop, count, close | one unbuffered channel shared by several callers; slow readers; close |
| p0 squarer, `p0partB` | one pending value | square, close | close while a value is pending |
| p3 mailbox, `actor/mailbox.go` | queue, closed flag, condition variable | push, pop, close | lost wakeup, close while waiting |
| p3 actor system, `actor/actor_system.go` | actors, mailboxes, remote connections | start, tell, tellAfter, remote tell, close | order per sender, delivery after close |
| p3 query actors, `kvserver/` | store with timestamps, peers, pending updates | get, put, list, sync, update, introduction | concurrent writes with last-writer-wins, joins, lost and late syncs |
| p3 kv client, `kvclient/` | none | get, put, list | a call that fails ends the game |
| p3 game, `app/cmud.go` | health, balance, items in the store | move, mine, buy, fight | read-modify-write on a store without transactions |
| p3 staff code, `staff/`, `tests/` | latency queues | write with delay | external, test harness |

Interactions: a Raft peer calls its peers through `rpc.go` only. The mining
server, miner and client talk through LSP, which talks through `lspnet`. Query
actors receive through a mailbox each, and reach actors of another server
through the actor system's remote tell. The game uses the store through the kv
client.

The hazards of each part are listed, with the line where they bite and the
properties that cover them, in `PROJECT.json`.

## Raft (p2)

### Modules

* `Raft.tla` models a set of peers `0 .. N-1` and the calls between them.
* `MCRaft.tla` gives the constants values for TLC.
* `RaftTypeProof.tla` holds the theorems on types and on the mutex,
  `RaftElectionProof.tla` those on elections and `RaftReplicationProof.tla` those
  on logs, which it puts together with the elections at its end.

A peer runs `mainRoutine`, one `startElect` goroutine per election timeout, the
RPC handlers, one goroutine per outgoing call and the `applyCommit` goroutines.
They share the fields of the `Raft` struct under `mux`. The variables
`currentTerm` to `matchIndex` are these fields. `log[i]` leaves out the dummy
entry at index 0 of the Go slice, so index k is the same on both sides and the
Go length is `Len(log[i]) + 1`.

A critical section is one action. Three of them operate on a channel before
they unlock and are split there: `mux[i]` then names the holder.

* `mainRoutine` sends `lostElect` (`MainHeartbeatLock`, then `LostElect`).
* A winner sends `beLeader` (`ElectLock`, then `Announce`).
* The `AppendEntries` handler sends on a full `receivedHb`
  (`AppendEntriesBlock`, then `AppendEntriesResume`).

`startElect` also releases `mux` between its steps: `MainTick` (the goroutine is
spawned), `StartElect`, `ElectReply` (no lock), `ElectHigher` or `ElectLock`,
`Announce`. `startAppendEntries` takes `mux` once to check leadership
(`CheckLeader`) and once per peer (`SendAppend`).

The network is the set `msgs`. A call is in it as a request until its handler
runs, then as a reply until the caller processes it. A message may stay for
ever: that is a lost request, a lost reply or a dead server. `rpc.go` runs a
handler at most once, so nothing is duplicated. `args.Entries` aliases the array
of `rf.log` and is encoded after `mux` is released, so a later append may show
in a request still in flight; `AfterWrite` lets each overwritten entry show or
not. An index out of range kills the process (`panicked`).

`granted`, `reigns`, `electedIn`, `staleReply` and `held` are history variables
that no action reads.

Peers do not restart: `NewPeer` starts from an empty state and the code persists
nothing. `Stop`, `GetState` and logging change no state.

### Runs

All runs bound the election timeouts per peer (`Timeouts`), the terms
(`MaxTerm`), the broadcast rounds (`MaxRounds`) and the log (`MaxLog`). These are
guards of `MainTick`, `StartElect`, `CheckLeader` and `PutCommand`. A peer that
has used them up stops, so deadlock is not checked.

| Run | Instance | Shows |
|---|---|---|
| raft_elections | 2 peers, one times out twice, terms to 2, 3 rounds | `TypeOK`, `MutexHolder`, `CandidateHasElection`, `GenuineMajority`, `ElectionSafetyUnlessStale` |
| raft_replication | 3 peers, one term, logs of 2 distinct entries, 2 rounds | `FollowerPrefix`, `AppliedAgree`, `AppliedInOrder`, `CommitBehindLeader`, `CommitMajority` |
| raft_two_leaders | 3 peers, each times out once, terms to 3 | `ElectionSafety` is violated |

A second timeout of one peer gives two elections that overlap, and three rounds
fill `receivedHb` (capacity 2); the properties of this run are proved for any
number of peers. Three peers are the fewest with a majority that is not
everybody, and two commands the fewest that make a swapped or skipped entry
visible. The commands reach a leader in the order 1, 2 (`CommandsInOrder`), which
only fixes their names. Followers leave heartbeats in `receivedHb`
(`HeartbeatsUnread`): here they have no timeouts and two rounds do not fill the
channel, so no other step depends on whether one was read; `raft_elections` has the
reading. The same properties hold with the reading, which takes ten times as long.
The replication properties are about one term: with several terms the code does not
keep them (see Known behaviours).

`raft_two_leaders` ends in a state that fails the check of `raft_test.go:567`: the
late reply or win of an old election acts in a newer term, and two peers lead in
one term.

### Proofs

The theorems assume only `N > 0` and that the bounds are natural numbers
(`NAssumption`, `BoundAssumption`). They hold for any number of peers, terms,
elections, rounds and entries, and for any set of commands.

* `TypeCorrect`: `Spec => []TypeOK`. `TypeOK` is inductive. The proof has one
  lemma per group of actions; each proves only the groups of `TypeOK` that the
  action touches, and `TypeFrame` carries the rest.
* `WinsAreGenuine`: `Spec => []GenuineMajority` and `OneWinnerPerTerm`:
  `Spec => []ElectionSafetyUnlessStale`. Neither is inductive, because neither
  says where the votes that a goroutine has counted come from. `ElectionInv` adds
  * `CallInv`: a call of an election has one message in flight, and a reply that
    grants is backed by a vote on record;
  * `VoteInv`: what a peer's `currentTerm` and `votedFor` say of the votes it has
    given, as long as no late reply was applied;
  * `CountInv`: `totalVotes` counts distinct voters whose replies are no longer
    in flight;
  * `ReignInv`: a reign rests on a majority of votes.

  Two majorities of one term share a voter, and a voter votes once in a term.
* `MutexCorrect`: `Spec => []MutexHolder` and `CandidatesHaveElections`:
  `Spec => []CandidateHasElection`. Both are proved by one case per action; the
  second needs the first, since a step down in `LostElect` is safe only because
  the mutex is held.

* `LogsFollowLeader`, `AppliedPrefixesAgree`, `AppliedOnce`,
  `FollowersCommitBehind` and `CommittedByMajority`: the five invariants of
  `raft_replication`, each as `Spec /\ []OneLeader => []P`. `OneLeader` says that
  one peer only has ever led, in one term or in several; with two leaders the
  code does not keep them. The inductive invariant `ReplicationInv` relates what
  is in flight to the leader's log:
  * `RequestInv`: the entries of a request are a piece of the leader's log, also
    when an append shows in a request already sent, and its `leaderCommit` is
    covered by them;
  * `ReplyInv` and `MatchInv`: a successful reply, and so `matchIndex`, is right
    about what the follower has had (not about what it still has: a late
    heartbeat may have cut it off);
  * `AppliedInv`: what any peer has applied is a prefix of the leader's log;
  * `CommitInv`: every committed entry has been in a majority of logs;
  * `OfficeInv`, `EmptyInv`, `BlockedInv`: who sends, and that nothing is in a
    log before there is a leader.

  TLC checked `ReplicationInv` on the instance of `raft_replication` first.
* `OneTermOneLeader`: with `MaxTerm = 1`, `Spec => []OneLeader`. `TermInv` bounds
  the terms of peers, elections and messages and shows that no late reply can be
  stale, so that `OneWinnerPerTerm` applies without its exception.
  `ReplicationInOneTerm` concludes the five invariants from `MaxTerm = 1` alone.

Liveness is not stated for Raft: progress depends on random timeouts and not on
the fairness of single steps, and a candidate may stop for good (see Known
behaviours).

## Mining server (p1)

`MiningServer.tla` models the server's loop, with the miners and clients as its
environment; `MCMiningServer.tla` gives the constants values. The variables
`free_miner`, `work_miner`, `task_map` and `request_queue` are the fields of the
server. One iteration of the loop, which reads a message or the news that a
connection is lost, is one action (`Handle`). LSP is taken for what `Lsp.tla`
shows of it. Integers have `Modulus` values: for a range up to the largest one both
the server's size and the bound of the miner's loop wrap to 0. A nil pointer kills
the server (`panicked`).

Run `mining`: a client whose range is three pieces and has its least hash in two of
them, a client whose range ends at the largest integer, so that it is one piece and
the miner visits only nonce 0 of it, and two miners, each of which may be lost at
any time. Two miners and two clients are
the fewest for which a request waits in the queue behind another's and a piece
comes back from a lost miner while the other is busy. It checks
`SchedulerConsistent`, `WorkConserved`, `AnswerIsMinimum`, `MinerLossSurvived`,
and `RequestsAnswered` under the fairness that the server reads what has arrived
and a connected miner works. Clients and miners may all be gone in the end, so
deadlock is not checked.

## LSP (p1)

* `LspConn.tla` is one end of a connection, the struct and the methods that client
  and server share, as operators on a record.
* `Lsp.tla` composes a client and a server over a network.
* `ReliableChannel.tla` is what the direction from client to server promises.
* `MCLsp.tla` gives the constants values.

`lsp_reference.go` has its names scrambled; the head of `LspConn.tla` and the
comments of `Lsp.tla` say which field or function is which. Each end is a loop
around a select. One iteration, sending included, is one action. The client's
reader notes the arrival of a packet before it hands it to the loop, so this takes
two (`ClientHear`, `ClientTake`).

| Run | Instance | Shows |
|---|---|---|
| lsp | client writes 3, or client 2 and server 1, or server 2; window 2; a packet may arrive any number of times, in any order, damaged, or never | `IsReliable` (refinement of `ReliableChannel`), `ClientReadsInOrder`, `CloseDelivers` |
| lsp_close | client writes 1, window 1; one packet is lost or damaged | `CloseReturns` |

Two writes with a window of two are the fewest that can be reordered and the
second of which can be acknowledged first, and a third has to wait for the window.
Larger instances hold as well and take longer: two writes of each end, two
connections of one client, and for `CloseReturns` a backoff of 1 or two losses. In
the runs the backoff is 0: every epoch retransmits.

`CloseReturns` assumes that the client's epoch timer runs, that its loop takes what
its reader has, that a data packet that is not lost is received, and that an
acknowledgement that is not lost is heard although the reader has other packets in
hand in between (strong fairness). It assumes nothing of the server's timer or of
the callers. Losses are bounded: a network that lost all data packets and nothing
else would keep the connection alive and Close waiting for ever. All may stop
calling, so deadlock is not checked.

The server's table of connections is not modelled: each packet finds its
connection by the address it came from, and the connections share only the list of
what Read will return (`vorbpe`).

## Key-value server over TCP (p0)

`KeyValueServer.tla` models the goroutines of `server_impl.go` and the store of
`kv_impl.go`; `MCKeyValueServer.tla` says which counts the callers ask for. All
channels but the write queues are unbuffered, so a send and the receive that takes
it are one action. `CountActive` and `CountDropped` send a request and receive the
answer on one channel each: with several callers, one may receive the request of
another (`Crossed`). Clients send lines with the fields that their type needs: what
`readRoutine` does with a shorter line, which it indexes all the same (163), is left
out. `Start` is the initial state. On Close `mainRoutine` closes the connections
of its list in order and stops at the first whose Close fails, which may be any
(`MainClose`).

Run `kv_tcp_server`: two clients, two callers that count over the same channel, a
write queue of length 1 so that it fills, two values for a key. It checks
`ClientsAccounted`, `OneAnswerAwaited`, `CountIsCurrent`, `MainComesBack` and
`CloseIsReceived`, which is about the caller of Close: what is closed when it
returns is under Known behaviours. Two callers are the fewest that cross, and a
queue of 1 is full after one answer that nobody reads.

The fairness assumed: `mainRoutine` goes on when it can, and its select, which
chooses at random among the ready cases, takes a Close that stays ready (strong
fairness of `MainClose`). No client has to read or send anything. After Close
everything may stop, so deadlock is not checked.

Proved in `KeyValueServerProof.tla` for any callers and any finite set of clients,
from `ClientAssumption` and `CallAssumption`: `ListIsRight` (`ClientsAccounted`),
`NobodyWaitsInVain` (`OneAnswerAwaited`) and
`CountsAreCurrent` (`CountIsCurrent`). `StageInv` follows a client from its
connection through accept's hands and the list to its end, `ListInv` says that the
list holds the served clients without repetition, which makes the index that
Terminate looks for exist and the lengths right, and `AwaitInv` that a caller
receives only while `mainRoutine` has a count for its channel. `MainComesBack` and
`CloseIsReceived` are model-checked only.

## Mailbox (p3)

* `AtomicQueue.tla` is what the comments of `mailbox.go` promise: an unbounded
  FIFO queue with a blocking Pop that ends with nothing after Close.
* `Mailbox.tla` is the code: the mutex, `cond.Wait`, `Signal` and `Broadcast`.
* `MailboxProof.tla` holds the proofs.

A critical section is one step. `cond.Wait` gives the mutex back, so a consumer
in Pop is at `lock`, `wait` or `woken`. A caller may take the mutex before a
consumer that was woken earlier, which then has to wait again. `sync.Cond` is
external: `Signal` wakes some waiting goroutine, and there are no wakeups without
a reason.

Run `mailbox` has three consumers and two producers with two messages each. Three
consumers are the fewest of which one sleeps, one was woken and one overtakes.
It checks `NoLostWakeup` and that `Mailbox` implements `AtomicQueue` with its
liveness: some waiting Pop gets a message that is there, and after Close every
Pop ends. The only fairness assumed is that a goroutine at the mutex gets it,
which `sync.Mutex` ensures. Everybody may stop calling, so deadlock is not
checked.

Proved for any producers, any finite set of consumers and any number of messages:
`TypeCorrect`, `WakeupsKept` (`Spec => []NoLostWakeup`; the invariant, which
counts woken consumers against messages, is inductive together with the types)
and `ImplementsQueue` (`Spec => Queue!SafetySpec`). The liveness part of the
refinement is model-checked only.

## Query actors (p3)

* `QueryActors.tla` models the query actors of several servers, `NewServer`, and
  the tells between actors.
* `MCQueryActors.tla` gives the numbers of actors for TLC.
* `QueryActorsProof.tla` holds the proofs.

`storage`, `putList`, `actorList` and `remoteActorList` are the fields of a
`queryActor`. A handler of `OnMessage` is one action that takes the first message
of its mailbox. `OnPut` stands for a client's query, which may come at any time.
A remote tell goes through the queue of its pair of systems (`link`), so messages
between two systems stay in order. `timer` holds the actors whose `TellAfter` has
not ended. Each put has a Uid of its own, and Uids are not in the order of puts.

Clocks are synchronized, as `tests/traces.go` assumes. Puts that no message lies
between may have the same timestamp. A put that follows the sending of an update
has a later one, since a message takes longer than the clock's resolution.

| Run | Instance | Shows |
|---|---|---|
| kv_converge | servers of 2 and 1 actors, 1 key, 2 puts | `Converged`, `TimestampsGrow` |
| kv_settles | servers of 1 actor each, 2 keys, 2 puts | `Settles` |

Two puts are the fewest that compete; a second actor is needed for an update that
goes through a representative. `Converged` is about puts made after the servers
knew of one another, because earlier ones may not reach a new server (see Known
behaviours). `Settles` assumes that goroutines of the actor system keep running:
an actor handles its messages, a timer ends, a message between systems arrives.
Nobody has to put anything, so deadlock is not checked.

Proved for any number of servers, actors, keys and puts: `TypeCorrect`,
`ContentsNeverOlder` (`Spec => TimestampsGrow`) and `ActorsConverge`
(`Spec => []Converged`). A put overwrites without looking at what is stored, so the
proofs need `ClockInv` (nothing stored has a timestamp of the future, nothing in
transit one of the present) and `PresentInv` (what was put in this instant is still
to be sent). Convergence rests on five more invariants:

* `PhaseInv`: an actor's server is not started, its `MIntro` is the first message
  of its mailbox, or it knows the actors of its server and the representatives of
  the servers started earlier. No `MIntro` comes later.
* `LinkInv`: only servers that are started are sent anything.
* `MeetInv`: a representative knows of every server started later, or the `MRIntro`
  is on its way to it.
* `EdgeInv`: what an actor stores for a key, unless older than the last
  introduction, is still to be sent, or each actor that it knows has it or
  something that wins against it, or is being sent that.
* `PutsInv`: of every put some actor has it or a later one.

When nothing is on its way every content has passed from an actor to its
representative, to any other representative and to that one's actors, in both
directions, so all are equal: winning is a total order, by timestamp and Uid.
`Settles` is model-checked only.

## Actor systems (p3)

`ActorSystem.tla` models several actor systems, the actors in them and callers that
use them as `query_receiver.go` does; `MCActorSystem.tla` places the callers. A
tell runs in the goroutine of whoever tells (`telling`), and takes an action for
each access to shared state: `Load`, then `Push` or `LoadAndDelete` and `Respond`,
or `LookUp` and `PushRemote`. A mailbox is the atomic queue that `Mailbox.tla` is
shown to implement. `remotes` is the Go map, by pairs of systems; `dialed` is the
state of `remoteSendRoutine`, `wire` what is on the connection.

Run `actors`: two systems with one actor each, two callers in the first, three
tells in all, two references per system. It checks `InOrder`, `OneAnswer`,
`CloseClosesAll` and `QueriesAnswered`. Two callers are the fewest whose messages
mix in a mailbox, and two answers to one reference are the fewest that race. The
fairness is that some goroutine that can go on does. Nobody has to call, so
deadlock is not checked.

Proved in `ActorSystemProof.tla` for any systems, callers and bounds, from
`HomeAssumption`, `BoundAssumption`, `NoneAssumption` and `CallerAssumption`:

* `AnsweredOnce` (`Spec => []OneAnswer`). `OneAnswer` is not inductive. `ChannelInv`
  adds that a reference whose message is in the channel, or on its way into it, is
  out of `infos`, and that only references that were given out are in `infos`, so
  that no new one is used already.
* `ClosedForGood` (`Spec => []CloseClosesAll`), inductive with the domains of the
  variables.
* `ToldInOrder` (`Spec => []InOrder`). What a caller tells an actor is at any time
  in one of six places: handled, in the mailbox, in the hands of the goroutine that
  serves the connection, on the wire, in the mailbox of the remote system, in the
  hands of the caller. `OrderInv` says that what is further ahead has the smaller
  number, also across places. A step drops messages, or makes the first of one place
  the last of the next one that is not always empty, or adds a message with a new
  number (`LessOrdered`, `MovedOrdered`, `TellOrder`). `Addressed` is what keeps the
  way unique: a connection carries what the callers of its first system tell actors
  of its second one, and answers, which go to references that are no actor's.

`QueriesAnswered` is model-checked only.

## The game (p3)

`Cmud.tla` models the sessions of `cmud.go` over the client of `kvclient/`;
`MCCmud.tla` scales prices, powers, healths and the rate of breaking down. A Get, a
List and a Put are one action each. A command reads, computes and ends in a
sequence of Puts that a crash may cut off anywhere; a session may be started again
with the same name. Keys are sequences of the parts between delimiters, and so are
names: the computer in a key is its third part, as in `getComputers`, which is part
of the name when the name has a delimiter in it. The store is one actor's: what
several actors make of concurrent Puts is in `QueryActors.tla`. Dice and the
iteration order of maps are nondeterministic. A character that lost everything gets the first cpu again, so
`budget` follows what a player was given or has mined.

Run `cmud`: two players at a time, `al` with `alex` or `al` with `al/x`, two kinds of
computers, three levels, one crash. It checks `PanicOnlyIfTorn`, `NothingForFree`
and `EducationGrows`. One crash suffices to cut off each sequence of Puts, and the
second player to compute on the same problem. `al` may have received 1 in all and
the other players 3: the budget limits the coins, not the attempts to mine. A player
can always type a command, so deadlock is checked.

## Known behaviours

These behaviours of the code are in the models. No property forbids them; where a
property has an exception, this is why.

Raft:
* `raft.go:181`: `LastLogIndex` is a length and the comparison adds one again, so a
  vote is given to a candidate whose log is one entry shorter.
* `raft.go:466`: `mainRoutine` holds `mux` and waits for an election goroutine that
  may itself wait for `mux`. The peer then stops for good.
* `raft.go:255`: a heartbeat that is overtaken cuts off entries that the follower
  has acknowledged; the leader's `matchIndex` stays.
* A late reply can lower `currentTerm` (`ElectHigher`). A refused heartbeat leaves
  `nextIndex` where it is (`NextIndexAfter`). A leader deposed in the middle of a
  round sends the rest of it with a term it never led (`SendAppend`).

Mining:
* `server.go:339`: a client is answered when no miner works for it, also while a
  piece of its range is still queued. What `client.go:97` prints as the final result
  is then the minimum of a part. `early` marks such clients. It takes a
  second client: `AnswerIsMinimum` has no exception for a client that is alone.
* `server.go:335`: a hash of 0 is taken for no result.
* `miner.go:63`: for a range that ends at the largest integer the loop visits
  nothing, and the answer is the hash of the first nonce.
* `server.go:158`: a miner lost after its client kills the server.

LSP, `lsp_reference.go`:
* 541 to 548: Write on a lost connection of the client answers the caller and then
  writes all the same; it panics or waits for ever. `client_api.go:20` and 21 say
  that it should not block and should return an error.
* 507 to 509: a client whose connection is made and lost in one iteration sends on a
  nil channel.
* 947 and 988: Close of the server waits for a reader that waits for the loop.
* 155: only the first Connect is acknowledged. If that packet is lost NewClient
  fails, however many Connects arrive later.

Key-value server over TCP, `server_impl.go`:
* 206 to 218: of two callers that count at once, one may get the number 1, which is
  the other's request.
* 203: one of `accept` and `mainRoutine` receives Close; the other goes on. When it
  is `accept`, no connection is closed; when it is `mainRoutine`, those after one
  whose own Close fails stay open (76 to 78), and so does one in `accept`'s hands.
  `server_api.go:27` says that all client connections should be closed.

Actor systems and store:
* `query_actor.go:163`: a server that joins late does not get what was put before.
* `actor_system.go:473`: after a failed dial the closed mailbox stays in `remotes`,
  and later tells to that system are dropped. Clients of a closed system are not
  closed, although the comment at 199 says so.
* A channel reference of a closed system never gets an answer, so its receiver waits
  for ever (`Fake`).

Game, `cmud.go`:
* A session that ends between the Puts of a lost battle (798) or of
  `InitializeCharacter` leaves a character that panics when it is played.
* 681: the prefix of a player's computers has no delimiter, so the computers of
  a player whose name is longer count too.
* 684: the third part of a key is taken for the computer. A player with the
  delimiter in the name has no power and panics at the first coin (707). A player
  whose name begins such a name has the other's count as a computer without power,
  does not get the cpu back after a lost battle, and panics then.
* 820: two players who compute on a problem at once each write what they have read
  less their own power. A Put that comes late may undo the work of others, or take
  steps off a problem that was solved and set up again in between.

## What is not modelled

* LSP checksum: arithmetic on bytes. A packet that fails it is a `Garbled` one.
* LSP with several clients at once: see above. The settings of `lspnet`, its sniffer
  and the middlebox serve tests.
* Squarer (p0): a goroutine between two channels, without state of its own.
* Game: a player named like a level, whose education and the level's problem are one
  key (`cmud.go:550` and 579), or like another key; `NamesAssumption` excludes them.
  Two sessions of one name at once: their Puts would mix, and neither `NothingForFree`
  nor `EducationGrows` would hold.
* Store: `NewServer` tells its actors and the other servers one after another
  (`server.go:127` to 145); in the model this is one step.
* Runners of p0 and p1, the map and texts of the game: terminal input and output.
* Codec and statistics of the actor system; the counter example.
* Raft's `rpc.go` beyond what a peer sees of it (links that tests disable, counters),
  the test harnesses, and the staff code that delays connections.

## What is model-checked only

Liveness, throughout, and the properties of `MiningServer`, `Lsp` and `Cmud`. The
theorems assume nothing but the named assumptions of each module, which TLC evaluates in
every run, and what their statements say.
