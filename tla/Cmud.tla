-------------------------------- MODULE Cmud --------------------------------
(***************************************************************************)
(* The game of p3-CMUD, app/cmud.go, over the key-value client             *)
(* kvclient/client.go.  Every player runs one session, which may crash and *)
(* be started again with the same name.  A Get, a List and a Put are a     *)
(* step each, at one query actor.  A command reads, computes what to       *)
(* write, and ends with a sequence of Puts; a session that panics          *)
(* (Error, rand.Intn(0)) stops.  Rolls of the dice are nondeterministic.   *)
(***************************************************************************)
EXTENDS Integers, Sequences, SequencesExt, FiniteSetsExt

CONSTANTS
  Player,          \* the names, each the sequence of its parts between "/"
  Hardware, Location,
  cpu, prices, powers,
  Levels,          \* len(education): the levels are 1 .. Levels
  problemHealth, breakRate,
  Longer,          \* the parts of names that begin with a part, and it
  Together,        \* bound: the sets of players that enter the same game
  MaxBudget,       \* bound on what each player earns
  MaxCrashes,      \* bound on the crashes of sessions
  None             \* a key that is absent

Retired == Levels

(* A key is the sequence of its parts too: the name itself, loc/,          *)
(* balance/ and comp/ with the name, and the problem of each level.        *)
eduKey(p) == p
locKey(p) == <<"loc">> \o p
balanceKey(p) == <<"balance">> \o p
compKey(p, c) == <<"comp">> \o p \o <<c>>
problemKey(e) == <<e>>

(* What may stand in the place of a computer in a key: a computer, or the  *)
(* second part of a name.                                                  *)
Computer == Hardware \cup {p[2] : p \in {q \in Player : Len(q) > 1}}

CompKey == {compKey(p, c) : p \in Player, c \in Computer}

NamedKey == {locKey(p) : p \in Player} \cup {balanceKey(p) : p \in Player}

ProblemKey == {problemKey(e) : e \in 1 .. Levels}

(* Nobody has the name of a level, or a name that is another key.          *)
ASSUME NamesAssumption ==
  \A p \in Player : eduKey(p) \notin CompKey \cup NamedKey \cup ProblemKey

Key == Player \cup NamedKey \cup CompKey \cup ProblemKey

VARIABLES
  store,      \* the key-value store
  session,    \* where each session is, and its local variables
  crashes,    \* the number of crashes so far
  torn,       \* history: the players whose sessions crashed between Puts
              \* that only make sense together
  budget      \* history: what each player was given or has mined

vars == <<store, session, crashes, torn, budget>>

Off == [at |-> "off"]
Panic == [at |-> "panic"]
Mining == [at |-> "mining"]
Solving(e) == [at |-> "solving", problem |-> e]
Problems(e) == [at |-> "problems", problem |-> e]

Stopped(p) == session[p] \in {Off, Panic}

(* No computer and 0 of it are the same to getComputers: comp/ keys start  *)
(* at 0.                                                                   *)
Init ==
  /\ store = [k \in Key |-> IF k \in CompKey THEN 0 ELSE None]
  /\ session = [p \in Player |-> Off]
  /\ crashes = 0
  /\ torn = {}
  /\ budget = [p \in Player |-> 0]

Goto(p, s) ==
  /\ session' = [session EXCEPT ![p] = s]
  /\ UNCHANGED <<store, crashes, torn, budget>>

Entry(k, v) == [key |-> k, value |-> v]

(* The command cmd goes on to do these Puts, then goes to the state next.  *)
PutAll(p, cmd, puts, next) ==
  Goto(p, [at |-> "put", cmd |-> cmd, puts |-> puts, next |-> next])

Balance(p) ==
  IF store[balanceKey(p)] = None THEN 0 ELSE store[balanceKey(p)]

Worth(p) ==
  Balance(p)
    + MapThenSumSet(LAMBDA h : prices[h] * store[compKey(p, h)], Hardware)

(* What the player is allowed to own after the Put e of a command: a mined *)
(* coin adds to it, and the last Put of a lost battle, or of the creation  *)
(* of a character, hands out a cpu.                                        *)
Budget(p, cmd, e, last) ==
  CASE cmd = "mine" -> budget[p] + e.value - store[e.key]
    [] cmd \in {"create", "lost"} /\ last ->
         Balance(p) + prices[cpu]
    [] OTHER -> budget[p]

Put(p) ==
  /\ session[p].at = "put"
  /\ LET s == session[p]
         e == Head(s.puts)
         last == Len(s.puts) = 1
     IN  /\ store' = [store EXCEPT ![e.key] = e.value]
         /\ session' = [session EXCEPT ![p] =
                          IF last THEN s.next
                          ELSE [s EXCEPT !.puts = Tail(s.puts)]]
         /\ budget' = [budget EXCEPT ![p] = Budget(p, s.cmd, e, last)]
  /\ UNCHANGED <<crashes, torn>>

(***************************************************************************)
(* Starting                                                                *)
(***************************************************************************)
KnownNever(p) == FALSE

Known(p) == store[eduKey(p)] # None

Entered == {p \in Player : Known(p) \/ ~Stopped(p)}

InitializeCharacter(p) ==
  /\ Stopped(p)
  /\ \E players \in Together : Entered \cup {p} \subseteq players
  /\ IF Known(p)
     THEN Goto(p, Problems(1))
     ELSE PutAll(p, "create",
                 << Entry(eduKey(p), 1), Entry(locKey(p), 5),
                    Entry(balanceKey(p), 0), Entry(compKey(p, cpu), 1) >>,
                 Problems(1))

InitializeProblems(p) ==
  /\ session[p].at = "problems"
  /\ LET e == session[p].problem
         next == IF e = Levels THEN Mining ELSE Problems(e + 1)
     IN  IF store[problemKey(e)] # None
         THEN Goto(p, next)
         ELSE PutAll(p, "problems",
                     << Entry(problemKey(e), problemHealth[e]) >>, next)

(***************************************************************************)
(* Mining, moving and buying                                               *)
(***************************************************************************)
move(p, l) ==
  /\ session[p] = Mining
  /\ PutAll(p, "move", << Entry(locKey(p), l) >>, Mining)

(* A getBalance that leads to the state next, if there is a balance.       *)
getBalance(p, next) ==
  Goto(p, IF store[balanceKey(p)] = None THEN Panic ELSE next)

(* The command inv, at both prompts.                                       *)
Inventory(p) ==
  /\ session[p].at \in {"mining", "solving"}
  /\ getBalance(p, session[p])

(* The keys that begin with comp/ and the name, with nothing between the   *)
(* name and what follows it.                                               *)
Listed ==
  [p \in Player |->
     LET prefix == <<"comp">> \o p
         n == Len(prefix)
     IN  {k \in CompKey : /\ Len(k) > n
                          /\ SubSeq(k, 1, n - 1) = Front(prefix)
                          /\ k[n] \in Longer[prefix[n]]}]

(* What getComputers may return.  The computer is the third part of a key, *)
(* which in a name with a delimiter is a part of the name; of two keys     *)
(* with the same one the one that the map's iteration gives last counts.   *)
getComputers(p) ==
  LET found == {k \in Listed[p] : store[k] > 0}
      counts(c) == {store[k] : k \in {l \in found : l[3] = c}}
      computers == {k[3] : k \in found}
  IN  {v \in [computers -> UNION {counts(c) : c \in computers}] :
         \A c \in computers : v[c] \in counts(c)}

(* The map powers has 0 for what is no computer.                           *)
getComputingPower(v) ==
  MapThenSumSet(LAMBDA h : powers[h] * v[h], Hardware \cap DOMAIN v)

(* An attempt; the command mine num makes num of them one after another.   *)
mine(p) ==
  /\ session[p] = Mining
  /\ getBalance(p, [at |-> "mined", balance |-> store[balanceKey(p)]])

(* The roll of an attempt is too high.                                     *)
NoCoin(p) ==
  /\ session[p].at = "mined"
  /\ Goto(p, Mining)

getMinedCoins(p) ==
  /\ session[p].at = "mined"
  /\ \E v \in getComputers(p) :
       LET power == getComputingPower(v)
       IN  IF power = 0
           THEN Goto(p, Panic)
           ELSE \E coins \in 1 .. power :
                  /\ budget[p] + coins <= MaxBudget[p]
                  /\ PutAll(p, "mine", << Entry(balanceKey(p),
                              session[p].balance + coins) >>, Mining)

buy(p, h) ==
  /\ session[p] = Mining
  /\ getBalance(p, [at |-> "buying", comp |-> h,
                   balance |-> store[balanceKey(p)]])

PurchaseBeforePay(p, h, b, n) ==
  << Entry(compKey(p, h), n + b \div prices[h]),
     Entry(balanceKey(p), b % prices[h]) >>

(* The Puts of a purchase of as many of h as the balance b pays for, added *)
(* to the n there are: the balance first.                                  *)
Purchase(p, h, b, n) ==
  << Entry(balanceKey(p), b % prices[h]),
     Entry(compKey(p, h), n + b \div prices[h]) >>

Bought(p) ==
  /\ session[p].at = "buying"
  /\ LET h == session[p].comp
         b == session[p].balance
     IN  \E v \in getComputers(p) :
           IF b >= prices[h]
           THEN PutAll(p, "buy",
                  Purchase(p, h, b, IF h \in DOMAIN v THEN v[h] ELSE 0),
                  Mining)
           ELSE Goto(p, Mining)

(***************************************************************************)
(* Solving problems                                                        *)
(***************************************************************************)
SolveProblem(p) ==
  /\ session[p] = Mining
  /\ store[eduKey(p)] # Retired
  /\ Goto(p, Solving(store[eduKey(p)]))

Resign(p) ==
  /\ session[p].at = "solving"
  /\ Goto(p, Mining)

RestoredNever(p, total) == << >>

(* Whoever is left without a computer gets the starting cpu back.          *)
Restored(p, total) ==
  IF total = 0 THEN << Entry(compKey(p, cpu), 1) >> ELSE << >>

(* The counts that are left are written in the order of a map's iteration. *)
BreakHardware(p) ==
  /\ session[p].at = "solving"
  /\ \E v \in getComputers(p) :
       LET computers == DOMAIN v
       IN  IF computers = {}
           THEN Goto(p, Panic)
           ELSE \E broken \in computers, order \in SetToSeqs(computers) :
                  LET left == [v EXCEPT ![broken] = @ \div breakRate]
                      total == MapThenSumSet(LAMBDA c : left[c], computers)
                      puts == [i \in 1 .. Len(order) |->
                                 Entry(compKey(p, order[i]), left[order[i]])]
                  IN  PutAll(p, IF total = 0 THEN "lost" ELSE "break",
                             puts \o Restored(p, total),
                             IF total = 0 THEN Mining ELSE session[p])

ComputePower(p) ==
  /\ session[p].at = "solving"
  /\ \E v \in getComputers(p) :
       Goto(p, [at |-> "computing", problem |-> session[p].problem,
                power |-> getComputingPower(v)])

NextEducation(e) == IF e < Levels - 1 THEN e + 1 ELSE Retired

NotSolved(remaining, power) == remaining > power

ComputeProblem(p) ==
  /\ session[p].at = "computing"
  /\ LET e == session[p].problem
         power == session[p].power
         absent == store[problemKey(e)] = None
         full == Entry(problemKey(e), problemHealth[e])
         remaining == IF absent THEN full.value ELSE store[problemKey(e)]
         first == IF absent THEN << full >> ELSE << >>
     IN  IF NotSolved(remaining, power)
         THEN PutAll(p, "solve",
                first \o << Entry(problemKey(e), remaining - power) >>,
                Solving(e))
         ELSE PutAll(p, "solve",
                first \o << full, Entry(eduKey(p), NextEducation(e)) >>,
                Mining)

(***************************************************************************)
(* A session ends at any point: it is killed, or a call fails and Get, Put *)
(* or List panics.                                                         *)
(***************************************************************************)
(* The players whose computers getComputers lists as well.                 *)
NamedLike ==
  [p \in Player |->
     {q \in Player : \E c \in Hardware : compKey(q, c) \in Listed[p]}]

Fragile(p) ==
  {"create", "lost"} \cup (IF NamedLike[p] = {p} THEN {} ELSE {"break"})

Crash(p) ==
  /\ ~Stopped(p)
  /\ crashes < MaxCrashes
  /\ crashes' = crashes + 1
  /\ session' = [session EXCEPT ![p] = Off]
  /\ torn' = IF session[p].at = "put" /\ session[p].cmd \in Fragile(p)
             THEN torn \cup {p} ELSE torn
  /\ UNCHANGED <<store, budget>>

Next ==
  \E p \in Player :
    \/ Put(p)
    \/ InitializeCharacter(p)
    \/ InitializeProblems(p)
    \/ \E l \in Location : move(p, l)
    \/ Inventory(p)
    \/ mine(p)
    \/ NoCoin(p)
    \/ getMinedCoins(p)
    \/ \E h \in Hardware : buy(p, h)
    \/ Bought(p)
    \/ SolveProblem(p)
    \/ Resign(p)
    \/ BreakHardware(p)
    \/ ComputePower(p)
    \/ ComputeProblem(p)
    \/ Crash(p)

Spec == Init /\ [][Next]_vars

(***************************************************************************)
(* Properties                                                              *)
(***************************************************************************)
(* A session panics (no balance at getBalance, line 665, no power at       *)
(* rand.Intn, line 707, no computer at line 767) only if an earlier one of *)
(* the player was cut off between the Puts of InitializeCharacter or of a  *)
(* lost battle in ComputeProblem (of any break of hardware, for a name     *)
(* that begins another's); a crash anywhere else leaves a character that   *)
(* can be played on.  Names with the delimiter in them, and names that     *)
(* begin such a name, are excepted: getComputers (line 684) takes a part   *)
(* of the name for a computer without power.                               *)
PanicOnlyIfTorn ==
  \A p \in Player :
    (session[p] = Panic /\ \A q \in NamedLike[p] : Len(q) = 1) => p \in torn

(* Nobody owns more, in coins and in computers at the prices of the shop,  *)
(* than they were given or have mined, wherever buy and mine are cut off,  *)
(* if nobody else's name begins with theirs.                               *)
NothingForFree ==
  \A p \in Player :
    NamedLike[p] = {p} => Worth(p) <= budget[p]

(* Education goes up a level at a time and is never lost, over crashes and *)
(* restarts (InitializeCharacter, ComputeProblem).                         *)
EducationGrows ==
  [][\A p \in Player :
       \/ store'[eduKey(p)] = store[eduKey(p)]
       \/ store[eduKey(p)] = None /\ store'[eduKey(p)] = 1
       \/ store[eduKey(p)] # None
            /\ store'[eduKey(p)] = store[eduKey(p)] + 1]_vars
=============================================================================
