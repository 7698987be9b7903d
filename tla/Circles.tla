------------------------------ MODULE Circles ------------------------------
(***************************************************************************)
(* One circle from its creation to its first rounds: the requests that     *)
(* CircleService serves concurrently (activate, join, start, contribute    *)
(* and the many that only look the circle up), the circle document, the    *)
(* cached copy of it, and the contracts that were deployed for it.         *)
(*                                                                         *)
(* Each await that reads or writes something shared is a step of its own.  *)
(* No member is ever removed (nothing calls removeMember), so every member *)
(* is ACTIVE.  Circles on Base use ETH or CNGN, circles on NEAR use NEAR;  *)
(* a contract on Base is the part of EtibeCircle the service drives, see   *)
(* ContractCalls.                                                          *)
(***************************************************************************)
EXTENDS Integers, FiniteSets, Sequences, Functions

CONSTANTS
  Users,        \* the creator and those who may join
  Creator,      \* has a wallet, which createCircle asks for
  Wallets,      \* users with an account and a key on the circle's chain
  MaxMembers,   \* the circle's maxMembers
  Handlers,     \* requests served at the same time
  MaxRequests,  \* bound: requests in a behaviour
  MaxDeploys,   \* bound: contracts deployed
  MaxFailures   \* bound: failing calls in a behaviour

ASSUME UsersAssumption ==
  /\ IsFiniteSet(Users) /\ Wallets \subseteq Users
  /\ Creator \in Wallets
ASSUME MembersAssumption == MaxMembers \in 2..50
ASSUME BoundAssumption ==
  /\ IsFiniteSet(Handlers)
  /\ MaxRequests \in Nat /\ MaxDeploys \in Nat \ {0} /\ MaxFailures \in Nat

VARIABLES
  currency,  \* of the circle; it determines the chain
  circle,    \* the document in MongoDB
  cache,     \* circle:<id> in Redis
  deployed,  \* how many contracts were deployed
  contract,  \* contracts by address, on Base
  handler,   \* what each handler serves, where it is, and the circle it read
  paid,      \* transfers of contributions that the chain executed, per user
  nonces,    \* nonces of the users' keys that their contributions used, on NEAR
  records,   \* rounds of the CONFIRMED contribution transactions, per user
  races,     \* history: which checks were overtaken
  failures, requests  \* budgets spent

chainVars == <<deployed, contract, paid, nonces>>
budgets == <<failures, requests>>
vars == <<currency, circle, cache, deployed, contract, handler, paid, nonces,
          records, races, failures, requests>>

Addresses == 1..MaxDeploys
Ops == {"view", "activate", "join", "start", "contribute"}
Steps == {"idle", "lookup", "read", "fill", "deploy", "addCreator", "save",
          "join", "push", "addMember", "order", "begin", "activate", "check",
          "pay", "send", "record", "invalidate"}
Races == {"fill", "activate", "join", "late", "start", "contribute"}

OnBase == currency # "NEAR"

Member == [user: Users, position: 1..MaxMembers]
Circle == [status: {"PENDING", "RECRUITING", "ACTIVE"},
           address: {0} \cup Addresses, members: Seq(Member),
           round: Nat, totalRounds: Nat]
Contract == [active: BOOLEAN, members: SUBSET Users, order: Seq(Users),
             contributed: SUBSET Users, deposits: Nat]

NoContract == [active |-> FALSE, members |-> {}, order |-> <<>>,
               contributed |-> {}, deposits |-> 0]
Created == [status |-> "PENDING", address |-> 0,
            members |-> <<[user |-> Creator, position |-> 1]>>,
            round |-> 0, totalRounds |-> MaxMembers]
NoCircle == [status |-> "none", address |-> 0, members |-> <<>>,
             round |-> 0, totalRounds |-> 0]
Request == [op: Ops, user: Users, step: Steps, seen: Circle \cup {NoCircle},
            address: {0} \cup Addresses, nonce: Nat]
Idle == [op |-> "view", user |-> Creator, step |-> "idle",
         seen |-> NoCircle, address |-> 0, nonce |-> 0]

UsersOf(c) == {c.members[i].user : i \in 1..Len(c.members)}

TypeOK ==
  /\ currency \in {"ETH", "CNGN", "NEAR"}
  /\ circle \in Circle /\ cache \in Circle \cup {NoCircle}
  /\ deployed \in 0..MaxDeploys /\ contract \in [Addresses -> Contract]
  /\ handler \in [Handlers -> Request]
  /\ paid \in [Users -> Nat] /\ nonces \in [Users -> Nat]
  /\ records \in [Users -> Seq(Nat)]
  /\ races \subseteq Races
  /\ failures \in 0..MaxFailures /\ requests \in 0..MaxRequests

\* createCircle: the creator is the first member, nothing is on chain.
Init ==
  /\ currency \in {"ETH", "CNGN", "NEAR"}
  /\ circle = Created /\ cache = NoCircle
  /\ deployed = 0 /\ contract = [a \in Addresses |-> NoContract]
  /\ handler = [h \in Handlers |-> Idle]
  /\ paid = [u \in Users |-> 0] /\ nonces = [u \in Users |-> 0]
  /\ records = [u \in Users |-> <<>>]
  /\ races = {}
  /\ failures = 0 /\ requests = 0

-----------------------------------------------------------------------------
(* Requests and getCircleById                                              *)

At(h, step) == handler[h].step = step
Moves(h, step) == handler' = [handler EXCEPT ![h].step = step]
Ends(h) == handler' = [handler EXCEPT ![h] = Idle]

\* What each operation asks of the circle it has read.  Slip: an activated
\* circle is activated again.
MayActivateAgain(u, c) == u = Creator /\ c.status # "ACTIVE"
MayActivate(u, c) == u = Creator /\ c.status = "PENDING"
MayStart(u, c) == /\ u = Creator /\ c.status = "RECRUITING"
                  /\ Len(c.members) >= 2 /\ c.address # 0
                  /\ OnBase => UsersOf(c) \subseteq Wallets
MayContribute(u, c) == /\ c.status \in {"RECRUITING", "ACTIVE"}
                       /\ u \in Wallets /\ u \in UsersOf(c)
                       /\ c.address # 0

\* The step that follows getCircleById: none for a request that only looks,
\* or that is refused.
After(op, u, c) ==
  CASE op = "activate" /\ MayActivate(u, c) -> "deploy"
    [] op = "start" /\ MayStart(u, c) -> IF OnBase THEN "order" ELSE "activate"
    [] op = "contribute" /\ MayContribute(u, c) -> "check"
    [] OTHER -> "idle"

\* Past the check of its operation.
Admitted(h) == handler[h].step \notin {"idle", "lookup", "read", "fill"}

\* Requests overlap when one is admitted while another is.
Overlapping(h) ==
  LET s == handler[h] IN
  {op \in {"activate", "contribute"} :
     /\ s.op = op
     /\ \E g \in Handlers \ {h} :
          handler[g].op = op /\ handler[g].user = s.user /\ Admitted(g)}

\* Goes on with circle c; overtaken names what happened to the read of it.
Continue(h, c, overtaken) ==
  LET s == handler[h]
      step == After(s.op, s.user, c)
  IN /\ handler' = [handler EXCEPT ![h] =
          IF step = "idle" THEN Idle ELSE [s EXCEPT !.step = step, !.seen = c]]
     /\ races' = races \cup overtaken
                       \cup (IF step # "idle" THEN Overlapping(h) ELSE {})

\* A request arrives.  joinCircle reads the document, the others look in the
\* cache first.  To activate or start a circle of somebody else is to view it.
Receive(h, op, u) ==
  /\ At(h, "idle") /\ requests < MaxRequests
  /\ op \in {"view", "activate", "start"} => u = Creator
  /\ requests' = requests + 1
  /\ handler' = [handler EXCEPT ![h] =
       [Idle EXCEPT !.op = op, !.user = u,
                    !.step = IF op = "join" THEN "join" ELSE "lookup"]]
  /\ UNCHANGED <<currency, circle, cache, chainVars, records, races, failures>>

CacheHit(h) ==
  /\ At(h, "lookup") /\ cache # NoCircle
  /\ Continue(h, cache, {})
  /\ UNCHANGED <<currency, circle, cache, chainVars, records, budgets>>

CacheMiss(h) ==
  /\ At(h, "lookup") /\ cache = NoCircle
  /\ Moves(h, "read")
  /\ UNCHANGED <<currency, circle, cache, chainVars, records, races, budgets>>

FindById(h) ==
  /\ At(h, "read")
  /\ handler' = [handler EXCEPT ![h].step = "fill", ![h].seen = circle]
  /\ UNCHANGED <<currency, circle, cache, chainVars, records, races, budgets>>

FillCache(h) ==
  /\ At(h, "fill")
  /\ cache' = handler[h].seen
  /\ Continue(h, handler[h].seen,
              IF handler[h].seen # circle THEN {"fill"} ELSE {})
  /\ UNCHANGED <<currency, circle, chainVars, records, budgets>>

\* Five minutes pass.
CacheExpires ==
  /\ cache # NoCircle
  /\ cache' = NoCircle
  /\ UNCHANGED <<currency, circle, chainVars, handler, records, races, budgets>>

\* Every operation that writes ends with invalidateCircleCache.
Invalidate(h) ==
  /\ At(h, "invalidate")
  /\ cache' = NoCircle
  /\ Ends(h)
  /\ UNCHANGED <<currency, circle, chainVars, records, races, budgets>>

\* Any await may throw; the request ends there, what it wrote stays.
StepFails(h) ==
  /\ failures < MaxFailures /\ ~At(h, "idle")
  /\ failures' = failures + 1
  /\ Ends(h)
  /\ UNCHANGED <<currency, circle, cache, chainVars, records, races, requests>>

-----------------------------------------------------------------------------
(* activateCircle                                                          *)

\* On Base every call deploys a contract; on NEAR the account is named after
\* the circle, and one that exists is taken.
Deploy(h) ==
  /\ At(h, "deploy")
  /\ OnBase => deployed < MaxDeploys
  /\ deployed' = IF OnBase THEN deployed + 1 ELSE 1
  /\ handler' = [handler EXCEPT
       ![h].step = IF OnBase THEN "addCreator" ELSE "save",
       ![h].address = deployed']
  /\ UNCHANGED <<currency, circle, cache, contract, paid, nonces, records, races, budgets>>

\* addMember of the contract; it reverts when it is not accepted.  Slip: a
\* running circle takes members.
AcceptsRunning(a, u) == /\ u \notin contract[a].members
                        /\ Cardinality(contract[a].members) < MaxMembers
Accepts(a, u) == /\ ~contract[a].active /\ u \notin contract[a].members
                 /\ Cardinality(contract[a].members) < MaxMembers
AddOnChain(a, u) ==
  contract' = [contract EXCEPT ![a].members =
                 IF Accepts(a, u) THEN @ \cup {u} ELSE @]

AddCreator(h) ==
  /\ At(h, "addCreator")
  /\ AddOnChain(handler[h].address, Creator)
  /\ Moves(h, "save")
  /\ UNCHANGED <<currency, circle, cache, deployed, paid, nonces, records, races, budgets>>

\* The update does not ask whether the circle is still PENDING.
SaveActivation(h) ==
  /\ At(h, "save")
  /\ circle' = [circle EXCEPT !.address = handler[h].address,
                              !.status = "RECRUITING"]
  /\ Moves(h, "invalidate")
  /\ UNCHANGED <<currency, cache, chainVars, records, races, budgets>>

-----------------------------------------------------------------------------
(* joinCircle                                                              *)

\* Slip: who is there already joins again.
MayJoinAgain(u, c) == /\ c.status = "RECRUITING"
                      /\ Len(c.members) < MaxMembers

MayJoin(u, c) == /\ c.status = "RECRUITING"
                 /\ Len(c.members) < MaxMembers
                 /\ u \notin UsersOf(c)

FindForJoin(h) ==
  /\ At(h, "join")
  /\ IF MayJoin(handler[h].user, circle)
     THEN handler' = [handler EXCEPT ![h].step = "push", ![h].seen = circle]
     ELSE Ends(h)
  /\ UNCHANGED <<currency, circle, cache, chainVars, records, races, budgets>>

\* addMember of the repository pushes unconditionally.
PushMember(h) ==
  LET s == handler[h] IN
  /\ At(h, "push")
  /\ circle' = [circle EXCEPT !.members =
                  Append(@, [user |-> s.user, position |-> Len(s.seen.members) + 1])]
  /\ races' = races \cup (IF s.seen.members # circle.members THEN {"join"} ELSE {})
                    \cup (IF s.seen.status # circle.status THEN {"late"} ELSE {})
  /\ Moves(h, IF OnBase /\ s.seen.address # 0 /\ s.user \in Wallets
              THEN "addMember" ELSE "invalidate")
  /\ UNCHANGED <<currency, cache, chainVars, records, budgets>>

\* A call that reverts or fails is logged, and the request goes on.
JoinOnChain(h) ==
  /\ At(h, "addMember")
  /\ \/ AddOnChain(handler[h].seen.address, handler[h].user) /\ UNCHANGED failures
     \/ failures < MaxFailures /\ failures' = failures + 1 /\ UNCHANGED contract
  /\ Moves(h, "invalidate")
  /\ UNCHANGED <<currency, circle, cache, deployed, paid, nonces, records, races, requests>>

-----------------------------------------------------------------------------
(* startCircle                                                             *)

\* The place of member j among members m when they are sorted by position; the
\* sort is stable.
Ahead(m, i, j) == \/ m[i].position < m[j].position
                  \/ m[i].position = m[j].position /\ i <= j
Place(m, j) == Cardinality({i \in 1..Len(m) : Ahead(m, i, j)})

\* A join takes the position after those that it read, so the stored order is the
\* order of positions unless joins overtook each other.  Slip: it is not sorted.
StoredOrder(m) == [k \in 1..Len(m) |-> m[k].user]
PayoutOrder(m) == [k \in 1..Len(m) |-> m[CHOOSE j \in 1..Len(m) : Place(m, j) = k].user]

\* setPayoutOrder and startCircle revert on a contract that disagrees.
TakesOrder(a, order) ==
  /\ ~contract[a].active
  /\ Len(order) = Cardinality(contract[a].members)
  /\ \A i \in 1..Len(order) : order[i] \in contract[a].members

SetOrder(h) ==
  LET s == handler[h]
      a == s.seen.address
  IN /\ At(h, "order")
     /\ IF TakesOrder(a, PayoutOrder(s.seen.members))
        THEN /\ contract' = [contract EXCEPT ![a].order = PayoutOrder(s.seen.members)]
             /\ Moves(h, "begin")
        ELSE Ends(h) /\ UNCHANGED contract
     /\ UNCHANGED <<currency, circle, cache, deployed, paid, nonces, records, races, budgets>>

Startable(a) == /\ ~contract[a].active
                /\ Cardinality(contract[a].members) >= 2
                /\ Len(contract[a].order) = Cardinality(contract[a].members)

BeginOnChain(h) ==
  LET a == handler[h].seen.address IN
  /\ At(h, "begin")
  /\ IF Startable(a)
     THEN contract' = [contract EXCEPT ![a].active = TRUE] /\ Moves(h, "activate")
     ELSE Ends(h) /\ UNCHANGED contract
  /\ UNCHANGED <<currency, circle, cache, deployed, paid, nonces, records, races, budgets>>

\* The document follows the contract; CIRCLE_ACTIVATED is emitted.  Slip: the
\* document that was read is saved as a whole.
SaveStartWhole(h) ==
  LET seen == handler[h].seen IN
  /\ At(h, "activate")
  /\ circle' = [seen EXCEPT !.status = "ACTIVE", !.round = 1,
                            !.totalRounds = Len(seen.members)]
  /\ races' = races \cup (IF seen # circle THEN {"start"} ELSE {})
  /\ Moves(h, "invalidate")
  /\ UNCHANGED <<currency, cache, chainVars, records, budgets>>

SaveStart(h) ==
  LET seen == handler[h].seen IN
  /\ At(h, "activate")
  /\ circle' = [circle EXCEPT !.status = "ACTIVE", !.round = 1,
                              !.totalRounds = Len(seen.members)]
  /\ races' = races \cup (IF seen # circle THEN {"start"} ELSE {})
  /\ Moves(h, "invalidate")
  /\ UNCHANGED <<currency, cache, chainVars, records, budgets>>

\* scheduleCirclePayouts, after the event or on a later boot, counts the members
\* again: there may be more by now.  The cache is not touched.
ScheduleRounds ==
  /\ circle.status = "ACTIVE"
  /\ circle' = [circle EXCEPT !.totalRounds = Len(circle.members)]
  /\ UNCHANGED <<currency, cache, chainVars, handler, records, races, budgets>>

\* The payout processor moves the round without touching the cache.  On Base
\* it refuses every payout (see Payouts), so the round stays.
AdvanceRound ==
  /\ ~OnBase /\ circle.status = "ACTIVE" /\ circle.round < circle.totalRounds
  /\ circle' = [circle EXCEPT !.round = @ + 1]
  /\ UNCHANGED <<currency, cache, chainVars, handler, records, races, budgets>>

-----------------------------------------------------------------------------
(* makeContribution                                                        *)

\* hasUserContributedThisRound, with the round of the circle that was read.
HasContributed(u, round) == round \in Range(records[u])

\* Slip: the round checked is not the round recorded.
CheckOtherRound(h) ==
  /\ At(h, "check")
  /\ IF HasContributed(handler[h].user, circle.round) THEN Ends(h) ELSE Moves(h, "pay")
  /\ UNCHANGED <<currency, circle, cache, chainVars, records, races, budgets>>

CheckContribution(h) ==
  LET s == handler[h] IN
  /\ At(h, "check")
  /\ IF HasContributed(s.user, s.seen.round) THEN Ends(h) ELSE Moves(h, "pay")
  /\ UNCHANGED <<currency, circle, cache, chainVars, records, races, budgets>>

Pays(u) == paid' = [paid EXCEPT ![u] = @ + 1]

\* ETH is sent to the contract, which takes it without recording anything.
PayEth(h) ==
  LET s == handler[h] IN
  /\ At(h, "pay") /\ currency = "ETH"
  /\ contract' = [contract EXCEPT ![s.seen.address].deposits = @ + 1]
  /\ Pays(s.user)
  /\ Moves(h, "record")
  /\ UNCHANGED <<currency, circle, cache, deployed, nonces, records, races, budgets>>

\* contributeToken records the contribution, or reverts.
TakesContribution(a, u) == /\ contract[a].active /\ u \in contract[a].members
                           /\ u \notin contract[a].contributed

\* Slip: a reverted call is recorded all the same.
PayTokenUnchecked(h) ==
  LET s == handler[h]
      a == s.seen.address
  IN /\ At(h, "pay") /\ currency = "CNGN"
     /\ Moves(h, "record")
     /\ IF TakesContribution(a, s.user)
        THEN /\ contract' = [contract EXCEPT ![a].contributed = @ \cup {s.user}]
             /\ Pays(s.user)
        ELSE UNCHANGED <<contract, paid>>
     /\ UNCHANGED <<currency, circle, cache, deployed, nonces, records, races, budgets>>

PayToken(h) ==
  LET s == handler[h]
      a == s.seen.address
  IN /\ At(h, "pay") /\ currency = "CNGN"
     /\ IF TakesContribution(a, s.user)
        THEN /\ contract' = [contract EXCEPT ![a].contributed = @ \cup {s.user}]
             /\ Pays(s.user) /\ Moves(h, "record")
        ELSE Ends(h) /\ UNCHANGED <<contract, paid>>
     /\ UNCHANGED <<currency, circle, cache, deployed, nonces, records, races, budgets>>

\* On NEAR the request reads the nonce of the user's key and the last block's hash,
\* signs, and sends what it signed.
SignNear(h) ==
  /\ At(h, "pay") /\ currency = "NEAR"
  /\ handler' = [handler EXCEPT ![h].step = "send",
                                ![h].nonce = nonces[handler[h].user]]
  /\ UNCHANGED <<currency, circle, cache, chainVars, records, races, budgets>>

\* The outcome of the transfer is not looked at: one that failed on chain goes on
\* like one that was executed.  When another request has used the nonce, with a
\* transfer like this one, this one is refused; or, signed within the same block, it
\* is that transaction, whose outcome answers both.
SendNear(h) ==
  LET s == handler[h] IN
  /\ At(h, "send")
  /\ IF s.nonce = nonces[s.user]
     THEN /\ nonces' = [nonces EXCEPT ![s.user] = @ + 1]
          /\ \/ Pays(s.user) /\ UNCHANGED failures
             \/ failures < MaxFailures /\ failures' = failures + 1 /\ UNCHANGED paid
          /\ Moves(h, "record")
     ELSE /\ Moves(h, "record") \/ Ends(h)
          /\ UNCHANGED <<paid, nonces, failures>>
  /\ UNCHANGED <<currency, circle, cache, deployed, contract, records, races,
                 requests>>

RecordContribution(h) ==
  LET s == handler[h] IN
  /\ At(h, "record")
  /\ records' = [records EXCEPT ![s.user] = Append(@, s.seen.round)]
  /\ Moves(h, "invalidate")
  /\ UNCHANGED <<currency, circle, cache, chainVars, races, budgets>>

-----------------------------------------------------------------------------

Serve(h) == \/ CacheHit(h) \/ CacheMiss(h) \/ FindById(h) \/ FillCache(h)
            \/ Invalidate(h) \/ StepFails(h)
            \/ Deploy(h) \/ AddCreator(h) \/ SaveActivation(h)
            \/ FindForJoin(h) \/ PushMember(h) \/ JoinOnChain(h)
            \/ SetOrder(h) \/ BeginOnChain(h) \/ SaveStart(h)
            \/ CheckContribution(h) \/ PayEth(h) \/ PayToken(h) \/ SignNear(h) \/ SendNear(h)
            \/ RecordContribution(h)

Next == \/ \E h \in Handlers : Serve(h)
        \/ \E h \in Handlers, op \in Ops, u \in Users : Receive(h, op, u)
        \/ CacheExpires \/ ScheduleRounds \/ AdvanceRound

Spec == Init /\ [][Next]_vars

-----------------------------------------------------------------------------

\* Unless a join was overtaken between its read and its push, the circle has
\* at most maxMembers members, each once, in the positions 1, 2, ...: the check
\* of joinCircle is right, and only its distance from the push is not.
SerialJoinsOrderly ==
  "join" \notin races =>
    /\ Len(circle.members) <= MaxMembers
    /\ \A i \in 1..Len(circle.members) : circle.members[i].position = i
    /\ Cardinality(UsersOf(circle)) = Len(circle.members)

\* Activations that do not overlap, with no copy of the circle put in the cache
\* after it was outdated, deploy one contract, and one more per failing call.
OneContract ==
  races \cap {"activate", "fill"} = {} => deployed <= 1 + failures

SameCircle ==
  LET c == contract[circle.address]
      m == circle.members
  IN /\ circle.address # 0 /\ circle.totalRounds = Len(m)
     /\ c.active /\ c.members = UsersOf(circle) /\ Len(c.order) = Len(m)
     /\ \A i, j \in 1..Len(m) : m[i].position < m[j].position =>
          \E k \in 1..Len(m) : /\ c.order[k] = m[j].user
                               /\ \E l \in 1..(k - 1) : c.order[l] = m[i].user

\* startCircle starts the contract first, and the contract refuses a start that
\* disagrees with it.  So an ACTIVE document has the members, the order of their
\* positions and the number of rounds of its contract, whatever failed or raced before, unless the
\* document changed while it was started or somebody joined after.  A document
\* that was ever started has a running contract, with as many payouts as it has
\* rounds unless the same happened; a running contract has an ACTIVE document, or
\* its request is about to write it, unless a call failed or an activation was
\* let through twice.
StartsTogether ==
  OnBase =>
    /\ circle.status = "ACTIVE" /\ races \cap {"start", "late"} = {} => SameCircle
    /\ circle.round # 0 =>
         \E a \in Addresses :
           /\ contract[a].active
           /\ races \cap {"start", "late"} = {} =>
                Len(contract[a].order) = circle.totalRounds
    /\ \A a \in Addresses : contract[a].active =>
         \/ circle.status = "ACTIVE"
         \/ \E h \in Handlers : At(h, "activate") /\ handler[h].seen.address = a
         \/ failures > 0
         \/ races \cap {"activate", "fill"} # {}

Paying(u) == {h \in Handlers : At(h, "record") /\ handler[h].user = u}

\* The CONFIRMED contributions of a user, and the ones about to be recorded, are
\* backed by transfers: on Base each of them; on NEAR all but the ones that failed on
\* chain, unless requests of one user overlapped, which may share a transfer.  A
\* transfer without its transaction comes from a failing call or is about to be
\* recorded.
MoneyAccounted ==
  \A u \in Users :
    /\ OnBase \/ "contribute" \notin races =>
         Len(records[u]) + Cardinality(Paying(u))
           <= paid[u] + (IF OnBase THEN 0 ELSE failures)
    /\ paid[u] <= Len(records[u]) + failures + Cardinality(Paying(u))

\* No round has two CONFIRMED contributions of a user whose requests do not
\* overlap, however stale the round in the cache; the contract of a CNGN circle
\* takes only one even of those that do.
OncePerRound ==
  /\ "contribute" \notin races => \A u \in Users : IsInjective(records[u])
  /\ currency = "CNGN" => \A u \in Users : paid[u] <= deployed

\* The contract at each address, as EtibeCircle specifies it.
Chain(a) == INSTANCE EtibeCircle WITH
  Address <- Users, MaxDeposits <- MaxRequests, MaxStarts <- 1,
  isActive <- contract[a].active,
  currentRound <- IF contract[a].active THEN 1 ELSE 0,
  totalRounds <- IF contract[a].active THEN Len(contract[a].order) ELSE 0,
  memberList <- contract[a].members,
  hasReceivedPayout <- {},
  contributedRounds <- [u \in Users |-> IF u \in contract[a].contributed THEN 1 ELSE 0],
  payoutOrder <- contract[a].order,
  contributions <- [r \in 1..MaxMembers |->
                      IF r = 1 THEN contract[a].contributed ELSE {}],
  contributionCount <- [r \in 1..MaxMembers |->
                          IF r = 1 THEN Cardinality(contract[a].contributed) ELSE 0],
  balance <- Cardinality(contract[a].contributed) + contract[a].deposits,
  paidTo <- [u \in Users |-> 0],
  swept <- FALSE,
  deposits <- contract[a].deposits,
  starts <- IF contract[a].active THEN 1 ELSE 0

\* The service implements the contract's environment: whatever its requests do
\* to a contract, interleaved and failing, is a run of EtibeCircle.  (What is mapped
\* is contract alone, and most steps of the service do not touch it.)
ContractCalls ==
  /\ \A a \in Addresses : Chain(a)!Init
  /\ [][\/ UNCHANGED contract
        \/ \A a \in Addresses : UNCHANGED Chain(a)!vars \/ Chain(a)!Next]_vars

-----------------------------------------------------------------------------
(* The inductive invariant                                                 *)

\* The steps of each operation, and what it found in the circle before them.
Reading == {"lookup", "read", "fill"}
StepsOf(op) ==
  CASE op = "view" -> Reading \cup {"idle"}
    [] op = "activate" -> Reading \cup {"deploy", "addCreator", "save", "invalidate"}
    [] op = "join" -> {"join", "push", "addMember", "invalidate"}
    [] op = "start" -> Reading \cup {"order", "begin", "activate", "invalidate"}
    [] op = "contribute" -> Reading \cup {"check", "pay", "send", "record",
                                          "invalidate"}

Served(s) ==
  /\ s.step \in StepsOf(s.op)
  /\ s.op \in {"view", "activate", "start"} => s.user = Creator
  /\ s.step \in {"addCreator", "save"} => s.address # 0
  /\ s.step = "push" => MayJoin(s.user, s.seen)
  /\ s.step = "addMember" => s.user \in UsersOf(circle) /\ s.seen.address # 0
  /\ s.step \in {"order", "begin", "activate"} =>
       s.seen.status = "RECRUITING" /\ s.seen.address # 0
  /\ s.step \in {"check", "pay"} => s.seen.address # 0
  /\ s.step = "send" => ~OnBase

\* What anybody has read of the circle is how it once was: members are only
\* appended, and a circle that was activated stays activated.
Earlier(c) ==
  /\ Len(c.members) <= Len(circle.members)
  /\ \A i \in 1..Len(c.members) : c.members[i] = circle.members[i]
  /\ c.status \in {"RECRUITING", "ACTIVE"} => circle.status # "PENDING"
  /\ c.address <= deployed

ViewsInv ==
  /\ circle.members # <<>> /\ circle.members[1].user = Creator
  /\ circle.address <= deployed /\ (~OnBase => deployed <= 1)
  /\ Earlier(cache)

JoinsInv ==
  "join" \notin races =>
    /\ Len(circle.members) <= MaxMembers
    /\ \A i \in 1..Len(circle.members) : circle.members[i].position = i
    /\ \A i, j \in 1..Len(circle.members) :
         circle.members[i].user = circle.members[j].user => i = j

\* An activation between its check and its end, and one that has deployed.
Activating(h) == handler[h].op = "activate" /\ Admitted(h)
HasDeployed(h) == Activating(h) /\ ~At(h, "deploy")

\* Nobody can deploy a second contract before a call fails: one request is on
\* its way, and from the deployment on it stands between the other requests and
\* the copies that show the circle PENDING.
ActivationsInv ==
  /\ \A h \in Handlers :
       Activating(h) /\ At(h, "invalidate") => circle.status # "PENDING"
  /\ races \cap {"activate", "fill"} = {} =>
       /\ deployed <= 1 + failures
       /\ \A g, h \in Handlers : Activating(g) /\ Activating(h) => g = h
       /\ \A h \in Handlers : Activating(h) /\ At(h, "deploy") => deployed <= failures
       /\ "PENDING" \in {circle.status, cache.status} =>
            deployed <= failures \/ \E h \in Handlers : HasDeployed(h)
       /\ circle.status # "PENDING" /\ failures = 0 =>
            /\ \A h \in Handlers : Activating(h) => At(h, "invalidate")
            /\ cache.status = "PENDING" =>
                 \E h \in Handlers : Activating(h) /\ At(h, "invalidate")

\* A contract knows members of the circle only, and its order is the one of those
\* that a request saw.
ContractsInv ==
  \A a \in Addresses :
    LET c == contract[a] IN
    /\ a > deployed => c = NoContract
    /\ c.members \subseteq UsersOf(circle) /\ c.contributed \subseteq c.members
    /\ Len(c.order) <= Len(circle.members)
    /\ c.order = PayoutOrder(SubSeq(circle.members, 1, Len(c.order)))
    /\ c.active => /\ Len(c.order) = Cardinality(c.members)
                   /\ circle.status # "PENDING"

\* The order that was set covers the members that the request saw, and no other
\* request can replace it by a shorter one.
Covered(s) ==
  LET c == contract[s.seen.address] IN
  OnBase =>
    /\ s.step = "begin" => Cardinality(c.members) >= Len(s.seen.members)
    /\ s.step = "activate" => c.active
    /\ s.step \in {"begin", "activate"} => Len(c.order) >= Len(s.seen.members)

RequestInv(s) == /\ Served(s) /\ Covered(s)
                 /\ Earlier(s.seen) /\ s.address <= deployed

HandlersInv == \A h \in Handlers : RequestInv(handler[h])

Contributing(h) == handler[h].op = "contribute" /\ Admitted(h)

\* A request that has checked its round finds it free when it records it, and the
\* nonce that it has read free when it sends.
RoundsInv ==
  "contribute" \notin races =>
    /\ \A g, h \in Handlers :
         Contributing(g) /\ Contributing(h) /\ handler[g].user = handler[h].user => g = h
    /\ \A h \in Handlers : handler[h].step \in {"pay", "send", "record"} =>
         ~HasContributed(handler[h].user, handler[h].seen.round)
    /\ \A h \in Handlers : At(h, "send") => handler[h].nonce = nonces[handler[h].user]
    /\ \A u \in Users : IsInjective(records[u])

TokensInv ==
  currency = "CNGN" =>
    \A u \in Users :
      paid[u] = Cardinality({a \in Addresses : u \in contract[a].contributed})

\* Every deposit is paid for by a request of its own.
Unpaid == {h \in Handlers : handler[h].step \notin {"idle", "record", "invalidate"}}
DepositsInv ==
  \A a \in Addresses : contract[a].deposits + Cardinality(Unpaid) <= requests

\* StartsTogether and MoneyAccounted need no strengthening of their own.
IInv ==
  /\ TypeOK /\ ViewsInv /\ HandlersInv
  /\ JoinsInv /\ ActivationsInv
  /\ ContractsInv /\ StartsTogether
  /\ MoneyAccounted /\ RoundsInv /\ TokensInv /\ DepositsInv
=============================================================================
