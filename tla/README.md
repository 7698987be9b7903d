# A TLA+ model of the Etibe backend

Etibe is a backend for rotating savings circles. Members join a circle, pay a
fixed contribution every period, and once per period one member receives the
pot. Circles live on NEAR or on Base; users hold custodial wallets and can
withdraw from them. The backend is a NestJS server over MongoDB (documents),
Redis (cache, sessions, BullMQ queues) and the two chains.

This directory holds TLA+ modules of the parts where steps of several actors,
retries and crashes meet, the TLC configurations that check them, and the TLAPS
proofs about them. Paths below are relative to the repository; `PROJECT.json`
maps every definition to the lines it stands for.

## The system

| component | state it keeps | operations | module |
|---|---|---|---|
| CircleService (`src/modules/circles/services/circle.service.ts`) | circles (status, members, currentRound, contractAddress), a five minute cache of them, contributions | activate, join, start, contribute, look up, dates and totals for clients | Circles, Schedule |
| CircleActivatedListener, PayoutSchedulerService (`.../circle-activated.listener.ts`, `.../payout-scheduler.service.ts`) | one delayed BullMQ job per round | schedule on activation, reconcile on boot | Payouts, Schedule, Circles |
| PayoutProcessor (`.../payout.processor.ts`) | the running job, payout transactions | verify, pay, record, move the round | Payouts |
| EtibeCircle (`contracts/EtibeCircle.sol`) | members, order, round, contributions, balance | addMember, setPayoutOrder, startCircle, contribute, releasePayout, emergencyWithdraw | EtibeCircle |
| WalletService (`src/modules/wallet/services/wallet.service.ts`) | verification codes in the cache, withdrawal transactions, jobs | request a code, request a withdrawal | Withdrawal |
| WithdrawalProcessor (`.../withdrawal.processor.ts`) | the running jobs | execute, settle | Withdrawal |
| SessionService, RedisService | sessions, a session per device, a list per user | create, refresh, touch, invalidate | Sessions |
| AuthService, MailService | users, one-time codes with attempts and lockouts | register, verify, resend; log in, change and reset the password | Accounts; Sessions |
| AuthGuard, VerifiedUserGuard | a cached copy of the user | admit or refuse a request | Accounts |
| BaseAccountService, NearAccountService | nonces of the signing keys, token registrations | deploy, start, add members, transfer, contribute, create accounts | Signers; their effect on a contract in Circles |
| TokenService, BaseTokenService, VaultService | none | atomic units, encryption, random codes | none |
| users, notifications, transactions, repositories | documents | read and write | where an operation above writes them |
| HTTP shell, mail templates, uploads, configuration | none | | none |

The requests, the scheduler, the queue and the jobs run in one event loop and
interleave at every `await`. Nothing spans two documents, or a document and a
chain call, so an error or a crash can cut every sequence of writes in two.
BullMQ retries failing jobs and runs the jobs of a dead worker again. Checks are
made on values read several awaits, or a cache, ago. `CIRCLE_ACTIVATED` is the
one event with an effect: it starts the scheduler.

## How the modules are written

Each call to MongoDB, Redis, the queue, a mail provider or a chain is one step;
the code between two of them belongs to the step before or after. A variable
`handler` (`pc` in Payouts, `request` and `worker` in Withdrawal) says what each
request serves and which await it is at. `StepFails` is any of these calls
throwing: the request ends there and what it wrote stays. `MaxFailures`,
`MaxCrashes` and `MaxRequests` bound a behaviour.

Much of this code is right only as long as requests do not overtake each other. A
property that just failed there would say little, and one that assumed requests to
be serial would say less. Circles, Sessions, Accounts and Signers therefore keep a
history variable `races`. A step records in it that something it relies on was
changed since it was read, by name: `"join"` is a member pushed on an outdated
list of members, `"touch"` a session written back after it was deleted. Each
property excuses exactly the named races and failures that break it. So it says
two things: this is guaranteed, and these are all the ways to lose it. Every
excuse is needed: without it TLC finds a counterexample within the bounds of the
run.

"Slip" marks a variant of an action with a plausible mistake; no specification
uses it. `PROJECT.json` pairs each property with a slip that violates it.

## Modules

### Circles

One circle from `createCircle` to its first rounds, on Base with ETH or CNGN or
on NEAR, served by concurrent requests. (USDT and USDC circles on NEAR take the
same path as NEAR ones as far as this state is concerned.)

| state | stands for |
|---|---|
| `circle`, `cache` | the document in MongoDB and `circle:<id>` in Redis |
| `deployed`, `contract` | the contracts deployed for the circle |
| `handler` | each request's operation, step, and the circle it has read |
| `paid`, `records` | executed transfers, CONFIRMED contributions per round |
| `nonces` | on NEAR, how many transactions each user's key has signed that were executed |

`Receive` to `FillCache` are `getCircleById`; `joinCircle` reads the document
directly (`FindForJoin`). Then `Deploy`, `AddCreator`, `SaveActivation`
(`activateCircle`), `PushMember`, `JoinOnChain` (`joinCircle`), `SetOrder`,
`BeginOnChain`, `SaveStart` (`startCircle`), `CheckContribution`, `PayEth`,
`PayToken` or `SignNear` and `SendNear`, `RecordContribution`
(`makeContribution`), and `Invalidate` at the end of each. `ScheduleRounds` is
the scheduler's write of `totalRounds`, `AdvanceRound` the payout processor's
move of the round; neither clears the cache. `totalContributed` is in Schedule.

A contribution on NEAR reads the nonce of the user's key and the hash of the last
block (`SignNear`) and then sends what it signed (`SendNear`,
`near-account.service.ts:854-922`). Two requests of one user that overlap sign the
same amount to the same contract; with the same nonce and block it is the same
transaction, and both are answered for one transfer. The status of the outcome is
not read, so that a transfer that failed on chain is recorded as well. A nonce that
the final view is late with is refused by the chain and is among the failing calls
here; Signers has it in detail.

- `SerialJoinsOrderly`: capacity, distinct members and positions, unless a join
  was overtaken between its read and its push.
- `OneContract`: one contract per circle and failing call, unless activations
  overlap or a stale copy was cached.
- `StartsTogether`: document and contract agree on the start, the members, their
  order and the number of rounds. The contract refuses every start that disagrees
  with it, so of all races and failures only a document that changes while it is
  started, or a join after, separates an ACTIVE circle from its contract.
- `MoneyAccounted`: each CONFIRMED contribution has a transfer of its own, but for
  transfers that failed on NEAR and for requests of one user on NEAR that overlap,
  which may share one. Only failing calls leave a transfer without its record.
- `OncePerRound`: one contribution per round and user, unless requests overlap.
- `ContractCalls`: the composition with EtibeCircle. Under the mapping `Chain(a)`
  each contract the service drives is a run of the contract's specification:
  whatever requests interleave or fail, no step of the service takes a contract
  where the Solidity code would not.

### EtibeCircle

The contract, call by call; a revert leaves the state alone, so each `require`
is a guard. Amounts are in units of the contribution. `paidTo`, `swept`,
`deposits` and `starts` are history and bounds. `Deposit` is money that arrives
outside the two contribution functions: this is how the backend's
`executeContribution` sends ETH, which the contract therefore never records.

The contract accepts an order that lists a member twice. The circle then stops
at a round whose payout is always refused: `CompletionPaysAll` and
`OrderedNeverStuck` say that this is the only way it goes wrong in a first run.
In a second run the contributions recorded in the first still count as made;
`FullRoundsPayable` therefore speaks of a first run only.

### Payouts

One circle from `startCircle` on. Members are numbered by position and member
`r` is the recipient of round `r`, as in `scheduleCirclePayouts`, which sorts the
active members and pairs them with the rounds. (That the members do not change
after the start is an assumption here; Circles has the join that lands late.)

| state | stands for |
|---|---|
| `status`, `currentRound`, `received` | the circle document: `status`, `currentRound`, the members' `hasReceivedPayout` |
| `pendingTx`, `confirmedTx` | payout transactions in MongoDB, per round |
| `answered` | payout calls of the processor that a chain service answered, per round |
| `moved` | transfers out of the circle's contract, per round |
| `jobs` | the job `payout:<circle>:<round>`: state, attempts, stalls, last reason |
| `pc`, `cur` | the await the single worker is at, and its round; `down` while the server is dead |
| `task`, `slot` | the listener or the reconciliation, and where its loop is |
| `clock` | how many payout dates have passed |

Every await of `process` is an action: `VerifyRefuses`, `VerifyBalanceRefuses`
and `VerifyAccepts` (`verifyPayoutEligibility`), `CreateTransaction`,
`ExecutePayout`, `ConfirmTransaction` (`executePayout`), `MarkPayoutReceived`,
`AdvanceRound`, `Settle`, `Finish` (`handlePayoutSuccess`). `StepFails` is any of
them throwing, `FailAttempt` what BullMQ then does. The eligibility checks are
one step because the fields they read are only written by the same worker.
`Recover`, `PromoteDue`, `PromoteRetry` and `RemoveCompleted` are BullMQ's part.
The job's `priority` makes the lowest waiting round run first, and a recovered
job goes ahead of it.

What the payout call does (`ExecutePayout`) depends on the chain. On NEAR the job
calls `fundAccount`, whose transfer is still to be written
(`near-account.service.ts:379`), or, for tokens, logs that the payout is simulated
and makes up a hash (`payout.processor.ts:338-349`). Either way it is answered
with success, the transaction is CONFIRMED, the member marked as paid and told so,
and nothing has moved. On Base it would be `releasePayout`, but the check before
it asks NEAR for the balance and refuses the job. `NothingMoves`, a part of
`IInv`, says both: `moved` stays 0 in every reachable state of either chain. What
the properties say of payouts is therefore about the calls (`answered`), the
transactions and the marks: how often the call is made is how often money would
move once the stub is filled in.

A server that is up settles the due jobs before the next date (`Tick`): dates
are a week or a month apart, retries take seconds. While it is down any number
of dates may pass. A lost lock of a worker that is still alive is not modelled.
A contract that holds too little is counted with the failing calls.

### Schedule

The calendar: payout dates as the scheduler counts them (each from the one before,
so a month that is too short moves all later ones), deadlines as the dashboard
counts them (from the start), `nextPayoutDate` (never moved on), and the two ways
the collected amount is shown. Days are counted over one fixed run of seven years,
the first a common and the second a leap year, from whose first year the start
dates are taken: February after a start has 28 days or 29, which is all that
differs. `setMonth`'s overflow into the next month is `AddMonths`. The requests
that start, schedule and pay out are single steps, because their interleavings are
the subject of Circles and Payouts.

A contribution is three (`ReadCircle`, `CreateTransaction`, `IncrementTotal`). It is
recorded under the round of the circle that was read, and added to the total of
whatever round has come by then; the circle comes from a cache that a payout
does not clear, so it may be of any round since `oldest`. Copies and requests end
before the next payout date, as five minutes are less than a week. `lost` and
`carried` are history: contributions whose second write is missing, and what is in the
total of a round without being recorded in it.

Payouts on time come at the distance of a period, a late one in the place
of a later date (`PayoutsOnSchedule`); deadlines are off by at most three days and
otherwise fit the payouts (`DeadlineFitsPayout`); the two collected amounts differ
by exactly `lost`, what is just being added, and `carried` (contributions before the
start, and those made with an overtaken copy), and each payout puts an end to the
difference (`CollectedAgrees`).

### Withdrawal

One user's withdrawal requests and the processor's workers. A request goes through
`otp`, `consume`, `check`, `create`, `queue`, one step per await of
`processWithdrawal` that reads or writes shared state; a worker through `verify`,
`send`, `confirm`, `finish`, or `fail` and `throw`, the two steps of the catch
block. `sent` counts executed transfers per transaction, `funds` is the wallet.
`Verify` ends with the signature: the nonce of the wallet's key is read from the
final view, which may be behind, and the transaction is sent later
(`withdrawal.processor.ts:229-301`). So the nonce may be used by then. The chain
refuses the transaction (`TransferRefused`), or it is the same as one that was
executed, with the same amount, destination, nonce and block, and is answered with
its outcome (`OutcomeShared`): two withdrawals are CONFIRMED for one transfer,
although nothing failed. `overlap` is the history of this, and `StatusHonest` says
that it takes such an overlap; token transfers have the transaction's id in their
memo and cannot coincide. On Base the nonce comes with the sending; what one nonce
does there is in Signers. A lock that is lost while its worker is alive is not
modelled here either: two workers never hold one job. A transfer may execute and
throw (`TransferTimesOut`), and the update to `FAILED` may fail
(`RecordFailureFails`, counted in `lostWrites`). A verification code is a number;
wrong codes, their count and the lockout show only as a code that may vanish
(`OtpRefused`, `OtpExpires`); Accounts has the same mechanism in full.

### Sessions

The sessions of one user: `session:<id>`, `user_sessions:<user>` and
`device_session:<user>:<device>` in Redis, the password and the reset token in
MongoDB. `createSession` is `GetDeviceKey`, the four calls of `invalidateSession`
for the device's old session, `StoreSession`, `ReadListToTrack`, `Track`,
`SetDeviceKey`; `invalidateSession` is `GetSession`, `DeleteSession`, `ReadList`,
`RemoveFromList`, `DeleteDeviceKey`; `touchSession` is `Touch`, `WriteBack`;
`changePassword` and `resetPassword` are `UpdatePassword` followed by
`invalidateAllUserSessions` (`ReadAll`, each invalidation, `DeleteList`). The
tokens of a session are handed out when its login is answered, so a refresh or a
logout names only sessions whose login is over (`HandedOut`). Since
all sessions live equally long, `Expire` ends the oldest. `OneSessionPerDevice`,
`SessionsTracked` and `OldPasswordEndsSessions` say which overtakings and failures
leave a second session, an untracked one, or one of an old password.

### Accounts

The account of one person. `Register`, `Create` and `Resend` with `DeleteCode`,
`DeleteAttempts` lead to `StoreCode` and `Mail`. `verifyOtp` is `ReadAttempts`,
`ReadCode` (or `ReadExpired` and `DropExpired`, which deletes whatever code there
is by then), then `CountWrong` and `Lock` or `ConsumeCode` and `ResetAttempts`;
`verifyEmail` goes on with `FindUser`, `CreateNear` and `SaveUser`. The guard is
`ReadCopy`, `ReadUser`, `FillCopy`; `SetActive` is `deactivate` and `activate`. A
code is the number of its generation, with the device it was made for, and `wrong`
and `spent` are history. `LockoutHolds` speaks of requests that find no copy of
the active user any more: up to five minutes of admittance after a deactivation
are what the cache is for, and not counted against it.

### Signers

One signing key, the operations that use it at the same time, and the nonces they
read: the master wallet on Base, a user's wallet on Base, or a NEAR key. An
operation is a sequence of transactions (`Transactions`): a start sets the order
and starts, a contribution in tokens approves and pays, a new NEAR account is
created and then registered with two tokens in the background. Base reads the
pending nonce (a contribution the latest one) and has a pool in which a
transaction can be replaced; NEAR reads the final view, which follows behind, and
answers when the transaction is executed. A transaction that is executed may have
failed nevertheless (`reverted`): it reverts on Base, and has the status `Failure`
on NEAR. The services read the status everywhere but in `deployCircleContract`
(`near-account.service.ts:715`) and NEAR's `executeContribution` (922), which
answer success for a transaction that failed (the kind `"unread"`). `AnswersTrue`:
an answer of success is about transactions that were executed with effect, in
order, and for those two about executed ones, with whatever effect; one of failure
is about transactions without effect, now and later. `AloneSucceeds`: without
failures, overlaps, an ignored pool or a stale view nothing fails and new accounts
end up registered. `TasksSettle`: every operation is answered, and the requests,
the pool and the blocks come to rest again and again. That the delay of 1500 ms
between the registrations of an account outlasts the finality of a transaction is
an assumption (`DelayOver`), as it is one of the code. Failing calls and failing
transactions share one budget, `races` keeps the first race only, and an operation
is begun by one chosen idle handler; handlers that are idle do not differ. Two
equal transactions that share an outcome are the subject of Circles and
Withdrawal.

## Runs

| run | configuration | what it shows |
|---|---|---|
| payouts_safety | `Payouts_safety.cfg` | how often the payout call of a member is made, that a marked member's is not made again and a lost round is lost, with the inductive invariant, in which nothing moves |
| payouts_live | `Payouts_live.cfg` | every job ends; without faults every member after the first is marked as paid |
| etibe_circle | `MCEtibeCircle.cfg` | the contract's safety, with its inductive invariant |
| circles | `MCCircles.cfg` | capacity, contracts, start and contributions under concurrent requests, with the inductive invariant; the refinement of EtibeCircle |
| schedule | `MCSchedule.cfg` | payout dates, deadlines, and contributions in two writes against each other, with the inductive invariant |
| withdrawal | `Withdrawal.cfg` | transfers that are signed, sent and settled by two workers: how often money moves, what the ledger says, every job ends; with the inductive invariant |
| sessions | `MCSessions.cfg` | devices, lists and passwords under concurrent requests, with the inductive invariant |
| accounts | `MCAccounts.cfg` | attempts, codes, NEAR accounts and lockout, with the inductive invariant |
| signers | `Signers.cfg` | answers and nonces of concurrent operations, with the inductive invariant; every one is answered and the chain comes to rest |
| payouts_processed | `Payouts_processed.cfg` | violated: a round "already processed" was paid |
| payouts_base | `Payouts_base.cfg` | violated: a circle on Base releases payouts |
| sessions_revoke | `Sessions_revoke.cfg` | violated: "Session revoked successfully" |

The three violated properties are statements of the code about itself; the
findings in `PROJECT.json` quote them.
- *The first member is never paid.* `startCircle` sets `currentRound` to 1 and the
  job of round 1 is refused when `currentRound >= 1`. For the same reason no
  circle is ever `COMPLETED`. (`FirstMemberUnpaid` is proved.)
- *Base payouts are never released*: the balance check asks NEAR.
  (`NothingIsMoved` proves it, with its counterpart on NEAR.)
- *Revoking a session ends none*: the list shows masked ids, and the masked id is
  what `revokeSession` passes on.

Other disagreements between text and code that the models made plain. They have no
run of their own:
- Payouts on NEAR are answered by a stub or simulated, recorded as CONFIRMED and
  announced to the member (`near-account.service.ts:379`,
  `payout.processor.ts:338`).
- Reconciliation logs that failed payouts are rescheduled
  (`payout-scheduler.service.ts:309`), but a failed job is kept
  (`payout.constants.ts:25`), so adding it again does nothing.
- A payout can be lost to a restart although the jobs are meant to survive it
  (`payout-scheduler.service.ts:39`): the server dies inside the job of round 2
  and returns after the date of round 3; round 3 runs before the stalled job is
  found, moves `currentRound` to 2, and round 2 is "already processed".
  `OvertakenIsLost` is this step's consequence.
- An idempotency key is meant to rule out a second transfer
  (`wallet.controller.ts:81`), but a crash between transfer and confirmation
  repeats it. `TransfersBounded` has the exact bound.
- The attempts configured for withdrawals (`withdrawal.constants.ts:13`) cannot
  execute anything: the first failure settles the transaction
  (`withdrawal.processor.ts:149`) and later attempts are refused.
- Of two requests that pass the duplicate check together one is answered with a
  transaction that stays `PENDING` for ever (`wallet.service.ts:290`).
- A lockout that `mail.service.ts:152` announces is undone by asking for a new
  code.
- The pending nonce is read "to avoid nonce collisions"
  (`base-account.service.ts:449`), which two requests at once still have.

### Bounds

- *Payouts.* `N` rounds: four in the safety run, so that a paid round lies before
  and after one whose member has no account; three where liveness is checked.
  Attempts are cut to two and recoveries to one, which still separates the first,
  a later and the last attempt, and a recovery from a stall that is one too many.
  Two crashes hit one job twice.
- *EtibeCircle.* Three of four accounts can be members, so that a full circle
  refuses one; two starts let the state of a first run meet a second, and
  `MaxDeposits` closes the counter of unrecorded money.
- *Circles.* Two requests at a time are the least that race, and four users with
  four places let three joins, two of them overlapping, share and skip positions
  so that the order of positions is not the stored one. Five requests reach a
  started circle (activate, two or three joins, start), and with fewer joins leave
  one over to overlap with any of them, or for a contribution before or after the
  start; one call may fail and two contracts may be deployed.
- *Schedule.* Three members give three dates, enough for a short month to move
  later ones; the start dates lie at the ends of months before and after February,
  of a common and of a leap year. One payer suffices: the totals count each member
  alike.
- *Withdrawal.* Two requests, keys and workers are the least that race, and both
  requests may pass with one code, which is checked and consumed in two steps; the
  retries can attempt more transfers than the two units of funds pay for; two
  failing calls and a crash.
- *Sessions, Accounts.* Two devices, two requests at a time, and one failing call,
  in Accounts two. Two wrong codes are allowed, so that the first and the last
  differ. Four requests are enough for each excused race and failure to do its
  damage: take one excuse out of a property and the same run finds the
  counterexample.
- *Signers.* Three operations of up to three transactions from two callers, with
  each of the four keys, and one call or one transaction that fails, so that a
  nonce can be overtaken, replaced, and left free behind a third. Two of them may
  create accounts, whose registrations then run side by side.

Handlers, accounts and users other than the creator are interchangeable; TLC uses
this symmetry only in runs without liveness properties. Deadlock is not checked:
a circle whose payouts are over, a contract in a stuck round and a user who asks
for nothing more are states the system stops in.

### Fairness

All of it is weak fairness. `Payouts!Fairness` and `Withdrawal!Fairness` cover the
continuations of the event loop (Node runs every resolved continuation), the
handing out of waiting, delayed and stalled jobs (BullMQ does all three as long
as a worker is up), the passing of time, and the restart of a dead server (its
host restarts it). `Signers!Fairness` says that a started operation goes on, that
the transaction with the next nonce is mined, and that blocks become final.
Nothing requires a user to act or a fault to happen. The other modules state no
fairness, and their properties need none.

## Proofs

| module | for every | what is proved |
|---|---|---|
| `Payouts_proofs` | number of members, attempts, recoveries, failures, crashes; both chains | `TypeCorrect`, `Invariance`, `RoundFollowsPayouts`, `BoundedPayouts`, `BackedLedger`, `NothingIsMoved`, `RoundLags`, `FirstIsNeverPaid`, `PaidStaysPaid`, `OvertakenStaysLost`, `Unblocked`, `Descent` |
| `EtibeCircle_proofs` | accounts, `maxMembers`, unrecorded money, starts | `Invariance`, `NobodyPaidTwice`, `OrderIsFollowed`, `CountersAgree`, `FirstRunNeverStuck`, `FullRoundHasItsPayout`, `CompletedMeansPaid` |
| `Withdrawal_proofs` | requests, keys, workers, funds, attempts, recoveries, failures, crashes | `Invariance`, `RepeatsBounded`, `OneTransactionPerKey`, `LedgerIsHonest`, `SettledStaysSettled`, `Descent` |
| `Accounts_proofs` | devices, requests at a time, attempt limit, failures | `Invariance`, `AttemptsAreCounted`, `LastMailIsGood`, `NoOrphansLeft`, `LockoutIsKept` |
| `Circles_proofs` | users, `maxMembers`, requests at a time, contracts, failing calls; all currencies | `Invariance`, `JoinsOrderly`, `OneContractDeployed`, `StartedTogether`, `Accounted`, `RecordedOncePerRound`, `ContractsAreCalled` |
| `Signers_proofs` | operations, requests at a time, failing calls; all signers | `Invariance`, `Truth`, `AloneSuccess`, `Unblocked`, `Descent` |
| `Sessions_proofs` | devices, requests, requests at a time, failing calls | `Invariance`, `OneSession`, `AllTracked`, `OldPasswords` |
| `Schedule_proofs` | members up to the 50 allowed, start dates, frequencies, grace periods | `Invariance`, `OnSchedule`, `DeadlinesFit`, `CountsAgree` |

Each module proves that `IInv`, an invariant checked by the component's run, is
inductive, with one lemma per action or group of actions and one step per part of
the invariant, and derives the rest from it. The assumptions used are the named
ones of the component's module.

*Payouts.* `IInv` says that the running job is the active one (`WorkerInv`), that
a job that can run has budget left and an absent one a clean record (`JobInv`),
that what verification found still holds until the member is marked
(`EligibleInv`), and, the heart of the bound, `AnsweredInv`: the payout call of an
unmarked round was answered at most once for each attempt or recovery its record
has spent, plus once if its active job is beyond the call. `RemoveCompleted` is
the one action that clears a record, and it can, because a completed job has
marked its member and a marked member is never paid again. These parts are
`JobsOrderly`, proved first (`Orderly`). On top of it come `RoundKeepsUp`, the
round is behind the marks by one per failing call or crash at most, and `BaseInv`,
no job on Base passes verification, from which `NothingMoves` follows.

*EtibeCircle.* `RunInv` says that members, order and number of rounds of a running
circle agree (`addMember` and `setPayoutOrder` are refused while it runs), and
`FirstRunInv` that a first run finds no contributions and no paid members and that
its balance covers the contributions of the round. That a completed run has paid
everybody follows by counting: the order of the run is injective and as long as
the list of members, so it reaches all of them.

*Withdrawal.* The bound `sent <= 1 + crashes + lostWrites` is not inductive: a
worker that starts a transfer at the bound breaks it. `SentInv` adds that a
transaction that is still *open*, one a worker may find `PENDING` or is about to
pay, has one transfer less behind it. `WorkerInv` keeps the books: without crashes
each active job has exactly one worker. With a crash there may be an active job
without one, which may run once more, and this is the transfer that the bound
grants. `SettlingInv` is what a worker knows at each step between the transfer and
its settling, `JobInv` ties the jobs to the requests, and `RequestInv` says what a
request has written by which step. `NonceInv`: unless the signing of two workers has
overlapped, the one that has signed holds the next nonce; so only under `overlap` can
a transfer be answered for that was another's, which is what `Backed` in
`StatusHonest` allows.

*Accounts.* `CountInv`: a request that goes on with a count has attempts left, and
without races only one does; then the wrong codes compared exceed its count by one
at most. `CodeInv`: one code at a time is on its way, the last one, and its mail
is not there yet; this survives any failing call. `OrphanInv`: one verification at
a time has consumed a code, it leaves none for another, and it is the one that
saves the only NEAR account. `LockoutIsKept` needs no more than types: a request
that reads a deactivated user carries a copy that is not active.

*Circles.* Requests act on circles they have read before, so the core of `IInv` is
what an old copy still tells. `Earlier`: a circle that anybody has read, or that
the cache holds, is a prefix of the present one, because members are only
appended, and once activated it stays so. `ContractsInv` says the same of the
order that a contract was given. From both follows `StartsTogether`, which needs
no strengthening but `Covered`: between setting the order and the start nobody can
replace the order by a shorter one, for who would has read an earlier circle, and
this is a race the property names. `JoinsInv` holds until a join is overtaken.
`ActivationsInv` is why one contract is deployed: from the deployment on, the
request that made it stands between the others and every copy that still shows the
circle PENDING, until the cache is cleared. `RoundsInv` says that a request which
found its round free finds it free when it records, and the nonce that it read
unused when it sends, as long as its user has no other one; `TokensInv` and
`DepositsInv` count transfers against what the contract has recorded and against
the requests that have yet to pay. `ContractsAreCalled` proves the refinement
action by action: a step of the service is, for every contract, a step of
EtibeCircle under `Chain(a)` or leaves it alone.

*Signers.* `OperationsInv`: an operation is run by one request, which sends its
transactions once and in order. `OrderInv` extends this order to the pool and the
ledger. `NoncesInv` is the reason: the nonces in the pool follow the used ones
without a gap, and no request is about to leave one, because every nonce it may
have read is at most the next free one. `PoolInv`: what waits in the pool is there
once and was not executed. With `FailedInv` (what failed has no effect and nothing
in flight) this gives `AnswersTrue`, whatever overlaps. `AloneInv` and
`RegistersInv` are about an operation that nothing disturbs: it holds the next
nonce, what it waits for is not replaced, and an account that was created is
registered or still has its handler, whose view is not older than its last
transaction. A step changes the handlers in one of three ways (`Goes`, `Ends`,
`Created`) and the chain in one of two (`Pools`, `Executes`), and each part of the
invariant is proved from these.

*Sessions.* `LoginsInv`: nobody knows the session of a login before it is stored,
and no list names it before it is tracked; so what other requests delete or write
back in between is not this session. `GoneInv`: a session whose keys are being
deleted is gone, unless a touch brought it back. With it `SessionsTracked` is
inductive by itself. `DevicesInv` says that the key of a device names each of its
sessions, but for a login that has stored its own and not the key yet, and what a
login may still find of its device at each of its steps: nothing but what it is
ending. `PasswordsInv` says that a session of an older password is about to be read
or ended by the request that changed it. The lists are sequences of any length;
what `Track` and `Without` do to them are lemmas.

*Schedule.* The invariant is short (`StatusInv` says that the first job is
refused, so that the first member stays the next recipient, `PayingInv` that a
contribution under way is recorded, once and under its round, exactly if the total
is its next write), the calendar is not. Dates are defined by recursion, over the
months and over the rounds, and what a recursion computes is proved without a rule
of induction: a set of numbers has a least one (`Least`, because the finite sets
`0..n` are well ordered), so there is no first round at which the claim fails
(`Steps`), a recursion has a solution (`Recursion`), and the loop that stops at
round `r` gives the dates of the one that goes through all rounds (`SameDates`).
Three days is then a fact about months (`InMonth`): until a month is too short for
the day of the start, a date is on that day; after that month all dates are one
month on and early by what it had too little, and counted from the start in one go
this is the difference of two lengths of months.

*What liveness rests on.* A liveness property fails in two ways: somebody waits
for what cannot come, or something starts over for ever. That neither happens is
safety, and proved for every value of the constants.
- `Descent` (`StepsRunOut`): `Left` counts the steps that a job or a request has
  left at most, and no step adds to it. In Payouts and Withdrawal an attempt or a
  recovery weighs more than a whole run of the job, so that a retry, a crash or a
  restart, which does put the job back to its beginning, still leaves it less. In
  Signers it counts what a request has yet to do for its transactions, and
  `Unsettled` the pool and the blocks that are not final; only the start of
  another operation, of which there are finitely many, adds to them.
- `Unblocked` (`NeverStuck`): while something is not done, somebody can act on it.
  In Signers a pool in which nothing has the next nonce would wait for ever;
  `NoncesInv` rules it out, and `ProgressInv` adds that every operation that runs
  has its request, and that a delay ends. In Payouts the worker takes the least
  waiting round first and time waits for due jobs, so each could wait for the
  other; `RecruitingInv` adds that jobs exist only in a started circle. In
  Withdrawal this is plain, because workers and queue wait for nothing but each
  other's steps.

The two theorems are about the guards as the module writes them; that a guard is when
its action is enabled, and that fairness then leads to the end, is left to TLC.

What TLC alone checks is liveness itself, which these provers cannot be given:
`LaterMembersMarked`, both `JobsSettle`, and `TasksSettle`. Every invariant and action
property of a passing run, and the refinement, is proved. `StepsRunOut` and
`NeverStuck` were model-checked on the instances of the runs before they were proved;
no run repeats this.

## Not modelled

- TokenService, BaseTokenService and VaultService: decimal strings, floating point
  and encryption. A float conversion (`near-account.service.ts:837`), a truncated
  circle id in a NEAR account name (`near-account.service.ts:643`) and a
  `Decimal128` total that the JSON cache turns into an object are hazards of
  values and names that these models have abstracted away.
- In CircleService `recordContribution` (deprecated) and `removeMember` have no
  caller, `inviteMember` only sends a mail. `cancelCirclePayouts` of the scheduler
  has no caller either.
- `register` also creates a session; a new user's first session behaves as any
  other in Sessions (`Login`).
- Mail and notification texts, uploads, HTTP filters, configuration and DTO
  validation keep no state that a property could be about; repositories are thin
  wrappers whose effect is part of the actions that call them.
- MongoDB, Redis, BullMQ and the chains are modelled from their use: single
  document updates are atomic, a queue runs a job again after a stall, a
  transaction is executed (with effect or not), is refused, is executed and the
  call throws, or is the same as another one and shares its outcome. Random codes
  are taken to be distinct, and no wrong one equals the right one.

## Left to do

The composition of Circles with Payouts, in which a join that lands after the
start meets the payout jobs.
