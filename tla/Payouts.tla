------------------------------ MODULE Payouts ------------------------------
(***************************************************************************)
(* The automated payouts of one savings circle, from the moment its        *)
(* creator starts it: PayoutSchedulerService puts one delayed BullMQ job   *)
(* per round in the queue, PayoutProcessor runs them one at a time, and    *)
(* each job marks one member as paid and moves the circle's currentRound.  *)
(*                                                                         *)
(* The circle's active members are numbered by their position, so member r *)
(* is the recipient of round r.  MongoDB and Redis survive a crash; the    *)
(* listener, the scheduler loop and the running job do not.  Every await   *)
(* of the job is a step, because a crash or an error can separate any two. *)
(***************************************************************************)
EXTENDS Integers, FiniteSets

CONSTANTS
  N,            \* number of active members, hence of rounds
  Chain,        \* the circle's chain, "NEAR" or "BASE"
  Linked,       \* the members whose user has an account on that chain
  MaxAttempts,  \* attempts BullMQ gives a job (PAYOUT_RETRY_CONFIG)
  MaxStalled,   \* times BullMQ recovers a job whose worker died
  MaxFailures,  \* bound: failing calls in a behaviour
  MaxCrashes    \* bound: crashes of the server in a behaviour

ASSUME NAssumption == N \in Nat /\ N >= 2
ASSUME ChainAssumption == Chain \in {"NEAR", "BASE"}
ASSUME LinkedAssumption == Linked \subseteq 1..N
ASSUME RetryAssumption == MaxAttempts \in Nat \ {0} /\ MaxStalled \in Nat
ASSUME BoundAssumption == MaxFailures \in Nat /\ MaxCrashes \in Nat

Rounds == 1..N

VARIABLES
  status,       \* circle.status
  currentRound, \* circle.currentRound
  received,     \* members with hasReceivedPayout
  pendingTx,    \* PENDING payout transactions, per round
  confirmedTx,  \* CONFIRMED payout transactions, per round
  answered,     \* payout calls the chain service answered, per round
  moved,        \* transfers out of the circle's contract, per round
  jobs,         \* the job payout:<circle>:<round> in Redis, per round
  pc,           \* what the worker is about to do; "down" when it is dead
  cur,          \* round of the running job, 0 if none
  task,         \* the asynchronous scheduling work of this process
  slot,         \* round its loop is at
  clock,        \* number of payout dates that have passed
  failures, crashes  \* budgets spent

circleVars == <<status, currentRound, received>>
txVars == <<pendingTx, confirmedTx, answered, moved>>
taskVars == <<task, slot>>
envVars == <<clock, failures, crashes>>
vars == <<status, currentRound, received, pendingTx, confirmedTx, answered,
          moved, jobs, pc, cur, task, slot, clock, failures, crashes>>

JobStates == {"none", "delayed", "waiting", "active", "completed", "failed"}
Reasons == {"none", "error", "status", "already processed", "received",
            "account", "balance", "stalled"}
Job == [state: JobStates, attempts: 0..MaxAttempts,
        stalls: 0..(MaxStalled + 1), reason: Reasons]
NoJob == [state |-> "none", attempts |-> 0, stalls |-> 0, reason |-> "none"]

Steps == {"verify", "create", "pay", "confirm", "mark", "advance", "settle",
          "notify"}
Up == pc # "down"
Running == pc \in Steps

CircleTypeOK ==
  /\ status \in {"RECRUITING", "ACTIVE", "COMPLETED"}
  /\ currentRound \in Nat
  /\ received \subseteq Rounds
TxTypeOK ==
  /\ pendingTx \in [Rounds -> Nat]
  /\ confirmedTx \in [Rounds -> Nat]
  /\ answered \in [Rounds -> Nat]
  /\ moved \in [Rounds -> Nat]
JobTypeOK == jobs \in [Rounds -> Job]
WorkerTypeOK == pc \in Steps \cup {"idle", "down"} /\ cur \in 0..N
TaskTypeOK ==
  /\ task \in {"none", "listener", "reconcile", "loop"}
  /\ slot \in 1..(N + 1)
  /\ task = "loop" => slot <= N
EnvTypeOK ==
  clock \in 0..N /\ failures \in 0..MaxFailures /\ crashes \in 0..MaxCrashes
TypeOK == /\ CircleTypeOK /\ TxTypeOK /\ JobTypeOK
          /\ WorkerTypeOK /\ TaskTypeOK /\ EnvTypeOK

\* A circle ready to be started, in a server that has finished booting.
Init ==
  /\ status = "RECRUITING"
  /\ currentRound = 0
  /\ received = {}
  /\ pendingTx = [r \in Rounds |-> 0]
  /\ confirmedTx = [r \in Rounds |-> 0]
  /\ answered = [r \in Rounds |-> 0]
  /\ moved = [r \in Rounds |-> 0]
  /\ jobs = [r \in Rounds |-> NoJob]
  /\ pc = "idle" /\ cur = 0
  /\ task = "none" /\ slot = 1
  /\ clock = 0 /\ failures = 0 /\ crashes = 0

-----------------------------------------------------------------------------
(* Starting the circle, and scheduling its payouts                         *)

\* startCircle: the database update, then CIRCLE_ACTIVATED is emitted.
StartCircle ==
  /\ Up /\ task = "none"
  /\ status = "RECRUITING"
  /\ status' = "ACTIVE"
  /\ currentRound' = 1
  /\ task' = "listener"
  /\ UNCHANGED <<received, txVars, jobs, pc, cur, slot, envVars>>

\* handleCircleActivated reads the circle and enters scheduleCirclePayouts.
ListenerReads ==
  /\ Up /\ task = "listener"
  /\ IF status = "ACTIVE" THEN task' = "loop" ELSE task' = "none"
  /\ slot' = 1
  /\ UNCHANGED <<circleVars, txVars, jobs, pc, cur, envVars>>

\* The rounds getCirclePayoutSchedule lists: a failed job is in none of the
\* four lists it asks for, and a due job with a priority need not be in the
\* wait list (BullMQ keeps prioritised jobs apart).
Listed(seeDue) ==
  {r \in Rounds : \/ jobs[r].state \in {"delayed", "active", "completed"}
                  \/ jobs[r].state = "waiting" /\ seeDue}

\* reconcilePendingPayouts, on boot.
Reconcile ==
  /\ Up /\ task = "reconcile"
  /\ \E seeDue \in BOOLEAN :
       IF status = "ACTIVE" /\ (Rounds \ received) \ Listed(seeDue) # {}
       THEN task' = "loop"
       ELSE task' = "none"
  /\ slot' = 1
  /\ UNCHANGED <<circleVars, txVars, jobs, pc, cur, envVars>>

\* The loop ends after the last round.
Continue == /\ slot' = slot + 1
            /\ task' = IF slot = N THEN "none" ELSE "loop"

\* One round of scheduleCirclePayouts.  getJob finds a job in any state, a
\* failed one included, so only an absent job is added; its delay is what is
\* left until the payout date, and none when that has passed.
ScheduleRound ==
  /\ Up /\ task = "loop"
  /\ Continue
  /\ IF slot \in Linked /\ jobs[slot].state = "none"
     THEN jobs' = [jobs EXCEPT ![slot].state =
                     IF clock >= slot THEN "waiting" ELSE "delayed"]
     ELSE UNCHANGED jobs
  /\ UNCHANGED <<circleVars, txVars, pc, cur, envVars>>

\* getJob or add throws for one round: caught, the loop goes on.
ScheduleRoundFails ==
  /\ Up /\ task = "loop" /\ failures < MaxFailures
  /\ failures' = failures + 1
  /\ Continue
  /\ UNCHANGED <<circleVars, txVars, jobs, pc, cur, clock, crashes>>

\* A database or queue read outside the loop's try throws: the listener, or
\* the reconciliation, catches it and logs it, and nobody tries again.
SchedulingAborts ==
  /\ Up /\ task # "none" /\ failures < MaxFailures
  /\ failures' = failures + 1
  /\ task' = "none"
  /\ UNCHANGED <<circleVars, txVars, jobs, pc, cur, slot, clock, crashes>>

-----------------------------------------------------------------------------
(* The queue                                                               *)

\* The jobs of the payout dates that have passed are settled.
DueJobsSettled ==
  /\ task = "none"
  /\ \A r \in 1..clock : jobs[r].state \notin {"delayed", "waiting", "active"}

\* The next payout date passes.  Payout dates are a week or more apart and
\* the retries of a job take seconds, so a server that is up has settled what
\* is due before the next date; any number of dates pass while it is down.
Tick ==
  /\ status # "RECRUITING" /\ clock < N
  /\ Up => DueJobsSettled
  /\ clock' = clock + 1
  /\ UNCHANGED <<circleVars, txVars, jobs, pc, cur, taskVars, failures, crashes>>

Due(r) == jobs[r].state = "delayed" /\ clock >= r

\* The jobs whose payout date has passed leave the delayed set together.
PromoteDue ==
  /\ Up
  /\ \E r \in Rounds : Due(r) /\ jobs[r].attempts = 0
  /\ jobs' = [r \in Rounds |-> IF Due(r) /\ jobs[r].attempts = 0
                               THEN [jobs[r] EXCEPT !.state = "waiting"]
                               ELSE jobs[r]]
  /\ UNCHANGED <<circleVars, txVars, pc, cur, taskVars, envVars>>

\* Slip: the first retry is never promoted.
PromoteLateRetry(r) ==
  /\ Up /\ Due(r) /\ jobs[r].attempts > 1
  /\ jobs' = [jobs EXCEPT ![r].state = "waiting"]
  /\ UNCHANGED <<circleVars, txVars, pc, cur, taskVars, envVars>>

\* The backoff of a failed attempt is over.
PromoteRetry(r) ==
  /\ Up /\ Due(r) /\ jobs[r].attempts > 0
  /\ jobs' = [jobs EXCEPT ![r].state = "waiting"]
  /\ UNCHANGED <<circleVars, txVars, pc, cur, taskVars, envVars>>

\* The worker, which runs one job at a time, takes a job when the due ones have
\* left the delayed set: the lowest round, or one that was put back at the
\* front because its worker died.
Take(r) ==
  /\ pc = "idle" /\ jobs[r].state = "waiting"
  /\ \A q \in Rounds : Due(q) => jobs[q].attempts > 0
  /\ \/ jobs[r].stalls > 0
     \/ \A q \in Rounds : jobs[q].state = "waiting" => q >= r
  /\ jobs' = [jobs EXCEPT ![r].state = "active"]
  /\ pc' = "verify" /\ cur' = r
  /\ UNCHANGED <<circleVars, txVars, taskVars, envVars>>

\* Slip: no limit on recoveries.
RecoverAlways(r) ==
  /\ Up /\ jobs[r].state = "active" /\ cur # r
  /\ jobs' = [jobs EXCEPT ![r].state = "waiting"]
  /\ UNCHANGED <<circleVars, txVars, pc, cur, taskVars, envVars>>

\* A job left active by a dead worker goes back to the queue, or fails when
\* that has happened too often.
Recover(r) ==
  /\ Up /\ jobs[r].state = "active" /\ cur # r
  /\ jobs' = [jobs EXCEPT ![r] =
       [state |-> IF @.stalls < MaxStalled THEN "waiting" ELSE "failed",
        attempts |-> @.attempts, stalls |-> @.stalls + 1,
        reason |-> IF @.stalls < MaxStalled THEN @.reason ELSE "stalled"]]
  /\ UNCHANGED <<circleVars, txVars, pc, cur, taskVars, envVars>>

\* Slip: removeOnFail is on as well.
RemoveSettled(r) ==
  /\ jobs[r].state \in {"completed", "failed"}
  /\ jobs' = [jobs EXCEPT ![r] = NoJob]
  /\ UNCHANGED <<circleVars, txVars, pc, cur, taskVars, envVars>>

\* removeOnComplete: completed jobs are dropped by count or age; failed jobs
\* are kept (removeOnFail: false).
RemoveCompleted(r) ==
  /\ jobs[r].state = "completed"
  /\ jobs' = [jobs EXCEPT ![r] = NoJob]
  /\ UNCHANGED <<circleVars, txVars, pc, cur, taskVars, envVars>>

\* The job throws: BullMQ counts the attempt and delays the job for another
\* one, or leaves it failed after the last.
FailAttempt(why) ==
  /\ jobs' = [jobs EXCEPT ![cur] =
       [state |-> IF @.attempts + 1 < MaxAttempts THEN "delayed" ELSE "failed",
        attempts |-> @.attempts + 1, stalls |-> @.stalls, reason |-> why]]
  /\ pc' = "idle" /\ cur' = 0

-----------------------------------------------------------------------------
(* The job: PayoutProcessor.process                                        *)

At(step) == pc = step
Goto(step) == pc' = step /\ cur' = cur

\* Slips in the eligibility checks: no check of hasReceivedPayout, no check of the
\* round.
RefusalUnpaid(r) ==
  CASE status # "ACTIVE"    -> "status"
    [] currentRound >= r    -> "already processed"
    [] r \notin Linked      -> "account"
    [] OTHER                -> "none"
RefusalAnyRound(r) ==
  CASE status # "ACTIVE"    -> "status"
    [] r \in received       -> "received"
    [] r \notin Linked      -> "account"
    [] OTHER                -> "none"

\* The checks of verifyPayoutEligibility before the balance, in their order.
Refusal(r) ==
  CASE status # "ACTIVE"    -> "status"
    [] currentRound >= r    -> "already processed"
    [] r \in received       -> "received"
    [] r \notin Linked      -> "account"
    [] OTHER                -> "none"

VerifyRefuses ==
  /\ At("verify") /\ Refusal(cur) # "none"
  /\ FailAttempt(Refusal(cur))
  /\ UNCHANGED <<circleVars, txVars, taskVars, envVars>>

\* verifyContractBalance always asks the NEAR services.  For the contract of
\* a Base circle getTokenBalance answers "0", so its payout is refused.
VerifyBalanceRefuses ==
  /\ At("verify") /\ Refusal(cur) = "none"
  /\ \/ Chain = "BASE" /\ UNCHANGED failures
     \/ /\ Chain = "NEAR" /\ failures < MaxFailures
        /\ failures' = failures + 1
  /\ FailAttempt("balance")
  /\ UNCHANGED <<circleVars, txVars, taskVars, clock, crashes>>

VerifyAccepts ==
  /\ At("verify") /\ Refusal(cur) = "none" /\ Chain = "NEAR"
  /\ Goto("create")
  /\ UNCHANGED <<circleVars, txVars, jobs, taskVars, envVars>>

\* executePayout: a PENDING transaction, the payout call, its confirmation.
CreateTransaction ==
  /\ At("create")
  /\ pendingTx' = [pendingTx EXCEPT ![cur] = @ + 1]
  /\ Goto("pay")
  /\ UNCHANGED <<circleVars, confirmedTx, answered, moved, jobs, taskVars, envVars>>

\* The chain service answers.  Only releasePayout, for a Base circle, moves
\* money: fundAccount is a stub, and a payout in tokens is simulated.
ExecutePayout ==
  /\ At("pay")
  /\ answered' = [answered EXCEPT ![cur] = @ + 1]
  /\ moved' = [moved EXCEPT ![cur] = @ + IF Chain = "BASE" THEN 1 ELSE 0]
  /\ Goto("confirm")
  /\ UNCHANGED <<circleVars, pendingTx, confirmedTx, jobs, taskVars, envVars>>

ConfirmTransaction ==
  /\ At("confirm")
  /\ pendingTx' = [pendingTx EXCEPT ![cur] = @ - 1]
  /\ confirmedTx' = [confirmedTx EXCEPT ![cur] = @ + 1]
  /\ Goto("mark")
  /\ UNCHANGED <<circleVars, answered, moved, jobs, taskVars, envVars>>

\* handlePayoutSuccess: the member, the round, the circle's end, a notice.
MarkPayoutReceived ==
  /\ At("mark")
  /\ received' = received \cup {cur}
  /\ Goto("advance")
  /\ UNCHANGED <<status, currentRound, txVars, jobs, taskVars, envVars>>

\* Slip: the round is moved by two.
AdvanceTwice ==
  /\ At("advance")
  /\ currentRound' = currentRound + 2
  /\ Goto("settle")
  /\ UNCHANGED <<status, received, txVars, jobs, taskVars, envVars>>

AdvanceRound ==
  /\ At("advance")
  /\ currentRound' = currentRound + 1
  /\ Goto("settle")
  /\ UNCHANGED <<status, received, txVars, jobs, taskVars, envVars>>

\* The circle is read again and completed when nobody is left to pay.
Settle ==
  /\ At("settle")
  /\ status' = IF Rounds \subseteq received THEN "COMPLETED" ELSE status
  /\ Goto("notify")
  /\ UNCHANGED <<currentRound, received, txVars, jobs, taskVars, envVars>>

Finish ==
  /\ At("notify")
  /\ jobs' = [jobs EXCEPT ![cur].state = "completed"]
  /\ pc' = "idle" /\ cur' = 0
  /\ UNCHANGED <<circleVars, txVars, taskVars, envVars>>

\* Whatever the job is waiting for throws.
StepFails ==
  /\ Running /\ failures < MaxFailures
  /\ failures' = failures + 1
  /\ FailAttempt("error")
  /\ UNCHANGED <<circleVars, txVars, taskVars, clock, crashes>>

-----------------------------------------------------------------------------
(* The server                                                              *)

Crash ==
  /\ Up /\ crashes < MaxCrashes
  /\ crashes' = crashes + 1
  /\ pc' = "down" /\ cur' = 0
  /\ task' = "none" /\ slot' = 1
  /\ UNCHANGED <<circleVars, txVars, jobs, clock, failures>>

\* onModuleInit starts the reconciliation.
Restart ==
  /\ pc = "down"
  /\ pc' = "idle" /\ task' = "reconcile"
  /\ UNCHANGED <<circleVars, txVars, jobs, cur, slot, envVars>>

Scheduling == \/ ListenerReads \/ Reconcile \/ ScheduleRound
Processing == \/ VerifyRefuses \/ VerifyBalanceRefuses \/ VerifyAccepts
              \/ CreateTransaction \/ ExecutePayout \/ ConfirmTransaction
              \/ MarkPayoutReceived \/ AdvanceRound \/ Settle \/ Finish
Queueing(r) == \/ PromoteRetry(r) \/ Take(r) \/ Recover(r)
Faults == \/ ScheduleRoundFails \/ SchedulingAborts \/ StepFails \/ Crash

Next == \/ StartCircle \/ Scheduling \/ Processing \/ Tick \/ PromoteDue
        \/ Restart
        \/ \E r \in Rounds : Queueing(r) \/ RemoveCompleted(r)
        \/ Faults

Spec == Init /\ [][Next]_vars

\* Time passes, BullMQ delivers due and stalled jobs, the event loop runs
\* every continuation, and a dead server is started again.  Nobody has to
\* start a circle, and nothing has to fail.
Fairness ==
  /\ WF_vars(Scheduling) /\ WF_vars(Processing)
  /\ WF_vars(Tick) /\ WF_vars(Restart) /\ WF_vars(PromoteDue)
  /\ WF_vars(\E r \in Rounds : Take(r))
  /\ \A r \in Rounds : WF_vars(PromoteRetry(r)) /\ WF_vars(Recover(r))

FairSpec == Spec /\ Fairness

-----------------------------------------------------------------------------
(* Safety                                                                  *)

\* The round the circle shows never runs ahead of the payouts: it is at most
\* one more than the members marked as paid, even with an advance under way
\* (handlePayoutSuccess marks the member before advanceRound).
RoundBehindPayouts ==
  currentRound + (IF pc = "advance" THEN 1 ELSE 0) <= 1 + Cardinality(received)

\* No retry, stall, restart or reconciliation makes the payout call of a round
\* more often than the attempts of its job and its recoveries allow.
PayoutsBounded ==
  \A r \in Rounds : answered[r] <= MaxAttempts + MaxStalled

\* Every CONFIRMED payout transaction stands for a payout call that was answered,
\* and a member marked as paid has one: no step of executePayout is skipped.
LedgerBacked ==
  \A r \in Rounds : /\ confirmedTx[r] <= answered[r]
                    /\ r \in received => confirmedTx[r] > 0

\* And none stands for money.  On NEAR the answer comes from fundAccount, which
\* transfers nothing, or is made up; on Base, where it would be a transfer,
\* verifyContractBalance lets no job get that far.
NothingMoves ==
  \A r \in Rounds : /\ moved[r] = 0
                    /\ Chain = "BASE" => answered[r] = 0 /\ r \notin received

\* The round falls behind the marked members by one for each failing call or
\* crash at most: the calls of handlePayoutSuccess are made one after the other,
\* and a retry of the job is refused before it gets to those that are missing.
RoundKeepsUp ==
  IF status = "RECRUITING" THEN received = {}
  ELSE Cardinality(received) <= currentRound - 1 + failures + crashes
                                + IF pc = "advance" THEN 1 ELSE 0

\* startCircle sets currentRound to 1 and the job of round 1 is refused unless
\* currentRound is below 1: the first member is never marked as paid, and so no
\* circle is ever COMPLETED.
FirstMemberUnpaid == 1 \notin received /\ answered[1] = 0 /\ status # "COMPLETED"

\* Once hasReceivedPayout is set no payout call is made for the member again,
\* whatever is retried, recovered or scheduled anew.
PaidIsFinal ==
  [][\A r \in received : answered'[r] = answered[r] /\ r \in received']_vars

\* A round that currentRound has passed without its member being marked is lost:
\* no later step marks it (its job fails as "already processed").
OvertakenIsLost ==
  [][\A r \in Rounds \ received :
       (status = "ACTIVE" /\ currentRound >= r) => r \notin received']_vars

(* The inductive invariant: what the safety properties rest on             *)

\* The running job is the active job of the round the worker is at.
WorkerInv ==
  /\ Running <=> cur # 0
  /\ Running => jobs[cur].state = "active"

\* A job that can still run has attempts and recoveries left; an absent one
\* has a clean record; a completed one has marked its member.
JobInv ==
  \A r \in Rounds :
    /\ jobs[r].state \in {"delayed", "waiting", "active"} =>
         jobs[r].attempts < MaxAttempts /\ jobs[r].stalls <= MaxStalled
    /\ jobs[r].attempts + jobs[r].stalls <= MaxAttempts + MaxStalled
    /\ jobs[r].state = "none" => jobs[r].attempts = 0 /\ jobs[r].stalls = 0
    /\ jobs[r].state = "completed" => r \in received

\* What verification found still holds until the member is marked, because
\* nobody else writes these fields.
EligibleInv ==
  /\ pc \in {"create", "pay", "confirm", "mark"} =>
       status = "ACTIVE" /\ currentRound < cur /\ cur \notin received
  /\ pc \in {"advance", "settle", "notify"} => cur \in received

StartedInv == status # "RECRUITING" => currentRound >= 1

\* The payout call of an unmarked round was answered at most once per attempt or
\* recovery spent, and once more for an attempt that is past it.
AnsweredInv ==
  \A r \in Rounds \ received :
    answered[r] <= jobs[r].attempts + jobs[r].stalls +
      IF jobs[r].state = "active"
         /\ ~(cur = r /\ pc \in {"verify", "create", "pay"}) THEN 1 ELSE 0

LedgerInv ==
  /\ pc \in {"pay", "confirm"} => pendingTx[cur] > 0
  /\ pc = "confirm" => confirmedTx[cur] < answered[cur]
  /\ pc = "mark" => confirmedTx[cur] > 0

\* On Base no job passes verification.
BaseInv == Chain = "BASE" => pc \in {"idle", "down", "verify"}

JobsOrderly == /\ TypeOK /\ WorkerInv /\ JobInv /\ EligibleInv /\ StartedInv
               /\ RoundBehindPayouts /\ AnsweredInv /\ PayoutsBounded
               /\ LedgerInv /\ LedgerBacked /\ FirstMemberUnpaid

IInv == JobsOrderly /\ RoundKeepsUp /\ BaseInv /\ NothingMoves

\* Nothing is scheduled before the circle is started.
RecruitingInv ==
  status = "RECRUITING" => task # "loop" /\ \A r \in Rounds : jobs[r].state = "none"

(* Liveness                                                                *)

\* A job whose worker died, or that is due, does not stay in the queue for
\* ever: it ends completed or failed.
JobsSettle ==
  \A r \in Rounds :
    (jobs[r].state \in {"delayed", "waiting", "active"})
      ~> (jobs[r].state \in {"completed", "failed", "none"})

\* Why they do.  As long as a job has not ended, the server, the scheduler, the worker
\* or the queue has something to do, or the next payout date can come: the worker is
\* never idle before a queue from which it may take nothing.
Live(r) == jobs[r].state \in {"delayed", "waiting", "active"}
CanBeTaken(r) ==
  /\ jobs[r].state = "waiting"
  /\ jobs[r].stalls > 0 \/ \A q \in Rounds : jobs[q].state = "waiting" => q >= r
NeverStuck ==
  (\E r \in Rounds : Live(r)) =>
    \/ ~Up \/ Running \/ task # "none"
    \/ \E r \in Rounds : Due(r) \/ CanBeTaken(r) \/ (jobs[r].state = "active" /\ cur # r)
    \/ status # "RECRUITING" /\ clock < N /\ DueJobsSettled

\* The steps a job has left, at most.
ToRun == [verify |-> 8, create |-> 7, pay |-> 6, confirm |-> 5, mark |-> 4,
          advance |-> 3, settle |-> 2, notify |-> 1]
ToEnd(r) == CASE jobs[r].state = "delayed" -> 10
              [] jobs[r].state = "waiting" -> 9
              [] OTHER -> IF cur = r /\ Running THEN ToRun[pc] ELSE 0
Left(r) ==
  IF Live(r)
  THEN 11 * (MaxAttempts - jobs[r].attempts + MaxStalled - jobs[r].stalls) + ToEnd(r) + 1
  ELSE 0

\* Whatever happens to a job that has not ended, a crash or a failing call included,
\* leaves it with less to do: no retry, recovery or boot starts it anew.
StepsRunOut ==
  [][\A r \in Rounds : Live(r) =>
       \/ Left(r)' < Left(r)
       \/ jobs'[r] = jobs[r] /\ (cur = r \/ cur' = r => UNCHANGED <<pc, cur>>)]_vars

MembersMarked == (status = "ACTIVE") ~> (Linked \ {1} \subseteq received)

\* Without failures and crashes every member after the first is marked as paid,
\* if the scheduler found their account.
LaterMembersMarked == [](failures = 0 /\ crashes = 0) => MembersMarked

(* What the code says of itself and does not do                            *)

\* verifyPayoutEligibility refuses a round as "already processed".
AlreadyProcessedIsPaid ==
  \A r \in Rounds : jobs[r].reason = "already processed" => r \in received

\* The contract's owner "orchestrates ... payout releases": some payout of a
\* started circle leaves its contract.
SomePayoutReleased == (status = "ACTIVE") ~> (\E r \in Rounds : moved[r] > 0)
=============================================================================
