----------------------------- MODULE Withdrawal -----------------------------
(***************************************************************************)
(* One user's withdrawals: WalletService.processWithdrawal, run for each   *)
(* HTTP request, verifies the e-mailed code, writes a PENDING transaction  *)
(* and queues a BullMQ job named after the idempotency key; the workers of *)
(* WithdrawalProcessor execute the transfer and settle the transaction.    *)
(*                                                                         *)
(* Requests and workers interleave at every await.  MongoDB and Redis      *)
(* survive a crash of the server; requests, workers and their place in the *)
(* code do not.  Every withdrawal is of one unit of the same asset.  A     *)
(* request writes at most one transaction, so the transaction of request t *)
(* is named t.                                                             *)
(***************************************************************************)
EXTENDS Integers, FiniteSets

CONSTANTS
  NRequests,    \* number of HTTP requests in a behaviour
  Keys,         \* idempotency keys
  Workers,      \* concurrency of the processor
  NoKey,        \* not a key
  Funds,        \* the wallet's balance on chain
  MaxCodes,     \* bound: verification codes the user asks for
  MaxAttempts,  \* attempts of a job (WITHDRAWAL_RETRY_CONFIG)
  MaxStalled,   \* times BullMQ recovers a job whose worker died
  MaxFailures,  \* bound: failing calls in a behaviour
  MaxCrashes    \* bound: crashes in a behaviour

ASSUME RequestsAssumption == NRequests \in Nat \ {0}
ASSUME KeyAssumption == NoKey \notin Keys /\ IsFiniteSet(Keys)
ASSUME WorkerAssumption == IsFiniteSet(Workers)
ASSUME FundsAssumption == Funds \in Nat
ASSUME RetryAssumption == MaxAttempts \in Nat \ {0} /\ MaxStalled \in Nat
ASSUME BoundAssumption ==
  MaxCodes \in Nat /\ MaxFailures \in Nat /\ MaxCrashes \in Nat

Requests == 1..NRequests  \* in order of arrival

VARIABLES
  request,    \* where each request is, its key and the code it came with
  otp,        \* the code in the cache, 0 if none
  issued,     \* codes issued so far
  txStatus,   \* the transaction each request wrote
  jobs,       \* the job withdrawal:<user>:<key> in Redis, per key
  worker,     \* where each worker is, the key of its job, and the nonce it signed
  funds,      \* balance on chain
  sent,       \* transfers the chain executed, per transaction
  up,         \* the server is running
  removed,    \* history: keys whose completed job was dropped from Redis
  lostWrites, \* history: updates to FAILED that failed
  overlap,    \* history: a worker signed a nonce that was used or held by another
  failures, crashes  \* budgets spent

requestVars == <<request, otp, issued>>
chainVars == <<funds, sent>>
historyVars == <<removed, lostWrites, overlap>>
envVars == <<up, failures, crashes>>
vars == <<request, otp, issued, txStatus, jobs, worker, funds, sent, up,
          removed, lostWrites, overlap, failures, crashes>>

RequestSteps == {"idle", "otp", "consume", "check", "create", "queue",
                 "accepted", "duplicate", "refused", "lost"}
InFlight == {"otp", "consume", "check", "create", "queue"}
WorkerSteps == {"idle", "verify", "send", "confirm", "finish", "fail", "throw"}
JobStates == {"none", "waiting", "delayed", "active", "completed", "failed"}
Job == [state: JobStates, tx: Requests \cup {0},
        attempts: 0..MaxAttempts, stalls: 0..(MaxStalled + 1)]
NoJob == [state |-> "none", tx |-> 0, attempts |-> 0, stalls |-> 0]

TypeOK ==
  /\ request \in [Requests -> [step: RequestSteps, key: Keys \cup {NoKey},
                               code: 0..MaxCodes]]
  /\ otp \in 0..MaxCodes /\ issued \in 0..MaxCodes
  /\ txStatus \in [Requests -> {"none", "PENDING", "CONFIRMED", "FAILED"}]
  /\ jobs \in [Keys -> Job]
  /\ worker \in [Workers -> [step: WorkerSteps, key: Keys \cup {NoKey},
                              nonce: 0..(Funds + 1)]]
  /\ funds \in 0..Funds
  /\ sent \in [Requests -> Nat]
  /\ up \in BOOLEAN
  /\ removed \subseteq Keys /\ lostWrites \in Nat /\ overlap \in BOOLEAN
  /\ failures \in 0..MaxFailures /\ crashes \in 0..MaxCrashes

IdleWorker == [step |-> "idle", key |-> NoKey, nonce |-> 0]

Init ==
  /\ request = [r \in Requests |-> [step |-> "idle", key |-> NoKey, code |-> 0]]
  /\ otp = 0 /\ issued = 0
  /\ txStatus = [t \in Requests |-> "none"]
  /\ jobs = [k \in Keys |-> NoJob]
  /\ worker = [w \in Workers |-> IdleWorker]
  /\ funds = Funds
  /\ sent = [t \in Requests |-> 0]
  /\ up = TRUE
  /\ removed = {} /\ lostWrites = 0 /\ overlap = FALSE
  /\ failures = 0 /\ crashes = 0

-----------------------------------------------------------------------------
(* The verification code                                                   *)

\* requestWithdrawalOtp replaces whatever code was cached.
RequestOtp ==
  /\ up /\ issued < MaxCodes
  /\ issued' = issued + 1
  /\ otp' = issued + 1
  /\ UNCHANGED <<request, txStatus, jobs, worker, chainVars, historyVars, envVars>>

\* Five minutes pass, or other requests use up the attempts.
OtpExpires ==
  /\ otp # 0
  /\ otp' = 0
  /\ UNCHANGED <<request, issued, txStatus, jobs, worker, chainVars,
                 historyVars, envVars>>

-----------------------------------------------------------------------------
(* A request: WalletService.processWithdrawal                              *)

At(r, step) == up /\ request[r].step = step
Moves(r, step) == request' = [request EXCEPT ![r].step = step]

\* The job of the key is looked up; where there is one and its transaction is
\* found the request is answered as a duplicate.
Receive(r) ==
  /\ At(r, "idle")
  /\ \A q \in Requests : q < r => request[q].step # "idle"
  /\ \E k \in Keys, c \in 0..issued :
       request' = [request EXCEPT ![r] =
         [key |-> k, code |-> c,
          step |-> IF jobs[k].state # "none" THEN "duplicate" ELSE "otp"]]
  /\ UNCHANGED <<otp, issued, txStatus, jobs, worker, chainVars, historyVars,
                 envVars>>

\* verifyWithdrawalOtp reads the cached code; one that is right passes.
OtpAccepted(r) ==
  /\ At(r, "otp") /\ otp # 0 /\ request[r].code = otp
  /\ Moves(r, "consume")
  /\ UNCHANGED <<otp, issued, txStatus, jobs, worker, chainVars, historyVars,
                 envVars>>

\* The third wrong code deletes the cached one.
OtpRefused(r) ==
  /\ At(r, "otp") /\ (otp = 0 \/ request[r].code # otp)
  /\ Moves(r, "refused")
  /\ otp' \in {otp, 0}
  /\ UNCHANGED <<issued, txStatus, jobs, worker, chainVars, historyVars, envVars>>

\* The cached code is deleted, also when it is no longer the one that was read.
ConsumeOtp(r) ==
  /\ At(r, "consume")
  /\ otp' = 0
  /\ Moves(r, "check")
  /\ UNCHANGED <<issued, txStatus, jobs, worker, chainVars, historyVars, envVars>>

\* checkAvailableBalance reads the chain; queued withdrawals are not counted.
CheckAvailableBalance(r) ==
  /\ At(r, "check")
  /\ Moves(r, IF funds >= 1 THEN "create" ELSE "refused")
  /\ UNCHANGED <<otp, issued, txStatus, jobs, worker, chainVars, historyVars,
                 envVars>>

CreateTransaction(r) ==
  /\ At(r, "create")
  /\ txStatus' = [txStatus EXCEPT ![r] = "PENDING"]
  /\ Moves(r, "queue")
  /\ UNCHANGED <<otp, issued, jobs, worker, chainVars, historyVars, envVars>>

\* Slip: a settled job does not keep its id from being used again.
TakesSettled(k) == jobs[k].state \in {"none", "completed", "failed"}

\* BullMQ ignores an add whose job id it already has.
TakesNew(k) == jobs[k].state = "none"

QueueJob(r) ==
  /\ At(r, "queue")
  /\ LET k == request[r].key IN
     IF TakesNew(k)
     THEN jobs' = [jobs EXCEPT ![k] = [state |-> "waiting", tx |-> r,
                                       attempts |-> 0, stalls |-> 0]]
     ELSE UNCHANGED jobs
  /\ Moves(r, "accepted")
  /\ UNCHANGED <<otp, issued, txStatus, worker, chainVars, historyVars, envVars>>

\* What the request waits for throws, or a validation refuses.
RequestFails(r) ==
  /\ up /\ request[r].step \in InFlight /\ failures < MaxFailures
  /\ failures' = failures + 1
  /\ Moves(r, "refused")
  /\ UNCHANGED <<otp, issued, txStatus, jobs, worker, chainVars, historyVars,
                 up, crashes>>

-----------------------------------------------------------------------------
(* A worker: WithdrawalProcessor.process                                   *)

Doing(w, step) == up /\ worker[w].step = step
GoesWith(w, step, n) == worker' = [worker EXCEPT ![w].step = step, ![w].nonce = n]
Goes(w, step) == GoesWith(w, step, 0)
Tx(w) == jobs[worker[w].key].tx

Take(w, k) ==
  /\ Doing(w, "idle") /\ jobs[k].state = "waiting"
  /\ jobs' = [jobs EXCEPT ![k].state = "active"]
  /\ worker' = [worker EXCEPT ![w] = [step |-> "verify", key |-> k, nonce |-> 0]]
  /\ UNCHANGED <<requestVars, txStatus, chainVars, historyVars, envVars>>

\* Slip: a FAILED transaction is executed again.
Unconfirmed(t) == txStatus[t] # "CONFIRMED"

\* Only a PENDING transaction is executed.
Executable(t) == txStatus[t] = "PENDING"

\* The nonces of the wallet's key that withdrawals have used.
Used == Funds - funds

\* The next nonce of the key is read from the final view, which may be behind the
\* transfers, and the transaction is signed with it and the hash of the latest block.
\* Nobody but its worker writes the status of a transaction, so reading the status is
\* one step with signing.
Verify(w) ==
  /\ Doing(w, "verify")
  /\ IF Executable(Tx(w))
     THEN \E n \in 1..(Used + 1) :
       /\ GoesWith(w, "send", n)
       /\ overlap' = (overlap \/ n <= Used \/ \E v \in Workers \ {w} : worker[v].step = "send")
     ELSE Goes(w, "fail") /\ UNCHANGED overlap
  /\ UNCHANGED <<requestVars, txStatus, jobs, chainVars, removed, lostWrites, envVars>>

Fresh(w) == worker[w].nonce = Used + 1

Transfer(w) ==
  /\ Fresh(w) /\ funds >= 1
  /\ funds' = funds - 1
  /\ sent' = [sent EXCEPT ![Tx(w)] = @ + 1]

ExecuteWithdrawal(w) ==
  /\ Doing(w, "send")
  /\ Transfer(w)
  /\ Goes(w, "confirm")
  /\ UNCHANGED <<requestVars, txStatus, jobs, historyVars, envVars>>

\* Slip: the Failure the chain reports is taken for a success.
RefusalIgnored(w) ==
  /\ Doing(w, "send") /\ (~Fresh(w) \/ funds < 1)
  /\ Goes(w, "confirm")
  /\ UNCHANGED <<requestVars, txStatus, jobs, chainVars, historyVars, envVars>>

\* The chain refuses a transfer the wallet cannot pay, and a nonce that is used.
TransferRefused(w) ==
  /\ Doing(w, "send") /\ (~Fresh(w) \/ funds < 1)
  /\ Goes(w, "fail")
  /\ UNCHANGED <<requestVars, txStatus, jobs, chainVars, historyVars, envVars>>

\* Two withdrawals of NEAR with the same amount, destination, nonce and block are
\* one transaction: the second to send it is answered with the outcome of the
\* first.  (A token transfer has the transaction's id in its memo.)
OutcomeShared(w) ==
  /\ Doing(w, "send") /\ ~Fresh(w) /\ \E t \in Requests : sent[t] > 0
  /\ Goes(w, "confirm")
  /\ UNCHANGED <<requestVars, txStatus, jobs, chainVars, historyVars, envVars>>

\* The transfer is executed, and the call that sent it throws.
TransferTimesOut(w) ==
  /\ Doing(w, "send") /\ failures < MaxFailures
  /\ failures' = failures + 1
  /\ Transfer(w)
  /\ Goes(w, "fail")
  /\ UNCHANGED <<requestVars, txStatus, jobs, historyVars, up, crashes>>

Confirm(w) ==
  /\ Doing(w, "confirm")
  /\ txStatus' = [txStatus EXCEPT ![Tx(w)] = "CONFIRMED"]
  /\ Goes(w, "finish")
  /\ UNCHANGED <<requestVars, jobs, chainVars, historyVars, envVars>>

Finish(w) ==
  /\ Doing(w, "finish")
  /\ jobs' = [jobs EXCEPT ![worker[w].key].state = "completed"]
  /\ worker' = [worker EXCEPT ![w] = IdleWorker]
  /\ UNCHANGED <<requestVars, txStatus, chainVars, historyVars, envVars>>

\* Reading the user or the transaction, sending, or confirming throws.
StepFails(w) ==
  /\ up /\ worker[w].step \in {"verify", "send", "confirm"}
  /\ failures < MaxFailures
  /\ failures' = failures + 1
  /\ Goes(w, "fail")
  /\ UNCHANGED <<requestVars, txStatus, jobs, chainVars, historyVars, up, crashes>>

\* The catch block writes FAILED over any status, then throws again.
RecordFailure(w) ==
  /\ Doing(w, "fail")
  /\ txStatus' = [txStatus EXCEPT ![Tx(w)] = "FAILED"]
  /\ Goes(w, "throw")
  /\ UNCHANGED <<requestVars, jobs, chainVars, historyVars, envVars>>

RecordFailureFails(w) ==
  /\ Doing(w, "fail") /\ failures < MaxFailures
  /\ failures' = failures + 1
  /\ lostWrites' = lostWrites + 1
  /\ Goes(w, "throw")
  /\ UNCHANGED <<requestVars, txStatus, jobs, chainVars, removed, overlap, up, crashes>>

\* Slips: one attempt too many, and an attempt that is not counted.
OneMoreAttempt(job) == job.attempts + 1 <= MaxAttempts
FailUncounted(w) ==
  /\ Doing(w, "throw")
  /\ jobs' = [jobs EXCEPT ![worker[w].key].state = "delayed"]
  /\ worker' = [worker EXCEPT ![w] = IdleWorker]
  /\ UNCHANGED <<requestVars, txStatus, chainVars, historyVars, envVars>>

AttemptsLeft(job) == job.attempts + 1 < MaxAttempts

\* BullMQ delays the job for another attempt, or leaves it failed.
FailAttempt(w) ==
  /\ Doing(w, "throw")
  /\ jobs' = [jobs EXCEPT ![worker[w].key] =
       [state |-> IF AttemptsLeft(@) THEN "delayed" ELSE "failed",
        tx |-> @.tx, attempts |-> @.attempts + 1, stalls |-> @.stalls]]
  /\ worker' = [worker EXCEPT ![w] = IdleWorker]
  /\ UNCHANGED <<requestVars, txStatus, chainVars, historyVars, envVars>>

-----------------------------------------------------------------------------
(* The queue and the server                                                *)

\* The backoff of a failed attempt is over.
Backoff(k) ==
  /\ up /\ jobs[k].state = "delayed"
  /\ jobs' = [jobs EXCEPT ![k].state = "waiting"]
  /\ UNCHANGED <<requestVars, txStatus, worker, chainVars, historyVars, envVars>>

\* A job left active by a dead worker.
Recover(k) ==
  /\ up /\ jobs[k].state = "active" /\ \A w \in Workers : worker[w].key # k
  /\ jobs' = [jobs EXCEPT ![k] =
       [state |-> IF @.stalls < MaxStalled THEN "waiting" ELSE "failed",
        tx |-> @.tx, attempts |-> @.attempts, stalls |-> @.stalls + 1]]
  /\ UNCHANGED <<requestVars, txStatus, worker, chainVars, historyVars, envVars>>

\* removeOnComplete; failed jobs stay (removeOnFail: false).
RemoveCompleted(k) ==
  /\ jobs[k].state = "completed"
  /\ jobs' = [jobs EXCEPT ![k] = NoJob]
  /\ removed' = removed \cup {k}
  /\ UNCHANGED <<requestVars, txStatus, worker, chainVars, lostWrites, overlap, envVars>>

Crash ==
  /\ up /\ crashes < MaxCrashes
  /\ crashes' = crashes + 1
  /\ up' = FALSE
  /\ request' = [r \in Requests |->
       IF request[r].step \in InFlight THEN [request[r] EXCEPT !.step = "lost"]
       ELSE request[r]]
  /\ worker' = [w \in Workers |-> IdleWorker]
  /\ UNCHANGED <<otp, issued, txStatus, jobs, chainVars, historyVars, failures>>

Restart ==
  /\ ~up
  /\ up' = TRUE
  /\ UNCHANGED <<requestVars, txStatus, jobs, worker, chainVars, historyVars,
                 failures, crashes>>

Answering(r) == \/ OtpAccepted(r) \/ OtpRefused(r) \/ ConsumeOtp(r)
                \/ CheckAvailableBalance(r) \/ CreateTransaction(r) \/ QueueJob(r)
Working(w) == \/ Verify(w) \/ ExecuteWithdrawal(w)
              \/ TransferRefused(w) \/ OutcomeShared(w) \/ Confirm(w) \/ Finish(w)
              \/ RecordFailure(w) \/ FailAttempt(w)
WorkFails(w) == \/ TransferTimesOut(w) \/ StepFails(w) \/ RecordFailureFails(w)

Next == \/ RequestOtp \/ OtpExpires
        \/ \E r \in Requests : Receive(r) \/ Answering(r) \/ RequestFails(r)
        \/ \E w \in Workers : \/ \E k \in Keys : Take(w, k)
                              \/ Working(w) \/ WorkFails(w)
        \/ \E k \in Keys : Backoff(k) \/ Recover(k) \/ RemoveCompleted(k)
        \/ Crash \/ Restart

Spec == Init /\ [][Next]_vars

\* The event loop runs every continuation, BullMQ hands out waiting, delayed
\* and stalled jobs, and a dead server is started again.
Fairness ==
  /\ \A r \in Requests : WF_vars(Answering(r))
  /\ \A w \in Workers : WF_vars(Working(w))
  /\ \A k \in Keys : /\ WF_vars(\E w \in Workers : Take(w, k))
                     /\ WF_vars(Backoff(k)) /\ WF_vars(Recover(k))
  /\ WF_vars(Restart)

FairSpec == Spec /\ Fairness

-----------------------------------------------------------------------------
(* What holds                                                              *)

\* A transfer is repeated only where the processor was cut off between the
\* transfer and the settling of the transaction: retries, timeouts and duplicate
\* requests never repeat one.  (Recover leaves the job of a live worker alone: a
\* lock that is lost while its worker runs is not covered.)
TransfersBounded == \A t \in Requests : sent[t] <= 1 + crashes + lostWrites

\* As long as the completed job of an idempotency key is still in Redis, at most
\* one of the transactions written for the key has moved money, whatever
\* requests raced past the duplicate check.
KeyTransfersOnce ==
  \A k \in Keys \ removed :
    Cardinality({t \in Requests : request[t].key = k /\ sent[t] > 0}) <= 1

\* CONFIRMED is only said of a transfer the chain executed, unless a worker signed
\* a nonce that was used or held by another one: then it may stand for the transfer
\* of another withdrawal, of which two are CONFIRMED.  A completed job has a
\* CONFIRMED transaction, and without failing calls or crashes FAILED is only said
\* of a transfer that was not executed.
Backed(t) == sent[t] > 0 \/ (overlap /\ \E s \in Requests \ {t} : sent[s] > 0)
StatusHonest ==
  /\ \A t \in Requests :
       /\ txStatus[t] = "CONFIRMED" => Backed(t)
       /\ txStatus[t] = "FAILED" /\ failures = 0 /\ crashes = 0 => sent[t] = 0
  /\ \A k \in Keys :
       jobs[k].state = "completed" => txStatus[jobs[k].tx] = "CONFIRMED"

\* A FAILED transaction stays FAILED, although its job is tried again, and a
\* CONFIRMED one is only overwritten when a crash made the job run again.
SettledIsFinal ==
  [][\A t \in Requests :
       /\ txStatus[t] = "FAILED" => txStatus'[t] = "FAILED"
       /\ txStatus[t] = "CONFIRMED" /\ crashes = 0 => txStatus'[t] = "CONFIRMED"]_vars

\* Every queued job comes to an end, through retries, stalls and restarts: no
\* wait of one worker is for the other, and no job is forgotten.
JobsSettle ==
  \A k \in Keys : jobs[k].state \in {"waiting", "delayed", "active"}
                  ~> jobs[k].state \in {"completed", "failed", "none"}
-----------------------------------------------------------------------------
(* Why it holds: the inductive invariant                                   *)

Live == {"waiting", "delayed", "active"}

\* A job that can run again has attempts and recoveries left, and every write
\* that was lost is one of the failures.
BudgetInv ==
  /\ \A k \in Keys : jobs[k].state \in Live =>
       jobs[k].attempts < MaxAttempts /\ jobs[k].stalls <= MaxStalled
  /\ lostWrites <= failures

\* A job carries the transaction of an accepted request that came with its key.
JobInv ==
  /\ \A r \in Requests : request[r].step # "idle" => request[r].key \in Keys
  /\ \A k \in Keys :
       IF jobs[k].state = "none" THEN jobs[k].tx = 0
       ELSE /\ jobs[k].tx \in Requests
            /\ request[jobs[k].tx].key = k
            /\ request[jobs[k].tx].step = "accepted"

\* A busy worker has an active job for itself; without a crash every active job
\* has its worker.
WorkerInv ==
  /\ \A w \in Workers :
       IF worker[w].step = "idle" THEN worker[w].key = NoKey
       ELSE worker[w].key \in Keys /\ jobs[worker[w].key].state = "active"
  /\ \A v, w \in Workers :
       worker[v].step # "idle" /\ worker[v].key = worker[w].key => v = w
  /\ crashes = 0 => \A k \in Keys : jobs[k].state = "active" =>
       \E w \in Workers : worker[w].key = k

\* What a request has written by the step it is at; only jobs move money.
RequestInv ==
  /\ \A r \in Requests :
       /\ request[r].step \in {"idle", "otp", "consume", "check", "create", "duplicate"}
            => txStatus[r] = "none"
       /\ request[r].step = "queue" => txStatus[r] = "PENDING"
       /\ request[r].step = "accepted" => txStatus[r] # "none"
  /\ \A t \in Requests : sent[t] > 0 =>
       /\ request[t].step = "accepted"
       /\ request[t].key \in removed \/ jobs[request[t].key].tx = t

\* What the transaction of a busy worker is known to be at each step.
SettlingInv ==
  /\ \A w \in Workers :
       /\ worker[w].step \in {"send", "confirm"} => txStatus[Tx(w)] = "PENDING"
       /\ worker[w].step = "confirm" => Backed(Tx(w))
       /\ worker[w].step = "finish" => txStatus[Tx(w)] = "CONFIRMED"
       /\ worker[w].step = "fail" /\ failures = 0 /\ crashes = 0 => sent[Tx(w)] = 0
       /\ worker[w].step \in {"verify", "fail", "throw"} /\ crashes = 0
            => txStatus[Tx(w)] # "CONFIRMED"
  /\ crashes = 0 => \A k \in Keys : jobs[k].state \in {"waiting", "delayed", "failed"}
       => txStatus[jobs[k].tx] # "CONFIRMED"

\* Without an overlap one worker at a time has signed, and it has the next nonce.
NonceInv ==
  ~overlap => \A w \in Workers : worker[w].step = "send" =>
    Fresh(w) /\ \A v \in Workers \ {w} : worker[v].step # "send"

\* A transaction that a worker may still find PENDING.
Open(t) ==
  /\ txStatus[t] \in {"none", "PENDING"}
  /\ \A w \in Workers : worker[w].step \in {"confirm", "fail"} => Tx(w) # t

\* One transfer less is behind a transaction that is open.
SentInv ==
  \A t \in Requests : /\ sent[t] <= 1 + crashes + lostWrites
                      /\ Open(t) => sent[t] <= crashes + lostWrites

BooksInv == /\ TypeOK /\ BudgetInv /\ JobInv /\ WorkerInv /\ RequestInv
            /\ SettlingInv /\ SentInv /\ StatusHonest
IInv == BooksInv /\ NonceInv

\* Why no job goes on for ever: the steps one has left, at most.
ToRun == [idle |-> 0, verify |-> 7, send |-> 6, confirm |-> 5, finish |-> 4,
          fail |-> 3, throw |-> 2]
WorkerOf(k) == CHOOSE w \in Workers : worker[w].key = k
ToEnd(k) == CASE jobs[k].state = "delayed" -> 10
              [] jobs[k].state = "waiting" -> 9
              [] OTHER -> IF \E w \in Workers : worker[w].key = k
                          THEN ToRun[worker[WorkerOf(k)].step] ELSE 0
Left(k) ==
  IF jobs[k].state \in Live
  THEN 11 * (MaxAttempts - jobs[k].attempts + MaxStalled - jobs[k].stalls) + ToEnd(k) + 1
  ELSE 0

\* Whatever happens to a job that has not ended, a crash, a failing call or another
\* request with its key included, leaves the job and its worker as they are or with
\* less to do.
StepsRunOut ==
  [][\A k \in Keys : jobs[k].state \in Live =>
       \/ Left(k)' < Left(k)
       \/ /\ jobs'[k] = jobs[k]
          /\ \A w \in Workers :
               worker[w].key = k \/ worker'[w].key = k => worker'[w] = worker[w]]_vars
=============================================================================
