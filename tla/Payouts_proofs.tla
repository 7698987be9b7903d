--------------------------- MODULE Payouts_proofs ---------------------------
(***************************************************************************)
(* The safety of Payouts for every number of members, every retry and      *)
(* stall limit, any set of members with accounts and any number of         *)
(* failures and crashes.  It rests on JobsOrderly, an inductive invariant. *)
(***************************************************************************)
EXTENDS Payouts, TLAPS, FiniteSetTheorems

USE DEF Rounds

\* The members marked as paid are a finite set.
LEMMA ReceivedFinite ==
  ASSUME NEW S \in SUBSET Rounds
  PROVE  IsFiniteSet(S) /\ Cardinality(S) \in Nat
<1>1. IsFiniteSet(Rounds)
  BY FS_Interval, NAssumption
<1>2. IsFiniteSet(S)
  BY <1>1, FS_Subset
<1>3. QED
  BY <1>2, FS_CardinalityType

\* Their number grows by one when a new member is marked.
LEMMA ReceivedGrows ==
  ASSUME NEW S \in SUBSET Rounds, NEW r \in Rounds, r \notin S
  PROVE  Cardinality(S \cup {r}) = Cardinality(S) + 1
  BY ReceivedFinite, FS_AddElement

\* What TypeOK says of one round.
LEMMA RoundTypes ==
  ASSUME TypeOK, NEW r \in Rounds
  PROVE  /\ jobs[r] \in Job
         /\ jobs[r].attempts \in Nat /\ jobs[r].stalls \in Nat
         /\ answered[r] \in Nat /\ confirmedTx[r] \in Nat /\ pendingTx[r] \in Nat
<1>1. jobs[r] \in Job
  BY DEF TypeOK, JobTypeOK
<1>2. jobs[r].attempts \in Nat /\ jobs[r].stalls \in Nat
  BY <1>1, RetryAssumption DEF Job
<1>3. QED
  BY <1>1, <1>2 DEF TypeOK, TxTypeOK

\* startCircle has not run yet: the invariant holds.
LEMMA InitInv == Init => JobsOrderly
<1> SUFFICES ASSUME Init PROVE JobsOrderly
  OBVIOUS
<1> USE NAssumption, RetryAssumption, BoundAssumption DEF Init, NoJob
<1>1. TypeOK
  BY DEF TypeOK, CircleTypeOK, TxTypeOK, JobTypeOK, WorkerTypeOK, TaskTypeOK,
     EnvTypeOK, Job, JobStates, Reasons
<1>2. RoundBehindPayouts
  BY FS_EmptySet DEF RoundBehindPayouts
<1>3. QED
  BY <1>1, <1>2 DEF JobsOrderly, WorkerInv, JobInv, EligibleInv, StartedInv, AnsweredInv,
     PayoutsBounded, LedgerInv, LedgerBacked, FirstMemberUnpaid, Running, Steps

\* Scheduling and time: a step that leaves the circle, the ledger, the jobs
\* and the worker alone keeps the invariant.
LEMMA QuietStep ==
  ASSUME JobsOrderly, UNCHANGED <<circleVars, txVars, jobs, pc, cur>>,
         TaskTypeOK', EnvTypeOK'
  PROVE  JobsOrderly'
  BY DEF JobsOrderly, circleVars, txVars, TypeOK, CircleTypeOK, TxTypeOK, JobTypeOK,
     WorkerTypeOK, WorkerInv, JobInv, EligibleInv, StartedInv, AnsweredInv,
     PayoutsBounded, LedgerInv, LedgerBacked, FirstMemberUnpaid,
     RoundBehindPayouts, Running

\* The queue: a step that changes jobs only has to keep what is said of jobs.
LEMMA QueueStep ==
  ASSUME JobsOrderly, UNCHANGED <<circleVars, txVars, pc, cur>>,
         TaskTypeOK', EnvTypeOK', JobTypeOK', JobInv', AnsweredInv',
         Running => jobs'[cur].state = "active"
  PROVE  JobsOrderly'
  BY DEF JobsOrderly, circleVars, txVars, TypeOK, CircleTypeOK, TxTypeOK,
     WorkerTypeOK, WorkerInv, EligibleInv, StartedInv, PayoutsBounded,
     LedgerInv, LedgerBacked, FirstMemberUnpaid, RoundBehindPayouts, Running

\* Writing the job of one round leaves the others as they are.
LEMMA OneJob ==
  ASSUME TypeOK, NEW r \in Rounds, NEW j \in Job, jobs' = [jobs EXCEPT ![r] = j]
  PROVE  /\ JobTypeOK' /\ jobs'[r] = j
         /\ \A q \in Rounds \ {r} : jobs'[q] = jobs[q]
  BY DEF TypeOK, JobTypeOK

\* An attempt that throws keeps the job and the cursor in order.
LEMMA FailAttemptInv ==
  ASSUME JobsOrderly, Running, NEW why \in Reasons, FailAttempt(why),
         UNCHANGED <<circleVars, txVars>>, TaskTypeOK', EnvTypeOK'
  PROVE  JobsOrderly'
<1> DEFINE j == [state |-> IF jobs[cur].attempts + 1 < MaxAttempts
                           THEN "delayed" ELSE "failed",
                 attempts |-> jobs[cur].attempts + 1,
                 stalls |-> jobs[cur].stalls, reason |-> why]
<1> USE NAssumption, RetryAssumption DEF JobsOrderly
<1>1. cur \in Rounds /\ jobs[cur] \in Job /\ jobs[cur].state = "active"
  BY DEF TypeOK, WorkerTypeOK, JobTypeOK, WorkerInv
<1>2. /\ jobs[cur].attempts \in Nat /\ jobs[cur].attempts < MaxAttempts
      /\ jobs[cur].stalls \in Nat /\ jobs[cur].stalls <= MaxStalled
  BY <1>1, RoundTypes DEF JobInv
<1>3. j \in Job
  BY <1>1, <1>2 DEF Job, JobStates
<1>4. /\ pc' = "idle" /\ cur' = 0 /\ jobs' = [jobs EXCEPT ![cur] = j]
  BY DEF FailAttempt
<1>5. JobTypeOK' /\ jobs'[cur] = j /\ \A q \in Rounds \ {cur} : jobs'[q] = jobs[q]
  <2> HIDE DEF j
  <2>1. TypeOK
    BY DEF JobsOrderly
  <2>2. QED
    BY <2>1, <1>1, <1>3, <1>4, OneJob
<1>6. TypeOK'
  BY <1>4, <1>5 DEF TypeOK, CircleTypeOK, TxTypeOK, WorkerTypeOK,
     circleVars, txVars
<1>7. WorkerInv' /\ EligibleInv' /\ StartedInv' /\ LedgerInv'
  BY <1>4 DEF WorkerInv, EligibleInv, StartedInv, LedgerInv, Running, Steps,
     circleVars
<1>8. JobInv'
  BY <1>1, <1>2, <1>5 DEF JobInv, circleVars
<1>9. AnsweredInv'
  <2>1. answered[cur] \in Nat
    BY <1>1, RoundTypes
  <2>2. cur \notin received => answered[cur] <= jobs[cur].attempts + jobs[cur].stalls + 1
    BY <1>1, <1>2, <2>1 DEF AnsweredInv
  <2>3. QED
    BY <1>1, <1>2, <1>4, <1>5, <2>1, <2>2 DEF AnsweredInv, circleVars, txVars
<1>10. RoundBehindPayouts' /\ PayoutsBounded' /\ LedgerBacked' /\ FirstMemberUnpaid'
  <2>1. Cardinality(received) \in Nat /\ currentRound \in Nat
    BY ReceivedFinite DEF TypeOK, CircleTypeOK
  <2>2. QED
    BY <1>4, <2>1 DEF RoundBehindPayouts, PayoutsBounded, LedgerBacked,
       FirstMemberUnpaid, circleVars, txVars
<1>11. QED
  BY <1>6, <1>7, <1>8, <1>9, <1>10

\* One round of the scheduling loop adds at most one fresh job.
LEMMA ScheduleRoundInv == JobsOrderly /\ ScheduleRound => JobsOrderly'
<1> SUFFICES ASSUME JobsOrderly, ScheduleRound PROVE JobsOrderly'
  OBVIOUS
<1> USE NAssumption, RetryAssumption DEF JobsOrderly
<1>1. TaskTypeOK' /\ EnvTypeOK'
  BY DEF TypeOK, TaskTypeOK, EnvTypeOK, ScheduleRound, Continue, envVars
<1>2. UNCHANGED <<circleVars, txVars, pc, cur>>
  BY DEF ScheduleRound
<1>3. CASE UNCHANGED jobs
  BY <1>1, <1>2, <1>3, QuietStep
<1>4. CASE ~UNCHANGED jobs
  <2> DEFINE j == [jobs[slot] EXCEPT !.state =
                     IF clock >= slot THEN "waiting" ELSE "delayed"]
  <2>1. /\ slot \in Rounds /\ jobs[slot].state = "none"
        /\ jobs' = [jobs EXCEPT ![slot] = j]
    BY <1>4, LinkedAssumption DEF ScheduleRound
  <2>2. jobs[slot] \in Job /\ jobs[slot].attempts = 0 /\ jobs[slot].stalls = 0
    BY <2>1, RoundTypes DEF JobInv
  <2>3. /\ j \in Job /\ j.attempts = 0 /\ j.stalls = 0
        /\ j.state \in {"waiting", "delayed"}
    BY <2>2 DEF Job, JobStates
  <2>4. /\ JobTypeOK' /\ jobs'[slot] = j
        /\ \A q \in Rounds \ {slot} : jobs'[q] = jobs[q]
    BY <2>1, <2>3, OneJob
  <2>5. Running => jobs'[cur].state = "active"
    BY <2>1, <2>4 DEF WorkerInv, TypeOK, WorkerTypeOK
  <2>6. JobInv'
    <3>1. received' = received
      BY <1>2 DEF circleVars
    <3>2. SUFFICES ASSUME NEW q \in Rounds PROVE JobInv!(q)'
      BY DEF JobInv
    <3>3. CASE q = slot
      <4>1. jobs'[q].attempts = 0 /\ jobs'[q].stalls = 0
            /\ jobs'[q].state \in {"waiting", "delayed"}
        BY <2>3, <2>4, <3>3
      <4>2. QED
        BY <4>1
    <3>4. CASE q # slot
      BY <2>4, <3>1, <3>4 DEF JobInv
    <3>5. QED
      BY <3>3, <3>4
  <2>7. AnsweredInv'
    BY <2>1, <2>2, <2>3, <2>4, <1>2 DEF AnsweredInv, circleVars, txVars
  <2>8. QED
    BY <1>1, <1>2, <2>4, <2>5, <2>6, <2>7, QueueStep
<1>5. QED
  BY <1>3, <1>4

\* Moving a job that is not running to the wait list.
LEMMA PromoteInv ==
  ASSUME JobsOrderly, NEW S \in SUBSET Rounds, \A r \in S : jobs[r].state = "delayed",
         jobs' = [r \in Rounds |-> IF r \in S
                                  THEN [jobs[r] EXCEPT !.state = "waiting"]
                                  ELSE jobs[r]],
         UNCHANGED <<circleVars, txVars, pc, cur>>, TaskTypeOK', EnvTypeOK'
  PROVE  JobsOrderly'
<1> USE NAssumption, RetryAssumption DEF JobsOrderly
<1>1. ASSUME NEW r \in Rounds
      PROVE  /\ jobs[r] \in Job /\ jobs'[r] \in Job
             /\ jobs'[r].attempts = jobs[r].attempts
             /\ jobs'[r].stalls = jobs[r].stalls
             /\ jobs'[r].state = IF r \in S THEN "waiting" ELSE jobs[r].state
  <2>1. jobs[r] \in Job
    BY RoundTypes
  <2>2. QED
    BY <2>1 DEF Job, JobStates
<1>2. JobTypeOK'
  BY <1>1 DEF JobTypeOK
<1>3. JobInv' /\ AnsweredInv'
  BY <1>1 DEF JobInv, AnsweredInv, circleVars, txVars
<1>4. Running => jobs'[cur].state = "active"
  BY <1>1 DEF WorkerInv, TypeOK, WorkerTypeOK
<1>5. QED
  BY <1>2, <1>3, <1>4, QueueStep

\* A recovered or dropped job keeps what is said of jobs.
LEMMA RecoverInv ==
  ASSUME JobsOrderly, NEW r \in Rounds, Recover(r)
  PROVE  JobsOrderly'
<1> DEFINE j == [state |-> IF jobs[r].stalls < MaxStalled THEN "waiting" ELSE "failed",
                 attempts |-> jobs[r].attempts, stalls |-> jobs[r].stalls + 1,
                 reason |-> IF jobs[r].stalls < MaxStalled
                            THEN jobs[r].reason ELSE "stalled"]
<1> USE NAssumption, RetryAssumption DEF JobsOrderly
<1>1. /\ jobs[r] \in Job /\ jobs[r].state = "active" /\ cur # r
      /\ jobs[r].attempts \in Nat /\ jobs[r].attempts < MaxAttempts
      /\ jobs[r].stalls \in Nat /\ jobs[r].stalls <= MaxStalled
      /\ answered[r] \in Nat
  BY RoundTypes DEF Recover, JobInv
<1>2. j \in Job
  <2>1. jobs[r].reason \in Reasons /\ jobs[r].attempts \in 0..MaxAttempts
    BY <1>1 DEF Job
  <2>2. "stalled" \in Reasons
    BY DEF Reasons
  <2>3. jobs[r].stalls + 1 \in 0..(MaxStalled + 1)
    BY <1>1
  <2>4. QED
    BY <2>1, <2>2, <2>3 DEF Job, JobStates
<1>3. jobs' = [jobs EXCEPT ![r] = j]
  BY DEF Recover
<1>4. JobTypeOK' /\ jobs'[r] = j /\ \A q \in Rounds \ {r} : jobs'[q] = jobs[q]
  BY <1>2, <1>3, OneJob
<1>5. UNCHANGED <<circleVars, txVars, pc, cur>> /\ TaskTypeOK' /\ EnvTypeOK'
  BY DEF Recover, TypeOK, TaskTypeOK, EnvTypeOK, taskVars, envVars
<1>6. JobInv'
  BY <1>1, <1>4, <1>5 DEF JobInv, circleVars
<1>7. AnsweredInv'
  <2>1. r \notin received => answered[r] <= jobs[r].attempts + jobs[r].stalls + 1
    BY <1>1 DEF AnsweredInv
  <2>2. QED
    BY <1>1, <1>4, <1>5, <2>1 DEF AnsweredInv, circleVars, txVars
<1>8. Running => jobs'[cur].state = "active"
  BY <1>1, <1>4 DEF WorkerInv, TypeOK, WorkerTypeOK
<1>9. QED
  BY <1>4, <1>5, <1>6, <1>7, <1>8, QueueStep

LEMMA RemoveCompletedInv ==
  ASSUME JobsOrderly, NEW r \in Rounds, RemoveCompleted(r)
  PROVE  JobsOrderly'
<1> USE NAssumption, RetryAssumption DEF JobsOrderly
<1>1. jobs[r].state = "completed" /\ r \in received
  BY DEF RemoveCompleted, JobInv
<1>2. NoJob \in Job /\ NoJob.attempts = 0 /\ NoJob.stalls = 0 /\ NoJob.state = "none"
  BY DEF NoJob, Job, JobStates, Reasons
<1>3. JobTypeOK' /\ jobs'[r] = NoJob /\ \A q \in Rounds \ {r} : jobs'[q] = jobs[q]
  BY <1>2, OneJob DEF RemoveCompleted
<1>4. UNCHANGED <<circleVars, txVars, pc, cur>> /\ TaskTypeOK' /\ EnvTypeOK'
  BY DEF RemoveCompleted, TypeOK, TaskTypeOK, EnvTypeOK, taskVars, envVars
<1>5. JobInv' /\ AnsweredInv'
  BY <1>1, <1>2, <1>3, <1>4 DEF JobInv, AnsweredInv, circleVars, txVars
<1>6. Running => jobs'[cur].state = "active"
  BY <1>1, <1>3 DEF WorkerInv, TypeOK, WorkerTypeOK
<1>7. QED
  BY <1>3, <1>4, <1>5, <1>6, QueueStep

\* The worker moves on within its job, and the job's record stays: what is
\* left to show concerns the circle, the ledger and the new position.
LEMMA WorkerStep ==
  ASSUME JobsOrderly, Running, NEW step \in Steps, Goto(step),
         UNCHANGED <<jobs, taskVars, envVars>>,
         CircleTypeOK', TxTypeOK', EligibleInv', StartedInv',
         RoundBehindPayouts', AnsweredInv', PayoutsBounded', LedgerInv',
         LedgerBacked', FirstMemberUnpaid', received \subseteq received'
  PROVE  JobsOrderly'
<1> USE DEF JobsOrderly
<1>1. pc' = step /\ cur' = cur /\ jobs' = jobs /\ Running'
  BY DEF Goto, Running
<1>2. TypeOK'
  BY <1>1 DEF TypeOK, JobTypeOK, WorkerTypeOK, TaskTypeOK, EnvTypeOK,
     taskVars, envVars
<1>3. WorkerInv'
  BY <1>1 DEF WorkerInv
<1>4. JobInv'
  BY <1>1 DEF JobInv
<1>5. QED
  BY <1>2, <1>3, <1>4

\* Verification reads the circle and moves on when nothing speaks against it.
LEMMA VerifyAcceptsInv ==
  ASSUME JobsOrderly, VerifyAccepts
  PROVE  JobsOrderly'
<1> USE DEF JobsOrderly
<1>1. /\ Running /\ cur \in Rounds /\ cur' = cur /\ pc = "verify"
      /\ pc' = "create" /\ Goto("create") /\ "create" \in Steps
      /\ UNCHANGED <<circleVars, txVars, jobs, taskVars, envVars>>
  BY DEF VerifyAccepts, At, Goto, Running, Steps, WorkerInv, TypeOK, WorkerTypeOK
<1>2. status = "ACTIVE" /\ ~(currentRound >= cur) /\ cur \notin received
  BY DEF VerifyAccepts, Refusal
<1>3. CircleTypeOK' /\ TxTypeOK'
  BY <1>1 DEF TypeOK, CircleTypeOK, TxTypeOK, circleVars, txVars
<1>4. EligibleInv'
  BY <1>1, <1>2 DEF EligibleInv, circleVars, TypeOK, CircleTypeOK
<1>5. AnsweredInv' /\ LedgerInv'
  BY <1>1 DEF AnsweredInv, LedgerInv, circleVars, txVars
<1>6. /\ StartedInv' /\ RoundBehindPayouts' /\ PayoutsBounded'
      /\ LedgerBacked' /\ FirstMemberUnpaid' /\ received' = received
  BY <1>1 DEF StartedInv, RoundBehindPayouts, PayoutsBounded, LedgerBacked,
     FirstMemberUnpaid, circleVars, txVars
<1>7. QED
  BY <1>1, <1>3, <1>4, <1>5, <1>6, WorkerStep

LEMMA CreateTransactionInv ==
  ASSUME JobsOrderly, CreateTransaction
  PROVE  JobsOrderly'
<1> USE DEF JobsOrderly
<1>1. /\ Running /\ cur \in Rounds /\ cur' = cur /\ pc = "create"
      /\ pc' = "pay" /\ Goto("pay") /\ "pay" \in Steps
      /\ UNCHANGED <<circleVars, jobs, taskVars, envVars>>
      /\ confirmedTx' = confirmedTx /\ answered' = answered /\ moved' = moved
  BY DEF CreateTransaction, At, Goto, Running, Steps, WorkerInv, TypeOK,
     WorkerTypeOK
<1>2. pendingTx' \in [Rounds -> Nat] /\ pendingTx'[cur] > 0
  <2>1. pendingTx[cur] \in Nat
    BY <1>1, RoundTypes
  <2>2. QED
    BY <1>1, <2>1 DEF CreateTransaction, TypeOK, TxTypeOK
<1>3. CircleTypeOK' /\ TxTypeOK'
  BY <1>1, <1>2 DEF TypeOK, CircleTypeOK, TxTypeOK, circleVars
<1>4. EligibleInv' /\ LedgerInv'
  BY <1>1, <1>2 DEF EligibleInv, LedgerInv, circleVars
<1>5. AnsweredInv'
  BY <1>1 DEF AnsweredInv, circleVars
<1>6. /\ StartedInv' /\ RoundBehindPayouts' /\ PayoutsBounded'
      /\ LedgerBacked' /\ FirstMemberUnpaid' /\ received' = received
  BY <1>1 DEF StartedInv, RoundBehindPayouts, PayoutsBounded, LedgerBacked,
     FirstMemberUnpaid, circleVars
<1>7. QED
  BY <1>1, <1>3, <1>4, <1>5, <1>6, WorkerStep

\* The payout call is made for a round that is neither passed nor marked, by an
\* attempt that had not made it yet.
LEMMA ExecutePayoutInv ==
  ASSUME JobsOrderly, ExecutePayout
  PROVE  JobsOrderly'
<1> USE NAssumption, RetryAssumption DEF JobsOrderly
<1>1. /\ Running /\ cur \in Rounds /\ cur' = cur /\ pc = "pay"
      /\ pc' = "confirm" /\ Goto("confirm") /\ "confirm" \in Steps
      /\ UNCHANGED <<circleVars, jobs, taskVars, envVars>>
      /\ pendingTx' = pendingTx /\ confirmedTx' = confirmedTx
  BY DEF ExecutePayout, At, Goto, Running, Steps, WorkerInv, TypeOK, WorkerTypeOK
<1>2. /\ answered[cur] \in Nat /\ confirmedTx[cur] \in Nat
      /\ jobs[cur].attempts \in Nat /\ jobs[cur].stalls \in Nat
  BY <1>1, RoundTypes
<1>3. /\ answered' \in [Rounds -> Nat] /\ answered'[cur] = answered[cur] + 1
      /\ \A r \in Rounds \ {cur} : answered'[r] = answered[r]
  <2>1. TxTypeOK
    BY DEF TypeOK
  <2>2. answered' = [answered EXCEPT ![cur] = answered[cur] + 1]
    BY DEF ExecutePayout
  <2>3. QED
    BY <1>1, <1>2, <2>1, <2>2 DEF TxTypeOK
<1>4. /\ status = "ACTIVE" /\ currentRound < cur /\ cur \notin received
      /\ jobs[cur].state = "active" /\ pendingTx[cur] > 0
  BY <1>1 DEF EligibleInv, WorkerInv, LedgerInv
<1>5. /\ jobs[cur].attempts < MaxAttempts /\ jobs[cur].stalls <= MaxStalled
      /\ answered[cur] <= jobs[cur].attempts + jobs[cur].stalls
  BY <1>1, <1>2, <1>4 DEF JobInv, AnsweredInv
<1>6. CircleTypeOK' /\ TxTypeOK'
  <2>1. moved[cur] + (IF Chain = "BASE" THEN 1 ELSE 0) \in Nat
    BY <1>1 DEF TypeOK, TxTypeOK
  <2>2. moved' \in [Rounds -> Nat]
    BY <1>1, <2>1 DEF ExecutePayout, TypeOK, TxTypeOK
  <2>3. QED
    BY <1>1, <1>3, <2>2 DEF TypeOK, CircleTypeOK, TxTypeOK, circleVars
<1>7. EligibleInv' /\ StartedInv' /\ RoundBehindPayouts'
  BY <1>1, <1>4 DEF EligibleInv, StartedInv, RoundBehindPayouts, circleVars
<1>8. AnsweredInv'
  <2>1. received' = received
    BY <1>1 DEF circleVars
  <2>2. answered'[cur] <= jobs'[cur].attempts + jobs'[cur].stalls + 1
    BY <1>1, <1>2, <1>3, <1>5
  <2>3. QED
    BY <1>1, <1>3, <1>4, <2>1, <2>2 DEF AnsweredInv
<1>9. PayoutsBounded'
  <2>1. answered'[cur] <= MaxAttempts + MaxStalled
    BY <1>2, <1>3, <1>5
  <2>2. QED
    BY <1>3, <2>1 DEF PayoutsBounded
<1>10. LedgerInv' /\ LedgerBacked'
  <2>1. \A r \in Rounds : confirmedTx[r] \in Nat /\ answered[r] \in Nat
    BY RoundTypes
  <2>2. LedgerBacked'
    BY <1>1, <1>2, <1>3, <2>1 DEF LedgerBacked, circleVars
  <2>3. LedgerInv'
    BY <1>1, <1>2, <1>3, <1>4 DEF LedgerInv, LedgerBacked
  <2>4. QED
    BY <2>2, <2>3
<1>11. FirstMemberUnpaid'
  <2>1. cur # 1 /\ 1 \in Rounds
    BY <1>1, <1>4 DEF StartedInv, TypeOK, CircleTypeOK
  <2>2. QED
    BY <1>1, <1>3, <2>1 DEF FirstMemberUnpaid, circleVars
<1>12. received' = received
  BY <1>1 DEF circleVars
<1>13. QED
  BY <1>1, <1>6, <1>7, <1>8, <1>9, <1>10, <1>11, <1>12, WorkerStep

LEMMA ConfirmTransactionInv ==
  ASSUME JobsOrderly, ConfirmTransaction
  PROVE  JobsOrderly'
<1> USE DEF JobsOrderly
<1>1. /\ Running /\ cur \in Rounds /\ cur' = cur /\ pc = "confirm"
      /\ pc' = "mark" /\ Goto("mark") /\ "mark" \in Steps
      /\ UNCHANGED <<circleVars, jobs, taskVars, envVars>> /\ answered' = answered
  BY DEF ConfirmTransaction, At, Goto, Running, Steps, WorkerInv, TypeOK,
     WorkerTypeOK
<1>2. /\ pendingTx[cur] \in Nat /\ pendingTx[cur] > 0
      /\ confirmedTx[cur] \in Nat /\ answered[cur] \in Nat
      /\ confirmedTx[cur] < answered[cur]
  BY <1>1, RoundTypes DEF LedgerInv
<1>3. /\ confirmedTx' \in [Rounds -> Nat] /\ pendingTx' \in [Rounds -> Nat]
      /\ confirmedTx'[cur] = confirmedTx[cur] + 1
      /\ \A r \in Rounds \ {cur} : confirmedTx'[r] = confirmedTx[r]
  <2>1. pendingTx[cur] - 1 \in Nat /\ confirmedTx[cur] + 1 \in Nat
    BY <1>2
  <2>2. QED
    BY <1>1, <2>1 DEF ConfirmTransaction, TypeOK, TxTypeOK
<1>4. CircleTypeOK' /\ TxTypeOK'
  BY <1>1, <1>3 DEF ConfirmTransaction, TypeOK, CircleTypeOK, TxTypeOK, circleVars
<1>5. EligibleInv' /\ StartedInv' /\ RoundBehindPayouts' /\ FirstMemberUnpaid'
  BY <1>1 DEF EligibleInv, StartedInv, RoundBehindPayouts, FirstMemberUnpaid,
     circleVars
<1>6. AnsweredInv' /\ PayoutsBounded'
  BY <1>1 DEF AnsweredInv, PayoutsBounded, circleVars
<1>7. LedgerInv'
  BY <1>1, <1>2, <1>3 DEF LedgerInv
<1>8. LedgerBacked'
  BY <1>1, <1>2, <1>3 DEF LedgerBacked, circleVars
<1>9. received' = received
  BY <1>1 DEF circleVars
<1>10. QED
  BY <1>1, <1>4, <1>5, <1>6, <1>7, <1>8, <1>9, WorkerStep

\* Marking: one more member is paid, which is what lets the round advance.
LEMMA MarkPayoutReceivedInv ==
  ASSUME JobsOrderly, MarkPayoutReceived
  PROVE  JobsOrderly'
<1> USE NAssumption DEF JobsOrderly
<1>1. /\ Running /\ cur \in Rounds /\ cur' = cur /\ pc = "mark"
      /\ pc' = "advance" /\ Goto("advance") /\ "advance" \in Steps
      /\ UNCHANGED <<txVars, jobs, taskVars, envVars>>
      /\ status' = status /\ currentRound' = currentRound
      /\ received' = received \cup {cur}
  BY DEF MarkPayoutReceived, At, Goto, Running, Steps, WorkerInv, TypeOK,
     WorkerTypeOK
<1>2. /\ status = "ACTIVE" /\ currentRound < cur /\ cur \notin received
      /\ confirmedTx[cur] > 0 /\ currentRound \in Nat /\ received \in SUBSET Rounds
  BY <1>1 DEF EligibleInv, LedgerInv, TypeOK, CircleTypeOK
<1>3. CircleTypeOK' /\ TxTypeOK'
  BY <1>1, <1>2 DEF TypeOK, CircleTypeOK, TxTypeOK, txVars
<1>4. EligibleInv' /\ StartedInv' /\ LedgerInv'
  BY <1>1 DEF EligibleInv, StartedInv, LedgerInv
<1>5. RoundBehindPayouts'
  <2>1. Cardinality(received) \in Nat /\ Cardinality(received') = Cardinality(received) + 1
    BY <1>1, <1>2, ReceivedFinite, ReceivedGrows
  <2>2. QED
    BY <1>1, <1>2, <2>1 DEF RoundBehindPayouts
<1>6. AnsweredInv' /\ PayoutsBounded'
  BY <1>1 DEF AnsweredInv, PayoutsBounded, txVars
<1>7. LedgerBacked'
  BY <1>1, <1>2 DEF LedgerBacked, txVars
<1>8. FirstMemberUnpaid'
  BY <1>1, <1>2 DEF StartedInv, FirstMemberUnpaid, txVars
<1>9. QED
  BY <1>1, <1>3, <1>4, <1>5, <1>6, <1>7, <1>8, WorkerStep

LEMMA AdvanceRoundInv ==
  ASSUME JobsOrderly, AdvanceRound
  PROVE  JobsOrderly'
<1> USE DEF JobsOrderly
<1>1. /\ Running /\ cur' = cur /\ pc = "advance"
      /\ pc' = "settle" /\ Goto("settle") /\ "settle" \in Steps
      /\ UNCHANGED <<txVars, jobs, taskVars, envVars>>
      /\ status' = status /\ currentRound' = currentRound + 1
      /\ received' = received
  BY DEF AdvanceRound, At, Goto, Running, Steps
<1>2. currentRound \in Nat /\ Cardinality(received) \in Nat
  BY ReceivedFinite DEF TypeOK, CircleTypeOK
<1>3. CircleTypeOK' /\ TxTypeOK'
  BY <1>1, <1>2 DEF TypeOK, CircleTypeOK, TxTypeOK, txVars
<1>4. EligibleInv' /\ StartedInv' /\ LedgerInv' /\ FirstMemberUnpaid'
  BY <1>1, <1>2 DEF EligibleInv, StartedInv, LedgerInv, FirstMemberUnpaid, txVars
<1>5. RoundBehindPayouts'
  BY <1>1, <1>2 DEF RoundBehindPayouts
<1>6. AnsweredInv' /\ PayoutsBounded' /\ LedgerBacked'
  BY <1>1 DEF AnsweredInv, PayoutsBounded, LedgerBacked, txVars
<1>7. QED
  BY <1>1, <1>3, <1>4, <1>5, <1>6, WorkerStep

\* The first member is unpaid, so the circle is not completed.
LEMMA SettleInv ==
  ASSUME JobsOrderly, Settle
  PROVE  JobsOrderly'
<1> USE NAssumption DEF JobsOrderly
<1>1. /\ Running /\ cur' = cur /\ pc = "settle"
      /\ pc' = "notify" /\ Goto("notify") /\ "notify" \in Steps
      /\ UNCHANGED <<txVars, jobs, taskVars, envVars>>
      /\ currentRound' = currentRound /\ received' = received
  BY DEF Settle, At, Goto, Running, Steps
<1>2. status' = status
  BY DEF Settle, FirstMemberUnpaid
<1>3. CircleTypeOK' /\ TxTypeOK'
  BY <1>1, <1>2 DEF TypeOK, CircleTypeOK, TxTypeOK, txVars
<1>4. /\ EligibleInv' /\ StartedInv' /\ LedgerInv' /\ FirstMemberUnpaid'
      /\ RoundBehindPayouts'
  BY <1>1, <1>2 DEF EligibleInv, StartedInv, LedgerInv, FirstMemberUnpaid,
     RoundBehindPayouts, txVars
<1>5. AnsweredInv' /\ PayoutsBounded' /\ LedgerBacked'
  BY <1>1 DEF AnsweredInv, PayoutsBounded, LedgerBacked, txVars
<1>6. QED
  BY <1>1, <1>3, <1>4, <1>5, WorkerStep

LEMMA FinishInv ==
  ASSUME JobsOrderly, Finish
  PROVE  JobsOrderly'
<1> USE NAssumption DEF JobsOrderly
<1>1. /\ cur \in Rounds /\ jobs[cur].state = "active" /\ cur \in received
      /\ jobs[cur] \in Job
  BY RoundTypes DEF Finish, At, Running, Steps, WorkerInv, EligibleInv, TypeOK,
     WorkerTypeOK
<1> DEFINE j == [jobs[cur] EXCEPT !.state = "completed"]
<1>2. /\ pc' = "idle" /\ cur' = 0 /\ jobs' = [jobs EXCEPT ![cur] = j]
      /\ UNCHANGED <<circleVars, txVars, taskVars, envVars>> /\ pc = "notify"
  BY DEF Finish, At
<1>3. /\ j \in Job /\ j.state = "completed" /\ j.attempts = jobs[cur].attempts
      /\ j.stalls = jobs[cur].stalls
  BY <1>1 DEF Job, JobStates
<1>4. JobTypeOK' /\ jobs'[cur] = j /\ \A q \in Rounds \ {cur} : jobs'[q] = jobs[q]
  BY <1>1, <1>2, <1>3, OneJob
<1>5. TypeOK'
  BY <1>2, <1>4 DEF TypeOK, CircleTypeOK, TxTypeOK, WorkerTypeOK, TaskTypeOK,
     EnvTypeOK, circleVars, txVars, taskVars, envVars
<1>6. WorkerInv' /\ EligibleInv' /\ StartedInv' /\ LedgerInv'
  BY <1>2 DEF WorkerInv, EligibleInv, StartedInv, LedgerInv, Running, Steps,
     circleVars
<1>7. JobInv'
  BY <1>1, <1>2, <1>3, <1>4 DEF JobInv, circleVars
<1>8. AnsweredInv'
  BY <1>1, <1>2, <1>3, <1>4 DEF AnsweredInv, circleVars, txVars
<1>9. RoundBehindPayouts' /\ PayoutsBounded' /\ LedgerBacked' /\ FirstMemberUnpaid'
  BY <1>2 DEF RoundBehindPayouts, PayoutsBounded, LedgerBacked,
     FirstMemberUnpaid, circleVars, txVars
<1>10. QED
  BY <1>5, <1>6, <1>7, <1>8, <1>9

LEMMA TakeInv ==
  ASSUME JobsOrderly, NEW r \in Rounds, Take(r)
  PROVE  JobsOrderly'
<1> USE NAssumption DEF JobsOrderly
<1>1. /\ jobs[r].state = "waiting" /\ jobs[r] \in Job /\ pc = "idle"
      /\ jobs[r].attempts \in Nat /\ jobs[r].stalls \in Nat /\ answered[r] \in Nat
  BY RoundTypes DEF Take
<1> DEFINE j == [jobs[r] EXCEPT !.state = "active"]
<1>2. /\ pc' = "verify" /\ cur' = r /\ jobs' = [jobs EXCEPT ![r] = j]
      /\ UNCHANGED <<circleVars, txVars, taskVars, envVars>>
  BY DEF Take
<1>3. /\ j \in Job /\ j.state = "active" /\ j.attempts = jobs[r].attempts
      /\ j.stalls = jobs[r].stalls
  BY <1>1 DEF Job, JobStates
<1>4. JobTypeOK' /\ jobs'[r] = j /\ \A q \in Rounds \ {r} : jobs'[q] = jobs[q]
  BY <1>2, <1>3, OneJob
<1>5. TypeOK'
  BY <1>2, <1>4 DEF TypeOK, CircleTypeOK, TxTypeOK, WorkerTypeOK, TaskTypeOK,
     EnvTypeOK, Steps, circleVars, txVars, taskVars, envVars
<1>6. WorkerInv' /\ EligibleInv' /\ StartedInv' /\ LedgerInv'
  <2>1. pc' = "verify" /\ cur' = r /\ r # 0
    BY <1>2
  <2>2. jobs'[cur'].state = "active"
    BY <1>3, <1>4, <2>1
  <2>3. WorkerInv'
    BY <2>1, <2>2 DEF WorkerInv, Running, Steps
  <2>4. QED
    BY <1>2, <2>3 DEF EligibleInv, StartedInv, LedgerInv, circleVars
<1>7. JobInv'
  BY <1>1, <1>2, <1>3, <1>4 DEF JobInv, circleVars
<1>8. AnsweredInv'
  <2>1. cur = 0
    BY <1>1 DEF WorkerInv, Running, Steps
  <2>2. QED
    BY <1>1, <1>2, <1>3, <1>4, <2>1 DEF AnsweredInv, circleVars, txVars
<1>9. RoundBehindPayouts' /\ PayoutsBounded' /\ LedgerBacked' /\ FirstMemberUnpaid'
  BY <1>1, <1>2 DEF RoundBehindPayouts, PayoutsBounded, LedgerBacked,
     FirstMemberUnpaid, circleVars, txVars
<1>10. QED
  BY <1>5, <1>6, <1>7, <1>8, <1>9

\* Starting the circle, a crash and a restart.
LEMMA StartCircleInv ==
  ASSUME JobsOrderly, StartCircle
  PROVE  JobsOrderly'
<1> USE NAssumption DEF JobsOrderly
<1>1. /\ status = "RECRUITING" /\ status' = "ACTIVE" /\ currentRound' = 1
      /\ pc' = pc /\ cur' = cur /\ jobs' = jobs /\ received' = received
      /\ UNCHANGED <<txVars, envVars>> /\ task' = "listener" /\ slot' = slot
  BY DEF StartCircle
<1>2. TypeOK'
  BY <1>1 DEF TypeOK, CircleTypeOK, TxTypeOK, JobTypeOK, WorkerTypeOK,
     TaskTypeOK, EnvTypeOK, txVars, envVars
<1>3. WorkerInv' /\ JobInv' /\ AnsweredInv'
  BY <1>1 DEF WorkerInv, JobInv, AnsweredInv, Running, txVars
<1>4. EligibleInv' /\ StartedInv' /\ LedgerInv'
  BY <1>1 DEF EligibleInv, StartedInv, LedgerInv, txVars
<1>5. RoundBehindPayouts'
  <2>1. Cardinality(received) \in Nat
    BY ReceivedFinite DEF TypeOK, CircleTypeOK
  <2>2. pc = "advance" => cur \in received
    BY DEF EligibleInv
  <2>3. cur \in received => Cardinality(received) >= 1
    <3>1. CASE received = {}
      BY <3>1
    <3>2. CASE received # {}
      <4>1. IsFiniteSet(received)
        BY ReceivedFinite DEF TypeOK, CircleTypeOK
      <4>2. Cardinality(received) # 0
        BY <3>2, <4>1, FS_EmptySet
      <4>3. QED
        BY <2>1, <4>2
    <3>3. QED
      BY <3>1, <3>2
  <2>4. QED
    BY <1>1, <2>1, <2>2, <2>3 DEF RoundBehindPayouts
<1>6. PayoutsBounded' /\ LedgerBacked' /\ FirstMemberUnpaid'
  BY <1>1 DEF PayoutsBounded, LedgerBacked, FirstMemberUnpaid, txVars
<1>7. QED
  BY <1>2, <1>3, <1>4, <1>5, <1>6

LEMMA ServerInv ==
  ASSUME JobsOrderly, Crash \/ Restart
  PROVE  JobsOrderly'
<1> USE NAssumption, BoundAssumption DEF JobsOrderly
<1>1. /\ pc' \in {"down", "idle"} /\ cur' = 0 /\ jobs' = jobs
      /\ UNCHANGED <<circleVars, txVars, clock, failures>>
  BY DEF Crash, Restart, WorkerInv, Running, Steps, envVars
<1>2. TaskTypeOK' /\ EnvTypeOK'
  BY DEF Crash, Restart, TypeOK, TaskTypeOK, EnvTypeOK, envVars
<1>3. TypeOK'
  BY <1>1, <1>2 DEF TypeOK, CircleTypeOK, TxTypeOK, JobTypeOK, WorkerTypeOK,
     circleVars, txVars
<1>4. WorkerInv' /\ EligibleInv' /\ StartedInv' /\ LedgerInv'
  BY <1>1 DEF WorkerInv, EligibleInv, StartedInv, LedgerInv, Running, Steps,
     circleVars
<1>5. JobInv' /\ PayoutsBounded' /\ LedgerBacked' /\ FirstMemberUnpaid'
  BY <1>1 DEF JobInv, PayoutsBounded, LedgerBacked, FirstMemberUnpaid,
     circleVars, txVars
<1>6. RoundBehindPayouts'
  <2>1. Cardinality(received) \in Nat /\ currentRound \in Nat
    BY ReceivedFinite DEF TypeOK, CircleTypeOK
  <2>2. QED
    BY <1>1, <2>1 DEF RoundBehindPayouts, circleVars
<1>7. AnsweredInv'
  <2>1. SUFFICES ASSUME NEW r \in Rounds, r \notin received
                 PROVE  answered[r] <= jobs[r].attempts + jobs[r].stalls +
                          IF jobs[r].state = "active" THEN 1 ELSE 0
    BY <1>1 DEF AnsweredInv, circleVars, txVars
  <2>2. jobs[r].attempts \in Nat /\ jobs[r].stalls \in Nat /\ answered[r] \in Nat
    BY RoundTypes
  <2>3. QED
    BY <2>1, <2>2 DEF AnsweredInv
<1>8. QED
  BY <1>3, <1>4, <1>5, <1>6, <1>7

\* Every step keeps the invariant.
THEOREM NextInv == JobsOrderly /\ [Next]_vars => JobsOrderly'
<1> SUFFICES ASSUME JobsOrderly, [Next]_vars PROVE JobsOrderly'
  OBVIOUS
<1> USE NAssumption, BoundAssumption
<1>0. CircleTypeOK /\ TaskTypeOK /\ EnvTypeOK /\ TypeOK
  BY DEF JobsOrderly, TypeOK
<1>1. CASE StartCircle
  BY <1>1, StartCircleInv
<1>2. CASE ListenerReads \/ Reconcile
  <2>1. TaskTypeOK' /\ EnvTypeOK' /\ UNCHANGED <<circleVars, txVars, jobs, pc, cur>>
    BY <1>0, <1>2 DEF ListenerReads, Reconcile, TaskTypeOK, EnvTypeOK, envVars
  <2>2. QED
    BY <2>1, QuietStep
<1>3. CASE ScheduleRound
  BY <1>3, ScheduleRoundInv
<1>4. CASE ScheduleRoundFails \/ SchedulingAborts
  <2>1. TaskTypeOK' /\ EnvTypeOK' /\ UNCHANGED <<circleVars, txVars, jobs, pc, cur>>
    BY <1>0, <1>4 DEF ScheduleRoundFails, SchedulingAborts, Continue,
       TaskTypeOK, EnvTypeOK
  <2>2. QED
    BY <2>1, QuietStep
<1>5. CASE Tick
  <2>1. TaskTypeOK' /\ EnvTypeOK' /\ UNCHANGED <<circleVars, txVars, jobs, pc, cur>>
    BY <1>0, <1>5 DEF Tick, TaskTypeOK, EnvTypeOK, taskVars
  <2>2. QED
    BY <2>1, QuietStep
<1>6. CASE PromoteDue
  <2> DEFINE S == {r \in Rounds : Due(r) /\ jobs[r].attempts = 0}
  <2>1. /\ TaskTypeOK' /\ EnvTypeOK' /\ UNCHANGED <<circleVars, txVars, pc, cur>>
        /\ \A r \in S : jobs[r].state = "delayed"
    BY <1>0, <1>6 DEF PromoteDue, Due, TaskTypeOK, EnvTypeOK, taskVars, envVars
  <2>2. jobs' = [r \in Rounds |-> IF r \in S
                                 THEN [jobs[r] EXCEPT !.state = "waiting"]
                                 ELSE jobs[r]]
    BY <1>6 DEF PromoteDue
  <2>3. QED
    BY <2>1, <2>2, PromoteInv
<1>7. ASSUME NEW r \in Rounds, PromoteRetry(r)
      PROVE  JobsOrderly'
  <2> DEFINE S == {r}
  <2>1. /\ TaskTypeOK' /\ EnvTypeOK' /\ UNCHANGED <<circleVars, txVars, pc, cur>>
        /\ S \in SUBSET Rounds /\ \A q \in S : jobs[q].state = "delayed"
    BY <1>0, <1>7 DEF PromoteRetry, Due, TaskTypeOK, EnvTypeOK, taskVars, envVars
  <2>2. jobs' = [q \in Rounds |-> IF q \in S
                                 THEN [jobs[q] EXCEPT !.state = "waiting"]
                                 ELSE jobs[q]]
    BY <1>0, <1>7 DEF PromoteRetry, TypeOK, JobTypeOK
  <2> HIDE DEF S
  <2>3. QED
    BY <2>1, <2>2, PromoteInv
<1>8. ASSUME NEW r \in Rounds, Take(r) \/ Recover(r) \/ RemoveCompleted(r)
      PROVE  JobsOrderly'
  BY <1>8, TakeInv, RecoverInv, RemoveCompletedInv
<1>9. CASE VerifyRefuses \/ VerifyBalanceRefuses \/ StepFails
  <2>1. PICK why \in Reasons : FailAttempt(why)
    BY <1>9 DEF VerifyRefuses, VerifyBalanceRefuses, StepFails, Refusal, Reasons
  <2>2. /\ Running /\ UNCHANGED <<circleVars, txVars>>
        /\ TaskTypeOK' /\ EnvTypeOK'
    BY <1>0, <1>9 DEF VerifyRefuses, VerifyBalanceRefuses, StepFails, At,
       Running, Steps, TaskTypeOK, EnvTypeOK, taskVars, envVars
  <2>3. QED
    BY <2>1, <2>2, FailAttemptInv
<1>10. CASE VerifyAccepts \/ CreateTransaction \/ ExecutePayout
            \/ ConfirmTransaction \/ MarkPayoutReceived \/ AdvanceRound
            \/ Settle \/ Finish
  BY <1>10, VerifyAcceptsInv, CreateTransactionInv, ExecutePayoutInv,
     ConfirmTransactionInv, MarkPayoutReceivedInv, AdvanceRoundInv, SettleInv,
     FinishInv
<1>11. CASE Crash \/ Restart
  BY <1>11, ServerInv
<1>12. CASE UNCHANGED vars
  BY <1>0, <1>12, QuietStep DEF vars, circleVars, txVars, TaskTypeOK, EnvTypeOK
<1>13. QED
  BY <1>1, <1>2, <1>3, <1>4, <1>5, <1>6, <1>7, <1>8, <1>9, <1>10, <1>11, <1>12
     DEF Next, Scheduling, Processing, Queueing, Faults

\* The order of jobs, worker and payouts holds in every reachable state.
THEOREM Orderly == Spec => []JobsOrderly
<1>1. QED
  BY InitInv, NextInv, PTL DEF Spec

\* The money and the round: what jobs and their failures leave them.
Rest == RoundKeepsUp /\ BaseInv /\ NothingMoves

\* A step that marks nobody and does not move the round may only spend more.
LEMMA KeepsUp ==
  ASSUME JobsOrderly, JobsOrderly', RoundKeepsUp, status' = status, received' = received,
         currentRound' = currentRound, failures <= failures', crashes <= crashes',
         pc = "advance" => pc' = "advance" \/ failures < failures' \/ crashes < crashes'
  PROVE  RoundKeepsUp'
<1>1. /\ Cardinality(received) \in Nat /\ currentRound \in Nat
      /\ failures \in Nat /\ crashes \in Nat /\ failures' \in Nat /\ crashes' \in Nat
  BY ReceivedFinite, BoundAssumption DEF JobsOrderly, TypeOK, CircleTypeOK, EnvTypeOK
<1>2. QED
  BY <1>1 DEF RoundKeepsUp

LEMMA RoundKeepsUpStep ==
  ASSUME JobsOrderly, JobsOrderly', RoundKeepsUp, [Next]_vars
  PROVE  RoundKeepsUp'
<1>1. /\ Cardinality(received) \in Nat /\ currentRound \in Nat
      /\ failures \in Nat /\ crashes \in Nat /\ failures' \in Nat /\ crashes' \in Nat
  BY ReceivedFinite, BoundAssumption DEF JobsOrderly, TypeOK, CircleTypeOK, EnvTypeOK
<1>2. CASE StartCircle
  <2>1. received' = {} /\ status' # "RECRUITING" /\ currentRound' = 1
    BY <1>2 DEF StartCircle, RoundKeepsUp
  <2>2. Cardinality(received') = 0
    BY <2>1, FS_EmptySet
  <2>3. QED
    BY <1>1, <2>1, <2>2 DEF RoundKeepsUp
<1>3. CASE \/ VerifyAccepts \/ CreateTransaction \/ ExecutePayout \/ ConfirmTransaction \/ Finish
  <2>1. UNCHANGED <<status, currentRound, received, failures, crashes>> /\ pc # "advance"
    BY <1>3 DEF VerifyAccepts, CreateTransaction, ExecutePayout, ConfirmTransaction,
       Finish, At, circleVars, envVars
  <2>2. QED
    BY <1>1, <2>1, KeepsUp
<1>4. CASE MarkPayoutReceived
  <2>1. /\ cur \in Rounds /\ cur \notin received /\ status = "ACTIVE"
        /\ received \in SUBSET Rounds
    BY <1>4 DEF MarkPayoutReceived, At, JobsOrderly, EligibleInv, WorkerInv, Running,
       Steps, TypeOK, WorkerTypeOK, CircleTypeOK
  <2>2. Cardinality(received') = Cardinality(received) + 1
    BY <1>4, <2>1, ReceivedGrows DEF MarkPayoutReceived
  <2>3. QED
    BY <1>1, <1>4, <2>1, <2>2 DEF MarkPayoutReceived, At, Goto, RoundKeepsUp, envVars
<1>5. CASE AdvanceRound
  BY <1>1, <1>5 DEF AdvanceRound, At, Goto, RoundKeepsUp, envVars
<1>6. CASE Settle
  <2>1. status # "RECRUITING"
    BY <1>6 DEF Settle, At, JobsOrderly, EligibleInv, RoundKeepsUp, RoundBehindPayouts
  <2>2. QED
    BY <1>1, <1>6, <2>1 DEF Settle, At, Goto, RoundKeepsUp, envVars
<1>7. CASE VerifyRefuses \/ VerifyBalanceRefuses \/ StepFails
  BY <1>1, <1>7, KeepsUp DEF VerifyRefuses, VerifyBalanceRefuses, StepFails, FailAttempt,
     At, circleVars, envVars
<1>8. CASE \/ ListenerReads \/ Reconcile \/ ScheduleRound \/ ScheduleRoundFails
           \/ SchedulingAborts \/ Tick \/ PromoteDue \/ Crash \/ Restart
  BY <1>1, <1>8, KeepsUp DEF ListenerReads, Reconcile, ScheduleRound, ScheduleRoundFails,
     SchedulingAborts, Tick, PromoteDue, Crash, Restart, circleVars, envVars
<1>9. ASSUME NEW r \in Rounds, PromoteRetry(r) \/ Take(r) \/ Recover(r) \/ RemoveCompleted(r)
      PROVE  RoundKeepsUp'
  BY <1>1, <1>9, KeepsUp DEF PromoteRetry, Take, Recover, RemoveCompleted, circleVars, envVars
<1>10. CASE UNCHANGED vars
  BY <1>1, <1>10, KeepsUp DEF vars
<1>11. QED
  BY <1>2, <1>3, <1>4, <1>5, <1>6, <1>7, <1>8, <1>9, <1>10
     DEF Next, Scheduling, Processing, Queueing, Faults

\* Nothing leaves a contract: on NEAR no call of the job is a transfer, and on Base
\* no job gets past the check of the balance.
LEMMA NothingMovesStep ==
  ASSUME JobsOrderly, BaseInv, NothingMoves, [Next]_vars
  PROVE  BaseInv' /\ NothingMoves'
<1>1. moved \in [Rounds -> Nat] /\ cur \in 0..N
  BY DEF JobsOrderly, TypeOK, TxTypeOK, WorkerTypeOK
<1>2. CASE \/ CreateTransaction \/ ExecutePayout \/ ConfirmTransaction \/ MarkPayoutReceived
           \/ AdvanceRound \/ Settle \/ Finish \/ VerifyAccepts
  <2>1. Chain = "NEAR"
    BY <1>2, ChainAssumption DEF CreateTransaction, ExecutePayout, ConfirmTransaction,
       MarkPayoutReceived, AdvanceRound, Settle, Finish, VerifyAccepts, At, BaseInv
  <2>2. moved' = moved \/ moved' = [moved EXCEPT ![cur] = moved[cur] + 0]
    BY <1>2, <2>1 DEF CreateTransaction, ExecutePayout, ConfirmTransaction,
       MarkPayoutReceived, AdvanceRound, Settle, Finish, VerifyAccepts, txVars
  <2>3. ASSUME NEW r \in Rounds PROVE moved'[r] = 0
    <3>1. moved[r] = 0 /\ 0 + 0 = 0
      BY DEF NothingMoves
    <3>2. QED
      BY <1>1, <2>2, <3>1
  <2>4. QED
    BY <2>1, <2>3 DEF BaseInv, NothingMoves
<1>3. CASE UNCHANGED <<moved, answered, received>> /\ pc' \in {pc, "idle", "down", "verify"}
  BY <1>3 DEF BaseInv, NothingMoves
<1>4. CASE \/ StartCircle \/ ListenerReads \/ Reconcile \/ ScheduleRound
           \/ ScheduleRoundFails \/ SchedulingAborts \/ Tick \/ PromoteDue \/ Crash \/ Restart
           \/ VerifyRefuses \/ VerifyBalanceRefuses \/ StepFails \/ UNCHANGED vars
  BY <1>3, <1>4 DEF StartCircle, ListenerReads, Reconcile, ScheduleRound,
     ScheduleRoundFails, SchedulingAborts, Tick, PromoteDue, Crash, Restart, VerifyRefuses,
     VerifyBalanceRefuses, StepFails, FailAttempt, circleVars, txVars, vars
<1>5. ASSUME NEW r \in Rounds, PromoteRetry(r) \/ Take(r) \/ Recover(r) \/ RemoveCompleted(r)
      PROVE  BaseInv' /\ NothingMoves'
  BY <1>3, <1>5 DEF PromoteRetry, Take, Recover, RemoveCompleted, circleVars, txVars
<1>6. QED
  BY <1>2, <1>4, <1>5 DEF Next, Scheduling, Processing, Queueing, Faults

\* The invariant holds in every reachable state.
THEOREM Invariance == Spec => []IInv
<1>1. Init => Rest
  BY FS_EmptySet DEF Init, Rest, RoundKeepsUp, BaseInv, NothingMoves
<1>2. JobsOrderly /\ JobsOrderly' /\ Rest /\ [Next]_vars => Rest'
  BY RoundKeepsUpStep, NothingMovesStep DEF Rest
<1>3. JobsOrderly /\ Rest => IInv
  BY DEF IInv, Rest
<1>4. QED
  BY <1>1, <1>2, <1>3, Orderly, PTL DEF Spec

\* No payout job moves money out of the circle's contract, on either chain: a member
\* marked as paid and a CONFIRMED transaction are all that PayoutProcessor leaves.
THEOREM NothingIsMoved == Spec => []NothingMoves
<1>1. IInv => NothingMoves
  BY DEF IInv
<1>2. QED
  BY <1>1, Invariance, PTL

\* The round lags behind the marked members by the failures and crashes at most.
THEOREM RoundLags == Spec => []RoundKeepsUp
<1>1. IInv => RoundKeepsUp
  BY DEF IInv
<1>2. QED
  BY <1>1, Invariance, PTL

\* Type correctness.
THEOREM TypeCorrect == Spec => []TypeOK
<1>1. JobsOrderly => TypeOK
  BY DEF JobsOrderly
<1>2. QED
  BY <1>1, Orderly, PTL

\* The circle's currentRound never runs ahead of the members marked as paid.
THEOREM RoundFollowsPayouts == Spec => []RoundBehindPayouts
<1>1. JobsOrderly => RoundBehindPayouts
  BY DEF JobsOrderly
<1>2. QED
  BY <1>1, Orderly, PTL

\* No payout call is made more often than the attempts and recoveries of its job
\* allow, for any number of failures and crashes.
THEOREM BoundedPayouts == Spec => []PayoutsBounded
<1>1. JobsOrderly => PayoutsBounded
  BY DEF JobsOrderly
<1>2. QED
  BY <1>1, Orderly, PTL

\* CONFIRMED transactions are backed by payout calls that were answered, and members
\* marked as paid by CONFIRMED transactions.
THEOREM BackedLedger == Spec => []LedgerBacked
<1>1. JobsOrderly => LedgerBacked
  BY DEF JobsOrderly
<1>2. QED
  BY <1>1, Orderly, PTL

\* In a circle of any size the first member is never marked as paid and the
\* circle is never completed.
THEOREM FirstIsNeverPaid == Spec => []FirstMemberUnpaid
<1>1. JobsOrderly => FirstMemberUnpaid
  BY DEF JobsOrderly
<1>2. QED
  BY <1>1, Orderly, PTL

\* No payout call is made again for a member marked as paid: only
\* ExecutePayout makes one, and it runs for a round that is not marked.
THEOREM PaidStaysPaid == Spec => PaidIsFinal
<1>1. ASSUME JobsOrderly, [Next]_vars
      PROVE  [\A r \in received : answered'[r] = answered[r] /\ r \in received']_vars
  <2>1. CASE ExecutePayout
    <3>1. cur \notin received /\ received' = received
      BY <1>1, <2>1 DEF JobsOrderly, EligibleInv, ExecutePayout, At, circleVars
    <3>2. cur \in Rounds /\ answered \in [Rounds -> Nat] /\ received \subseteq Rounds
      BY <1>1, <2>1 DEF JobsOrderly, TypeOK, TxTypeOK, CircleTypeOK, WorkerInv,
         WorkerTypeOK, ExecutePayout, At, Running, Steps
    <3>3. QED
      BY <2>1, <3>1, <3>2 DEF ExecutePayout
  <2>2. CASE MarkPayoutReceived
    BY <2>2 DEF MarkPayoutReceived, txVars
  <2>3. CASE UNCHANGED vars
    BY <2>3 DEF vars
  <2>4. CASE answered' = answered /\ received' = received
    BY <2>4
  <2>5. ExecutePayout \/ MarkPayoutReceived \/ UNCHANGED vars
          \/ (answered' = answered /\ received' = received)
    BY <1>1 DEF Next, Scheduling, Processing, Queueing, Faults, StartCircle,
       ListenerReads, Reconcile, ScheduleRound, ScheduleRoundFails,
       SchedulingAborts, Tick, PromoteDue, PromoteRetry, Take, Recover,
       RemoveCompleted, VerifyRefuses, VerifyBalanceRefuses, VerifyAccepts,
       CreateTransaction, ConfirmTransaction, AdvanceRound, Settle, Finish,
       StepFails, Crash, Restart, circleVars, txVars
  <2>6. QED
    BY <2>1, <2>2, <2>3, <2>4, <2>5
<1>2. QED
  BY <1>1, Orderly, PTL DEF Spec, PaidIsFinal

\* A round that currentRound has passed unpaid is never paid: marking needs a
\* currentRound below the round.
THEOREM OvertakenStaysLost == Spec => OvertakenIsLost
<1>1. ASSUME JobsOrderly, [Next]_vars
      PROVE  [\A r \in Rounds \ received :
               (status = "ACTIVE" /\ currentRound >= r) => r \notin received']_vars
  <2>1. CASE MarkPayoutReceived
    <3>1. currentRound < cur /\ received' = received \cup {cur}
      BY <1>1, <2>1 DEF JobsOrderly, EligibleInv, MarkPayoutReceived, At
    <3>2. currentRound \in Nat /\ cur \in Nat
      BY <1>1, NAssumption DEF JobsOrderly, TypeOK, CircleTypeOK, WorkerTypeOK
    <3>3. QED
      BY <3>1, <3>2
  <2>2. CASE received' = received
    BY <2>2
  <2>3. MarkPayoutReceived \/ received' = received
    BY <1>1 DEF Next, Scheduling, Processing, Queueing, Faults, StartCircle,
       ListenerReads, Reconcile, ScheduleRound, ScheduleRoundFails,
       SchedulingAborts, Tick, PromoteDue, PromoteRetry, Take, Recover,
       RemoveCompleted, VerifyRefuses, VerifyBalanceRefuses, VerifyAccepts,
       CreateTransaction, ExecutePayout, ConfirmTransaction, AdvanceRound,
       Settle, Finish, StepFails, Crash, Restart, circleVars, vars
  <2>4. QED
    BY <2>1, <2>2, <2>3
<1>2. QED
  BY <1>1, Orderly, PTL DEF Spec, OvertakenIsLost

-----------------------------------------------------------------------------
(* Progress: what the liveness of the jobs rests on                        *)

\* A set of rounds has a first one: the sets 0..k are ordered like their ends.
LEMMA Least ==
  ASSUME NEW K \in SUBSET Nat, K # {}
  PROVE  \E m \in K : \A k \in K : k >= m
<1> DEFINE T == {0..k : k \in K}
<1>1. T \subseteq FiniteSubsetsOf(Nat)
  <2>1. ASSUME NEW k \in K PROVE 0..k \in SUBSET Nat /\ IsFiniteSet(0..k)
    BY FS_Interval
  <2>2. QED
    BY <2>1 DEF FiniteSubsetsOf
<1>2. T # {}
  OBVIOUS
<1>3. PICK x \in T : \A y \in T : ~ (<<y, x>> \in StrictSubsetOrdering(Nat))
  <2> HIDE DEF T
  <2>1. QED
    BY <1>1, <1>2, FS_StrictSubsetOrderingWellFounded, WFMin
<1>4. PICK m \in K : x = 0..m
  OBVIOUS
<1>5. ASSUME NEW k \in K, k < m PROVE FALSE
  <2>1. 0..k \subseteq 0..m /\ m \in 0..m /\ m \notin 0..k /\ 0..m \subseteq Nat
    BY <1>5
  <2>2. <<0..k, x>> \in StrictSubsetOrdering(Nat)
    BY <1>4, <2>1 DEF StrictSubsetOrdering
  <2>3. QED
    BY <1>3, <2>2
<1>6. QED
  BY <1>5

\* Where a job is waiting, one is first in the queue.
LEMMA FirstWaiting ==
  ASSUME NEW r \in Rounds, jobs[r].state = "waiting"
  PROVE  \E q \in Rounds : CanBeTaken(q)
<1> DEFINE K == {q \in Rounds : jobs[q].state = "waiting"}
<1>1. K \in SUBSET Nat /\ K # {}
  BY NAssumption
<1>2. PICK m \in K : \A k \in K : k >= m
  <2> HIDE DEF K
  <2>1. QED
    BY <1>1, Least
<1>3. QED
  BY <1>2 DEF CanBeTaken

\* Nothing is scheduled before the circle is started.
LEMMA RecruitingStep ==
  ASSUME JobsOrderly, RecruitingInv, [Next]_vars
  PROVE  RecruitingInv'
<1> SUFFICES ASSUME status' = "RECRUITING"
             PROVE  task' # "loop" /\ \A r \in Rounds : jobs'[r].state = "none"
  BY DEF RecruitingInv
<1>1. WorkerInv /\ jobs \in [Rounds -> Job] /\ cur \in 0..N /\ N \in Nat
  BY NAssumption DEF JobsOrderly, TypeOK, JobTypeOK, WorkerTypeOK
<1>2. CASE Settle
  <2>1. jobs[cur].state = "active" /\ cur \in Rounds /\ status = "RECRUITING"
    BY <1>1, <1>2 DEF Settle, At, WorkerInv, Running, Steps
  <2>2. QED
    BY <2>1 DEF RecruitingInv
<1>3. CASE status' = status
  <2>1. task # "loop" /\ \A r \in Rounds : jobs[r].state = "none"
    BY <1>3 DEF RecruitingInv
  <2>2. ~Running
    BY <1>1, <2>1 DEF WorkerInv
  <2>3. task' # "loop"
    BY <1>3, <2>1 DEF Next, Scheduling, Processing, Queueing, Faults, StartCircle,
       ListenerReads, Reconcile, ScheduleRound, ScheduleRoundFails, SchedulingAborts, Tick,
       PromoteDue, PromoteRetry, Take, Recover, RemoveCompleted, VerifyRefuses,
       VerifyBalanceRefuses, VerifyAccepts, CreateTransaction, ExecutePayout,
       ConfirmTransaction, MarkPayoutReceived, AdvanceRound, Settle, Finish, StepFails, Crash,
       Restart, taskVars, vars
  <2>4. jobs' = jobs
    BY <2>1, <2>2 DEF Next, Scheduling, Processing, Queueing, Faults, StartCircle,
       ListenerReads, Reconcile, ScheduleRound, ScheduleRoundFails, SchedulingAborts, Tick,
       PromoteDue, PromoteRetry, Take, Recover, RemoveCompleted, VerifyRefuses,
       VerifyBalanceRefuses, VerifyAccepts, CreateTransaction, ExecutePayout,
       ConfirmTransaction, MarkPayoutReceived, AdvanceRound, Settle, Finish, StepFails, Crash,
       Restart, Due, At, Running, Steps, vars
  <2>5. QED
    BY <2>1, <2>3, <2>4
<1>4. Settle \/ status' = status
  BY DEF Next, Scheduling, Processing, Queueing, Faults, StartCircle,
     ListenerReads, Reconcile, ScheduleRound, ScheduleRoundFails, SchedulingAborts, Tick,
     PromoteDue, PromoteRetry, Take, Recover, RemoveCompleted, VerifyRefuses,
     VerifyBalanceRefuses, VerifyAccepts, CreateTransaction, ExecutePayout,
     ConfirmTransaction, MarkPayoutReceived, AdvanceRound, Finish, StepFails, Crash,
     Restart, circleVars, vars
<1>5. QED
  BY <1>2, <1>3, <1>4

\* PayoutProcessor and its queue always have something to do for a job that has not
\* ended, or time brings its payout date nearer.
THEOREM Unblocked == Spec => []NeverStuck
<1>1. Init => RecruitingInv
  BY DEF Init, RecruitingInv, NoJob
<1>2. JobsOrderly /\ RecruitingInv /\ [Next]_vars => RecruitingInv'
  BY RecruitingStep
<1>3. JobsOrderly /\ RecruitingInv => NeverStuck
  <2> SUFFICES ASSUME JobsOrderly, RecruitingInv, NEW r \in Rounds, Live(r),
                      Up, ~Running, task = "none",
                      \A q \in Rounds : /\ ~Due(q) /\ ~CanBeTaken(q)
                                        /\ ~(jobs[q].state = "active" /\ cur # q)
               PROVE  status # "RECRUITING" /\ clock < N /\ DueJobsSettled
    BY DEF NeverStuck
  <2>1. clock \in 0..N /\ N \in Nat /\ cur = 0
    BY NAssumption DEF JobsOrderly, TypeOK, EnvTypeOK, WorkerInv
  <2>2. \A q \in Rounds : jobs[q].state \notin {"waiting", "active"}
    <3>1. \A q \in Rounds : cur # q
      BY <2>1
    <3>2. QED
      BY <3>1, FirstWaiting
  <2>3. jobs[r].state = "delayed" /\ ~(clock >= r)
    BY <2>2 DEF Live, Due
  <2>4. clock < N
    BY <2>1, <2>3
  <2>5. status # "RECRUITING"
    BY <2>3 DEF RecruitingInv
  <2>6. ASSUME NEW q \in 1..clock PROVE jobs[q].state \notin {"delayed", "waiting", "active"}
    <3>1. q \in Rounds /\ clock >= q
      BY <2>1
    <3>2. QED
      BY <2>2, <3>1 DEF Due
  <2>7. QED
    BY <2>4, <2>5, <2>6 DEF DueJobsSettled
<1>4. QED
  BY <1>1, <1>2, <1>3, Orderly, PTL DEF Spec

\* The attempts and recoveries a job has left.
Spare(r) == MaxAttempts - jobs[r].attempts + MaxStalled - jobs[r].stalls

\* What is left of a job.
LEMMA LeftValues ==
  ASSUME JobsOrderly, NEW r \in Rounds
  PROVE  /\ ToEnd(r) \in 0..10
         /\ jobs[r].state = "delayed" => ToEnd(r) = 10
         /\ jobs[r].state = "waiting" => ToEnd(r) = 9
         /\ jobs[r].state = "active" => ToEnd(r) = IF cur = r THEN ToRun[pc] ELSE 0
         /\ Running => ToRun[pc] \in 1..8
         /\ Live(r) => Spare(r) \in Nat /\ Left(r) = 11 * Spare(r) + ToEnd(r) + 1
         /\ ~Live(r) => Left(r) = 0
<1>1. Running => ToRun[pc] \in 1..8
  BY DEF Running, Steps, ToRun
<1>2. cur = r => Running
  BY NAssumption DEF JobsOrderly, WorkerInv
<1>3. /\ jobs[r].state = "delayed" => ToEnd(r) = 10
      /\ jobs[r].state = "waiting" => ToEnd(r) = 9
      /\ jobs[r].state \notin {"delayed", "waiting"} =>
           ToEnd(r) = IF cur = r /\ Running THEN ToRun[pc] ELSE 0
  BY DEF ToEnd
<1>4. ToEnd(r) \in 0..10
  BY <1>1, <1>3
<1>5. Live(r) => Spare(r) \in Nat
  <2>1. jobs[r].attempts \in Nat /\ jobs[r].stalls \in Nat
    BY RoundTypes DEF JobsOrderly
  <2>2. Live(r) => jobs[r].attempts < MaxAttempts /\ jobs[r].stalls <= MaxStalled
    BY DEF JobsOrderly, JobInv, Live
  <2>3. QED
    BY <2>1, <2>2, RetryAssumption DEF Spare
<1>6. QED
  BY <1>1, <1>2, <1>3, <1>4, <1>5 DEF Left, Spare

\* The values of every round at once, so that they can be taken after a step.
Measured ==
  \A r \in Rounds :
    /\ ToEnd(r) \in 0..10
    /\ Live(r) => Spare(r) \in Nat /\ Left(r) = 11 * Spare(r) + ToEnd(r) + 1
    /\ ~Live(r) => Left(r) = 0

LEMMA MeasuredNow == JobsOrderly => Measured
  BY LeftValues DEF Measured

\* And after a step.
LEMMA MeasuredNext == JobsOrderly' => Measured'
  BY MeasuredNow, PTL

\* A job that ends, has spent an attempt or a recovery, or is further.
Shortens(r) ==
  \/ jobs'[r].state \notin {"delayed", "waiting", "active"}
  \/ Spare(r)' < Spare(r)
  \/ Spare(r)' = Spare(r) /\ ToEnd(r)' < ToEnd(r)

\* Such a job has less left.
LEMMA ShorterLeft ==
  ASSUME JobsOrderly, JobsOrderly', NEW r \in Rounds, Live(r), Shortens(r)
  PROVE  Left(r)' < Left(r)
<1>1. /\ Spare(r) \in Nat /\ ToEnd(r) \in 0..10
      /\ Left(r) = 11 * Spare(r) + ToEnd(r) + 1
  BY LeftValues
<1>2. /\ ToEnd(r)' \in 0..10
      /\ Live(r)' => Spare(r)' \in Nat /\ Left(r)' = 11 * Spare(r)' + ToEnd(r)' + 1
      /\ ~Live(r)' => Left(r)' = 0
  BY MeasuredNext DEF Measured, Rounds
<1>3. QED
  BY <1>1, <1>2 DEF Shortens, Live

\* A step of the queue takes the job on.
LEMMA QueueShortens ==
  ASSUME JobsOrderly, NEW r \in Rounds, Live(r),
         NEW q \in Rounds, PromoteRetry(q) \/ Take(q) \/ Recover(q) \/ RemoveCompleted(q)
  PROVE  \/ Shortens(r)
         \/ jobs'[r] = jobs[r] /\ (cur = r \/ cur' = r => UNCHANGED <<pc, cur>>)
<1>1. jobs \in [Rounds -> Job] /\ cur \in 0..N /\ (Running <=> cur # 0)
  BY DEF JobsOrderly, TypeOK, JobTypeOK, WorkerTypeOK, WorkerInv
<1>2. CASE r # q
  BY <1>1, <1>2, NAssumption
     DEF PromoteRetry, Take, Recover, RemoveCompleted, Running, Steps
<1>3. CASE r = q /\ PromoteRetry(r)
  <2>1. /\ jobs[r].state = "delayed" /\ jobs'[r] = [jobs[r] EXCEPT !.state = "waiting"]
        /\ jobs[r] \in Job
    BY <1>1, <1>3 DEF PromoteRetry, Due
  <2>2. jobs'[r].state = "waiting" /\ jobs'[r].attempts = jobs[r].attempts
        /\ jobs'[r].stalls = jobs[r].stalls
    BY <2>1 DEF Job
  <2>3. Spare(r)' = Spare(r) /\ ToEnd(r) = 10 /\ ToEnd(r)' = 9
    BY <2>1, <2>2 DEF Spare, ToEnd
  <2>4. QED
    BY <2>3 DEF Shortens
<1>4. CASE r = q /\ Take(r)
  <2>1. /\ jobs[r].state = "waiting" /\ jobs'[r] = [jobs[r] EXCEPT !.state = "active"]
        /\ jobs[r] \in Job /\ pc' = "verify" /\ cur' = r
    BY <1>1, <1>4 DEF Take
  <2>2. jobs'[r].state = "active" /\ jobs'[r].attempts = jobs[r].attempts
        /\ jobs'[r].stalls = jobs[r].stalls
    BY <2>1 DEF Job
  <2>3. Spare(r)' = Spare(r) /\ ToEnd(r) = 9
    BY <2>1, <2>2 DEF Spare, ToEnd
  <2>4. ToEnd(r)' = 8
    BY <2>1, <2>2 DEF ToEnd, ToRun, Running, Steps
  <2>5. QED
    BY <2>3, <2>4 DEF Shortens
<1>5. CASE r = q /\ Recover(r)
  <2>1. /\ jobs'[r].attempts = jobs[r].attempts /\ jobs'[r].stalls = jobs[r].stalls + 1
    BY <1>1, <1>5 DEF Recover
  <2>2. jobs[r].attempts \in Nat /\ jobs[r].stalls \in Nat
    BY RoundTypes DEF JobsOrderly
  <2>3. Spare(r)' < Spare(r)
    BY <2>1, <2>2, RetryAssumption DEF Spare
  <2>4. QED
    BY <2>3 DEF Shortens
<1>6. CASE r = q /\ RemoveCompleted(r)
  BY <1>6 DEF RemoveCompleted, Live
<1>7. QED
  BY <1>2, <1>3, <1>4, <1>5, <1>6

\* A failing attempt is counted.
LEMMA FailShortens ==
  ASSUME JobsOrderly, NEW r \in Rounds, Live(r), Running, NEW why, FailAttempt(why)
  PROVE  \/ Shortens(r)
         \/ jobs'[r] = jobs[r] /\ (cur = r \/ cur' = r => UNCHANGED <<pc, cur>>)
<1>1. jobs \in [Rounds -> Job] /\ N \in Nat
  BY NAssumption DEF JobsOrderly, TypeOK, JobTypeOK
<1>2. CASE r # cur
  BY <1>1, <1>2 DEF FailAttempt
<1>3. CASE r = cur
  <2>1. jobs'[r].attempts = jobs[r].attempts + 1 /\ jobs'[r].stalls = jobs[r].stalls
    BY <1>1, <1>3 DEF FailAttempt
  <2>2. jobs[r].attempts \in Nat /\ jobs[r].stalls \in Nat
    BY RoundTypes DEF JobsOrderly
  <2>3. Spare(r)' < Spare(r)
    BY <2>1, <2>2, RetryAssumption DEF Spare
  <2>4. QED
    BY <2>3 DEF Shortens
<1>4. QED
  BY <1>2, <1>3

\* Each step of the processor is nearer to the end of the job, and a crash leaves
\* it to be recovered.
LEMMA WorkShortens ==
  ASSUME JobsOrderly, NEW r \in Rounds, Live(r), UNCHANGED jobs,
         \/ /\ Running /\ cur' = cur
            /\ \/ pc = "verify" /\ pc' = "create"
               \/ pc = "create" /\ pc' = "pay"
               \/ pc = "pay" /\ pc' = "confirm"
               \/ pc = "confirm" /\ pc' = "mark"
               \/ pc = "mark" /\ pc' = "advance"
               \/ pc = "advance" /\ pc' = "settle"
               \/ pc = "settle" /\ pc' = "notify"
         \/ pc' = "down" /\ cur' = 0
  PROVE  \/ Shortens(r)
         \/ jobs'[r] = jobs[r] /\ (cur = r \/ cur' = r => UNCHANGED <<pc, cur>>)
<1>1. CASE r # cur
  BY <1>1, NAssumption
<1>2. CASE r = cur
  <2>1. Running /\ jobs[r].state = "active"
    BY <1>2, NAssumption DEF JobsOrderly, WorkerInv
  <2>2. ToEnd(r) = ToRun[pc] /\ ToRun[pc] \in 1..8
    BY <1>2, <2>1, LeftValues
  <2>3. CASE pc' = "down"
    BY <2>1, <2>2, <2>3 DEF Shortens, Spare, ToEnd, Running, Steps
  <2>4. CASE cur' = cur
    <3>1. (ToRun[pc'] < ToRun[pc] /\ pc' \in Steps) \/ pc' = "down"
      BY DEF ToRun, Steps
    <3>2. pc' \in Steps => ToEnd(r)' = ToRun[pc']
      BY <1>2, <2>1, <2>4 DEF ToEnd, Running
    <3>3. QED
      BY <2>2, <2>3, <3>1, <3>2 DEF Shortens, Spare
  <2>5. QED
    BY <2>3, <2>4
<1>3. QED
  BY <1>1, <1>2

\* Every step leaves each job that has not ended alone, or with less to do.
LEMMA StepShortens ==
  ASSUME JobsOrderly, Next, NEW r \in Rounds, Live(r)
  PROVE  \/ Shortens(r)
         \/ jobs'[r] = jobs[r] /\ (cur = r \/ cur' = r => UNCHANGED <<pc, cur>>)
<1>1. jobs \in [Rounds -> Job] /\ N \in Nat /\ (Running <=> cur # 0)
  BY NAssumption DEF JobsOrderly, TypeOK, JobTypeOK, WorkerInv
<1>2. CASE \/ StartCircle \/ ListenerReads \/ Reconcile \/ ScheduleRoundFails
           \/ SchedulingAborts \/ Tick
  BY <1>2 DEF StartCircle, ListenerReads, Reconcile, ScheduleRoundFails, SchedulingAborts, Tick
<1>3. CASE ScheduleRound
  <2>1. jobs'[r] = jobs[r]
    BY <1>1, <1>3 DEF ScheduleRound, Live
  <2>2. QED
    BY <1>3, <2>1 DEF ScheduleRound
<1>4. CASE PromoteDue
  <2>1. CASE Due(r) /\ jobs[r].attempts = 0
    <3>1. /\ jobs[r].state = "delayed" /\ jobs'[r] = [jobs[r] EXCEPT !.state = "waiting"]
          /\ jobs[r] \in Job
      BY <1>1, <1>4, <2>1 DEF PromoteDue, Due
    <3>2. jobs'[r].state = "waiting" /\ jobs'[r].attempts = jobs[r].attempts
          /\ jobs'[r].stalls = jobs[r].stalls
      BY <3>1 DEF Job
    <3>3. Spare(r)' = Spare(r) /\ ToEnd(r) = 10 /\ ToEnd(r)' = 9
      BY <3>1, <3>2 DEF Spare, ToEnd
    <3>4. QED
      BY <3>3 DEF Shortens
  <2>2. CASE ~(Due(r) /\ jobs[r].attempts = 0)
    BY <1>4, <2>2 DEF PromoteDue
  <2>3. QED
    BY <2>1, <2>2
<1>5. CASE \E q \in Rounds : Queueing(q) \/ RemoveCompleted(q)
  BY <1>5, QueueShortens DEF Queueing
<1>6. CASE VerifyRefuses \/ VerifyBalanceRefuses \/ StepFails
  <2>1. \E why : FailAttempt(why)
    BY <1>6 DEF VerifyRefuses, VerifyBalanceRefuses, StepFails
  <2>2. Running
    BY <1>6 DEF VerifyRefuses, VerifyBalanceRefuses, StepFails, At, Running, Steps
  <2>3. QED
    BY <2>1, <2>2, FailShortens
<1>7. CASE \/ VerifyAccepts \/ CreateTransaction \/ ExecutePayout \/ ConfirmTransaction
           \/ MarkPayoutReceived \/ AdvanceRound \/ Settle \/ Crash
  BY <1>7, WorkShortens DEF VerifyAccepts, CreateTransaction, ExecutePayout,
     ConfirmTransaction, MarkPayoutReceived, AdvanceRound, Settle, Crash, At, Goto,
     Running, Steps
<1>8. CASE Finish
  <2>1. CASE r = cur
    <3>1. jobs'[r].state = "completed"
      BY <1>1, <1>8, <2>1 DEF Finish, Job
    <3>2. QED
      BY <3>1 DEF Shortens
  <2>2. CASE r # cur
    BY <1>1, <1>8, <2>2 DEF Finish
  <2>3. QED
    BY <2>1, <2>2
<1>9. CASE Restart
  <2>1. cur = 0
    BY <1>1, <1>9 DEF Restart, Running, Steps
  <2>2. QED
    BY <1>1, <1>9, <2>1 DEF Restart
<1>10. QED
  BY <1>2, <1>3, <1>4, <1>5, <1>6, <1>7, <1>8, <1>9 DEF Next, Scheduling, Processing, Faults

\* PayoutProcessor never starts a job anew: whatever happens to one that has not ended
\* spends an attempt or a recovery, or takes it further.
THEOREM Descent == Spec => StepsRunOut
<1>1. ASSUME JobsOrderly, JobsOrderly', Next, NEW r \in Rounds, Live(r)
      PROVE  \/ Left(r)' < Left(r)
             \/ jobs'[r] = jobs[r] /\ (cur = r \/ cur' = r => UNCHANGED <<pc, cur>>)
  BY <1>1, StepShortens, ShorterLeft
<1>2. JobsOrderly /\ JobsOrderly' /\ [Next]_vars =>
        [\A r \in Rounds : Live(r) =>
           \/ Left(r)' < Left(r)
           \/ jobs'[r] = jobs[r] /\ (cur = r \/ cur' = r => UNCHANGED <<pc, cur>>)]_vars
  BY <1>1
<1>3. QED
  BY <1>2, Orderly, PTL DEF Spec, StepsRunOut
=============================================================================
