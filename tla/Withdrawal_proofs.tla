-------------------------- MODULE Withdrawal_proofs --------------------------
(***************************************************************************)
(* The safety of Withdrawal for any number of requests, any keys and       *)
(* workers, any retry and stall limit and any number of failures and       *)
(* crashes.  All of it rests on IInv, an inductive invariant.              *)
(***************************************************************************)
EXTENDS Withdrawal, TLAPS, FiniteSetTheorems

Statuses == {"none", "PENDING", "CONFIRMED", "FAILED"}
Request == [step: RequestSteps, key: Keys \cup {NoKey}, code: 0..MaxCodes]
Worker == [step: WorkerSteps, key: Keys \cup {NoKey}, nonce: 0..(Funds + 1)]

USE DEF Requests, Worker

\* Nothing was asked for yet: the invariant holds.
LEMMA InitInv == Init => IInv
<1> SUFFICES ASSUME Init PROVE IInv
  OBVIOUS
<1> USE RequestsAssumption, KeyAssumption, FundsAssumption, RetryAssumption,
        BoundAssumption DEF Init, NoJob, IdleWorker
<1>1. TypeOK
  <2>1. 0 \in 0..(Funds + 1) /\ Funds \in 0..Funds /\ 0 \in 0..MaxCodes
    OBVIOUS
  <2>2. worker \in [Workers -> Worker]
    BY <2>1 DEF WorkerSteps
  <2>3. request \in [Requests -> Request] /\ otp \in 0..MaxCodes /\ issued \in 0..MaxCodes
    BY <2>1 DEF Request, RequestSteps
  <2>4. jobs \in [Keys -> Job] /\ txStatus \in [Requests -> Statuses]
    BY DEF Job, JobStates, Statuses
  <2>5. funds \in 0..Funds /\ sent \in [Requests -> Nat] /\ lostWrites \in Nat
    BY <2>1
  <2>6. up \in BOOLEAN /\ overlap \in BOOLEAN /\ removed \subseteq Keys
    OBVIOUS
  <2>7. failures \in 0..MaxFailures /\ crashes \in 0..MaxCrashes
    OBVIOUS
  <2>8. QED
    BY <2>2, <2>3, <2>4, <2>5, <2>6, <2>7 DEF TypeOK, Request, Statuses
<1>2. QED
  BY <1>1 DEF IInv, BooksInv, BudgetInv, JobInv, WorkerInv, RequestInv, SettlingInv,
     SentInv, StatusHonest, Live, NonceInv

\* A busy worker has a transaction no other worker has.
LEMMA BusyWorker ==
  ASSUME IInv, NEW w \in Workers, worker[w].step # "idle"
  PROVE  /\ worker[w].key \in Keys /\ jobs[worker[w].key].state = "active"
         /\ Tx(w) \in Requests
         /\ request[Tx(w)].key = worker[w].key
         /\ request[Tx(w)].step = "accepted"
         /\ txStatus[Tx(w)] \in Statuses \ {"none"} /\ sent[Tx(w)] \in Nat
         /\ \A v \in Workers \ {w} :
              worker[v].step # "idle" => /\ worker[v].key # worker[w].key
                                         /\ Tx(v) # Tx(w)
<1>1. worker[w].key \in Keys /\ jobs[worker[w].key].state = "active"
  BY DEF IInv, BooksInv, WorkerInv
<1>2. /\ Tx(w) \in Requests /\ request[Tx(w)].key = worker[w].key
      /\ request[Tx(w)].step = "accepted"
  BY <1>1 DEF IInv, BooksInv, JobInv, Tx
<1>3. txStatus[Tx(w)] \in Statuses \ {"none"} /\ sent[Tx(w)] \in Nat
  BY <1>2 DEF IInv, BooksInv, TypeOK, RequestInv, Statuses
<1>4. ASSUME NEW v \in Workers \ {w}, worker[v].step # "idle"
      PROVE  worker[v].key # worker[w].key /\ Tx(v) # Tx(w)
  <2>1. worker[v].key \in Keys /\ jobs[worker[v].key].state = "active"
    BY <1>4 DEF IInv, BooksInv, WorkerInv
  <2>2. request[Tx(v)].key = worker[v].key
    BY <2>1 DEF IInv, BooksInv, JobInv, Tx
  <2>3. worker[v].key # worker[w].key
    BY <1>4 DEF IInv, BooksInv, WorkerInv
  <2>4. QED
    BY <1>2, <2>2, <2>3
<1>5. QED
  BY <1>1, <1>2, <1>3, <1>4

-----------------------------------------------------------------------------
(* Requests                                                                *)

\* A request that was not accepted yet moves to q and leaves its transaction
\* with status s.
Answers(r, q, s) ==
  /\ request[r].step # "accepted" /\ q.key \in Keys
  /\ request' = [request EXCEPT ![r] = q]
  /\ txStatus' = [txStatus EXCEPT ![r] = s]
  /\ s = txStatus[r] \/ (txStatus[r] = "none" /\ s = "PENDING")
  /\ q.step \in {"idle", "otp", "consume", "check", "create", "duplicate"} => s = "none"
  /\ q.step = "queue" => s = "PENDING"
  /\ q.step = "accepted" => s # "none"
  /\ otp' \in 0..MaxCodes
  /\ failures' \in {failures, failures + 1} /\ failures' \in 0..MaxFailures
  /\ UNCHANGED <<issued, jobs, worker, funds, sent, up, removed, lostWrites,
                 overlap, crashes>>

\* Such a step keeps the invariant.
LEMMA RequestStep ==
  ASSUME IInv, NEW r \in Requests, NEW q \in Request, NEW s \in Statuses,
         Answers(r, q, s)
  PROVE  BooksInv'
<1> USE DEF Answers
<1> USE KeyAssumption, BoundAssumption
<1>1. TypeOK'
  BY DEF IInv, BooksInv, TypeOK, Request, Statuses
<1>2. /\ request'[r] = q /\ txStatus'[r] = s
      /\ \A t \in Requests \ {r} : request'[t] = request[t] /\ txStatus'[t] = txStatus[t]
  BY DEF IInv, BooksInv, TypeOK
<1>3. /\ sent[r] = 0
      /\ \A k \in Keys : jobs[k].tx # r
  <2>1. sent[r] = 0
    BY DEF IInv, BooksInv, TypeOK, RequestInv
  <2>2. \A k \in Keys : jobs[k].tx # r
    BY DEF IInv, BooksInv, JobInv
  <2>3. QED
    BY <2>1, <2>2
<1>4. \A k \in Keys : jobs[k].state # "none" =>
        jobs[k].tx \in Requests /\ txStatus'[jobs[k].tx] = txStatus[jobs[k].tx]
  BY <1>2, <1>3 DEF IInv, BooksInv, JobInv
<1>5. /\ failures \in Nat /\ crashes \in Nat /\ lostWrites \in Nat
      /\ failures' \in Nat /\ failures <= failures'
      /\ failures' = 0 => failures = 0
  <2>1. failures \in Nat /\ crashes \in Nat /\ lostWrites \in Nat
    BY DEF IInv, BooksInv, TypeOK
  <2>2. failures' \in Nat /\ failures <= failures'
    BY <2>1
  <2>3. QED
    BY <2>1, <2>2
<1>6. BudgetInv' /\ WorkerInv'
  BY <1>5 DEF IInv, BooksInv, BudgetInv, WorkerInv
<1>7. JobInv'
  BY <1>2, <1>3 DEF IInv, BooksInv, JobInv
<1>8. RequestInv'
  <2>1. \A t \in Requests : sent[t] > 0 => t # r
    BY <1>3
  <2>2. QED
    BY <1>2, <2>1 DEF IInv, BooksInv, RequestInv
<1>9. SettlingInv'
  <2>1. \A w \in Workers : worker[w].step # "idle" => txStatus'[Tx(w)] = txStatus[Tx(w)]
    BY <1>4, BusyWorker DEF Tx
  <2>2. \A w \in Workers :
          /\ worker[w].step \in {"send", "confirm"} => txStatus'[Tx(w)] = "PENDING"
          /\ worker[w].step = "finish" => txStatus'[Tx(w)] = "CONFIRMED"
          /\ worker[w].step \in {"verify", "fail", "throw"} /\ crashes = 0
               => txStatus'[Tx(w)] # "CONFIRMED"
    BY <2>1 DEF IInv, BooksInv, SettlingInv
  <2>3. \A w \in Workers :
          /\ worker[w].step = "confirm" => Backed(Tx(w))
          /\ worker[w].step = "fail" /\ failures' = 0 /\ crashes = 0 => sent[Tx(w)] = 0
    BY <1>5 DEF IInv, BooksInv, SettlingInv
  <2>4. crashes = 0 => \A k \in Keys : jobs[k].state \in {"waiting", "delayed", "failed"}
          => txStatus'[jobs[k].tx] # "CONFIRMED"
    BY <1>4 DEF IInv, BooksInv, SettlingInv
  <2>5. QED
    BY <2>2, <2>3, <2>4 DEF SettlingInv, Tx, Backed
<1>10. SentInv'
  <2>1. \A t \in Requests : Open(t)' => Open(t)
    BY <1>2 DEF Open, Tx
  <2>2. QED
    BY <2>1 DEF IInv, BooksInv, SentInv
<1>11. StatusHonest'
  <2>1. ASSUME NEW t \in Requests
        PROVE  /\ txStatus'[t] = "CONFIRMED" => Backed(t)
               /\ txStatus'[t] = "FAILED" /\ failures' = 0 /\ crashes = 0 => sent[t] = 0
    <3>1. /\ txStatus[t] = "CONFIRMED" => Backed(t)
          /\ txStatus[t] = "FAILED" /\ failures = 0 /\ crashes = 0 => sent[t] = 0
      BY DEF IInv, BooksInv, StatusHonest
    <3>2. txStatus'[t] = txStatus[t] \/ txStatus'[t] = "PENDING"
      BY <1>2
    <3>3. QED
      BY <1>5, <3>1, <3>2
  <2>2. \A k \in Keys :
          jobs[k].state = "completed" => txStatus'[jobs[k].tx] = "CONFIRMED"
    BY <1>4 DEF IInv, BooksInv, StatusHonest
  <2>3. QED
    BY <2>1, <2>2 DEF StatusHonest, Backed
<1>12. QED
  BY <1>1, <1>6, <1>7, <1>8, <1>9, <1>10, <1>11 DEF IInv, BooksInv

\* What a request does before its job is queued, and where it fails.
LEMMA AnsweringInv ==
  ASSUME IInv, NEW r \in Requests,
         \/ Receive(r) \/ OtpAccepted(r) \/ OtpRefused(r) \/ ConsumeOtp(r)
         \/ CheckAvailableBalance(r) \/ CreateTransaction(r) \/ RequestFails(r)
  PROVE  BooksInv'
<1> DEFINE st == txStatus[r]
           q(step) == [step |-> step, key |-> request[r].key, code |-> request[r].code]
<1> USE BoundAssumption
<1>1. /\ request[r] \in Request /\ st \in Statuses
      /\ request[r].key \in Keys \cup {NoKey} /\ request[r].code \in 0..MaxCodes
      /\ request[r].step \in RequestSteps
      /\ otp \in 0..MaxCodes /\ 0 \in 0..MaxCodes /\ issued \in 0..MaxCodes
      /\ failures \in 0..MaxFailures
      /\ txStatus = [txStatus EXCEPT ![r] = st]
  BY DEF IInv, BooksInv, TypeOK, Request, Statuses
<1>2. /\ request[r].step # "idle" => request[r].key \in Keys
      /\ request[r].step \in {"idle", "otp", "consume", "check", "create", "duplicate"}
           => st = "none"
      /\ request[r].step = "queue" => st = "PENDING"
  BY DEF IInv, BooksInv, JobInv, RequestInv
<1>3. ASSUME NEW step \in RequestSteps
      PROVE  /\ q(step) \in Request /\ q(step).key = request[r].key
             /\ q(step).step = step
             /\ Moves(r, step) => request' = [request EXCEPT ![r] = q(step)]
  <2>1. q(step) = [request[r] EXCEPT !.step = step]
    BY <1>1 DEF Request
  <2>2. Moves(r, step) => request' = [request EXCEPT ![r] = [request[r] EXCEPT !.step = step]]
    BY DEF Moves
  <2>3. QED
    BY <1>1, <2>1, <2>2 DEF Request
<1> HIDE DEF st, q
<1>4. ASSUME NEW step \in RequestSteps, Moves(r, step), NEW s \in Statuses,
             txStatus' = [txStatus EXCEPT ![r] = s],
             s = st \/ (st = "none" /\ s = "PENDING"),
             step \in {"idle", "otp", "consume", "check", "create", "duplicate"}
               => s = "none",
             step = "queue" => s = "PENDING", step # "accepted",
             request[r].step \in InFlight, otp' \in 0..MaxCodes,
             failures' \in {failures, failures + 1}, failures' \in 0..MaxFailures,
             UNCHANGED <<issued, jobs, worker, funds, sent, up, removed,
                         lostWrites, overlap, crashes>>
      PROVE  BooksInv'
  <2>1. /\ request[r].step # "accepted" /\ q(step).key \in Keys
        /\ q(step).step = step /\ q(step) \in Request
        /\ request' = [request EXCEPT ![r] = q(step)]
    BY <1>2, <1>3, <1>4 DEF InFlight
  <2>2. Answers(r, q(step), s)
    BY <1>4, <2>1 DEF Answers, st
  <2>3. QED
    BY <2>1, <2>2, RequestStep
<1>5. CASE Receive(r)
  <2>1. PICK k \in Keys, c \in 0..issued :
          request' = [request EXCEPT ![r] =
            [key |-> k, code |-> c,
             step |-> IF jobs[k].state # "none" THEN "duplicate" ELSE "otp"]]
    BY <1>5 DEF Receive
  <2> DEFINE new == [key |-> k, code |-> c,
                     step |-> IF jobs[k].state # "none" THEN "duplicate" ELSE "otp"]
  <2>2. new \in Request /\ new.key \in Keys /\ new.step \in {"otp", "duplicate"}
    BY <1>1 DEF Request, RequestSteps
  <2> HIDE DEF new
  <2>3. Answers(r, new, st)
    <3>1. request' = [request EXCEPT ![r] = new]
      BY <2>1 DEF new
    <3>2. QED
      BY <1>1, <1>2, <1>5, <2>2, <3>1
         DEF Answers, Receive, At, chainVars, historyVars, envVars, st
  <2>4. QED
    BY <1>1, <2>2, <2>3, RequestStep
<1>6. CASE OtpAccepted(r)
  BY <1>1, <1>2, <1>4, <1>6
     DEF OtpAccepted, At, InFlight, RequestSteps, chainVars, historyVars, envVars
<1>7. CASE OtpRefused(r)
  BY <1>1, <1>2, <1>4, <1>7
     DEF OtpRefused, At, InFlight, RequestSteps, chainVars, historyVars, envVars
<1>8. CASE ConsumeOtp(r)
  BY <1>1, <1>2, <1>4, <1>8
     DEF ConsumeOtp, At, InFlight, RequestSteps, chainVars, historyVars, envVars
<1>9. CASE CheckAvailableBalance(r)
  BY <1>1, <1>2, <1>4, <1>9
     DEF CheckAvailableBalance, At, InFlight, RequestSteps, chainVars, historyVars, envVars
<1>10. CASE CreateTransaction(r)
  BY <1>1, <1>2, <1>4, <1>10
     DEF CreateTransaction, At, InFlight, RequestSteps, Statuses, chainVars, historyVars, envVars
<1>11. CASE RequestFails(r)
  BY <1>1, <1>2, <1>4, <1>11
     DEF RequestFails, InFlight, RequestSteps, chainVars, historyVars
<1>12. QED
  BY <1>5, <1>6, <1>7, <1>8, <1>9, <1>10, <1>11

-----------------------------------------------------------------------------
(* Workers                                                                 *)

\* The outcome that worker w may have been given is that of another withdrawal.
Elsewhere(w) == overlap /\ \E t \in Requests \ {Tx(w)} : sent[t] > 0

\* A busy worker moves to step s with nonce m and leaves its transaction with
\* status x and n transfers, and what it leaves fits the step.
Leaves(w, s, m, x, n) ==
  /\ worker[w].step # "idle"
  /\ GoesWith(w, s, m)
  /\ txStatus' = [txStatus EXCEPT ![Tx(w)] = x]
  /\ sent' = [sent EXCEPT ![Tx(w)] = n]
  /\ funds' \in 0..Funds
  /\ failures' \in 0..MaxFailures /\ failures <= failures'
  /\ lostWrites' \in Nat /\ lostWrites <= lostWrites' /\ lostWrites' <= failures'
  /\ s \in {"send", "confirm"} => x = "PENDING"
  /\ s = "finish" => x = "CONFIRMED"
  /\ x = "CONFIRMED" \/ s = "confirm" => n > 0 \/ Elsewhere(w)
  /\ sent[Tx(w)] > 0 => n > 0
  /\ x = "FAILED" \/ s = "fail" => failures' # 0 \/ crashes # 0 \/ n = 0
  /\ s \in {"verify", "fail", "throw"} => crashes # 0 \/ x # "CONFIRMED"
  /\ n <= 1 + crashes + lostWrites'
  /\ x = "PENDING" /\ s \notin {"confirm", "fail"} => n <= crashes + lostWrites'
  /\ UNCHANGED <<requestVars, jobs, up, removed, crashes>>

\* An overlap is remembered.
Remembers == overlap' \in BOOLEAN /\ (overlap => overlap')

\* A step that leaves what fits keeps the invariant.
LEMMA WorkerStep ==
  ASSUME IInv, NEW w \in Workers, NEW s \in WorkerSteps \ {"idle"},
         NEW m \in 0..(Funds + 1), NEW x \in Statuses \ {"none"}, NEW n \in Nat,
         Leaves(w, s, m, x, n), Remembers
  PROVE  BooksInv'
<1> USE DEF Leaves, Remembers
<1> DEFINE tw == Tx(w)
<1>1. /\ tw \in Requests /\ request[tw].key = worker[w].key
      /\ worker[w].key \in Keys /\ jobs[worker[w].key].state = "active"
      /\ jobs[worker[w].key].tx = tw
      /\ request[tw].step = "accepted"
      /\ \A v \in Workers \ {w} : worker[v].step # "idle" => Tx(v) # tw
  BY BusyWorker DEF Tx
<1>2. /\ worker[w] \in Worker
      /\ worker'[w] = [step |-> s, key |-> worker[w].key, nonce |-> m]
      /\ \A v \in Workers \ {w} : worker'[v] = worker[v]
      /\ worker' \in [Workers -> Worker]
  <2>1. worker \in [Workers -> Worker] /\ worker[w] \in Worker
    BY DEF IInv, BooksInv, TypeOK
  <2> DEFINE new == [step |-> s, key |-> worker[w].key, nonce |-> m]
  <2> DEFINE half == [step |-> s, key |-> worker[w].key, nonce |-> worker[w].nonce]
  <2>2. worker[w].key \in Keys \cup {NoKey} /\ new \in Worker
    BY <2>1
  <2>3. half = [worker[w] EXCEPT !.step = s] /\ half \in Worker
    BY <2>1
  <2>4. new = [half EXCEPT !.nonce = m]
    BY <2>3
  <2>5. worker' = [worker EXCEPT ![w] = [[worker[w] EXCEPT !.step = s] EXCEPT !.nonce = m]]
    BY <2>1 DEF GoesWith
  <2>6. worker' = [worker EXCEPT ![w] = new]
    BY <2>3, <2>4, <2>5
  <2> HIDE DEF new
  <2>7. /\ worker' \in [Workers -> Worker] /\ worker'[w] = new
        /\ \A v \in Workers \ {w} : worker'[v] = worker[v]
    BY <2>1, <2>2, <2>6
  <2>8. QED
    BY <2>1, <2>7 DEF new
<1>3. /\ txStatus'[tw] = x /\ sent'[tw] = n
      /\ \A t \in Requests \ {tw} : txStatus'[t] = txStatus[t] /\ sent'[t] = sent[t]
      /\ txStatus' \in [Requests -> Statuses] /\ sent' \in [Requests -> Nat]
  BY <1>1 DEF IInv, BooksInv, TypeOK, Statuses
<1>4. /\ failures \in Nat /\ crashes \in Nat /\ lostWrites \in Nat
      /\ failures' \in Nat /\ (failures' = 0 => failures = 0)
  BY BoundAssumption DEF IInv, BooksInv, TypeOK
<1>5. \A v \in Workers : worker'[v].key = worker[v].key /\ Tx(v)' = Tx(v)
  BY <1>2 DEF Tx
<1>15. \A t \in Requests :
         Backed(t) \/ (t = tw /\ (x = "CONFIRMED" \/ s = "confirm")) => Backed(t)'
  <2>1. \A t \in Requests : sent[t] > 0 => sent'[t] > 0
    BY <1>3
  <2>2. \A t \in Requests : Backed(t) => Backed(t)'
    BY <2>1 DEF Backed
  <2>3. Elsewhere(w) => \A t \in Requests : t = tw => Backed(t)
    BY DEF Elsewhere, Backed
  <2>4. n > 0 => \A t \in Requests : t = tw => Backed(t)'
    BY <1>3 DEF Backed
  <2>5. QED
    BY <2>2, <2>3, <2>4
<1>6. \A k \in Keys : jobs[k].state # "none" =>
        /\ jobs[k].tx \in Requests
        /\ jobs[k].state # "active" => jobs[k].tx # tw
  BY <1>1 DEF IInv, BooksInv, JobInv
<1> HIDE DEF tw
<1>7. TypeOK'
  BY <1>2, <1>3, <1>4 DEF IInv, BooksInv, TypeOK, Statuses, requestVars
<1>8. BudgetInv' /\ JobInv'
  BY <1>4 DEF IInv, BooksInv, BudgetInv, JobInv, requestVars
<1>9. WorkerInv'
  <2>1. \A v \in Workers : worker'[v].step = "idle" <=> worker[v].step = "idle"
    BY <1>2
  <2>2. QED
    BY <1>5, <2>1 DEF IInv, BooksInv, WorkerInv
<1>10. RequestInv'
  <2>1. \A r \in Requests :
          /\ request[r].step \in {"idle", "otp", "consume", "check", "create", "duplicate"}
               => txStatus'[r] = "none"
          /\ request[r].step = "queue" => txStatus'[r] = "PENDING"
          /\ request[r].step = "accepted" => txStatus'[r] # "none"
    BY <1>1, <1>3 DEF IInv, BooksInv, RequestInv
  <2>2. \A t \in Requests : sent'[t] > 0 =>
          /\ request[t].step = "accepted"
          /\ request[t].key \in removed \/ jobs[request[t].key].tx = t
    BY <1>1, <1>3 DEF IInv, BooksInv, RequestInv
  <2>3. QED
    BY <2>1, <2>2 DEF RequestInv, requestVars
<1>11. SettlingInv'
  <2>1. ASSUME NEW v \in Workers \ {w}, worker[v].step # "idle"
        PROVE  txStatus'[Tx(v)] = txStatus[Tx(v)] /\ sent'[Tx(v)] = sent[Tx(v)]
    BY <1>1, <1>3, <2>1, BusyWorker
  <2>2. ASSUME NEW v \in Workers
        PROVE  /\ worker'[v].step \in {"send", "confirm"} => txStatus'[Tx(v)] = "PENDING"
               /\ worker'[v].step = "confirm" => Backed(Tx(v))'
               /\ worker'[v].step = "finish" => txStatus'[Tx(v)] = "CONFIRMED"
               /\ worker'[v].step = "fail" /\ failures' = 0 /\ crashes = 0
                    => sent'[Tx(v)] = 0
               /\ worker'[v].step \in {"verify", "fail", "throw"} /\ crashes = 0
                    => txStatus'[Tx(v)] # "CONFIRMED"
    <3>1. CASE v = w
      <4>1. worker'[v].step = "confirm" => Backed(Tx(v))'
        BY <1>1, <1>2, <1>5, <1>15, <3>1 DEF tw
      <4>2. QED
        BY <1>2, <1>3, <3>1, <4>1 DEF tw
    <3>2. CASE v # w
      <4>1. worker'[v] = worker[v]
        BY <1>2, <3>2
      <4>2. worker[v].step = "confirm" => Backed(Tx(v))'
        <5>1. worker[v].step = "confirm" => Backed(Tx(v)) /\ Tx(v) \in Requests \ {tw}
          BY <1>1, <3>2, BusyWorker DEF IInv, BooksInv, SettlingInv
        <5>2. QED
          BY <1>5, <1>15, <5>1
      <4>3. QED
        BY <1>4, <2>1, <3>2, <4>1, <4>2 DEF IInv, BooksInv, SettlingInv
    <3>3. QED
      BY <3>1, <3>2
  <2>3. crashes = 0 => \A k \in Keys : jobs[k].state \in {"waiting", "delayed", "failed"}
          => txStatus'[jobs[k].tx] # "CONFIRMED"
    BY <1>3, <1>6 DEF IInv, BooksInv, SettlingInv
  <2>4. QED
    BY <1>5, <2>2, <2>3 DEF SettlingInv
<1>12. SentInv'
  <2>1. ASSUME NEW t \in Requests
        PROVE  /\ sent'[t] <= 1 + crashes + lostWrites'
               /\ Open(t)' => sent'[t] <= crashes + lostWrites'
    <3>1. CASE t = tw
      <4>1. Open(t)' => x = "PENDING" /\ s \notin {"confirm", "fail"}
        BY <1>2, <1>3, <1>5, <3>1 DEF Open, tw
      <4>2. QED
        BY <1>3, <3>1, <4>1
    <3>2. CASE t # tw
      <4>1. Open(t)' => Open(t)
        BY <1>2, <1>3, <1>5, <3>2 DEF Open, tw
      <4>2. sent[t] \in Nat /\ sent'[t] = sent[t]
        BY <1>3, <3>2 DEF IInv, BooksInv, TypeOK
      <4>3. /\ sent[t] <= 1 + crashes + lostWrites
            /\ Open(t) => sent[t] <= crashes + lostWrites
        BY DEF IInv, BooksInv, SentInv
      <4>4. QED
        BY <1>4, <4>1, <4>2, <4>3
    <3>3. QED
      BY <3>1, <3>2
  <2>2. QED
    BY <2>1 DEF SentInv
<1>13. StatusHonest'
  <2>1. ASSUME NEW t \in Requests
        PROVE  /\ txStatus'[t] = "CONFIRMED" => Backed(t)'
               /\ txStatus'[t] = "FAILED" /\ failures' = 0 /\ crashes = 0 => sent'[t] = 0
    BY <1>1, <1>3, <1>4, <1>15 DEF IInv, BooksInv, StatusHonest
  <2>2. \A k \in Keys :
          jobs[k].state = "completed" => txStatus'[jobs[k].tx] = "CONFIRMED"
    BY <1>3, <1>6 DEF IInv, BooksInv, StatusHonest
  <2>3. QED
    BY <2>1, <2>2 DEF StatusHonest, Backed
<1>14. QED
  BY <1>7, <1>8, <1>9, <1>10, <1>11, <1>12, <1>13 DEF IInv, BooksInv

\* What a worker that has a job does next keeps the invariant.
LEMMA WorkingInv ==
  ASSUME IInv, NEW w \in Workers,
         \/ Verify(w) \/ ExecuteWithdrawal(w) \/ TransferRefused(w) \/ OutcomeShared(w)
         \/ Confirm(w) \/ RecordFailure(w) \/ TransferTimesOut(w) \/ StepFails(w)
         \/ RecordFailureFails(w)
  PROVE  BooksInv'
<1> DEFINE x == txStatus[Tx(w)]
           n == sent[Tx(w)]
<1>1. worker[w].step # "idle"
  BY DEF Verify, ExecuteWithdrawal, TransferRefused, OutcomeShared, Confirm,
     RecordFailure, TransferTimesOut, StepFails, RecordFailureFails, Doing
<1>2. Tx(w) \in Requests /\ x \in Statuses \ {"none"} /\ n \in Nat /\ sent[Tx(w)] = n
  BY <1>1, BusyWorker
<1>3. /\ worker[w].step \in {"send", "confirm"} => x = "PENDING"
      /\ worker[w].step = "confirm" => n > 0 \/ Elsewhere(w)
      /\ worker[w].step = "fail" /\ failures = 0 /\ crashes = 0 => n = 0
      /\ worker[w].step \in {"verify", "fail", "throw"} /\ crashes = 0 => x # "CONFIRMED"
  BY DEF IInv, BooksInv, SettlingInv, Backed, Elsewhere
<1>4. /\ x = "CONFIRMED" => n > 0 \/ Elsewhere(w)
      /\ x = "FAILED" /\ failures = 0 /\ crashes = 0 => n = 0
  BY <1>2 DEF IInv, BooksInv, StatusHonest, Backed, Elsewhere
<1>5. /\ n <= 1 + crashes + lostWrites
      /\ Open(Tx(w)) => n <= crashes + lostWrites
  BY <1>2 DEF IInv, BooksInv, SentInv
<1>6. Open(Tx(w)) <=> x = "PENDING" /\ worker[w].step \notin {"confirm", "fail"}
  <2>1. \A v \in Workers : worker[v].step \in {"confirm", "fail"} /\ Tx(v) = Tx(w) => v = w
    BY <1>1, BusyWorker
  <2>2. QED
    BY <1>2, <2>1 DEF Open, Statuses
<1>7. /\ txStatus = [txStatus EXCEPT ![Tx(w)] = x]
      /\ sent = [sent EXCEPT ![Tx(w)] = n]
      /\ funds \in 0..Funds /\ failures \in 0..MaxFailures
      /\ crashes \in Nat /\ lostWrites \in Nat /\ lostWrites <= failures
      /\ 0 \in 0..(Funds + 1) /\ Used + 1 \in Nat
      /\ 1..(Used + 1) \subseteq 0..(Funds + 1)
      /\ n > 0 \/ Elsewhere(w) \/ n = 0
  BY <1>2, BoundAssumption, FundsAssumption DEF Used, IInv, BooksInv, TypeOK, BudgetInv
<1>0. Remembers
  <2>1. overlap \in BOOLEAN
    BY DEF IInv, BooksInv, TypeOK
  <2>2. CASE Verify(w)
    BY <2>1, <2>2 DEF Verify, Remembers
  <2>3. CASE overlap' = overlap
    BY <2>1, <2>3 DEF Remembers
  <2>4. QED
    BY <2>2, <2>3 DEF ExecuteWithdrawal, TransferRefused, OutcomeShared, Confirm,
       RecordFailure, TransferTimesOut, StepFails, RecordFailureFails, historyVars
<1>8. failures \in Nat /\ (failures < MaxFailures => failures + 1 \in 0..MaxFailures)
  BY <1>7, BoundAssumption
<1> HIDE DEF x, n
<1>9. CASE Verify(w)
  <2>1. CASE x = "PENDING"
    <3>1. PICK m \in 1..(Used + 1) : GoesWith(w, "send", m)
      BY <1>9, <2>1 DEF Verify, Executable, x
    <3>2. m \in 0..(Funds + 1)
      BY <1>7
    <3>3. UNCHANGED <<requestVars, txStatus, jobs, funds, sent, removed, lostWrites,
                      up, failures, crashes>>
      BY <1>9 DEF Verify, chainVars, envVars
    <3>4. Leaves(w, "send", m, x, n)
      BY <1>1, <1>2, <1>3, <1>4, <1>5, <1>6, <1>7, <1>8, <1>9, <2>1, <3>1, <3>3
         DEF Leaves, Verify, Doing
    <3>5. QED
      BY <1>2, <3>2, <3>4, <1>0, WorkerStep DEF WorkerSteps
  <2>2. CASE x # "PENDING"
    <3>1. x = "FAILED" \/ (x = "CONFIRMED" /\ crashes # 0)
      BY <1>2, <1>3, <1>9, <2>2 DEF Verify, Doing, Statuses
    <3>2. /\ GoesWith(w, "fail", 0)
          /\ UNCHANGED <<requestVars, txStatus, jobs, funds, sent, removed, lostWrites,
                         overlap, up, failures, crashes>>
      BY <1>9, <2>2 DEF Verify, Executable, Goes, x, chainVars, envVars
    <3>3. Leaves(w, "fail", 0, x, n)
      BY <1>1, <1>2, <1>3, <1>4, <1>5, <1>6, <1>7, <1>8, <1>9, <2>2, <3>1, <3>2
         DEF Leaves, Verify, Doing
    <3>4. QED
      BY <1>2, <1>7, <3>3, <1>0, WorkerStep DEF WorkerSteps
  <2>3. QED
    BY <2>1, <2>2
<1>10. ASSUME Transfer(w)
       PROVE  sent' = [sent EXCEPT ![Tx(w)] = n + 1] /\ funds' \in 0..Funds
  BY <1>2, <1>7, <1>10, FundsAssumption DEF Transfer, n
<1>11. CASE ExecuteWithdrawal(w)
  <2>1. Leaves(w, "confirm", 0, x, n + 1)
    BY <1>1, <1>2, <1>3, <1>4, <1>5, <1>6, <1>7, <1>8, <1>10, <1>11
       DEF Leaves, ExecuteWithdrawal, Doing, Goes, historyVars, envVars
  <2>2. QED
    BY <1>2, <1>7, <2>1, <1>0, WorkerStep DEF WorkerSteps
<1>12. CASE TransferRefused(w)
  <2>1. failures = 0 /\ crashes = 0 => n = 0
    BY <1>2, <1>3, <1>5, <1>6, <1>7, <1>8, <1>12 DEF TransferRefused, Doing, Statuses
  <2>2. Leaves(w, "fail", 0, x, n)
    BY <1>1, <1>2, <1>3, <1>4, <1>5, <1>6, <1>7, <1>8, <1>12, <2>1
       DEF Leaves, TransferRefused, Doing, Goes, chainVars, historyVars, envVars
  <2>3. QED
    BY <1>2, <1>7, <2>2, <1>0, WorkerStep DEF WorkerSteps
<1>13. CASE Confirm(w)
  <2>1. Leaves(w, "finish", 0, "CONFIRMED", n)
    BY <1>1, <1>2, <1>3, <1>4, <1>5, <1>6, <1>7, <1>8, <1>13
       DEF Leaves, Confirm, Doing, Goes, chainVars, historyVars, envVars
  <2>2. QED
    BY <1>2, <1>7, <2>1, <1>0, WorkerStep DEF WorkerSteps, Statuses
<1>14. CASE RecordFailure(w)
  <2>1. Leaves(w, "throw", 0, "FAILED", n)
    BY <1>1, <1>2, <1>3, <1>4, <1>5, <1>6, <1>7, <1>8, <1>14
       DEF Leaves, RecordFailure, Doing, Goes, chainVars, historyVars, envVars
  <2>2. QED
    BY <1>2, <1>7, <2>1, <1>0, WorkerStep DEF WorkerSteps, Statuses
<1>15. CASE TransferTimesOut(w)
  <2>1. Leaves(w, "fail", 0, x, n + 1)
    BY <1>1, <1>2, <1>3, <1>4, <1>5, <1>6, <1>7, <1>8, <1>10, <1>15
       DEF Leaves, TransferTimesOut, Doing, Goes, historyVars
  <2>2. QED
    BY <1>2, <1>7, <2>1, <1>0, WorkerStep DEF WorkerSteps
<1>16. CASE StepFails(w)
  <2>1. Leaves(w, "fail", 0, x, n)
    BY <1>1, <1>2, <1>3, <1>4, <1>5, <1>6, <1>7, <1>8, <1>16
       DEF Leaves, StepFails, Goes, chainVars, historyVars
  <2>2. QED
    BY <1>2, <1>7, <2>1, <1>0, WorkerStep DEF WorkerSteps
<1>17. CASE RecordFailureFails(w)
  <2>1. Leaves(w, "throw", 0, x, n)
    BY <1>1, <1>2, <1>3, <1>4, <1>5, <1>6, <1>7, <1>8, <1>17
       DEF Leaves, RecordFailureFails, Doing, Goes, chainVars
  <2>2. QED
    BY <1>2, <1>7, <2>1, <1>0, WorkerStep DEF WorkerSteps
<1>18. CASE OutcomeShared(w)
  <2>1. n > 0 \/ Elsewhere(w)
    <3>1. overlap
      BY <1>18 DEF OutcomeShared, Doing, IInv, NonceInv
    <3>2. PICK t \in Requests : sent[t] > 0
      BY <1>18 DEF OutcomeShared
    <3>3. QED
      BY <3>1, <3>2 DEF Elsewhere, n
  <2>2. Leaves(w, "confirm", 0, x, n)
    BY <1>1, <1>2, <1>3, <1>4, <1>5, <1>6, <1>7, <1>8, <1>18, <2>1
       DEF Leaves, OutcomeShared, Doing, Goes, chainVars, historyVars, envVars
  <2>3. QED
    BY <1>2, <1>7, <2>2, <1>0, WorkerStep DEF WorkerSteps
<1>19. QED
  BY <1>9, <1>11, <1>12, <1>13, <1>14, <1>15, <1>16, <1>17, <1>18

-----------------------------------------------------------------------------
(* The queue                                                               *)

\* Writing the job of one key leaves the others as they are.
LEMMA OneJob ==
  ASSUME TypeOK, NEW k \in Keys, NEW j \in Job, jobs' = [jobs EXCEPT ![k] = j]
  PROVE  /\ jobs' \in [Keys -> Job] /\ jobs'[k] = j
         /\ \A l \in Keys \ {k} : jobs'[l] = jobs[l]
  BY DEF TypeOK

\* What TypeOK says of one job.
LEMMA JobTypes ==
  ASSUME TypeOK, NEW k \in Keys
  PROVE  /\ jobs[k] \in Job /\ jobs[k].state \in JobStates
         /\ jobs[k].tx \in Requests \cup {0}
         /\ jobs[k].attempts \in 0..MaxAttempts /\ jobs[k].attempts \in Nat
         /\ jobs[k].stalls \in 0..(MaxStalled + 1) /\ jobs[k].stalls \in Nat
<1>1. jobs[k] \in Job
  BY DEF TypeOK
<1>2. QED
  BY <1>1, RetryAssumption DEF Job

\* The job of key k becomes j and keeps its transaction; a worker may take the
\* job or leave it.
Becomes(k, j) ==
  /\ jobs[k].state # "none" /\ j.state # "none" /\ j.tx = jobs[k].tx
  /\ jobs' = [jobs EXCEPT ![k] = j]
  /\ j.state \in Live => j.attempts < MaxAttempts /\ j.stalls <= MaxStalled
  /\ j.state = "completed" => txStatus[j.tx] = "CONFIRMED"
  /\ j.state \in {"waiting", "delayed", "failed"} /\ crashes = 0
       => txStatus[j.tx] # "CONFIRMED"
  /\ worker' \in [Workers -> Worker]
  /\ \A v \in Workers :
       \/ worker'[v] = worker[v]
       \/ worker'[v].step = "idle" /\ worker[v].step \notin {"confirm", "fail"}
       \/ /\ worker'[v].step = "verify" /\ worker'[v].key = k
          /\ worker[v].step = "idle"
          /\ crashes = 0 => txStatus[j.tx] # "CONFIRMED"
  /\ WorkerInv'
  /\ UNCHANGED <<requestVars, txStatus, chainVars, historyVars, envVars>>

\* Such a step keeps the invariant, once the workers are known to fit the jobs.
LEMMA JobStep ==
  ASSUME IInv, NEW k \in Keys, NEW j \in Job, Becomes(k, j)
  PROVE  BooksInv'
<1>1. /\ jobs' \in [Keys -> Job] /\ jobs'[k] = j
      /\ \A l \in Keys \ {k} : jobs'[l] = jobs[l]
  BY OneJob DEF IInv, BooksInv, Becomes
<1>2. \A l \in Keys : /\ jobs'[l].tx = jobs[l].tx
                      /\ jobs'[l].state = "none" <=> jobs[l].state = "none"
  BY <1>1 DEF Becomes
<1>3. UNCHANGED <<request, otp, issued, txStatus, funds, sent, up, removed,
                  lostWrites, overlap, failures, crashes>>
  BY DEF Becomes, requestVars, chainVars, historyVars, envVars
<1>4. TypeOK'
  BY <1>1, <1>3 DEF IInv, BooksInv, TypeOK, Becomes
<1>5. BudgetInv'
  BY <1>1, <1>3 DEF IInv, BooksInv, BudgetInv, Becomes
<1>6. JobInv'
  BY <1>2, <1>3 DEF IInv, BooksInv, JobInv
<1>7. RequestInv'
  <2>1. \A t \in Requests : sent[t] > 0 => request[t].key \in Keys
    BY DEF IInv, BooksInv, RequestInv, JobInv
  <2>2. QED
    BY <1>2, <1>3, <2>1 DEF IInv, BooksInv, RequestInv
<1>8. WorkerInv'
  BY DEF Becomes
<1>9. \A v \in Workers : worker'[v].step # "idle" =>
        \/ worker'[v] = worker[v] /\ Tx(v)' = Tx(v)
        \/ /\ worker'[v].step = "verify" /\ Tx(v)' = j.tx
           /\ crashes = 0 => txStatus[j.tx] # "CONFIRMED"
  <2>1. \A v \in Workers : worker'[v].step # "idle" => worker'[v].key \in Keys
    BY <1>8 DEF WorkerInv
  <2>2. QED
    BY <1>1, <1>2, <2>1 DEF Becomes, Tx
<1>10. SettlingInv'
  <2>1. ASSUME NEW v \in Workers
        PROVE  /\ worker'[v].step \in {"send", "confirm"} => txStatus[Tx(v)'] = "PENDING"
               /\ worker'[v].step = "confirm" => Backed(Tx(v)')
               /\ worker'[v].step = "finish" => txStatus[Tx(v)'] = "CONFIRMED"
               /\ worker'[v].step = "fail" /\ failures = 0 /\ crashes = 0
                    => sent[Tx(v)'] = 0
               /\ worker'[v].step \in {"verify", "fail", "throw"} /\ crashes = 0
                    => txStatus[Tx(v)'] # "CONFIRMED"
    BY <1>9 DEF IInv, BooksInv, SettlingInv
  <2>2. crashes = 0 => \A l \in Keys : jobs'[l].state \in {"waiting", "delayed", "failed"}
          => txStatus[jobs'[l].tx] # "CONFIRMED"
    BY <1>1, <1>3 DEF IInv, BooksInv, SettlingInv, Becomes
  <2>3. QED
    BY <1>3, <2>1, <2>2 DEF SettlingInv, Backed
<1>11. SentInv'
  <2>1. ASSUME NEW t \in Requests, Open(t)'
        PROVE  Open(t)
    <3>1. ASSUME NEW v \in Workers, worker[v].step \in {"confirm", "fail"}
          PROVE  Tx(v) # t
      <4>1. worker'[v] = worker[v]
        BY <3>1 DEF Becomes
      <4>2. Tx(v)' = Tx(v)
        BY <1>9, <3>1, <4>1
      <4>3. QED
        BY <2>1, <3>1, <4>1, <4>2 DEF Open
    <3>2. QED
      BY <1>3, <2>1, <3>1 DEF Open
  <2>2. QED
    BY <1>3, <2>1 DEF IInv, BooksInv, SentInv
<1>12. StatusHonest'
  BY <1>1, <1>3 DEF IInv, BooksInv, StatusHonest, Backed, Becomes
<1>13. QED
  BY <1>4, <1>5, <1>6, <1>7, <1>8, <1>10, <1>11, <1>12 DEF IInv, BooksInv

\* Jobs that wait, are found again, taken, finished or tried again later.
LEMMA QueueInv ==
  ASSUME IInv, NEW k \in Keys,
         \/ Backoff(k) \/ Recover(k)
         \/ \E w \in Workers : Take(w, k)
  PROVE  BooksInv'
<1> DEFINE j(state, stalls) == [state |-> state, tx |-> jobs[k].tx,
                                attempts |-> jobs[k].attempts, stalls |-> stalls]
<1>1. /\ jobs[k] \in Job /\ jobs[k].tx \in Requests \cup {0}
      /\ jobs[k].attempts \in 0..MaxAttempts /\ jobs[k].stalls \in Nat
      /\ jobs[k].stalls \in 0..(MaxStalled + 1)
      /\ worker \in [Workers -> Worker]
  BY JobTypes DEF IInv, BooksInv, TypeOK
<1>2. ASSUME NEW state \in JobStates
      PROVE  /\ j(state, jobs[k].stalls) \in Job
             /\ [jobs EXCEPT ![k].state = state]
                  = [jobs EXCEPT ![k] = j(state, jobs[k].stalls)]
  <2>1. j(state, jobs[k].stalls) = [jobs[k] EXCEPT !.state = state]
    BY <1>1 DEF Job
  <2>2. QED
    BY <1>1, <2>1 DEF Job
<1>3. CASE Backoff(k)
  <2> DEFINE new == j("waiting", jobs[k].stalls)
  <2>1. /\ jobs[k].attempts < MaxAttempts /\ jobs[k].stalls <= MaxStalled
        /\ crashes = 0 => txStatus[jobs[k].tx] # "CONFIRMED"
    BY <1>3 DEF Backoff, IInv, BooksInv, BudgetInv, SettlingInv, Live
  <2>2. /\ new \in Job /\ new.state = "waiting" /\ new.tx = jobs[k].tx
        /\ new.attempts = jobs[k].attempts /\ new.stalls = jobs[k].stalls
        /\ jobs' = [jobs EXCEPT ![k] = new]
    BY <1>2, <1>3 DEF Backoff, JobStates
  <2> HIDE DEF new
  <2>3. WorkerInv'
    <3>1. \A l \in Keys : jobs'[l].state = "active" <=> jobs[l].state = "active"
      BY <1>3, <2>2, OneJob DEF IInv, BooksInv, Backoff
    <3>2. QED
      BY <1>3, <3>1 DEF IInv, BooksInv, WorkerInv, Backoff, envVars
  <2>4. Becomes(k, new)
    BY <1>1, <1>3, <2>1, <2>2, <2>3 DEF Becomes, Backoff
  <2>5. QED
    BY <2>2, <2>4, JobStep
<1>4. CASE Recover(k)
  <2> DEFINE new == j(IF jobs[k].stalls < MaxStalled THEN "waiting" ELSE "failed",
                      jobs[k].stalls + 1)
  <2>1. /\ jobs[k].attempts < MaxAttempts /\ jobs[k].stalls <= MaxStalled
        /\ jobs[k].state = "active" /\ \A w \in Workers : worker[w].key # k
        /\ crashes # 0
    BY <1>4 DEF Recover, IInv, BooksInv, BudgetInv, WorkerInv, Live
  <2>2. /\ new \in Job /\ new.state \in {"waiting", "failed"} /\ new.tx = jobs[k].tx
        /\ new.state = "waiting" => /\ new.attempts < MaxAttempts
                                    /\ new.stalls <= MaxStalled
        /\ jobs' = [jobs EXCEPT ![k] = new]
    BY <1>1, <1>4, <2>1, RetryAssumption DEF Recover, Job, JobStates
  <2> HIDE DEF new
  <2>3. WorkerInv'
    <3>1. \A l \in Keys \ {k} : jobs'[l] = jobs[l]
      BY <2>2, OneJob DEF IInv, BooksInv
    <3>2. QED
      BY <1>4, <2>1, <3>1 DEF IInv, BooksInv, WorkerInv, Recover, envVars
  <2>4. Becomes(k, new)
    BY <1>1, <1>4, <2>1, <2>2, <2>3 DEF Becomes, Recover, Live
  <2>5. QED
    BY <2>2, <2>4, JobStep
<1>5. CASE \E w \in Workers : Take(w, k)
  <2>1. PICK w \in Workers : Take(w, k)
    BY <1>5
  <2> DEFINE new == j("active", jobs[k].stalls)
  <2>2. /\ jobs[k].attempts < MaxAttempts /\ jobs[k].stalls <= MaxStalled
        /\ crashes = 0 => txStatus[jobs[k].tx] # "CONFIRMED"
    BY <2>1 DEF Take, IInv, BooksInv, BudgetInv, SettlingInv, Live
  <2>3. /\ new \in Job /\ new.state = "active" /\ new.tx = jobs[k].tx
        /\ new.attempts = jobs[k].attempts /\ new.stalls = jobs[k].stalls
        /\ jobs' = [jobs EXCEPT ![k] = new]
    BY <1>2, <2>1 DEF Take, JobStates
  <2> HIDE DEF new
  <2>4. /\ worker' \in [Workers -> Worker]
        /\ worker'[w] = [step |-> "verify", key |-> k, nonce |-> 0]
        /\ worker[w].step = "idle"
        /\ \A v \in Workers \ {w} : worker'[v] = worker[v]
    BY <1>1, <2>1, FundsAssumption DEF Take, Doing, WorkerSteps
  <2>5. WorkerInv'
    <3>1. jobs'[k].state = "active" /\ \A l \in Keys \ {k} : jobs'[l] = jobs[l]
      BY <2>3, OneJob DEF IInv, BooksInv
    <3>2. \A v \in Workers : worker[v].key # k
      BY <2>1, KeyAssumption DEF Take, IInv, BooksInv, WorkerInv
    <3>3. crashes' = crashes
      BY <2>1 DEF Take, envVars
    <3>4. crashes = 0 => \A l \in Keys : jobs'[l].state = "active" =>
            \E v \in Workers : worker'[v].key = l
      <4>1. SUFFICES ASSUME crashes = 0, NEW l \in Keys, jobs'[l].state = "active"
                     PROVE  \E v \in Workers : worker'[v].key = l
        OBVIOUS
      <4>2. CASE l = k
        BY <2>4, <4>2
      <4>3. CASE l # k
        <5>1. PICK v \in Workers : worker[v].key = l
          BY <3>1, <4>1, <4>3 DEF IInv, BooksInv, WorkerInv
        <5>2. v # w
          BY <2>4, <5>1, KeyAssumption DEF IInv, BooksInv, WorkerInv
        <5>3. QED
          BY <2>4, <5>1, <5>2
      <4>4. QED
        BY <4>2, <4>3
    <3>5. \A v \in Workers :
            IF worker'[v].step = "idle" THEN worker'[v].key = NoKey
            ELSE worker'[v].key \in Keys /\ jobs'[worker'[v].key].state = "active"
      BY <2>4, <3>1, <3>2 DEF IInv, BooksInv, WorkerInv
    <3>6. \A u, v \in Workers :
            worker'[u].step # "idle" /\ worker'[u].key = worker'[v].key => u = v
      BY <2>4, <3>2 DEF IInv, BooksInv, WorkerInv
    <3>7. QED
      BY <3>3, <3>4, <3>5, <3>6 DEF WorkerInv
  <2>6. Becomes(k, new)
    <3>1. jobs[k].state # "none"
      BY <2>1 DEF Take
    <3>2. \A v \in Workers :
            \/ worker'[v] = worker[v]
            \/ /\ worker'[v].step = "verify" /\ worker'[v].key = k
               /\ worker[v].step = "idle"
               /\ crashes = 0 => txStatus[new.tx] # "CONFIRMED"
      BY <2>2, <2>3, <2>4
    <3>3. UNCHANGED <<requestVars, txStatus, chainVars, historyVars, envVars>>
      BY <2>1 DEF Take
    <3>4. QED
      BY <2>2, <2>3, <2>4, <2>5, <3>1, <3>2, <3>3 DEF Becomes
  <2>7. QED
    BY <2>3, <2>6, JobStep
<1>6. QED
  BY <1>3, <1>4, <1>5

\* A worker that leaves its job keeps the others with theirs.
LEMMA LeavingWorker ==
  ASSUME IInv, NEW w \in Workers, worker[w].step # "idle",
         worker' = [worker EXCEPT ![w] = IdleWorker],
         NEW j \in Job, jobs' = [jobs EXCEPT ![worker[w].key] = j],
         j.state # "active", crashes' = crashes
  PROVE  /\ worker' \in [Workers -> Worker]
         /\ worker'[w].step = "idle"
         /\ \A v \in Workers \ {w} : worker'[v] = worker[v]
         /\ WorkerInv'
<1>1. /\ worker' \in [Workers -> Worker]
      /\ worker'[w].step = "idle" /\ worker'[w].key = NoKey
      /\ \A v \in Workers \ {w} : worker'[v] = worker[v]
  BY FundsAssumption DEF IInv, BooksInv, TypeOK, IdleWorker, WorkerSteps
<1>2. worker[w].key \in Keys
  BY BusyWorker
<1>3. /\ jobs'[worker[w].key] = j
      /\ \A l \in Keys \ {worker[w].key} : jobs'[l] = jobs[l]
  BY <1>2, OneJob DEF IInv, BooksInv
<1>4. \A v \in Workers : worker[v].key = worker[w].key => v = w
  BY DEF IInv, BooksInv, WorkerInv
<1>5. \A v \in Workers :
        IF worker'[v].step = "idle" THEN worker'[v].key = NoKey
        ELSE worker'[v].key \in Keys /\ jobs'[worker'[v].key].state = "active"
  BY <1>1, <1>3, <1>4 DEF IInv, BooksInv, WorkerInv
<1>6. \A u, v \in Workers :
        worker'[u].step # "idle" /\ worker'[u].key = worker'[v].key => u = v
  <2>1. ASSUME NEW u \in Workers, NEW v \in Workers,
               worker'[u].step # "idle", worker'[u].key = worker'[v].key
        PROVE  u = v
    <3>1. u # w /\ worker'[u] = worker[u] /\ worker'[u].key \in Keys
      BY <1>1, <1>5, <2>1
    <3>2. v # w
      BY <1>1, <2>1, <3>1, KeyAssumption
    <3>3. QED
      BY <1>1, <2>1, <3>1, <3>2 DEF IInv, BooksInv, WorkerInv
  <2>2. QED
    BY <2>1
<1>7. crashes = 0 => \A l \in Keys : jobs'[l].state = "active" =>
        \E v \in Workers : worker'[v].key = l
  <2>1. SUFFICES ASSUME crashes = 0, NEW l \in Keys, jobs'[l].state = "active"
                 PROVE  \E v \in Workers : worker'[v].key = l
    OBVIOUS
  <2>2. l # worker[w].key /\ jobs[l].state = "active"
    BY <1>3, <2>1
  <2>3. PICK v \in Workers : worker[v].key = l
    BY <2>1, <2>2 DEF IInv, BooksInv, WorkerInv
  <2>4. QED
    BY <1>1, <2>2, <2>3
<1>8. QED
  BY <1>1, <1>5, <1>6, <1>7 DEF WorkerInv

\* A job that is completed, or whose attempt failed.
LEMMA LeavingInv ==
  ASSUME IInv, NEW w \in Workers, Finish(w) \/ FailAttempt(w)
  PROVE  BooksInv'
<1> DEFINE k == worker[w].key
           failed == [state |-> IF AttemptsLeft(jobs[k]) THEN "delayed" ELSE "failed",
                      tx |-> jobs[k].tx, attempts |-> jobs[k].attempts + 1,
                      stalls |-> jobs[k].stalls]
           done == [state |-> "completed", tx |-> jobs[k].tx,
                    attempts |-> jobs[k].attempts, stalls |-> jobs[k].stalls]
<1>1. /\ worker[w].step \in {"finish", "throw"}
      /\ worker' = [worker EXCEPT ![w] = IdleWorker]
      /\ UNCHANGED <<requestVars, txStatus, chainVars, historyVars, envVars>>
  BY DEF Finish, FailAttempt, Doing
<1>2. /\ k \in Keys /\ jobs[k].state = "active" /\ Tx(w) = jobs[k].tx
  BY <1>1, BusyWorker DEF Tx
<1>3. /\ jobs[k] \in Job /\ jobs[k].tx \in Requests \cup {0}
      /\ jobs[k].attempts \in Nat /\ jobs[k].attempts < MaxAttempts
      /\ jobs[k].stalls \in Nat /\ jobs[k].stalls <= MaxStalled
  BY <1>2, JobTypes DEF IInv, BooksInv, BudgetInv, Live
<1>4. failed \in Job /\ done \in Job
  BY <1>3, RetryAssumption DEF Job, JobStates
<1>5. /\ failed.state \in {"delayed", "failed"} /\ failed.tx = jobs[k].tx
      /\ failed.state = "delayed" => failed.attempts < MaxAttempts
      /\ failed.stalls = jobs[k].stalls
      /\ done.state = "completed" /\ done.tx = jobs[k].tx
  BY <1>3 DEF AttemptsLeft
<1>6. crashes' = crashes
  BY <1>1 DEF envVars
<1>7. CASE Finish(w)
  <2>1. jobs' = [jobs EXCEPT ![k] = done]
    <3>1. done = [jobs[k] EXCEPT !.state = "completed"]
      BY <1>3 DEF Job
    <3>2. QED
      BY <1>2, <1>7, <3>1 DEF Finish
  <2>2. txStatus[jobs[k].tx] = "CONFIRMED"
    BY <1>2, <1>7 DEF Finish, Doing, IInv, BooksInv, SettlingInv
  <2> HIDE DEF k, done, failed
  <2>3. Becomes(k, done)
    BY <1>1, <1>2, <1>4, <1>5, <1>6, <2>1, <2>2, LeavingWorker DEF Becomes, Live, k
  <2>4. QED
    BY <1>2, <1>4, <2>3, JobStep
<1>8. CASE FailAttempt(w)
  <2>1. jobs' = [jobs EXCEPT ![k] = failed]
    BY <1>2, <1>8 DEF FailAttempt
  <2>2. crashes = 0 => txStatus[jobs[k].tx] # "CONFIRMED"
    BY <1>2, <1>8 DEF FailAttempt, Doing, IInv, BooksInv, SettlingInv
  <2> HIDE DEF k, done, failed
  <2>3. Becomes(k, failed)
    BY <1>1, <1>2, <1>3, <1>4, <1>5, <1>6, <2>1, <2>2, LeavingWorker
       DEF Becomes, Live, k
  <2>4. QED
    BY <1>2, <1>4, <2>3, JobStep
<1>9. QED
  BY <1>7, <1>8

\* A completed job is dropped from Redis.
LEMMA RemoveCompletedInv ==
  ASSUME IInv, NEW k \in Keys, RemoveCompleted(k)
  PROVE  BooksInv'
<1>1. NoJob \in Job /\ NoJob.state = "none" /\ NoJob.tx = 0
  BY RetryAssumption DEF NoJob, Job, JobStates
<1>2. /\ jobs' \in [Keys -> Job] /\ jobs'[k] = NoJob
      /\ \A l \in Keys \ {k} : jobs'[l] = jobs[l]
  BY <1>1, OneJob DEF IInv, BooksInv, RemoveCompleted
<1>3. /\ UNCHANGED <<request, otp, issued, txStatus, worker, funds, sent, up,
                     lostWrites, overlap, failures, crashes>>
      /\ removed' = removed \cup {k} /\ jobs[k].state = "completed"
  BY DEF RemoveCompleted, requestVars, chainVars, envVars
<1>4. \A v \in Workers : worker[v].step # "idle" => Tx(v)' = Tx(v)
  BY <1>2, <1>3, BusyWorker DEF Tx
<1>5. TypeOK'
  BY <1>2, <1>3 DEF IInv, BooksInv, TypeOK
<1>6. BudgetInv' /\ JobInv' /\ StatusHonest'
  BY <1>1, <1>2, <1>3 DEF IInv, BooksInv, BudgetInv, JobInv, StatusHonest, Backed, Live
<1>7. WorkerInv'
  <2>1. \A l \in Keys : jobs'[l].state = "active" <=> jobs[l].state = "active"
    BY <1>1, <1>2, <1>3
  <2>2. QED
    BY <1>3, <2>1 DEF IInv, BooksInv, WorkerInv
<1>8. RequestInv'
  <2>1. \A t \in Requests : sent[t] > 0 => request[t].key \in Keys
    BY DEF IInv, BooksInv, RequestInv, JobInv
  <2>2. QED
    BY <1>2, <1>3, <2>1 DEF IInv, BooksInv, RequestInv
<1>9. SettlingInv'
  <2>1. \A v \in Workers : worker[v].step # "idle" =>
          txStatus'[Tx(v)'] = txStatus[Tx(v)] /\ sent'[Tx(v)'] = sent[Tx(v)]
    BY <1>3, <1>4
  <2>2. crashes' = 0 => \A l \in Keys : jobs'[l].state \in {"waiting", "delayed", "failed"}
          => txStatus'[jobs'[l].tx] # "CONFIRMED"
    BY <1>1, <1>2, <1>3 DEF IInv, BooksInv, SettlingInv
  <2>3. QED
    BY <1>3, <1>4, <2>1, <2>2 DEF IInv, BooksInv, SettlingInv, Backed
<1>10. SentInv'
  <2>1. \A t \in Requests : Open(t)' => Open(t)
    BY <1>3, <1>4 DEF Open
  <2>2. QED
    BY <1>3, <2>1 DEF IInv, BooksInv, SentInv
<1>11. QED
  BY <1>5, <1>6, <1>7, <1>8, <1>9, <1>10 DEF IInv, BooksInv

\* A request is accepted; its job is queued unless the key has one.
LEMMA QueueJobInv ==
  ASSUME IInv, NEW r \in Requests, QueueJob(r)
  PROVE  BooksInv'
<1> DEFINE k == request[r].key
           q == [step |-> "accepted", key |-> request[r].key, code |-> request[r].code]
           j == [state |-> "waiting", tx |-> r, attempts |-> 0, stalls |-> 0]
<1>1. /\ request[r] \in Request /\ txStatus[r] \in Statuses
      /\ otp \in 0..MaxCodes /\ failures \in 0..MaxFailures
      /\ txStatus = [txStatus EXCEPT ![r] = txStatus[r]]
  BY DEF IInv, BooksInv, TypeOK, Request, Statuses
<1>2. /\ request[r].step = "queue" /\ k \in Keys /\ txStatus[r] = "PENDING"
      /\ sent[r] = 0 /\ crashes \in Nat /\ lostWrites \in Nat
  BY DEF QueueJob, At, IInv, BooksInv, JobInv, RequestInv, TypeOK
<1>3. /\ q \in Request /\ q.step = "accepted" /\ q.key = k
      /\ request' = [request EXCEPT ![r] = q]
  <2>1. q = [request[r] EXCEPT !.step = "accepted"]
    BY <1>1 DEF Request
  <2>2. QED
    BY <1>1, <2>1 DEF QueueJob, Moves, Request, RequestSteps
<1>4. UNCHANGED <<otp, issued, txStatus, worker, funds, sent, up, removed,
                  lostWrites, overlap, failures, crashes>>
  BY DEF QueueJob, chainVars, historyVars, envVars
<1>5. CASE ~TakesNew(k)
  <2>1. UNCHANGED jobs
    BY <1>5 DEF QueueJob
  <2> HIDE DEF k, q, j
  <2>2. Answers(r, q, txStatus[r])
    BY <1>1, <1>2, <1>3, <1>4, <2>1 DEF Answers
  <2>3. QED
    BY <1>1, <1>3, <2>2, RequestStep
<1>6. CASE TakesNew(k)
  <2>1. jobs' = [jobs EXCEPT ![k] = j] /\ jobs[k].state = "none"
    BY <1>6 DEF QueueJob, TakesNew
  <2>2. j \in Job /\ j.state = "waiting" /\ j.tx = r /\ j.attempts = 0 /\ j.stalls = 0
    BY RetryAssumption DEF Job, JobStates
  <2> HIDE DEF k, q, j
  <2>3. /\ jobs' \in [Keys -> Job] /\ jobs'[k] = j
        /\ \A l \in Keys \ {k} : jobs'[l] = jobs[l]
    BY <1>2, <2>1, <2>2, OneJob DEF IInv, BooksInv
  <2>4. /\ request' \in [Requests -> Request] /\ request'[r] = q
        /\ \A t \in Requests \ {r} : request'[t] = request[t]
    BY <1>3 DEF IInv, BooksInv, TypeOK, Request
  <2>5. \A v \in Workers : worker[v].step # "idle" =>
          worker[v].key # k /\ Tx(v)' = Tx(v)
    BY <1>4, <2>1, <2>3, BusyWorker DEF Tx
  <2>6. TypeOK'
    BY <1>4, <2>3, <2>4 DEF IInv, BooksInv, TypeOK, Request
  <2>7. BudgetInv'
    BY <1>4, <2>2, <2>3, RetryAssumption DEF IInv, BooksInv, BudgetInv
  <2>8. JobInv'
    BY <1>2, <1>3, <2>2, <2>3, <2>4 DEF IInv, BooksInv, JobInv
  <2>9. WorkerInv'
    <3>1. \A l \in Keys : jobs'[l].state = "active" <=> jobs[l].state = "active"
      BY <2>1, <2>2, <2>3
    <3>2. QED
      BY <1>4, <3>1 DEF IInv, BooksInv, WorkerInv
  <2>10. RequestInv'
    <3>1. \A t \in Requests :
            /\ request'[t].step \in {"idle", "otp", "consume", "check", "create", "duplicate"}
                 => txStatus[t] = "none"
            /\ request'[t].step = "queue" => txStatus[t] = "PENDING"
            /\ request'[t].step = "accepted" => txStatus[t] # "none"
      BY <1>2, <1>3, <2>4 DEF IInv, BooksInv, RequestInv
    <3>2. ASSUME NEW t \in Requests, sent[t] > 0
          PROVE  /\ request'[t].step = "accepted"
                 /\ request'[t].key \in removed \/ jobs'[request'[t].key].tx = t
      <4>1. t # r /\ request'[t] = request[t]
        BY <1>2, <2>4, <3>2
      <4>2. /\ request[t].step = "accepted" /\ request[t].key \in Keys
            /\ request[t].key \in removed \/ jobs[request[t].key].tx = t
        BY <3>2 DEF IInv, BooksInv, RequestInv, JobInv
      <4>3. jobs[k].tx = 0
        BY <1>2, <2>1 DEF IInv, BooksInv, JobInv
      <4>4. request[t].key \in removed \/ request[t].key # k
        BY <4>2, <4>3
      <4>5. QED
        BY <2>3, <4>1, <4>2, <4>4
    <3>3. QED
      BY <1>4, <3>1, <3>2 DEF RequestInv
  <2>11. SettlingInv'
    <3>1. crashes = 0 => \A l \in Keys : jobs'[l].state \in {"waiting", "delayed", "failed"}
            => txStatus[jobs'[l].tx] # "CONFIRMED"
      <4>1. txStatus[r] # "CONFIRMED"
        BY <1>2
      <4>2. QED
        BY <2>2, <2>3, <4>1 DEF IInv, BooksInv, SettlingInv
    <3>2. \A v \in Workers : worker[v].step # "idle" =>
            txStatus'[Tx(v)'] = txStatus[Tx(v)] /\ sent'[Tx(v)'] = sent[Tx(v)]
      BY <1>4, <2>5
    <3>3. QED
      BY <1>4, <2>5, <3>1, <3>2 DEF IInv, BooksInv, SettlingInv, Backed
  <2>12. SentInv'
    <3>1. \A t \in Requests : Open(t)' => Open(t)
      BY <1>4, <2>5 DEF Open
    <3>2. QED
      BY <1>4, <3>1 DEF IInv, BooksInv, SentInv
  <2>13. StatusHonest'
    BY <1>4, <2>2, <2>3 DEF IInv, BooksInv, StatusHonest, Backed
  <2>14. QED
    BY <2>6, <2>7, <2>8, <2>9, <2>10, <2>11, <2>12, <2>13 DEF IInv, BooksInv
<1>7. QED
  BY <1>5, <1>6

-----------------------------------------------------------------------------
(* The server and the theorems                                             *)

\* Requests and workers are cut off where they are.
LEMMA CrashInv == IInv /\ Crash => BooksInv'
<1> SUFFICES ASSUME IInv, Crash PROVE BooksInv'
  OBVIOUS
<1>1. /\ UNCHANGED <<otp, issued, txStatus, jobs, funds, sent, removed, lostWrites,
                     overlap, failures>>
      /\ crashes' = crashes + 1 /\ crashes' \in 0..MaxCrashes /\ up' = FALSE
      /\ crashes \in Nat /\ lostWrites \in Nat
      /\ crashes' # 0
  BY BoundAssumption DEF Crash, chainVars, historyVars, IInv, BooksInv, TypeOK
<1>2. \A w \in Workers : worker'[w].step = "idle" /\ worker'[w].key = NoKey
  BY DEF Crash, IdleWorker
<1>3. worker' \in [Workers -> Worker]
  BY FundsAssumption DEF Crash, IdleWorker, WorkerSteps
<1>4. /\ request' \in [Requests -> Request]
      /\ \A r \in Requests :
           /\ request'[r].key = request[r].key
           /\ \/ request'[r].step = request[r].step
              \/ request'[r].step = "lost" /\ request[r].step \in InFlight
  <2>1. ASSUME NEW r \in Requests
        PROVE  /\ request'[r] \in Request
               /\ request'[r].key = request[r].key
               /\ \/ request'[r].step = request[r].step
                  \/ request'[r].step = "lost" /\ request[r].step \in InFlight
    <3>1. request[r] \in Request
      BY DEF IInv, BooksInv, TypeOK, Request
    <3>2. request'[r] = IF request[r].step \in InFlight
                        THEN [request[r] EXCEPT !.step = "lost"] ELSE request[r]
      BY DEF Crash
    <3>3. QED
      BY <3>1, <3>2 DEF Request, RequestSteps
  <2>2. request' = [r \in Requests |-> request'[r]]
    BY DEF Crash
  <2>3. QED
    BY <2>1, <2>2
<1>5. TypeOK'
  BY <1>1, <1>3, <1>4 DEF IInv, BooksInv, TypeOK, Request
<1>6. BudgetInv' /\ StatusHonest' /\ WorkerInv' /\ SettlingInv'
  BY <1>1, <1>2 DEF IInv, BooksInv, BudgetInv, StatusHonest, Backed, WorkerInv, SettlingInv
<1>7. JobInv' /\ RequestInv'
  BY <1>1, <1>4 DEF IInv, BooksInv, JobInv, RequestInv, InFlight
<1>8. SentInv'
  <2>1. \A t \in Requests : sent[t] \in Nat /\ sent[t] <= 1 + crashes + lostWrites
    BY DEF IInv, BooksInv, TypeOK, SentInv
  <2>2. QED
    BY <1>1, <2>1 DEF SentInv
<1>9. QED
  BY <1>5, <1>6, <1>7, <1>8 DEF IInv, BooksInv

\* The code is asked for or expires, or the server is back.
LEMMA QuietStep ==
  ASSUME IInv, TypeOK',
         UNCHANGED <<request, txStatus, jobs, worker, sent, removed, lostWrites,
                     overlap, failures, crashes>>
  PROVE  BooksInv'
  BY DEF IInv, BooksInv, BudgetInv, JobInv, WorkerInv, RequestInv, SettlingInv, SentInv,
     StatusHonest, Backed, Open, Tx

\* Every step keeps what IInv says of the books.
LEMMA NextBooks ==
  ASSUME IInv, [Next]_vars
  PROVE  BooksInv'
<1>1. CASE UNCHANGED vars
  BY <1>1, QuietStep DEF IInv, BooksInv, TypeOK, vars
<1>2. CASE RequestOtp \/ OtpExpires \/ Restart
  <2>1. /\ UNCHANGED <<request, txStatus, jobs, worker, funds, sent, removed,
                       lostWrites, overlap, failures, crashes>>
        /\ up' \in BOOLEAN
    BY <1>2 DEF RequestOtp, OtpExpires, Restart, requestVars, chainVars, historyVars,
       envVars, IInv, BooksInv, TypeOK
  <2>2. otp' \in 0..MaxCodes /\ issued' \in 0..MaxCodes
    BY <1>2, BoundAssumption DEF RequestOtp, OtpExpires, Restart, requestVars, IInv, BooksInv, TypeOK
  <2>3. TypeOK'
    BY <2>1, <2>2 DEF IInv, BooksInv, TypeOK
  <2>4. QED
    BY <2>1, <2>3, QuietStep
<1>3. CASE \E r \in Requests : Receive(r) \/ Answering(r) \/ RequestFails(r)
  BY <1>3, AnsweringInv, QueueJobInv DEF Answering
<1>4. CASE \E w \in Workers : Working(w) \/ WorkFails(w)
  BY <1>4, WorkingInv, LeavingInv DEF Working, WorkFails
<1>5. CASE \E k \in Keys : \/ \E w \in Workers : Take(w, k)
                           \/ Backoff(k) \/ Recover(k)
  BY <1>5, QueueInv
<1>6. CASE \E k \in Keys : RemoveCompleted(k)
  BY <1>6, RemoveCompletedInv
<1>7. CASE Crash
  BY <1>7, CrashInv
<1>8. QED
  BY <1>1, <1>2, <1>3, <1>4, <1>5, <1>6, <1>7 DEF Next

\* A step that neither signs nor pays keeps the nonces in order.
LEMMA NoncesStay ==
  ASSUME IInv, overlap' \in BOOLEAN, overlap => overlap',
         \A v \in Workers : worker'[v] = worker[v] \/ worker'[v].step # "send",
         funds' = funds \/ \A v \in Workers : worker'[v].step # "send"
  PROVE  NonceInv'
  BY DEF IInv, NonceInv, Fresh, Used

\* One worker moves to step s, the others stay.
LEMMA OneWorker ==
  ASSUME IInv, NEW w \in Workers, NEW s, NEW m, GoesWith(w, s, m)
  PROVE  /\ worker'[w].step = s /\ worker'[w].nonce = m
         /\ \A v \in Workers \ {w} : worker'[v] = worker[v]
  BY DEF IInv, BooksInv, TypeOK, GoesWith

\* A worker that signs while no other holds a nonce, with a view that is up to date,
\* has the next one; otherwise the overlap is noted.
LEMMA SignsNext ==
  ASSUME IInv, NEW w \in Workers, Verify(w)
  PROVE  NonceInv'
<1>0. overlap \in BOOLEAN /\ funds' = funds
  BY DEF IInv, BooksInv, TypeOK, Verify, chainVars
<1>1. CASE Executable(Tx(w))
  <2>1. PICK n \in 1..(Used + 1) :
          /\ GoesWith(w, "send", n)
          /\ overlap' = (overlap \/ n <= Used \/ \E v \in Workers \ {w} : worker[v].step = "send")
    BY <1>1 DEF Verify
  <2>2. ASSUME ~overlap'
        PROVE  n = Used + 1 /\ \A v \in Workers \ {w} : worker[v].step # "send"
    <3>1. Used \in Nat
      BY FundsAssumption DEF Used, IInv, BooksInv, TypeOK
    <3>2. ~(n <= Used) /\ \A v \in Workers \ {w} : worker[v].step # "send"
      BY <1>0, <2>1, <2>2
    <3>3. QED
      BY <3>1, <3>2
  <2>3. /\ worker'[w].nonce = n
        /\ \A v \in Workers \ {w} : worker'[v] = worker[v]
    BY <2>1, OneWorker
  <2>4. QED
    BY <1>0, <2>2, <2>3 DEF NonceInv, Fresh, Used
<1>2. CASE ~Executable(Tx(w))
  <2>1. GoesWith(w, "fail", 0) /\ overlap' = overlap
    BY <1>2 DEF Verify, Goes
  <2>2. worker'[w].step = "fail" /\ \A v \in Workers \ {w} : worker'[v] = worker[v]
    BY <2>1, OneWorker
  <2>3. QED
    BY <1>0, <2>1, <2>2, NoncesStay
<1>3. QED
  BY <1>1, <1>2

\* A worker that pays was the only one that had signed, or an overlap is noted.
LEMMA PaysNext ==
  ASSUME IInv, NEW w \in Workers, ExecuteWithdrawal(w) \/ TransferTimesOut(w)
  PROVE  NonceInv'
<1>1. /\ worker[w].step = "send" /\ overlap' = overlap
      /\ Goes(w, "confirm") \/ Goes(w, "fail")
  BY DEF ExecuteWithdrawal, TransferTimesOut, Doing, historyVars
<1>2. /\ worker'[w].step # "send"
      /\ \A v \in Workers \ {w} : worker'[v] = worker[v]
  BY <1>1, OneWorker DEF Goes
<1>3. QED
  BY <1>1, <1>2 DEF IInv, NonceInv

\* Every step keeps the nonces in order.
LEMMA NextNonces ==
  ASSUME IInv, [Next]_vars
  PROVE  NonceInv'
<1>0. overlap \in BOOLEAN
  BY DEF IInv, BooksInv, TypeOK
<1>1. CASE UNCHANGED <<worker, funds, overlap>>
  BY <1>0, <1>1, NoncesStay
<1>2. ASSUME NEW w \in Workers, NEW s \in WorkerSteps \ {"send"}, Goes(w, s),
             UNCHANGED <<funds, overlap>>
      PROVE  NonceInv'
  <2>1. worker'[w].step # "send" /\ \A v \in Workers \ {w} : worker'[v] = worker[v]
    BY <1>2, OneWorker DEF Goes
  <2>2. QED
    BY <1>0, <1>2, <2>1, NoncesStay
<1>3. ASSUME NEW w \in Workers,
             \/ TransferRefused(w) \/ OutcomeShared(w) \/ Confirm(w) \/ RecordFailure(w)
             \/ StepFails(w) \/ RecordFailureFails(w)
      PROVE  NonceInv'
  <2>1. /\ UNCHANGED <<funds, overlap>>
        /\ Goes(w, "fail") \/ Goes(w, "confirm") \/ Goes(w, "finish") \/ Goes(w, "throw")
    BY <1>3 DEF TransferRefused, OutcomeShared, Confirm, RecordFailure, StepFails,
       RecordFailureFails, chainVars, historyVars
  <2>2. QED
    BY <1>2, <2>1 DEF WorkerSteps
<1>4. ASSUME NEW w \in Workers, Finish(w) \/ FailAttempt(w) \/ \E k \in Keys : Take(w, k)
      PROVE  NonceInv'
  <2>1. UNCHANGED <<funds, overlap>>
    BY <1>4 DEF Finish, FailAttempt, Take, chainVars, historyVars
  <2>2. /\ worker'[w].step \in {"idle", "verify"}
        /\ \A v \in Workers \ {w} : worker'[v] = worker[v]
    BY <1>4 DEF Finish, FailAttempt, Take, IdleWorker, IInv, BooksInv, TypeOK
  <2>3. QED
    BY <1>0, <2>1, <2>2, NoncesStay
<1>5. CASE Crash
  BY <1>0, <1>5, NoncesStay DEF Crash, IdleWorker, chainVars, historyVars
<1>6. CASE \E w \in Workers : Working(w) \/ WorkFails(w)
  BY <1>3, <1>4, <1>6, SignsNext, PaysNext DEF Working, WorkFails
<1>7. CASE \/ RequestOtp \/ OtpExpires \/ Restart \/ UNCHANGED vars
           \/ \E r \in Requests : Receive(r) \/ Answering(r) \/ RequestFails(r)
           \/ \E k \in Keys : Backoff(k) \/ Recover(k) \/ RemoveCompleted(k)
  <2>1. UNCHANGED <<worker, funds, overlap>>
    BY <1>7 DEF RequestOtp, OtpExpires, Restart, Receive, Answering, RequestFails,
       OtpAccepted, OtpRefused, ConsumeOtp, CheckAvailableBalance, CreateTransaction,
       QueueJob, Backoff, Recover, RemoveCompleted, vars, chainVars, historyVars
  <2>2. QED
    BY <1>1, <2>1
<1>8. QED
  BY <1>4, <1>5, <1>6, <1>7 DEF Next

\* Every step keeps the invariant.
LEMMA NextInv == IInv /\ [Next]_vars => IInv'
  BY NextBooks, NextNonces DEF IInv

\* The inductive invariant holds in every behaviour of processWithdrawal and
\* WithdrawalProcessor, with any number of failing calls and crashes.
THEOREM Invariance == Spec => []IInv
<1>1. Init => IInv
  BY InitInv
<1>2. IInv /\ [Next]_vars => IInv'
  BY NextInv
<1>3. QED
  BY <1>1, <1>2, PTL DEF Spec

\* A withdrawal is transferred once, and once more at most for each crash and
\* each update to FAILED that got lost, however many attempts, timeouts,
\* workers and duplicate requests there are.
THEOREM RepeatsBounded == Spec => []TransfersBounded
<1>1. IInv => TransfersBounded
  BY DEF IInv, BooksInv, SentInv, TransfersBounded
<1>2. QED
  BY <1>1, Invariance, PTL

\* One idempotency key moves the money of one transaction, for any number of
\* requests that race past the duplicate check, while its job is in Redis.
THEOREM OneTransactionPerKey == Spec => []KeyTransfersOnce
<1>1. ASSUME IInv, NEW k \in Keys \ removed
      PROVE  Cardinality({t \in Requests : request[t].key = k /\ sent[t] > 0}) <= 1
  <2> DEFINE T == {t \in Requests : request[t].key = k /\ sent[t] > 0}
  <2>1. T \subseteq {jobs[k].tx}
    BY <1>1 DEF IInv, BooksInv, RequestInv
  <2> SUFFICES Cardinality(T) <= 1
    OBVIOUS
  <2> HIDE DEF T
  <2>2. CASE T = {}
    BY <2>2, FS_EmptySet
  <2>3. CASE T = {jobs[k].tx}
    <3>1. Cardinality({jobs[k].tx}) = 1
      BY FS_Singleton
    <3>2. QED
      BY <2>3, <3>1
  <2>4. QED
    BY <2>1, <2>2, <2>3
<1>2. IInv => KeyTransfersOnce
  BY <1>1 DEF KeyTransfersOnce
<1>3. QED
  BY <1>2, Invariance, PTL

\* What the transaction says happened to the money, happened.
THEOREM LedgerIsHonest == Spec => []StatusHonest
<1>1. IInv => StatusHonest
  BY DEF IInv, BooksInv
<1>2. QED
  BY <1>1, Invariance, PTL

\* A FAILED withdrawal is never revived, and a CONFIRMED one is only touched
\* again when a crash made BullMQ run its job a second time.
THEOREM SettledStaysSettled == Spec => SettledIsFinal
<1> DEFINE Keeps(t) ==
      /\ txStatus[t] = "FAILED" => txStatus'[t] = "FAILED"
      /\ txStatus[t] = "CONFIRMED" /\ crashes = 0 => txStatus'[t] = "CONFIRMED"
<1>1. ASSUME IInv, Next, NEW t \in Requests
      PROVE  Keeps(t)
  <2>1. CASE UNCHANGED txStatus
    BY <2>1
  <2>2. CASE \E r \in Requests : CreateTransaction(r)
    <3>1. PICK r \in Requests : CreateTransaction(r)
      BY <2>2
    <3>2. txStatus[r] = "none"
      BY <1>1, <3>1 DEF CreateTransaction, At, IInv, BooksInv, RequestInv
    <3>3. QED
      BY <1>1, <3>1, <3>2 DEF CreateTransaction, IInv, BooksInv, TypeOK
  <2>3. CASE \E w \in Workers : Confirm(w)
    <3>1. PICK w \in Workers : Confirm(w)
      BY <2>3
    <3>2. txStatus[Tx(w)] = "PENDING"
      BY <1>1, <3>1 DEF Confirm, Doing, IInv, BooksInv, SettlingInv
    <3>3. QED
      BY <1>1, <3>1, <3>2 DEF Confirm, IInv, BooksInv, TypeOK
  <2>4. CASE \E w \in Workers : RecordFailure(w)
    <3>1. PICK w \in Workers : RecordFailure(w)
      BY <2>4
    <3>2. crashes = 0 => txStatus[Tx(w)] # "CONFIRMED"
      BY <1>1, <3>1 DEF RecordFailure, Doing, IInv, BooksInv, SettlingInv
    <3>3. QED
      BY <1>1, <3>1, <3>2 DEF RecordFailure, IInv, BooksInv, TypeOK
  <2>5. QED
    BY <1>1, <2>1, <2>2, <2>3, <2>4
       DEF Next, RequestOtp, OtpExpires, Receive, Answering, OtpAccepted, OtpRefused,
           ConsumeOtp, CheckAvailableBalance, QueueJob, RequestFails, Take, Working,
           Verify, ExecuteWithdrawal, TransferRefused, OutcomeShared, Finish, FailAttempt, WorkFails,
           TransferTimesOut, StepFails, RecordFailureFails, Backoff, Recover,
           RemoveCompleted, Crash, Restart
<1>2. IInv /\ [Next]_vars =>
        [\A t \in Requests :
           /\ txStatus[t] = "FAILED" => txStatus'[t] = "FAILED"
           /\ txStatus[t] = "CONFIRMED" /\ crashes = 0 => txStatus'[t] = "CONFIRMED"]_vars
  BY <1>1
<1>3. QED
  BY <1>2, Invariance, PTL DEF Spec, SettledIsFinal

-----------------------------------------------------------------------------
(* Why every queued job ends                                               *)

\* The attempts and recoveries a job has left.
Spare(k) == MaxAttempts - jobs[k].attempts + MaxStalled - jobs[k].stalls

\* What is left of a job.
LEMMA LeftValues ==
  ASSUME IInv, NEW k \in Keys
  PROVE  /\ ToEnd(k) \in 0..10
         /\ jobs[k].state = "delayed" => ToEnd(k) = 10
         /\ jobs[k].state = "waiting" => ToEnd(k) = 9
         /\ jobs[k].state = "active" =>
              \A w \in Workers : worker[w].key = k => ToEnd(k) = ToRun[worker[w].step]
         /\ jobs[k].state = "active" => ToEnd(k) \in 0..7
         /\ jobs[k].state = "active" /\ (\A w \in Workers : worker[w].key # k)
              => ToEnd(k) = 0
         /\ jobs[k].state \in Live =>
              Spare(k) \in Nat /\ Left(k) = 11 * Spare(k) + ToEnd(k) + 1
         /\ jobs[k].state \notin Live => Left(k) = 0
<1>1. \A w \in Workers : worker[w].key = k => WorkerOf(k) = w /\ WorkerOf(k) \in Workers
  <2> SUFFICES ASSUME NEW w \in Workers, worker[w].key = k
               PROVE  WorkerOf(k) = w
    OBVIOUS
  <2>1. WorkerOf(k) \in Workers /\ worker[WorkerOf(k)].key = k
    BY DEF WorkerOf
  <2>2. worker[w].step # "idle"
    BY KeyAssumption DEF IInv, BooksInv, WorkerInv
  <2>3. QED
    BY <2>1, <2>2 DEF IInv, BooksInv, WorkerInv
<1>2. \A w \in Workers : ToRun[worker[w].step] \in 0..7
  <2> SUFFICES ASSUME NEW w \in Workers PROVE ToRun[worker[w].step] \in 0..7
    OBVIOUS
  <2>1. worker[w].step \in WorkerSteps
    BY DEF IInv, BooksInv, TypeOK
  <2>2. QED
    BY <2>1 DEF ToRun, WorkerSteps
<1>3. /\ jobs[k].state = "delayed" => ToEnd(k) = 10
      /\ jobs[k].state = "waiting" => ToEnd(k) = 9
      /\ jobs[k].state \notin {"delayed", "waiting"} =>
           ToEnd(k) = IF \E w \in Workers : worker[w].key = k
                      THEN ToRun[worker[WorkerOf(k)].step] ELSE 0
  BY DEF ToEnd
<1>4. jobs[k].state \notin {"delayed", "waiting"} =>
        \/ ToEnd(k) = 0 /\ \A w \in Workers : worker[w].key # k
        \/ \E w \in Workers : worker[w].key = k /\ ToEnd(k) = ToRun[worker[w].step]
  BY <1>1, <1>3
<1>5. jobs[k].state \notin {"delayed", "waiting"} => ToEnd(k) \in 0..7
  BY <1>2, <1>4
<1>6. ToEnd(k) \in 0..10
  BY <1>3, <1>5
<1>7. jobs[k].state \in Live => Spare(k) \in Nat
  <2>1. jobs[k].attempts \in Nat /\ jobs[k].stalls \in Nat
    BY JobTypes DEF IInv, BooksInv
  <2>2. jobs[k].state \in Live => jobs[k].attempts < MaxAttempts /\ jobs[k].stalls <= MaxStalled
    BY DEF IInv, BooksInv, BudgetInv
  <2>3. QED
    BY <2>1, <2>2, RetryAssumption DEF Spare
<1>8. jobs[k].state = "active" =>
        /\ \A w \in Workers : worker[w].key = k => ToEnd(k) = ToRun[worker[w].step]
        /\ (\A w \in Workers : worker[w].key # k) => ToEnd(k) = 0
  BY <1>1, <1>3
<1>9. /\ jobs[k].state \in Live => Left(k) = 11 * Spare(k) + ToEnd(k) + 1
      /\ jobs[k].state \notin Live => Left(k) = 0
  BY DEF Left, Spare
<1>10. QED
  BY <1>3, <1>5, <1>6, <1>7, <1>8, <1>9

\* The values of every key at once, so that they can be taken after a step.
Measured ==
  \A k \in Keys :
    /\ ToEnd(k) \in 0..10
    /\ jobs[k].state = "active" =>
         \A w \in Workers : worker[w].key = k => ToEnd(k) = ToRun[worker[w].step]
    /\ jobs[k].state = "active" => ToEnd(k) \in 0..7
    /\ jobs[k].state = "active" /\ (\A w \in Workers : worker[w].key # k)
         => ToEnd(k) = 0
    /\ jobs[k].state \in Live =>
         Spare(k) \in Nat /\ Left(k) = 11 * Spare(k) + ToEnd(k) + 1
    /\ jobs[k].state \notin Live => Left(k) = 0

LEMMA MeasuredNow == IInv => Measured
  BY LeftValues DEF Measured

\* And after a step.
LEMMA MeasuredNext == IInv' => Measured'
  BY MeasuredNow, PTL

\* A job that ends, has spent an attempt or a recovery, or is further.
Shortens(k) ==
  \/ jobs'[k].state \notin Live
  \/ Spare(k)' < Spare(k)
  \/ Spare(k)' = Spare(k) /\ ToEnd(k)' < ToEnd(k)

\* A job that is left alone, and its worker with it.
Stays(k) ==
  /\ jobs'[k] = jobs[k]
  /\ \A w \in Workers : worker[w].key = k \/ worker'[w].key = k => worker'[w] = worker[w]

\* A job that shortens has less left.
LEMMA ShorterLeft ==
  ASSUME IInv, IInv', NEW k \in Keys, jobs[k].state \in Live, Shortens(k)
  PROVE  Left(k)' < Left(k)
<1>1. /\ Spare(k) \in Nat /\ ToEnd(k) \in 0..10
      /\ Left(k) = 11 * Spare(k) + ToEnd(k) + 1
  BY LeftValues
<1>2. /\ ToEnd(k)' \in 0..10
      /\ jobs'[k].state \in Live =>
           Spare(k)' \in Nat /\ Left(k)' = 11 * Spare(k)' + ToEnd(k)' + 1
      /\ jobs'[k].state \notin Live => Left(k)' = 0
  BY MeasuredNext DEF Measured, Live
<1>3. QED
  BY <1>1, <1>2 DEF Shortens

\* What a worker does at one step of its job takes the job on.
LEMMA WorkShortens ==
  ASSUME IInv, IInv', NEW w \in Workers, NEW k \in Keys, jobs[k].state \in Live,
         NEW step \in WorkerSteps, NEW m, worker[w].step # "idle", GoesWith(w, step, m),
         ToRun[step] < ToRun[worker[w].step], UNCHANGED jobs
  PROVE  Shortens(k) \/ Stays(k)
<1>1. /\ worker' \in [Workers -> Worker]
      /\ worker \in [Workers -> Worker]
  BY DEF IInv, BooksInv, TypeOK
<1>2. /\ worker'[w].key = worker[w].key /\ worker'[w].step = step
      /\ \A v \in Workers \ {w} : worker'[v] = worker[v]
  BY <1>1 DEF GoesWith
<1>3. CASE worker[w].key = k
  <2>1. jobs[k].state = "active" /\ jobs'[k] = jobs[k]
    BY <1>3, BusyWorker
  <2>2. ToEnd(k) = ToRun[worker[w].step]
    BY <1>3, <2>1, LeftValues
  <2>3. ToEnd(k)' = ToRun[step]
    BY <1>2, <1>3, <2>1, MeasuredNext DEF Measured
  <2>4. Spare(k)' = Spare(k)
    BY <2>1 DEF Spare
  <2>5. QED
    BY <2>2, <2>3, <2>4 DEF Shortens
<1>4. CASE worker[w].key # k
  BY <1>2, <1>4 DEF Stays
<1>5. QED
  BY <1>3, <1>4

\* A worker that leaves its job: only the job of its key changes.
LEMMA LeavingShortens ==
  ASSUME IInv, NEW w \in Workers, NEW k \in Keys, jobs[k].state \in Live,
         Finish(w) \/ FailAttempt(w)
  PROVE  Shortens(k) \/ Stays(k)
<1>1. worker[w].step # "idle" /\ worker' = [worker EXCEPT ![w] = IdleWorker]
  BY DEF Finish, FailAttempt, Doing
<1>2. worker[w].key \in Keys /\ jobs[worker[w].key].state = "active"
  BY <1>1, BusyWorker
<1>3. jobs \in [Keys -> Job] /\ worker \in [Workers -> Worker]
  BY DEF IInv, BooksInv, TypeOK
<1>4. CASE worker[w].key # k
  <2>1. jobs'[k] = jobs[k]
    BY <1>2, <1>3, <1>4 DEF Finish, FailAttempt
  <2>2. worker'[w].key # k
    BY <1>1, <1>3, KeyAssumption DEF IdleWorker
  <2>3. \A v \in Workers \ {w} : worker'[v] = worker[v]
    BY <1>1, <1>3
  <2>4. QED
    BY <1>4, <2>1, <2>2, <2>3 DEF Stays
<1>5. CASE worker[w].key = k /\ Finish(w)
  <2>1. jobs' = [jobs EXCEPT ![k].state = "completed"] /\ jobs[k] \in Job
    BY <1>2, <1>3, <1>5 DEF Finish
  <2>2. jobs'[k].state = "completed"
    BY <1>3, <2>1 DEF Job
  <2>3. QED
    BY <2>2 DEF Shortens, Live
<1>6. CASE worker[w].key = k /\ FailAttempt(w)
  <2>1. jobs'[k].attempts = jobs[k].attempts + 1 /\ jobs'[k].stalls = jobs[k].stalls
    BY <1>3, <1>6 DEF FailAttempt
  <2>2. jobs[k].attempts \in Nat /\ jobs[k].stalls \in Nat
    BY JobTypes DEF IInv, BooksInv
  <2>3. Spare(k)' < Spare(k)
    BY <2>1, <2>2, RetryAssumption DEF Spare
  <2>4. QED
    BY <2>3 DEF Shortens
<1>7. QED
  BY <1>4, <1>5, <1>6

\* The queue takes the job on, or is busy with another one.
LEMMA QueueShortens ==
  ASSUME IInv, IInv', NEW k \in Keys, jobs[k].state \in Live,
         NEW l \in Keys, \/ \E w \in Workers : Take(w, l)
                         \/ Backoff(l) \/ Recover(l) \/ RemoveCompleted(l)
  PROVE  Shortens(k) \/ Stays(k)
<1>1. /\ jobs \in [Keys -> Job]
      /\ worker \in [Workers -> Worker]
  BY DEF IInv, BooksInv, TypeOK
<1>2. /\ jobs[k].attempts \in Nat /\ jobs[k].stalls \in Nat /\ jobs[k] \in Job
      /\ jobs[l] \in Job
  BY JobTypes DEF IInv, BooksInv
<1>3. CASE \E w \in Workers : Take(w, l)
  <2>1. PICK w \in Workers : Take(w, l)
    BY <1>3
  <2>2. /\ worker[w].step = "idle" /\ jobs[l].state = "waiting"
        /\ jobs' = [jobs EXCEPT ![l].state = "active"]
        /\ worker' = [worker EXCEPT ![w] = [step |-> "verify", key |-> l, nonce |-> 0]]
    BY <2>1 DEF Take, Doing
  <2>3. worker[w].key = NoKey
    BY <2>2 DEF IInv, BooksInv, WorkerInv
  <2>4. worker'[w].key = l /\ \A v \in Workers \ {w} : worker'[v] = worker[v]
    BY <1>1, <2>2
  <2>5. CASE k = l
    <3>1. /\ jobs'[k].state = "active" /\ jobs'[k].attempts = jobs[k].attempts
          /\ jobs'[k].stalls = jobs[k].stalls
      BY <1>1, <1>2, <2>2, <2>5 DEF Job
    <3>2. ToEnd(k) = 9
      BY <2>2, <2>5, LeftValues
    <3>3. ToEnd(k)' \in 0..7
      BY <3>1, MeasuredNext DEF Measured
    <3>4. QED
      BY <3>1, <3>2, <3>3 DEF Shortens, Spare
  <2>6. CASE k # l
    <3>1. jobs'[k] = jobs[k]
      BY <1>1, <2>2, <2>6
    <3>2. worker[w].key # k
      BY <2>3, KeyAssumption
    <3>3. QED
      BY <2>4, <2>6, <3>1, <3>2 DEF Stays
  <2>7. QED
    BY <2>5, <2>6
<1>4. CASE k # l /\ (Backoff(l) \/ Recover(l) \/ RemoveCompleted(l))
  BY <1>1, <1>4 DEF Backoff, Recover, RemoveCompleted, Stays
<1>5. CASE k = l /\ Backoff(k)
  <2>1. jobs[k].state = "delayed" /\ jobs' = [jobs EXCEPT ![k].state = "waiting"]
    BY <1>5 DEF Backoff
  <2>2. /\ jobs'[k].state = "waiting" /\ jobs'[k].attempts = jobs[k].attempts
        /\ jobs'[k].stalls = jobs[k].stalls
    BY <1>1, <1>2, <2>1 DEF Job
  <2>3. ToEnd(k) = 10 /\ ToEnd(k)' = 9
    BY <2>1, <2>2 DEF ToEnd
  <2>4. QED
    BY <2>2, <2>3 DEF Shortens, Spare
<1>6. CASE k = l /\ Recover(k)
  <2>1. jobs'[k].attempts = jobs[k].attempts /\ jobs'[k].stalls = jobs[k].stalls + 1
    BY <1>1, <1>6 DEF Recover
  <2>2. Spare(k)' < Spare(k)
    BY <1>2, <2>1, RetryAssumption DEF Spare
  <2>3. QED
    BY <2>2 DEF Shortens
<1>7. CASE k = l /\ RemoveCompleted(k)
  BY <1>7 DEF RemoveCompleted, Live
<1>8. QED
  BY <1>3, <1>4, <1>5, <1>6, <1>7

\* A crash takes the workers' steps; the jobs keep their place.
LEMMA CrashShortens ==
  ASSUME IInv, IInv', Crash, NEW k \in Keys, jobs[k].state \in Live
  PROVE  Shortens(k) \/ Stays(k)
<1>1. jobs' = jobs /\ \A w \in Workers : worker'[w].key = NoKey
  BY DEF Crash, IdleWorker
<1>2. CASE \E w \in Workers : worker[w].key = k
  <2>1. PICK w \in Workers : worker[w].key = k
    BY <1>2
  <2>2. worker[w].step # "idle"
    BY <2>1, KeyAssumption DEF IInv, BooksInv, WorkerInv
  <2>3. jobs[k].state = "active"
    BY <2>1, <2>2, BusyWorker
  <2>4. ToEnd(k) = ToRun[worker[w].step]
    BY <2>1, <2>3, LeftValues
  <2>5. ToRun[worker[w].step] > 0
    <3>1. worker[w].step \in WorkerSteps \ {"idle"}
      BY <2>2 DEF IInv, BooksInv, TypeOK
    <3>2. QED
      BY <3>1 DEF ToRun, WorkerSteps
  <2>6. ToEnd(k)' = 0
    BY <1>1, <2>3, KeyAssumption, MeasuredNext DEF Measured
  <2>7. QED
    BY <1>1, <2>4, <2>5, <2>6 DEF Shortens, Spare
<1>3. CASE \A w \in Workers : worker[w].key # k
  BY <1>1, <1>3, KeyAssumption DEF Stays
<1>4. QED
  BY <1>2, <1>3

\* Every step leaves each job that has not ended alone, or with less to do.
LEMMA StepShortens ==
  ASSUME IInv, IInv', Next, NEW k \in Keys, jobs[k].state \in Live
  PROVE  Shortens(k) \/ Stays(k)
<1>1. CASE UNCHANGED <<jobs, worker>>
  BY <1>1 DEF Stays
<1>2. CASE \E r \in Requests : QueueJob(r)
  <2>1. PICK r \in Requests : QueueJob(r)
    BY <1>2
  <2>2. jobs'[k] = jobs[k] /\ worker' = worker
    BY <2>1 DEF QueueJob, TakesNew, Live, IInv, BooksInv, TypeOK
  <2>3. QED
    BY <2>2 DEF Stays
<1>3. ASSUME NEW w \in Workers,
             \/ Verify(w) \/ ExecuteWithdrawal(w) \/ TransferRefused(w) \/ OutcomeShared(w)
             \/ Confirm(w) \/ RecordFailure(w) \/ WorkFails(w)
      PROVE  Shortens(k) \/ Stays(k)
  <2>1. /\ worker[w].step # "idle" /\ UNCHANGED jobs
        /\ \E step \in WorkerSteps, m \in 0..(Funds + 1) :
             GoesWith(w, step, m) /\ ToRun[step] < ToRun[worker[w].step]
    <3> USE DEF Goes
    <3>0. 0 \in 0..(Funds + 1) /\ 1..(Used + 1) \subseteq 0..(Funds + 1)
      BY FundsAssumption DEF Used, IInv, BooksInv, TypeOK
    <3>1. CASE Verify(w)
      BY <3>0, <3>1 DEF Verify, Doing, WorkerSteps, ToRun
    <3>2. CASE \/ ExecuteWithdrawal(w) \/ TransferRefused(w) \/ OutcomeShared(w)
               \/ TransferTimesOut(w)
      BY <3>0, <3>2 DEF ExecuteWithdrawal, TransferRefused, OutcomeShared, TransferTimesOut,
         Doing, WorkerSteps, ToRun
    <3>3. CASE Confirm(w)
      BY <3>0, <3>3 DEF Confirm, Doing, WorkerSteps, ToRun
    <3>4. CASE RecordFailure(w) \/ RecordFailureFails(w)
      BY <3>0, <3>4 DEF RecordFailure, RecordFailureFails, Doing, WorkerSteps, ToRun
    <3>5. CASE StepFails(w)
      BY <3>0, <3>5 DEF StepFails, WorkerSteps, ToRun
    <3>6. QED
      BY <1>3, <3>1, <3>2, <3>3, <3>4, <3>5 DEF WorkFails
  <2>2. QED
    BY <2>1, WorkShortens
<1>4. CASE \E w \in Workers : Working(w) \/ WorkFails(w)
  BY <1>3, <1>4, LeavingShortens DEF Working
<1>5. CASE \/ RequestOtp \/ OtpExpires \/ Restart
           \/ \E r \in Requests : Receive(r) \/ Answering(r) \/ RequestFails(r)
  <2>1. ASSUME NEW r \in Requests, Receive(r) \/ Answering(r) \/ RequestFails(r)
        PROVE  UNCHANGED <<jobs, worker>> \/ QueueJob(r)
    BY <2>1 DEF Receive, Answering, RequestFails, OtpAccepted, OtpRefused, ConsumeOtp,
       CheckAvailableBalance, CreateTransaction
  <2>2. QED
    BY <1>1, <1>2, <1>5, <2>1 DEF RequestOtp, OtpExpires, Restart
<1>6. QED
  BY <1>4, <1>5, QueueShortens, CrashShortens DEF Next

\* WithdrawalProcessor and its queue never start a job anew: whatever happens to one
\* that has not ended spends an attempt or a recovery, or takes it further.
THEOREM Descent == Spec => StepsRunOut
<1>1. ASSUME IInv, IInv', Next, NEW k \in Keys, jobs[k].state \in Live
      PROVE  Left(k)' < Left(k) \/ Stays(k)
  BY <1>1, StepShortens, ShorterLeft
<1>2. IInv /\ IInv' /\ [Next]_vars =>
        [\A k \in Keys : jobs[k].state \in Live =>
           \/ Left(k)' < Left(k)
           \/ /\ jobs'[k] = jobs[k]
              /\ \A w \in Workers :
                   worker[w].key = k \/ worker'[w].key = k => worker'[w] = worker[w]]_vars
  BY <1>1 DEF Stays
<1>3. QED
  BY <1>2, Invariance, PTL DEF Spec, StepsRunOut
==============================================================================
