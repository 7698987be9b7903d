------------------------------ MODULE Signers ------------------------------
(***************************************************************************)
(* The transactions that the chain services sign with one key: the master  *)
(* wallet on Base, the wallet of a user on Base, or an account on NEAR.    *)
(* Every request and every job reads a nonce from the chain, signs, sends  *)
(* and waits on its own; they share the key and no lock.                   *)
(*                                                                         *)
(* On Base a transaction waits in the pool until its nonce is next.  On    *)
(* NEAR it is executed when it is sent, and the services read the nonce    *)
(* from the final view, which follows behind.                              *)
(***************************************************************************)
EXTENDS Integers, FiniteSets, Sequences

CONSTANTS
  Handlers,     \* requests and jobs that use the key at the same time
  MaxTasks,     \* bound: operations in a behaviour
  MaxAccounts,  \* bound: accounts asked for in a behaviour
  MaxFailures   \* bound: failing calls and transactions in a behaviour

ASSUME HandlersAssumption == IsFiniteSet(Handlers)
ASSUME BoundAssumption ==
  MaxTasks \in Nat /\ MaxAccounts \in Nat /\ MaxFailures \in Nat

VARIABLES
  signer,      \* whose key it is
  used,        \* nonces used on the chain
  final,       \* NEAR: nonces used in the final view
  pool,        \* Base: transactions that are not mined
  ledger,      \* transactions executed
  reverted,    \* those that failed when they were: a used nonce and nothing else
  registered,  \* NEAR: accounts and the tokens they are registered with
  operation,   \* the operations so far and what became of each
  handler,     \* what each handler runs and where it is
  races,       \* history: what overtook what first
  failures     \* budget spent

chainVars == <<used, final, pool, ledger, reverted, registered>>
vars == <<signer, used, final, pool, ledger, reverted, registered, operation,
          handler, races, failures>>

Tasks == 1..MaxTasks
Tokens == {"usdt", "usdc"}
KindNames ==
  {"none", "call", "start", "contribute", "unread", "create", "register"}

\* The transactions of an operation.  "call" is any operation with one; "unread" is
\* one of NEAR that answers without reading the status of the transaction's outcome.
Transactions(kind) ==
  CASE kind \in {"call", "unread"} -> <<"pay">>
    [] kind = "start" -> <<"order", "start">>
    [] kind = "contribute" -> <<"approve", "pay">>
    [] kind = "create" -> <<"account", "usdt", "usdc">>
    [] kind = "register" -> <<"usdt">>
    [] kind = "none" -> <<>>

\* addMember, releasePayout, deploy and fund on the master's side of Base;
\* contributions and transfers on a user's.  On NEAR the master signs for accounts,
\* token registrations and, unread, circle accounts (deployCircleContract), and a
\* user for withdrawals and, unread, contributions (executeContribution).
Kinds(s) == CASE s = "master" -> {"call", "start"}
              [] s = "user" -> {"call", "contribute"}
              [] s = "nearMaster" -> {"unread", "create", "register"}
              [] s = "nearUser" -> {"call", "unread"}

\* The transaction that decides whether the operation succeeded.
Decisive(kind) == IF kind = "create" THEN 1 ELSE Len(Transactions(kind))

KeyOwners == {"master", "user", "nearMaster", "nearUser"}
OnBase == signer \in {"master", "user"}

Tx == [task: Tasks, kind: KindNames, at: 1..3]
State == [task: 0..MaxTasks, account: 0..MaxTasks, kind: KindNames, at: 0..3,
          nonce: Nat, step: {"idle", "check", "nonce", "send", "wait", "delay"}]
Operation == [kind: KindNames, status: {"none", "running", "done", "failed"}]

Sent(h) == [task |-> handler[h].task, kind |-> handler[h].kind, at |-> handler[h].at]
Free == used + Cardinality(pool)  \* the pending nonce
Pending(t) == \E p \in pool : p.tx = t
Executed(t) == \E i \in 1..Len(ledger) : ledger[i] = t
Effective(t) == Executed(t) /\ t \notin reverted
Alive(t) == Effective(t) \/ Pending(t)  \* it has an effect, or may still have one

TypeOK ==
  /\ signer \in KeyOwners
  /\ used \in Nat /\ final \in Nat
  /\ pool \subseteq [nonce: Nat, tx: Tx] /\ IsFiniteSet(pool)
  /\ ledger \in Seq(Tx) /\ reverted \subseteq Tx /\ IsFiniteSet(reverted)
  /\ registered \subseteq Tasks \X Tokens
  /\ operation \in [Tasks -> Operation] /\ handler \in [Handlers -> State]
  /\ races \subseteq {"overlap", "latest", "stale"}
  /\ failures \in 0..MaxFailures

Idle == [task |-> 0, account |-> 0, kind |-> "none", at |-> 0, nonce |-> 0,
         step |-> "idle"]

Init ==
  /\ signer \in KeyOwners
  /\ used = 0 /\ final = 0 /\ pool = {} /\ ledger = <<>>
  /\ reverted = {} /\ registered = {}
  /\ operation = [t \in Tasks |-> [kind |-> "none", status |-> "none"]]
  /\ handler = [h \in Handlers |-> Idle]
  /\ races = {} /\ failures = 0

At(h, step) == handler[h].step = step
Moves(h, step) == handler' = [handler EXCEPT ![h].step = step]
Records(happened) == races' = IF races = {} THEN happened ELSE races

\* The operation succeeds or fails.  createSubAccount answers before the tokens
\* are registered.
Succeeds(h) == operation' = [operation EXCEPT ![handler[h].task].status = "done"]
Fails(h) ==
  /\ operation' = [operation EXCEPT ![handler[h].task].status = "failed"]
  /\ handler' = [handler EXCEPT ![h] = Idle]

\* A transaction is through: the next one follows, or the operation succeeds.
Through(h, next) ==
  IF handler[h].at = Len(Transactions(handler[h].kind))
  THEN /\ handler' = [handler EXCEPT ![h] = Idle]
       /\ Succeeds(h)
  ELSE /\ handler' = [handler EXCEPT ![h].at = @ + 1, ![h].step = next]
       /\ IF handler[h].at = Decisive(handler[h].kind) THEN Succeeds(h)
          ELSE UNCHANGED operation

MayFail == failures + Cardinality(reverted) < MaxFailures

\* A transaction that is executed may revert on Base, or have the status Failure on
\* NEAR.
MayRevert(t) ==
  \/ UNCHANGED reverted
  \/ MayFail /\ reverted' = reverted \cup {t}

\* Handlers that hold a nonce they have not sent a transaction with.
Approving(h) == handler[h].kind = "contribute" /\ handler[h].at = 1 /\ At(h, "wait")
Holds(h) == At(h, "send") \/ Approving(h)
Holding(h) == \E g \in Handlers \ {h} : Holds(g)

-----------------------------------------------------------------------------

\* Handler h begins the next operation.  Handlers that are idle are all alike, so one
\* of them is enough.
Begins(h, kind, account, step) ==
  /\ At(h, "idle") /\ h = (CHOOSE g \in Handlers : At(g, "idle"))
  /\ kind \in Kinds(signer)
  /\ \E t \in Tasks :
       /\ operation[t].status = "none"
       /\ t > 1 => operation[t - 1].status # "none"
       /\ operation' = [operation EXCEPT ![t] = [kind |-> kind, status |-> "running"]]
       /\ handler' = [handler EXCEPT ![h] =
            [task |-> t, account |-> IF account = 0 THEN t ELSE account,
             kind |-> kind, at |-> 1, nonce |-> 0, step |-> step]]
  /\ UNCHANGED <<signer, chainVars, races, failures>>

Start(h, kind) ==
  /\ kind # "register"
  /\ kind = "create" =>
       Cardinality({t \in Tasks : operation[t].kind = "create"}) < MaxAccounts
  /\ Begins(h, kind, 0, "nonce")

\* ensureTokenRegistration of an account made before.
StartRegistration(h, account) ==
  /\ operation[account] = [kind |-> "create", status |-> "done"]
  /\ Begins(h, "register", account, "check")

-----------------------------------------------------------------------------
(* BaseAccountService                                                      *)

\* Slip: the second transaction goes on with the nonce of the first.
NonceOnce(h) == IF handler[h].at > 1 THEN handler[h].nonce
                ELSE Free

\* The pending nonce counts the transactions of the pool; the approval of a
\* contribution takes the latest one, which does not.
NonceFor(h) == IF handler[h].kind = "contribute" THEN used ELSE Free

ReadNonce(h) ==
  /\ OnBase /\ At(h, "nonce")
  /\ handler' = [handler EXCEPT ![h].step = "send", ![h].nonce = NonceFor(h)]
  /\ Records({r \in {"overlap", "latest"} :
                IF r = "overlap" THEN Holding(h)
                ELSE handler[h].kind = "contribute" /\ pool # {}})
  /\ UNCHANGED <<signer, chainVars, operation, failures>>

\* A nonce that is used or taken is refused, unless the transaction that has it
\* is replaced because the new one offers a higher fee.
Send(h) ==
  LET n == handler[h].nonce
      tx == [nonce |-> n, tx |-> Sent(h)]
      taken == {p \in pool : p.nonce = n}
  IN /\ OnBase /\ At(h, "send")
     /\ \/ /\ n >= used
           /\ pool' = (pool \ taken) \cup {tx}
           /\ Moves(h, "wait")
           /\ UNCHANGED operation
        \/ /\ n < used \/ taken # {}
           /\ Fails(h)
           /\ UNCHANGED pool
     /\ UNCHANGED <<signer, used, final, ledger, reverted, registered, races, failures>>

Mine ==
  /\ \E p \in pool : /\ p.nonce = used
                     /\ pool' = pool \ {p}
                     /\ ledger' = Append(ledger, p.tx)
                     /\ MayRevert(p.tx)
  /\ used' = used + 1 /\ final' = used + 1
  /\ UNCHANGED <<signer, registered, operation, handler, races, failures>>

\* Slip: the contribution leaves a nonce free after the approval.
NonceAfterNext(h) ==
  /\ OnBase /\ At(h, "wait") /\ ~Pending(Sent(h))
  /\ IF handler[h].kind = "contribute" /\ handler[h].at = 1
     THEN /\ handler' = [handler EXCEPT ![h].at = 2, ![h].step = "send",
                                        ![h].nonce = @ + 2]
          /\ UNCHANGED operation
     ELSE Through(h, "nonce")
  /\ UNCHANGED <<signer, chainVars, races, failures>>

\* wait of the transaction: it is mined, and throws when it reverted or another one
\* has its nonce.  After the approval the contribution takes the next nonce unasked.
Wait(h) ==
  /\ OnBase /\ At(h, "wait") /\ ~Pending(Sent(h))
  /\ IF ~Effective(Sent(h)) THEN Fails(h)
     ELSE IF handler[h].kind = "contribute" /\ handler[h].at = 1
     THEN /\ handler' = [handler EXCEPT ![h].at = 2, ![h].step = "send",
                                        ![h].nonce = @ + 1]
          /\ UNCHANGED operation
     ELSE Through(h, "nonce")
  /\ UNCHANGED <<signer, chainVars, races, failures>>

-----------------------------------------------------------------------------
(* NearAccountService                                                      *)

TokenOf(h) == Transactions(handler[h].kind)[handler[h].at]
Registers(h) == TokenOf(h) \in Tokens

\* What follows a transaction: the token registrations of a new account are tried
\* one after the other, with a delay, whatever becomes of them.
InBackground(h) == handler[h].kind = "create" /\ handler[h].at > 1
Continues(h) ==
  IF InBackground(h)
  THEN /\ handler' = [handler EXCEPT ![h] = IF @.at = 3 THEN Idle
                                          ELSE [@ EXCEPT !.step = "delay"]]
       /\ UNCHANGED operation
  ELSE Through(h, "check")
Breaks(h) ==
  IF InBackground(h)
  THEN /\ handler' = [handler EXCEPT ![h] = IF @.at = 3 THEN Idle
                                          ELSE [@ EXCEPT !.step = "delay"]]
       /\ UNCHANGED operation
  ELSE Fails(h)

\* isAccountRegisteredWithToken
Check(h) ==
  /\ At(h, "check")
  /\ IF <<handler[h].account, TokenOf(h)>> \notin registered
     THEN Moves(h, "nonce") /\ UNCHANGED operation
     ELSE IF handler[h].kind = "create" /\ handler[h].at = 2
     THEN handler' = [handler EXCEPT ![h].at = 3] /\ UNCHANGED operation
     ELSE handler' = [handler EXCEPT ![h] = Idle] /\ Succeeds(h)
  /\ UNCHANGED <<signer, chainVars, races, failures>>

\* view_access_key with finality "final": behind when a transaction was sent
\* since.  After the delay the service's own last one is in the final view.
ReadAccessKey(h) ==
  /\ ~OnBase /\ At(h, "nonce")
  /\ handler' = [handler EXCEPT ![h].step = "send", ![h].nonce = final + 1]
  /\ Records({r \in {"overlap", "stale"} :
                IF r = "overlap" THEN Holding(h)
                ELSE /\ final < used
                     /\ ~(handler[h].at = 3 /\ used = handler[h].nonce)})
  /\ UNCHANGED <<signer, chainVars, operation, failures>>

Execute(h) ==
  /\ used' = handler[h].nonce
  /\ ledger' = Append(ledger, Sent(h))
  /\ MayRevert(Sent(h))
  /\ registered' = IF Registers(h) /\ Sent(h) \notin reverted'
                   THEN registered \cup {<<handler[h].account, TokenOf(h)>>}
                   ELSE registered

\* Slip: no operation reads the status.
StatusUnread(h) ==
  /\ ~OnBase /\ At(h, "send")
  /\ IF handler[h].nonce > used
     THEN Execute(h) /\ Continues(h)
     ELSE Breaks(h) /\ UNCHANGED <<used, ledger, reverted, registered>>
  /\ UNCHANGED <<signer, final, pool, races, failures>>

\* sendTransaction throws InvalidNonce, or answers when the transaction is executed;
\* whether it took effect is in the status of the answer.
SendTransaction(h) ==
  /\ ~OnBase /\ At(h, "send")
  /\ IF handler[h].nonce > used
     THEN /\ Execute(h)
          /\ IF Sent(h) \in reverted' /\ handler[h].kind # "unread"
             THEN Breaks(h) ELSE Continues(h)
     ELSE Breaks(h) /\ UNCHANGED <<used, ledger, reverted, registered>>
  /\ UNCHANGED <<signer, final, pool, races, failures>>

\* Blocks become final.
Settle ==
  /\ final < used
  /\ final' = final + 1
  /\ UNCHANGED <<signer, used, pool, ledger, reverted, registered, operation,
                 handler, races, failures>>

\* 1500 ms, meant to outlast the finality of the transaction just sent.  It ends as
\* well when that one was refused or not sent, and there is nothing to wait for.
DelayOver(h) ==
  /\ At(h, "delay")
  /\ Executed(Sent(h)) => final >= handler[h].nonce
  /\ handler' = [handler EXCEPT ![h].at = 3, ![h].step = "check"]
  /\ UNCHANGED <<signer, chainVars, operation, races, failures>>

-----------------------------------------------------------------------------

\* A call to the chain fails; a transaction may have been taken nevertheless.
StepFails(h) ==
  /\ MayFail
  /\ failures' = failures + 1
  /\ \/ /\ ~At(h, "idle") /\ ~At(h, "delay")
        /\ UNCHANGED <<used, pool, ledger, reverted, registered>>
     \/ /\ OnBase /\ At(h, "send") /\ handler[h].nonce >= used
        /\ \A p \in pool : p.nonce # handler[h].nonce
        /\ pool' = pool \cup {[nonce |-> handler[h].nonce, tx |-> Sent(h)]}
        /\ UNCHANGED <<used, ledger, reverted, registered>>
     \/ /\ ~OnBase /\ At(h, "send") /\ handler[h].nonce > used
        /\ Execute(h)
        /\ UNCHANGED pool
  /\ Breaks(h)
  /\ UNCHANGED <<signer, final, races>>

Serve(h) == \/ ReadNonce(h) \/ Send(h) \/ Wait(h) \/ Check(h) \/ ReadAccessKey(h)
            \/ SendTransaction(h) \/ DelayOver(h)

Next == \/ \E h \in Handlers : \/ \E k \in {"call", "start", "contribute", "unread", "create"} :
                                   Start(h, k)
                              \/ \E a \in Tasks : StartRegistration(h, a)
                              \/ Serve(h) \/ StepFails(h)
        \/ Mine \/ Settle

Spec == Init /\ [][Next]_vars

\* Started operations go on, transactions that are next are mined, and blocks
\* become final.
Fairness == /\ \A h \in Handlers : WF_vars(Serve(h))
            /\ WF_vars(Mine) /\ WF_vars(Settle)
FairSpec == Spec /\ Fairness

-----------------------------------------------------------------------------

Quiet == \A h \in Handlers : At(h, "idle")
Part(t, k) == [task |-> t, kind |-> operation[t].kind, at |-> k]
Last(t) == Part(t, Decisive(operation[t].kind))

\* Answered as done, a transaction is executed and took effect; for an operation that
\* does not read the status, it is executed.
Took(x) == Executed(x) /\ (x.kind # "unread" => x \notin reverted)

\* An operation that was answered as done took effect, all of it and in its order:
\* the payout order before the start, the approval before the payment.  (The circle
\* accounts and contributions of NEAR were executed, which is all that is known of
\* them, and a registration may have found the account registered.)  What was
\* answered as failed has no effect and never will have, unless an answer was lost:
\* it is safe to ask again.
AnswersTrue ==
  \A t \in Tasks :
    /\ operation[t].status = "done" /\ operation[t].kind # "register" =>
         \A k \in 1..Decisive(operation[t].kind) :
           /\ Took(Part(t, k))
           /\ \E i \in 1..Len(ledger) :
                /\ ledger[i] = Part(t, k)
                /\ k > 1 => \E j \in 1..(i - 1) : ledger[j] = Part(t, k - 1)
    /\ failures = 0 /\ operation[t].status = "failed" =>
         ~Alive(Last(t))

\* No call failed, no transaction reverted, and nothing overtook anything.
Undisturbed == failures = 0 /\ races = {} /\ reverted = {}

\* Without failing calls and transactions every operation succeeds when no other holds
\* a nonce of the key while it reads one, no contribution ignores the pool, and the
\* final view is not behind; a new account then ends up registered with both tokens.
AloneSucceeds ==
  Undisturbed =>
    \A t \in Tasks :
      /\ operation[t].status # "failed"
      /\ Quiet /\ operation[t] = [kind |-> "create", status |-> "done"] =>
           {t} \X Tokens \subseteq registered

\* Every operation is answered and every handler is done: no nonce is left free,
\* behind which the others would wait for ever, and the registrations of a new
\* account come to an end although calls fail.  What was answered stays so, so one
\* quiet moment says it of all that were started before.
TasksSettle == []<>(Quiet /\ \A t \in Tasks : operation[t].status # "running")

\* Nobody waits for what cannot come: whenever a handler has something to do, it can
\* do it, or the transaction that is next is in the pool, or a block is not final
\* yet.  And an operation that is not answered has a handler.
CanGoOn(h) ==
  \/ handler[h].step \in {"check", "nonce", "send"}
  \/ At(h, "wait") /\ ~Pending(Sent(h))
  \/ At(h, "delay") /\ (Executed(Sent(h)) => final >= handler[h].nonce)
NeverStuck ==
  /\ \A h \in Handlers :
       ~At(h, "idle") => CanGoOn(h) \/ (\E p \in pool : p.nonce = used) \/ final < used
  /\ \A t \in Tasks : operation[t].status = "running" =>
       \E h \in Handlers : ~At(h, "idle") /\ handler[h].task = t

\* The steps that a handler has left, at most.
Left(s) ==
  IF s.step = "idle" THEN 0
  ELSE 6 * (3 - s.at)
         + [delay |-> 1, wait |-> 2, send |-> 3, nonce |-> 4, check |-> 5][s.step]
Unsettled == Cardinality(pool) + (used - final)

\* Nothing is tried for ever: a step begins a new operation, or leaves a handler with
\* less to do and the others where they were, or the chain with less to settle.
StepsRunOut ==
  [][\/ \E t \in Tasks : operation[t].status = "none" /\ operation'[t].status = "running"
     \/ \E h \in Handlers : /\ Left(handler'[h]) < Left(handler[h])
                            /\ \A g \in Handlers \ {h} : handler'[g] = handler[g]
     \/ UNCHANGED <<operation, handler>> /\ Unsettled' < Unsettled]_vars

-----------------------------------------------------------------------------
(* The inductive invariant                                                 *)

Busy(h) == ~At(h, "idle")
InFlight(t) == Pending(t) \/ Executed(t)

\* What a handler runs: an operation that is not answered, or the registrations of
\* an account that was.
Running(s) ==
  /\ s.task \in Tasks /\ s.account \in Tasks
  /\ s.kind \in Kinds(signer) /\ s.at \in 1..Len(Transactions(s.kind))
  /\ operation[s.task] =
       [kind |-> s.kind,
        status |-> IF s.kind = "create" /\ s.at > 1 THEN "done" ELSE "running"]
  /\ s.step \in IF OnBase THEN {"nonce", "send", "wait"}
                ELSE {"check", "nonce", "send", "delay"}
  /\ s.step = "check" => s.kind = "register" \/ (s.kind = "create" /\ s.at > 1)
  /\ s.step = "delay" => s.kind = "create" /\ s.at = 2
  /\ s.kind = "create" => s.account = s.task
  /\ s.kind = "register" => operation[s.account] = [kind |-> "create", status |-> "done"]

\* Each operation is run once, and sends each of its transactions once, in order.
OperationsInv ==
  /\ \A h \in Handlers : Busy(h) => Running(handler[h])
  /\ \A g, h \in Handlers : Busy(g) /\ Busy(h) /\ handler[g].task = handler[h].task => g = h
  /\ \A t \in Tasks : operation[t].status # "none" => operation[t].kind \in Kinds(signer)
  /\ \A x \in Tx : InFlight(x) =>
       /\ operation[x.task].status # "none" /\ operation[x.task].kind = x.kind
       /\ \A h \in Handlers : Busy(h) /\ handler[h].task = x.task =>
            x.at < handler[h].at \/ (x.at = handler[h].at /\ handler[h].step \in {"wait", "delay"})
  /\ \A a \in Tasks, k \in Tokens : <<a, k>> \in registered =>
       operation[a] = [kind |-> "create", status |-> "done"]

Before(x) == [x EXCEPT !.at = @ - 1]
OrderInv ==
  /\ \A i \in 1..Len(ledger) : ledger[i].kind # "create" /\ ledger[i].at > 1 =>
       \E j \in 1..(i - 1) : ledger[j] = Before(ledger[i])
  /\ \A p \in pool : p.tx.at > 1 => Executed(Before(p.tx))
  /\ \A h \in Handlers : Busy(h) /\ handler[h].kind # "create" /\ handler[h].at > 1 =>
       Took(Before(Sent(h)))
  /\ \A t \in Tasks : operation[t].status = "done" /\ operation[t].kind # "register" =>
       \A k \in 1..Decisive(operation[t].kind) : Took(Part(t, k))

\* A transaction is in the pool once, and no longer once it is executed.
PoolInv == \A p, q \in pool : ~Executed(p.tx) /\ (p.tx = q.tx => p = q)

\* What failed is over.
FailedInv ==
  failures = 0 =>
    \A t \in Tasks : operation[t].status = "failed" => ~Alive(Last(t))

\* The nonces of the pool follow the ones that were used, without a gap, and nobody
\* is about to leave one.
NoncesInv ==
  /\ used = Len(ledger) /\ final <= used /\ (~OnBase => pool = {})
  /\ \A p, q \in pool : p.nonce = q.nonce => p = q
  /\ {p.nonce : p \in pool} = used..(Free - 1)
  /\ \A h \in Handlers : At(h, "send") =>
       handler[h].nonce <= (IF OnBase THEN Free ELSE used + 1)
  /\ \A h \in Handlers : Approving(h) => handler[h].nonce < Free

\* An operation that is alone with the key holds the next nonce; what it waits for
\* is not replaced.
AloneInv ==
  Undisturbed =>
    /\ \A g, h \in Handlers : Holds(g) /\ Holds(h) => g = h
    /\ \A h \in Handlers :
         /\ At(h, "send") => handler[h].nonce = (IF OnBase THEN Free ELSE used + 1)
         /\ Approving(h) => handler[h].nonce + 1 = Free
         /\ At(h, "wait") => InFlight(Sent(h))
    /\ \A t \in Tasks : operation[t].status # "failed"

\* A new account is registered with both tokens, or its handler goes on doing it.
\* Its next nonce is not read from a final view that lacks its last transaction.
RegistersInv ==
  Undisturbed =>
    /\ \A t \in Tasks : operation[t] = [kind |-> "create", status |-> "done"] =>
         \/ {t} \X Tokens \subseteq registered
         \/ \E h \in Handlers : Busy(h) /\ handler[h].task = t
    /\ \A h \in Handlers :
         LET s == handler[h]
             first == <<s.task, "usdt">> \in registered
         IN Busy(h) /\ s.kind = "create" =>
            /\ s.at = 3 \/ s.step = "delay" => first
            /\ s.step = "delay" => Executed(Sent(h))
            /\ s.at > 1 /\ s.step # "send" => s.nonce <= used
            /\ s.at = 2 /\ s.step \in {"check", "nonce"} /\ first => s.nonce < used
            /\ s.at = 3 /\ s.step \in {"check", "nonce"} /\ s.nonce = used => final = used

\* An operation that runs has a handler, and what a handler that pauses has sent is
\* behind it.
ProgressInv ==
  /\ \A t \in Tasks : operation[t].status = "running" =>
       \E h \in Handlers : Busy(h) /\ handler[h].task = t
  /\ \A h \in Handlers : At(h, "delay") /\ Executed(Sent(h)) => handler[h].nonce <= used

IInv == /\ TypeOK /\ OperationsInv /\ OrderInv /\ PoolInv /\ NoncesInv
        /\ FailedInv /\ AloneInv /\ RegistersInv
=============================================================================
