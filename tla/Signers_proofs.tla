--------------------------- MODULE Signers_proofs ---------------------------
(***************************************************************************)
(* The safety of Signers for any number of requests and jobs that share a  *)
(* key, of operations and of failing calls: IInv is an inductive           *)
(* invariant, and the properties that the run checks follow from it.       *)
(***************************************************************************)
EXTENDS Signers, TLAPS, FiniteSetTheorems

-----------------------------------------------------------------------------
(* Kinds, and what a step does to the handler it serves                    *)

\* How many transactions each kind of operation has, and which one decides.
LEMMA KindFacts ==
  /\ Len(Transactions("call")) = 1 /\ Len(Transactions("start")) = 2
  /\ Len(Transactions("contribute")) = 2 /\ Len(Transactions("create")) = 3
  /\ Len(Transactions("register")) = 1 /\ Len(Transactions("none")) = 0
  /\ Transactions("create")[1] = "account" /\ Transactions("create")[2] = "usdt"
  /\ Transactions("create")[3] = "usdc" /\ Transactions("register")[1] = "usdt"
  /\ Transactions("call")[1] = "pay"
  /\ Len(Transactions("unread")) = 1 /\ Transactions("unread")[1] = "pay"
  BY DEF Transactions

\* Which of them that is.
LEMMA Decides ==
  /\ Decisive("call") = 1 /\ Decisive("start") = 2 /\ Decisive("contribute") = 2
  /\ Decisive("create") = 1 /\ Decisive("register") = 1 /\ Decisive("unread") = 1
  BY KindFacts DEF Decisive

\* A handler s that is at another transaction, nonce or step.
With(s, at, nonce, step) ==
  [task |-> s.task, account |-> s.account, kind |-> s.kind, at |-> at,
   nonce |-> nonce, step |-> step]

\* Handler h becomes s, and the others stay as they are.
Becomes(h, s) == /\ handler' \in [Handlers -> State] /\ handler'[h] = s
                 /\ \A g \in Handlers \ {h} : handler'[g] = handler[g]

\* A handler without an operation.
LEMMA IdleState == Idle \in State
  BY BoundAssumption DEF Idle, State, KindNames

\* A handler that changes is still one, and the others stay as they are.
LEMMA Put ==
  ASSUME TypeOK, NEW h \in Handlers, NEW s \in State,
         handler' = [handler EXCEPT ![h] = s]
  PROVE  Becomes(h, s)
  BY DEF TypeOK, Becomes

\* The forms in which a step writes its handler.
LEMMA StepForm ==
  ASSUME NEW s \in State, NEW step
  PROVE  [s EXCEPT !.step = step] = With(s, s.at, s.nonce, step)
  BY DEF State, With

\* The next transaction.
LEMMA AtForm ==
  ASSUME NEW s \in State, NEW at
  PROVE  [s EXCEPT !.at = at] = With(s, at, s.nonce, s.step)
  BY DEF State, With

\* A step with a new nonce.
LEMMA NonceForm ==
  ASSUME NEW s \in State, NEW nonce, NEW step
  PROVE  [s EXCEPT !.step = step, !.nonce = nonce] = With(s, s.at, nonce, step)
<1>1. [s EXCEPT !.step = step, !.nonce = nonce]
        = [[s EXCEPT !.step = step] EXCEPT !.nonce = nonce]
  OBVIOUS
<1>2. [With(s, s.at, s.nonce, step) EXCEPT !.nonce = nonce] = With(s, s.at, nonce, step)
  BY DEF With
<1>3. QED
  BY <1>1, <1>2, StepForm

\* The next transaction, at another step.
LEMMA NextForm ==
  ASSUME NEW s \in State, NEW at, NEW step
  PROVE  [s EXCEPT !.at = at, !.step = step] = With(s, at, s.nonce, step)
<1>1. [s EXCEPT !.at = at, !.step = step] = [[s EXCEPT !.at = at] EXCEPT !.step = step]
  OBVIOUS
<1>2. [With(s, at, s.nonce, s.step) EXCEPT !.step = step] = With(s, at, s.nonce, step)
  BY DEF With
<1>3. QED
  BY <1>1, <1>2, AtForm

\* What a step may change of a handler.
LEMMA WithState ==
  ASSUME NEW s \in State, NEW at \in 0..3, NEW nonce \in Nat,
         NEW step \in {"idle", "check", "nonce", "send", "wait", "delay"}
  PROVE  With(s, at, nonce, step) \in State
  BY DEF With, State

\* A handler that changes.
LEMMA Changes ==
  ASSUME TypeOK, NEW h \in Handlers, NEW at \in 0..3, NEW nonce \in Nat,
         NEW step \in {"idle", "check", "nonce", "send", "wait", "delay"},
         handler' = [handler EXCEPT ![h] = With(handler[h], at, nonce, step)]
  PROVE  Becomes(h, With(handler[h], at, nonce, step))
<1>1. handler[h] \in State
  BY DEF TypeOK
<1> DEFINE s == With(handler[h], at, nonce, step)
<1>2. s \in State
  BY <1>1, WithState
<1> HIDE DEF s
<1>3. QED
  BY <1>2, Put DEF s

-----------------------------------------------------------------------------
(* What a step does                                                        *)

\* The operation goes on, or ends.
Goes(h, at, nonce, step) ==
  Becomes(h, With(handler[h], at, nonce, step)) /\ UNCHANGED operation
\* The operation is answered and its handler is done.
Ends(h, status) ==
  /\ Becomes(h, Idle)
  /\ operation' = [operation EXCEPT ![handler[h].task].status = status]
\* createSubAccount has answered, and registers the tokens.
Created(h) ==
  /\ Becomes(h, With(handler[h], 2, handler[h].nonce, "check"))
  /\ operation' = [operation EXCEPT ![handler[h].task].status = "done"]

\* The same for a kind that is not spelt out.
LEMMA KindLengths ==
  ASSUME NEW kind \in KindNames
  PROVE  /\ kind \in {"call", "unread", "register"} => Len(Transactions(kind)) = 1
         /\ kind \in {"start", "contribute"} => Len(Transactions(kind)) = 2
         /\ kind = "create" => Len(Transactions(kind)) = 3
         /\ kind = "none" => Len(Transactions(kind)) = 0
<1>1. CASE kind = "call"
  BY <1>1, KindFacts
<1>2. CASE kind = "start"
  BY <1>2, KindFacts
<1>3. CASE kind = "contribute"
  BY <1>3, KindFacts
<1>4. CASE kind = "create"
  BY <1>4, KindFacts
<1>5. CASE kind = "register"
  BY <1>5, KindFacts
<1>6. CASE kind = "none"
  BY <1>6, KindFacts
<1>7. CASE kind = "unread"
  BY <1>7, KindFacts
<1>8. QED
  BY <1>1, <1>2, <1>3, <1>4, <1>5, <1>6, <1>7 DEF KindNames

\* What is known of a handler that is busy.
LEMMA Serving ==
  ASSUME TypeOK, OperationsInv, NEW h \in Handlers, Busy(h)
  PROVE  /\ handler[h] \in State /\ Running(handler[h])
         /\ handler[h].task \in Tasks /\ handler[h].at \in 1..3
         /\ handler[h].at \in 1..Len(Transactions(handler[h].kind))
         /\ handler[h].kind \in IF OnBase THEN {"call", "start", "contribute"}
                                ELSE {"call", "unread", "create", "register"}
         /\ Sent(h) \in Tx
<1> DEFINE s == handler[h]
<1>1. s \in State
  BY DEF TypeOK
<1>2. Running(s)
  BY DEF OperationsInv
<1>3. s.task \in Tasks /\ s.kind \in Kinds(signer) /\ s.at \in 1..Len(Transactions(s.kind))
  BY <1>2 DEF Running
<1>4. s.kind \in IF OnBase THEN {"call", "start", "contribute"}
                 ELSE {"call", "unread", "create", "register"}
  BY <1>3 DEF Kinds, OnBase, KeyOwners, TypeOK
<1>k. s.kind \in {"call", "start", "contribute", "unread", "create", "register"}
  BY <1>4
<1>5. s.at \in 1..3
  <2>1. s.kind \in KindNames
    BY <1>k DEF KindNames
  <2> DEFINE n == Len(Transactions(s.kind))
  <2>2. n \in {1, 2, 3}
    BY <1>k, <2>1, KindLengths
  <2> HIDE DEF n
  <2>3. s.at \in 1..n
    BY <1>3 DEF n
  <2>4. QED
    BY <2>2, <2>3
<1>6. Sent(h) \in Tx
  BY <1>1, <1>3, <1>5 DEF Sent, Tx, State
<1>7. QED
  BY <1>1, <1>2, <1>3, <1>4, <1>5, <1>6

\* The three ways in which a step leaves an operation.
LEMMA MovesGoes ==
  ASSUME TypeOK, NEW h \in Handlers, NEW at \in 0..3, NEW nonce \in Nat,
         NEW step \in {"idle", "check", "nonce", "send", "wait", "delay"},
         UNCHANGED operation,
         handler' = [handler EXCEPT ![h] = With(handler[h], at, nonce, step)]
  PROVE  Goes(h, at, nonce, step)
  BY Changes DEF Goes

\* The operation fails.
LEMMA FailsEnds ==
  ASSUME TypeOK, NEW h \in Handlers, Fails(h)
  PROVE  Ends(h, "failed")
<1>1. handler' = [handler EXCEPT ![h] = Idle]
  BY DEF Fails
<1>2. Becomes(h, Idle)
  BY <1>1, IdleState, Put
<1>3. QED
  BY <1>2 DEF Fails, Ends

\* The operation succeeds and its handler is done.
LEMMA SucceedsEnds ==
  ASSUME TypeOK, NEW h \in Handlers, Succeeds(h), handler' = [handler EXCEPT ![h] = Idle]
  PROVE  Ends(h, "done")
<1>1. Becomes(h, Idle)
  BY IdleState, Put
<1>2. QED
  BY <1>1 DEF Succeeds, Ends

\* An operation that was answered as done is so once more.
LEMMA DoneAgain ==
  ASSUME TypeOK, OperationsInv, NEW h \in Handlers, Busy(h), InBackground(h),
         UNCHANGED operation, handler' = [handler EXCEPT ![h] = Idle]
  PROVE  Ends(h, "done")
<1> DEFINE t == handler[h].task
<1>1. t \in Tasks /\ operation[t] = [kind |-> "create", status |-> "done"]
  BY Serving DEF Running, InBackground
<1>2. operation \in [Tasks -> Operation]
  BY DEF TypeOK
<1>3. [operation EXCEPT ![t].status = "done"] = [operation EXCEPT ![t] = [operation[t] EXCEPT !.status = "done"]]
  BY <1>1, <1>2
<1>4. [operation[t] EXCEPT !.status = "done"] = operation[t]
  BY <1>1
<1>5. operation = [operation EXCEPT ![t].status = "done"]
  BY <1>2, <1>3, <1>4
<1>6. Becomes(h, Idle)
  BY IdleState, Put
<1>7. QED
  BY <1>5, <1>6 DEF Ends

\* A transaction is through.
LEMMA ThroughForms ==
  ASSUME TypeOK, OperationsInv, NEW h \in Handlers, Busy(h),
         ~InBackground(h), ~Approving(h), NEW next \in {"check", "nonce"},
         next = (IF OnBase THEN "nonce" ELSE "check"), Through(h, next)
  PROVE  \/ /\ Ends(h, "done") /\ handler[h].kind # "create"
            /\ handler[h].at = Decisive(handler[h].kind)
         \/ Goes(h, 2, handler[h].nonce, "nonce") /\ handler[h].kind = "start" /\ handler[h].at = 1
         \/ handler[h].kind = "contribute" /\ handler[h].at = 1
         \/ Created(h) /\ handler[h].kind = "create" /\ handler[h].at = 1
<1> DEFINE s == handler[h]
<1>1. s \in State /\ s.at \in 1..Len(Transactions(s.kind)) /\ s.nonce \in Nat
       /\ s.kind \in IF OnBase THEN {"call", "start", "contribute"}
                                ELSE {"call", "unread", "create", "register"}
  BY Serving DEF State
<1>2. CASE s.at = Len(Transactions(s.kind))
  <2>1. Ends(h, "done")
    BY <1>2, SucceedsEnds DEF Through
  <2>2. s.kind # "create"
    BY <1>2, KindFacts DEF InBackground
  <2>3. QED
    BY <1>2, <2>1, <2>2 DEF Decisive
<1>3. CASE s.at # Len(Transactions(s.kind))
  <2>k. s.kind \in {"call", "start", "contribute", "unread", "create", "register"}
    BY <1>1
  <2>b. s.kind = "create" => ~(s.at > 1)
    BY DEF InBackground
  <2>1. s.kind \in {"start", "contribute", "create"} /\ s.at = 1
    <3>1. s.kind \in KindNames
      BY <2>k DEF KindNames
    <3> DEFINE n == Len(Transactions(s.kind))
    <3>2. /\ s.kind \in {"call", "unread", "register"} => n = 1
          /\ s.kind \in {"start", "contribute"} => n = 2
          /\ s.kind = "create" => n = 3
      BY <3>1, KindLengths
    <3> HIDE DEF n
    <3>3. s.at \in 1..n /\ s.at # n
      BY <1>1, <1>3 DEF n
    <3>4. QED
      BY <2>k, <2>b, <3>2, <3>3
  <2>2. handler' = [handler EXCEPT ![h].at = @ + 1, ![h].step = next]
    BY <1>3 DEF Through
  <2>m. handler' = [handler EXCEPT ![h] = [s EXCEPT !.at = s.at + 1, !.step = next]]
    BY <2>2 DEF TypeOK
  <2>3. handler' = [handler EXCEPT ![h] = [s EXCEPT !.at = 2, !.step = next]]
    BY <2>1, <2>m
  <2>4. handler' = [handler EXCEPT ![h] = With(s, 2, s.nonce, next)]
    <3>1. s \in State
      BY <1>1
    <3> HIDE DEF s
    <3>2. [s EXCEPT !.at = 2, !.step = next] = With(s, 2, s.nonce, next)
      BY <3>1, NextForm
    <3>3. QED
      BY <2>3, <3>2
  <2>5. Becomes(h, With(s, 2, s.nonce, next))
    <3>1. s.nonce \in Nat
      BY <1>1
    <3>2. 2 \in 0..3
      OBVIOUS
    <3>3. QED
      BY <2>4, <3>1, <3>2, Changes
  <2>6. CASE s.kind = "start"
    <3>1. UNCHANGED operation
      BY <1>3, <2>1, <2>6, Decides DEF Through
    <3>2. OnBase
      BY <1>1, <2>6
    <3>3. QED
      BY <2>1, <2>5, <2>6, <3>1, <3>2 DEF Goes
  <2>7. CASE s.kind = "create"
    <3>1. Succeeds(h)
      BY <1>3, <2>1, <2>7, Decides DEF Through
    <3>2. ~OnBase
      BY <1>1, <2>7
    <3>3. QED
      BY <2>1, <2>5, <2>7, <3>1, <3>2 DEF Created, Succeeds
  <2>8. QED
    BY <2>1, <2>6, <2>7
<1>4. QED
  BY <1>2, <1>3

\* The nonces are numbers.
LEMMA NonceType ==
  ASSUME TypeOK, NEW h \in Handlers
  PROVE  Free \in Nat /\ used \in Nat /\ final \in Nat /\ NonceFor(h) \in Nat
<1>1. Cardinality(pool) \in Nat
  BY FS_CardinalityType DEF TypeOK
<1>2. QED
  BY <1>1 DEF TypeOK, Free, NonceFor

\* A nonce is read.
LEMMA ReadForms ==
  ASSUME TypeOK, OperationsInv, NEW h \in Handlers, ReadNonce(h) \/ ReadAccessKey(h)
  PROVE  /\ Busy(h) /\ handler[h].step = "nonce"
         /\ Goes(h, handler[h].at, IF OnBase THEN NonceFor(h) ELSE final + 1, "send")
<1> DEFINE s == handler[h]
           n == IF OnBase THEN NonceFor(h) ELSE final + 1
<1>1. s.step = "nonce" /\ UNCHANGED operation
  BY DEF ReadNonce, ReadAccessKey, At
<1>2. Busy(h)
  BY <1>1 DEF Busy, At
<1>3. handler' = [handler EXCEPT ![h].step = "send", ![h].nonce = n]
  BY DEF ReadNonce, ReadAccessKey
<1>4. n \in Nat
  BY NonceType
<1> HIDE DEF n
<1>5. s \in State /\ s.at \in 0..3
  BY <1>2, Serving
<1>6. handler' = [handler EXCEPT ![h] = [s EXCEPT !.step = "send", !.nonce = n]]
  BY <1>3 DEF TypeOK
<1>7. [s EXCEPT !.step = "send", !.nonce = n] = With(s, s.at, n, "send")
  <2> HIDE DEF s
  <2> QED
    BY <1>5, NonceForm
<1>8. handler' = [handler EXCEPT ![h] = With(s, s.at, n, "send")]
  BY <1>6, <1>7
<1>9. Goes(h, s.at, n, "send")
  BY <1>1, <1>4, <1>5, <1>8, MovesGoes
<1>10. QED
  BY <1>1, <1>2, <1>9 DEF n

\* Nothing changes but the step.
LEMMA MovesForms ==
  ASSUME TypeOK, OperationsInv, NEW h \in Handlers, Busy(h), UNCHANGED operation,
         NEW step \in {"idle", "check", "nonce", "send", "wait", "delay"}, Moves(h, step)
  PROVE  Goes(h, handler[h].at, handler[h].nonce, step)
<1> DEFINE s == handler[h]
<1>1. s \in State /\ s.at \in 0..3 /\ s.nonce \in Nat
  BY Serving DEF State
<1>2. handler' = [handler EXCEPT ![h] = [s EXCEPT !.step = step]]
  BY DEF TypeOK, Moves
<1>3. [s EXCEPT !.step = step] = With(s, s.at, s.nonce, step)
  <2> HIDE DEF s
  <2> QED
    BY <1>1, StepForm
<1>4. handler' = [handler EXCEPT ![h] = With(s, s.at, s.nonce, step)]
  BY <1>2, <1>3
<1>5. QED
  BY <1>1, <1>4, MovesGoes

\* The form of a step of the background: the next token, or the end.
LEMMA BackgroundForms ==
  ASSUME TypeOK, OperationsInv, NEW h \in Handlers, Busy(h), InBackground(h),
         handler' = [handler EXCEPT ![h] = IF @.at = 3 THEN Idle
                                           ELSE [@ EXCEPT !.step = "delay"]],
         UNCHANGED operation
  PROVE  \/ Ends(h, "done") /\ handler[h].at = 3
         \/ Goes(h, 2, handler[h].nonce, "delay") /\ handler[h].at = 2
<1> DEFINE s == handler[h]
<1>1. s \in State /\ s.at \in 1..3 /\ s.nonce \in Nat
  BY Serving DEF State
<1>2. CASE s.at = 3
  <2>1. handler' = [handler EXCEPT ![h] = Idle]
    BY <1>2
  <2>2. QED
    BY <1>2, <2>1, DoneAgain
<1>3. CASE s.at = 2
  <2>1. handler' = [handler EXCEPT ![h] = [s EXCEPT !.step = "delay"]]
    BY <1>3
  <2>2. [s EXCEPT !.step = "delay"] = With(s, s.at, s.nonce, "delay")
    <3> HIDE DEF s
    <3> QED
      BY <1>1, StepForm
  <2>3. handler' = [handler EXCEPT ![h] = With(s, 2, s.nonce, "delay")]
    BY <1>3, <2>1, <2>2
  <2>l. 2 \in 0..3
    OBVIOUS
  <2>4. Goes(h, 2, s.nonce, "delay")
    BY <1>1, <2>3, <2>l, MovesGoes
  <2>5. QED
    BY <1>3, <2>4
<1>4. s.at # 1
  BY DEF InBackground
<1>5. QED
  BY <1>1, <1>2, <1>3, <1>4

\* A call does not succeed.
LEMMA BreaksForms ==
  ASSUME TypeOK, OperationsInv, NEW h \in Handlers, Busy(h), Breaks(h)
  PROVE  \/ Ends(h, "failed") /\ ~InBackground(h)
         \/ Ends(h, "done") /\ InBackground(h) /\ handler[h].at = 3
         \/ Goes(h, 2, handler[h].nonce, "delay") /\ InBackground(h) /\ handler[h].at = 2
<1>1. CASE InBackground(h)
  BY <1>1, BackgroundForms DEF Breaks
<1>2. CASE ~InBackground(h)
  BY <1>2, FailsEnds DEF Breaks
<1>3. QED
  BY <1>1, <1>2

\* A transaction on NEAR is through.
LEMMA ContinuesForms ==
  ASSUME TypeOK, OperationsInv, NEW h \in Handlers, Busy(h), ~OnBase, Continues(h)
  PROVE  \/ Ends(h, "done") /\ InBackground(h) /\ handler[h].at = 3
         \/ Goes(h, 2, handler[h].nonce, "delay") /\ InBackground(h) /\ handler[h].at = 2
         \/ Ends(h, "done") /\ handler[h].kind \in {"call", "unread", "register"} /\ handler[h].at = 1
         \/ Created(h) /\ handler[h].kind = "create" /\ handler[h].at = 1
<1> DEFINE s == handler[h]
<1>1. CASE InBackground(h)
  BY <1>1, BackgroundForms DEF Continues
<1>2. CASE ~InBackground(h)
  <2>1. Through(h, "check")
    BY <1>2 DEF Continues
  <2>2. s.kind \in {"call", "unread", "create", "register"}
    BY Serving
  <2>3. ~Approving(h)
    BY <2>2 DEF Approving
  <2>4. \/ /\ Ends(h, "done") /\ s.kind # "create" /\ s.at = Decisive(s.kind)
        \/ Created(h) /\ s.kind = "create" /\ s.at = 1
    BY <1>2, <2>1, <2>2, <2>3, ThroughForms
  <2>5. s.kind \in {"call", "unread", "register"} => Decisive(s.kind) = 1
    BY Decides
  <2>6. QED
    BY <2>2, <2>4, <2>5
<1>3. QED
  BY <1>1, <1>2

\* What the wait for a transaction of Base ends in.
LEMMA WaitForms ==
  ASSUME TypeOK, OperationsInv, NEW h \in Handlers, Wait(h)
  PROVE  /\ Busy(h) /\ handler[h].step = "wait" /\ OnBase /\ ~Pending(Sent(h))
         /\ \/ Ends(h, "failed") /\ ~Effective(Sent(h))
            \/ /\ Effective(Sent(h)) /\ Approving(h)
               /\ Goes(h, 2, handler[h].nonce + 1, "send")
            \/ /\ Effective(Sent(h))
               /\ Ends(h, "done") /\ handler[h].at = Decisive(handler[h].kind)
            \/ /\ Effective(Sent(h)) /\ handler[h].kind = "start" /\ handler[h].at = 1
               /\ Goes(h, 2, handler[h].nonce, "nonce")
<1> DEFINE s == handler[h]
<1>1. Busy(h) /\ s.step = "wait" /\ OnBase /\ ~Pending(Sent(h))
  BY DEF Wait, Busy, At
<1>2. s.kind \in {"call", "start", "contribute"} /\ s \in State /\ s.nonce \in Nat
  BY <1>1, Serving DEF State
<1>3. CASE ~Effective(Sent(h))
  <2>1. Fails(h)
    BY <1>3 DEF Wait
  <2>2. QED
    BY <1>1, <1>3, <2>1, FailsEnds
<1>4. CASE Effective(Sent(h)) /\ Approving(h)
  <2>1. /\ handler' = [handler EXCEPT ![h].at = 2, ![h].step = "send", ![h].nonce = @ + 1]
        /\ UNCHANGED operation
    BY <1>4 DEF Wait, Approving
  <2> DEFINE n == s.nonce + 1
  <2>2. handler' = [handler EXCEPT ![h] = [s EXCEPT !.at = 2, !.step = "send", !.nonce = n]]
    BY <2>1 DEF TypeOK
  <2>3. n \in Nat
    BY <1>2
  <2> HIDE DEF n
  <2>4. [s EXCEPT !.at = 2, !.step = "send", !.nonce = n] = With(s, 2, n, "send")
    <3> DEFINE r == [s EXCEPT !.at = 2, !.step = "send"]
    <3> HIDE DEF s
    <3>1. r = With(s, 2, s.nonce, "send")
      BY <1>2, NextForm
    <3>2. [s EXCEPT !.at = 2, !.step = "send", !.nonce = n] = [r EXCEPT !.nonce = n]
      BY <1>2
    <3>3. [With(s, 2, s.nonce, "send") EXCEPT !.nonce = n] = With(s, 2, n, "send")
      BY DEF With
    <3> HIDE DEF r
    <3>4. QED
      BY <3>1, <3>2, <3>3
  <2>5. handler' = [handler EXCEPT ![h] = With(s, 2, n, "send")]
    BY <2>2, <2>4
  <2>l. 2 \in 0..3
    OBVIOUS
  <2>6. Goes(h, 2, n, "send")
    BY <2>1, <2>3, <2>5, <2>l, MovesGoes
  <2>7. QED
    BY <1>1, <1>4, <2>6 DEF n
<1>5. CASE Effective(Sent(h)) /\ ~Approving(h)
  <2>1. Through(h, "nonce")
    BY <1>1, <1>5 DEF Wait, Approving, At
  <2>2. ~InBackground(h)
    BY <1>2 DEF InBackground
  <2>3. \/ /\ Ends(h, "done") /\ s.at = Decisive(s.kind)
        \/ Goes(h, 2, s.nonce, "nonce") /\ s.kind = "start" /\ s.at = 1
        \/ s.kind = "contribute" /\ s.at = 1
    BY <1>1, <1>2, <1>5, <2>1, <2>2, ThroughForms
  <2>4. ~(s.kind = "contribute" /\ s.at = 1)
    BY <1>1, <1>5 DEF Approving, At
  <2>5. QED
    BY <1>1, <1>5, <2>3, <2>4
<1>6. QED
  BY <1>3, <1>4, <1>5

\* Whether the token is registered.
LEMMA CheckForms ==
  ASSUME TypeOK, OperationsInv, NEW h \in Handlers, Check(h)
  PROVE  /\ Busy(h) /\ handler[h].step = "check" /\ ~OnBase
         /\ \/ /\ <<handler[h].account, TokenOf(h)>> \notin registered
               /\ Goes(h, handler[h].at, handler[h].nonce, "nonce")
            \/ /\ <<handler[h].account, TokenOf(h)>> \in registered
               /\ handler[h].kind = "create" /\ handler[h].at = 2
               /\ Goes(h, 3, handler[h].nonce, "check")
            \/ /\ <<handler[h].account, TokenOf(h)>> \in registered
               /\ \/ handler[h].kind = "create" /\ handler[h].at = 3
                  \/ handler[h].kind = "register" /\ handler[h].at = 1
               /\ Ends(h, "done")
<1> DEFINE s == handler[h]
<1>1. Busy(h) /\ s.step = "check"
  BY DEF Check, Busy, At
<1>2. /\ s \in State /\ s.nonce \in Nat /\ s.at \in 1..3
      /\ s.at \in 1..Len(Transactions(s.kind)) /\ Running(s)
  BY <1>1, Serving DEF State
<1>3. ~OnBase /\ (s.kind = "register" \/ (s.kind = "create" /\ s.at > 1))
  BY <1>1, <1>2 DEF Running
<1>4. s.kind = "register" => s.at = 1
  <2> SUFFICES ASSUME s.kind = "register" PROVE s.at = 1
    OBVIOUS
  <2> DEFINE n == Len(Transactions(s.kind))
  <2>1. n = 1
    BY KindFacts
  <2>2. s.at \in 1..n
    BY <1>2
  <2> HIDE DEF n
  <2>3. QED
    BY <2>1, <2>2
<1>5. CASE <<s.account, TokenOf(h)>> \notin registered
  <2>1. Moves(h, "nonce") /\ UNCHANGED operation
    BY <1>5 DEF Check
  <2>2. Goes(h, s.at, s.nonce, "nonce")
    BY <1>1, <2>1, MovesForms
  <2>3. QED
    BY <1>1, <1>3, <1>5, <2>2
<1>6. CASE <<s.account, TokenOf(h)>> \in registered /\ s.kind = "create" /\ s.at = 2
  <2>1. handler' = [handler EXCEPT ![h].at = 3] /\ UNCHANGED operation
    BY <1>6 DEF Check
  <2>2. handler' = [handler EXCEPT ![h] = [s EXCEPT !.at = 3]]
    BY <2>1 DEF TypeOK
  <2>3. [s EXCEPT !.at = 3] = With(s, 3, s.nonce, s.step)
    <3> HIDE DEF s
    <3> QED
      BY <1>2, AtForm
  <2>4. handler' = [handler EXCEPT ![h] = With(s, 3, s.nonce, "check")]
    BY <1>1, <2>2, <2>3
  <2>l. 3 \in 0..3
    OBVIOUS
  <2>5. Goes(h, 3, s.nonce, "check")
    BY <1>2, <2>1, <2>4, <2>l, MovesGoes
  <2>6. QED
    BY <1>1, <1>3, <1>6, <2>5
<1>7. CASE <<s.account, TokenOf(h)>> \in registered /\ ~(s.kind = "create" /\ s.at = 2)
  <2>1. handler' = [handler EXCEPT ![h] = Idle] /\ Succeeds(h)
    BY <1>7 DEF Check
  <2>2. Ends(h, "done")
    BY <2>1, SucceedsEnds
  <2>3. QED
    BY <1>1, <1>2, <1>3, <1>4, <1>7, <2>2
<1>8. QED
  BY <1>5, <1>6, <1>7

\* The delay between the two tokens.
LEMMA DelayForms ==
  ASSUME TypeOK, OperationsInv, NEW h \in Handlers, DelayOver(h)
  PROVE  /\ Busy(h) /\ handler[h].step = "delay" /\ ~OnBase
         /\ handler[h].kind = "create" /\ handler[h].at = 2
         /\ Goes(h, 3, handler[h].nonce, "check")
<1> DEFINE s == handler[h]
<1>1. Busy(h) /\ s.step = "delay"
  BY DEF DelayOver, Busy, At
<1>2. s \in State /\ s.nonce \in Nat /\ Running(s)
  BY <1>1, Serving DEF State
<1>3. handler' = [handler EXCEPT ![h] = [s EXCEPT !.at = 3, !.step = "check"]] /\ UNCHANGED operation
  BY DEF DelayOver, TypeOK
<1>4. [s EXCEPT !.at = 3, !.step = "check"] = With(s, 3, s.nonce, "check")
  <2> HIDE DEF s
  <2> QED
    BY <1>2, NextForm
<1>5. handler' = [handler EXCEPT ![h] = With(s, 3, s.nonce, "check")]
  BY <1>3, <1>4
<1>l. 3 \in 0..3
  OBVIOUS
<1>6. Goes(h, 3, s.nonce, "check")
  BY <1>2, <1>3, <1>5, <1>l, MovesGoes
<1>7. QED
  BY <1>1, <1>2, <1>6 DEF Running

\* A transaction of Base is taken into the pool or refused.
LEMMA SendForms ==
  ASSUME TypeOK, OperationsInv, NEW h \in Handlers, Send(h)
  PROVE  /\ Busy(h) /\ handler[h].step = "send" /\ OnBase
         /\ UNCHANGED <<signer, used, final, ledger, reverted, registered, races, failures>>
         /\ \/ /\ handler[h].nonce >= used
               /\ pool' = (pool \ {p \in pool : p.nonce = handler[h].nonce})
                            \cup {[nonce |-> handler[h].nonce, tx |-> Sent(h)]}
               /\ Goes(h, handler[h].at, handler[h].nonce, "wait")
            \/ /\ \/ handler[h].nonce < used
                  \/ \E p \in pool : p.nonce = handler[h].nonce
               /\ pool' = pool /\ Ends(h, "failed") /\ ~InBackground(h)
<1> DEFINE s == handler[h]
<1>1. Busy(h) /\ s.step = "send" /\ OnBase
  BY DEF Send, Busy, At
<1>2. UNCHANGED <<signer, used, final, ledger, reverted, registered, races, failures>>
  BY DEF Send
<1>3. ~InBackground(h)
  BY <1>1, Serving DEF InBackground
<1>4. CASE /\ s.nonce >= used
           /\ pool' = (pool \ {p \in pool : p.nonce = s.nonce})
                        \cup {[nonce |-> s.nonce, tx |-> Sent(h)]}
           /\ Moves(h, "wait") /\ UNCHANGED operation
  <2>1. Goes(h, s.at, s.nonce, "wait")
    BY <1>1, <1>4, MovesForms
  <2>2. QED
    BY <1>1, <1>2, <1>4, <2>1
<1>5. CASE /\ s.nonce < used \/ {p \in pool : p.nonce = s.nonce} # {}
           /\ Fails(h) /\ UNCHANGED pool
  <2>1. Ends(h, "failed")
    BY <1>5, FailsEnds
  <2>2. QED
    BY <1>1, <1>2, <1>3, <1>5, <2>1
<1>6. QED
  BY <1>4, <1>5 DEF Send

\* A transaction of an account on NEAR is executed.
LEMMA SendTransactionForms ==
  ASSUME TypeOK, OperationsInv, NEW h \in Handlers, SendTransaction(h)
  PROVE  /\ Busy(h) /\ handler[h].step = "send" /\ ~OnBase
         /\ UNCHANGED <<signer, final, pool, races, failures>>
         /\ \/ /\ handler[h].nonce > used /\ Execute(h) /\ Continues(h)
               /\ handler[h].kind # "unread" => Sent(h) \notin reverted'
            \/ /\ handler[h].nonce > used /\ Execute(h) /\ Breaks(h)
               /\ Sent(h) \in reverted'
            \/ /\ handler[h].nonce <= used /\ Breaks(h)
               /\ UNCHANGED <<used, ledger, reverted, registered>>
<1>1. handler[h].nonce \in Nat /\ used \in Nat
  BY DEF TypeOK, State
<1>2. QED
  BY <1>1 DEF SendTransaction, Busy, At

\* A failing call, whose transaction may have been taken.
LEMMA FailsForms ==
  ASSUME TypeOK, OperationsInv, NEW h \in Handlers, StepFails(h)
  PROVE  /\ Busy(h) /\ Breaks(h) /\ failures' # 0 /\ handler[h].step # "delay"
         /\ UNCHANGED <<signer, final, races>>
         /\ \/ UNCHANGED <<used, pool, ledger, reverted, registered>>
            \/ /\ OnBase /\ handler[h].step = "send" /\ handler[h].nonce >= used
               /\ \A p \in pool : p.nonce # handler[h].nonce
               /\ pool' = pool \cup {[nonce |-> handler[h].nonce, tx |-> Sent(h)]}
               /\ UNCHANGED <<used, ledger, reverted, registered>>
            \/ /\ ~OnBase /\ handler[h].step = "send" /\ handler[h].nonce > used
               /\ Execute(h) /\ UNCHANGED pool
<1>1. failures' # 0
  BY DEF StepFails, TypeOK
<1>2. Busy(h) /\ handler[h].step # "delay"
  BY DEF StepFails, At, Busy
<1>3. QED
  BY <1>1, <1>2 DEF StepFails, At

\* Where a step may take an operation that goes on.
Onward(h, at, nonce, step) ==
  LET s == handler[h]
  IN /\ at \in 1..Len(Transactions(s.kind)) /\ nonce \in Nat
     /\ step \in IF OnBase THEN {"nonce", "send", "wait"}
                 ELSE {"check", "nonce", "send", "delay"}
     /\ step = "check" => s.kind = "register" \/ (s.kind = "create" /\ at > 1)
     /\ step = "delay" => s.kind = "create" /\ at = 2
     /\ s.kind = "create" => (s.at > 1 <=> at > 1)
     /\ at > s.at \/ (at = s.at /\ s.step \notin {"wait", "delay"})
     /\ s.step = "send" => step \in {"wait", "delay"}
     /\ s.kind # "create" /\ at > s.at => at = s.at + 1 /\ Took(Sent(h))

\* What the handler has sent is executed after the step, and took effect as far as
\* the operation knows.
SentOff(h) == /\ \E i \in 1..Len(ledger') : ledger'[i] = Sent(h)
              /\ handler[h].kind # "unread" => Sent(h) \notin reverted'

\* The four things that may become of an operation in a step.
Follows(h) ==
  LET s == handler[h]
  IN \/ \E at \in 1..3, nonce \in Nat, step \in {"check", "nonce", "send", "wait", "delay"} :
          Goes(h, at, nonce, step) /\ Onward(h, at, nonce, step)
     \/ Ends(h, "failed") /\ ~InBackground(h)
     \/ /\ Ends(h, "done")
        /\ \/ s.kind = "create" /\ s.at = 3
           \/ s.kind = "register" /\ s.at = 1
           \/ s.kind # "create" /\ s.at = Decisive(s.kind) /\ SentOff(h)
     \/ Created(h) /\ s.kind = "create" /\ s.at = 1 /\ SentOff(h)

\* A call that does not succeed ends the operation, or the next token follows.
LEMMA BreaksFollows ==
  ASSUME TypeOK, OperationsInv, NEW h \in Handlers, Busy(h), Breaks(h),
         handler[h].step # "delay"
  PROVE  Follows(h)
<1> DEFINE s == handler[h]
<1>1. /\ s \in State /\ s.nonce \in Nat /\ Running(s)
      /\ s.kind \in IF OnBase THEN {"call", "start", "contribute"}
                                ELSE {"call", "unread", "create", "register"}
  BY Serving DEF State
<1>2. CASE Goes(h, 2, s.nonce, "delay") /\ InBackground(h) /\ s.at = 2
  <2>1. s.kind = "create" /\ ~OnBase /\ Len(Transactions(s.kind)) = 3
    BY <1>1, <1>2, KindFacts DEF InBackground
  <2>2. 2 \in 1..Len(Transactions(s.kind))
    BY <2>1
  <2>3. s.step \notin {"wait", "delay"}
    BY <1>1, <2>1 DEF Running
  <2>4. Onward(h, 2, s.nonce, "delay")
    BY <1>1, <1>2, <2>1, <2>2, <2>3 DEF Onward
  <2>5. 2 \in 1..3 /\ "delay" \in {"check", "nonce", "send", "wait", "delay"}
    OBVIOUS
  <2>6. QED
    BY <1>1, <1>2, <2>4, <2>5 DEF Follows
<1>3. CASE Ends(h, "failed") /\ ~InBackground(h)
  BY <1>3 DEF Follows
<1>4. CASE Ends(h, "done") /\ InBackground(h) /\ s.at = 3
  BY <1>4 DEF Follows, InBackground
<1>5. QED
  BY <1>2, <1>3, <1>4, BreaksForms

\* What a step of a handler does to the chain.
Taken(n) == {p \in pool : p.nonce = n}
\* A transaction of Base joins the pool.
Pools(h) ==
  /\ OnBase /\ At(h, "send") /\ handler[h].nonce >= used
  /\ pool' = (pool \ Taken(handler[h].nonce))
               \cup {[nonce |-> handler[h].nonce, tx |-> Sent(h)]}
  /\ UNCHANGED <<used, final, ledger, reverted, registered>>
\* A transaction of NEAR is executed.
Executes(h) ==
  /\ ~OnBase /\ At(h, "send") /\ handler[h].nonce > used
  /\ Execute(h) /\ UNCHANGED <<final, pool>>
\* A step of a handler does one of the two, or nothing.
Affects(h) == UNCHANGED chainVars \/ Pools(h) \/ Executes(h)

\* The ledger is a sequence of transactions.
LEMMA LedgerType ==
  ASSUME TypeOK
  PROVE  ledger \in Seq(Tx) /\ Len(ledger) \in Nat
  BY DEF TypeOK

\* What is executed is in the ledger.
LEMMA ExecutesSentOff ==
  ASSUME TypeOK, OperationsInv, NEW h \in Handlers, Busy(h), Execute(h),
         handler[h].kind # "unread" => Sent(h) \notin reverted'
  PROVE  SentOff(h) /\ ledger' = Append(ledger, Sent(h))
<1> DEFINE x == Sent(h)
<1>1. x \in Tx
  BY Serving
<1>2. ledger' = Append(ledger, x)
  BY DEF Execute
<1>3. ledger \in Seq(Tx) /\ Len(ledger) \in Nat
  BY LedgerType
<1> HIDE DEF x
<1>4. Len(ledger') = Len(ledger) + 1 /\ ledger'[Len(ledger) + 1] = x
  BY <1>1, <1>2, <1>3
<1>5. Len(ledger) + 1 \in 1..Len(ledger')
  BY <1>3, <1>4
<1>6. \E i \in 1..Len(ledger') : ledger'[i] = x
  BY <1>4, <1>5
<1>7. QED
  BY <1>2, <1>6 DEF SentOff, x

\* Every step of a handler takes its operation on or ends it.
LEMMA ServeFollows ==
  ASSUME TypeOK, OperationsInv, NEW h \in Handlers, Serve(h) \/ StepFails(h)
  PROVE  Busy(h) /\ Follows(h) /\ Affects(h) /\ UNCHANGED signer
<1> DEFINE s == handler[h]
           steps == {"check", "nonce", "send", "wait", "delay"}
<1>0. "check" \in steps /\ "nonce" \in steps /\ "send" \in steps /\ "wait" \in steps
      /\ 2 \in 1..3 /\ 3 \in 1..3
  OBVIOUS
<1>s. Busy(h) => /\ s \in State /\ Running(s) /\ s.at \in 1..3
                 /\ s.at \in 1..Len(Transactions(s.kind)) /\ s.nonce \in Nat
                 /\ s.kind \in IF OnBase THEN {"call", "start", "contribute"}
                                ELSE {"call", "unread", "create", "register"}
  BY Serving DEF State
<1>1. CASE ReadNonce(h) \/ ReadAccessKey(h)
  <2> DEFINE n == IF OnBase THEN NonceFor(h) ELSE final + 1
  <2>1. Busy(h) /\ s.step = "nonce" /\ Goes(h, s.at, n, "send")
    BY <1>1, ReadForms
  <2>2. n \in Nat
    BY NonceType
  <2> HIDE DEF n
  <2>3. Onward(h, s.at, n, "send")
    BY <1>s, <2>1, <2>2 DEF Onward
  <2>4. Follows(h)
    BY <1>0, <1>s, <2>1, <2>2, <2>3 DEF Follows
  <2>5. QED
    BY <1>1, <2>1, <2>4 DEF Affects, ReadNonce, ReadAccessKey
<1>2. CASE Send(h)
  <2>1. /\ Busy(h) /\ s.step = "send" /\ OnBase
        /\ UNCHANGED <<signer, used, final, ledger, reverted, registered, races, failures>>
    BY <1>2, SendForms
  <2>2. CASE /\ s.nonce >= used
             /\ pool' = (pool \ {p \in pool : p.nonce = s.nonce})
                          \cup {[nonce |-> s.nonce, tx |-> Sent(h)]}
             /\ Goes(h, s.at, s.nonce, "wait")
    <3>1. Onward(h, s.at, s.nonce, "wait")
      BY <1>s, <2>1 DEF Onward
    <3>2. Follows(h)
      BY <1>0, <1>s, <2>1, <2>2, <3>1 DEF Follows
    <3>3. Pools(h)
      BY <2>1, <2>2 DEF Pools, Taken, At
    <3>4. QED
      BY <2>1, <3>2, <3>3 DEF Affects
  <2>3. CASE pool' = pool /\ Ends(h, "failed") /\ ~InBackground(h)
    BY <2>1, <2>3 DEF Affects, Follows, chainVars
  <2>4. QED
    BY <1>2, <2>2, <2>3, SendForms
<1>3. CASE Wait(h)
  <2>1. Busy(h) /\ s.step = "wait" /\ OnBase /\ UNCHANGED chainVars /\ UNCHANGED signer
    BY <1>3, WaitForms DEF Wait
  <2>2. s.kind \in {"call", "start", "contribute"}
    BY <1>s, <2>1
  <2>3. Effective(Sent(h)) => SentOff(h) /\ Took(Sent(h))
    BY <2>1 DEF Effective, Executed, Took, SentOff, chainVars
  <2>4. CASE Ends(h, "failed")
    BY <2>1, <2>2, <2>4 DEF Affects, Follows, InBackground
  <2>5. CASE Effective(Sent(h)) /\ Ends(h, "done") /\ s.at = Decisive(s.kind)
    BY <2>1, <2>2, <2>3, <2>5 DEF Affects, Follows
  <2>6. CASE /\ Effective(Sent(h)) /\ s.kind \in {"start", "contribute"} /\ s.at = 1
             /\ \E n \in Nat, step \in {"send", "nonce"} : Goes(h, 2, n, step)
    <3>1. PICK n \in Nat, step \in {"send", "nonce"} : Goes(h, 2, n, step)
      BY <2>6
    <3>2. s.kind \in KindNames
      BY <2>2 DEF KindNames
    <3>3. Len(Transactions(s.kind)) = 2
      BY <2>6, <3>2, KindLengths
    <3>4. 2 \in 1..Len(Transactions(s.kind))
      BY <3>3
    <3>5. Onward(h, 2, n, step)
      BY <1>s, <2>1, <2>3, <2>6, <3>4 DEF Onward
    <3>6. Follows(h)
      BY <1>0, <3>1, <3>5 DEF Follows
    <3>7. QED
      BY <2>1, <3>6 DEF Affects
  <2>7. s.nonce + 1 \in Nat /\ s.nonce \in Nat
    BY <1>s, <2>1
  <2>8. CASE Effective(Sent(h)) /\ Approving(h) /\ Goes(h, 2, s.nonce + 1, "send")
    BY <2>6, <2>7, <2>8 DEF Approving
  <2>9. CASE Effective(Sent(h)) /\ s.kind = "start" /\ s.at = 1 /\ Goes(h, 2, s.nonce, "nonce")
    BY <2>6, <2>7, <2>9
  <2>10. QED
    BY <1>3, <2>4, <2>5, <2>8, <2>9, WaitForms
<1>4. CASE Check(h)
  <2>1. Busy(h) /\ s.step = "check" /\ ~OnBase /\ UNCHANGED chainVars /\ UNCHANGED signer
    BY <1>4, CheckForms DEF Check
  <2>2. CASE Goes(h, s.at, s.nonce, "nonce")
    <3>1. Onward(h, s.at, s.nonce, "nonce")
      BY <1>s, <2>1 DEF Onward
    <3>2. QED
      BY <1>0, <1>s, <2>1, <2>2, <3>1 DEF Follows, Affects
  <2>3. CASE s.kind = "create" /\ s.at = 2 /\ Goes(h, 3, s.nonce, "check")
    <3>1. 3 \in 1..Len(Transactions(s.kind))
      BY <2>3, KindFacts
    <3>2. Onward(h, 3, s.nonce, "check")
      BY <1>s, <2>1, <2>3, <3>1 DEF Onward
    <3>3. QED
      BY <1>0, <1>s, <2>1, <2>3, <3>2 DEF Follows, Affects
  <2>4. CASE /\ \/ s.kind = "create" /\ s.at = 3
                \/ s.kind = "register" /\ s.at = 1
             /\ Ends(h, "done")
    BY <2>1, <2>4 DEF Follows, Affects
  <2>5. QED
    BY <1>4, <2>2, <2>3, <2>4, CheckForms
<1>5. CASE SendTransaction(h)
  <2>1. /\ Busy(h) /\ s.step = "send" /\ ~OnBase
        /\ UNCHANGED <<signer, final, pool>>
    BY <1>5, SendTransactionForms
  <2>2. CASE /\ s.nonce > used /\ Execute(h) /\ Continues(h)
             /\ s.kind # "unread" => Sent(h) \notin reverted'
    <3>1. Executes(h)
      BY <2>1, <2>2 DEF Executes, At
    <3>2. SentOff(h)
      BY <2>1, <2>2, ExecutesSentOff
    <3>3. CASE Ends(h, "done") /\ InBackground(h) /\ s.at = 3
      BY <2>1, <3>1, <3>3 DEF Affects, Follows, InBackground
    <3>4. CASE Goes(h, 2, s.nonce, "delay") /\ InBackground(h) /\ s.at = 2
      <4>1. s.kind = "create" /\ 2 \in 1..Len(Transactions(s.kind))
        BY <3>4, KindFacts DEF InBackground
      <4>2. Onward(h, 2, s.nonce, "delay")
        BY <1>s, <2>1, <3>4, <4>1 DEF Onward
      <4>3. "delay" \in steps
        OBVIOUS
      <4>4. QED
        BY <1>0, <1>s, <2>1, <3>1, <3>4, <4>2, <4>3 DEF Affects, Follows
    <3>5. CASE Ends(h, "done") /\ s.kind \in {"call", "unread", "register"} /\ s.at = 1
      <4>1. s.at = Decisive(s.kind)
        BY <3>5, Decides
      <4>2. QED
        BY <2>1, <3>1, <3>2, <3>5, <4>1 DEF Affects, Follows
    <3>6. CASE Created(h) /\ s.kind = "create" /\ s.at = 1
      BY <2>1, <3>1, <3>2, <3>6 DEF Affects, Follows
    <3>7. QED
      BY <2>1, <2>2, <3>3, <3>4, <3>5, <3>6, ContinuesForms
  <2>3. CASE Breaks(h) /\ UNCHANGED <<used, ledger, reverted, registered>>
    BY <2>1, <2>3, BreaksFollows DEF Affects, chainVars
  <2>4. CASE s.nonce > used /\ Execute(h) /\ Breaks(h)
    <3>1. Executes(h)
      BY <2>1, <2>4 DEF Executes, At
    <3>2. QED
      BY <2>1, <2>4, <3>1, BreaksFollows DEF Affects
  <2>5. QED
    BY <1>5, <2>2, <2>3, <2>4, SendTransactionForms
<1>6. CASE DelayOver(h)
  <2>1. /\ Busy(h) /\ s.step = "delay" /\ ~OnBase /\ s.kind = "create" /\ s.at = 2
        /\ Goes(h, 3, s.nonce, "check") /\ UNCHANGED chainVars /\ UNCHANGED signer
    BY <1>6, DelayForms DEF DelayOver
  <2>2. 3 \in 1..Len(Transactions(s.kind))
    BY <2>1, KindFacts
  <2>3. Onward(h, 3, s.nonce, "check")
    BY <1>s, <2>1, <2>2 DEF Onward
  <2>4. QED
    BY <1>0, <1>s, <2>1, <2>3 DEF Follows, Affects
<1>7. CASE StepFails(h)
  <2>1. /\ Busy(h) /\ Breaks(h) /\ s.step # "delay" /\ UNCHANGED <<signer, final>>
    BY <1>7, FailsForms
  <2>2. Follows(h)
    BY <2>1, BreaksFollows
  <2>3. Affects(h)
    <3>1. CASE UNCHANGED <<used, pool, ledger, reverted, registered>>
      BY <2>1, <3>1 DEF Affects, chainVars
    <3>2. CASE /\ OnBase /\ s.step = "send" /\ s.nonce >= used
               /\ \A p \in pool : p.nonce # s.nonce
               /\ pool' = pool \cup {[nonce |-> s.nonce, tx |-> Sent(h)]}
               /\ UNCHANGED <<used, ledger, reverted, registered>>
      <4>1. Taken(s.nonce) = {}
        BY <3>2 DEF Taken
      <4>2. pool' = (pool \ Taken(s.nonce)) \cup {[nonce |-> s.nonce, tx |-> Sent(h)]}
        BY <3>2, <4>1
      <4>3. QED
        BY <2>1, <3>2, <4>2 DEF Affects, Pools, At
    <3>3. CASE /\ ~OnBase /\ s.step = "send" /\ s.nonce > used
               /\ Execute(h) /\ UNCHANGED pool
      BY <2>1, <3>3 DEF Affects, Executes, At
    <3>4. QED
      BY <1>7, <3>1, <3>2, <3>3, FailsForms
  <2>4. QED
    BY <2>1, <2>2, <2>3
<1>8. QED
  BY <1>1, <1>2, <1>3, <1>4, <1>5, <1>6, <1>7 DEF Serve

-----------------------------------------------------------------------------
(* Types                                                                   *)

\* The operation of h is answered.
Answer(h, status) ==
  LET t == handler[h].task
  IN /\ operation' \in [Tasks -> Operation]
     /\ operation'[t] = [kind |-> handler[h].kind, status |-> status]
     /\ \A u \in Tasks \ {t} : operation'[u] = operation[u]

\* An answer sets the status of the operation.
LEMMA Answers ==
  ASSUME TypeOK, OperationsInv, NEW h \in Handlers, Busy(h), NEW status \in {"done", "failed"},
         operation' = [operation EXCEPT ![handler[h].task].status = status]
  PROVE  Answer(h, status)
<1> DEFINE t == handler[h].task
           o == [operation[t] EXCEPT !.status = status]
<1>1. /\ t \in Tasks /\ operation \in [Tasks -> Operation]
      /\ operation[t].kind = handler[h].kind
  <2>1. t \in Tasks /\ Running(handler[h])
    BY Serving
  <2>2. operation[t].kind = handler[h].kind
    BY <2>1 DEF Running
  <2>3. QED
    BY <2>1, <2>2 DEF TypeOK
<1>2. operation' = [operation EXCEPT ![t] = o]
  BY <1>1
<1>3. o = [kind |-> handler[h].kind, status |-> status] /\ o \in Operation
  BY <1>1 DEF Operation
<1> HIDE DEF o
<1>4. QED
  BY <1>1, <1>2, <1>3 DEF Answer

\* An operation that begins.
Begun(h, t, s) ==
  /\ At(h, "idle") /\ operation[t].status = "none" /\ s \in State /\ Becomes(h, s)
  /\ s.task = t /\ s.kind \in Kinds(signer) /\ s.at = 1
  /\ s.step \in IF OnBase THEN {"nonce"} ELSE {"check", "nonce"}
  /\ s.step = "check" => s.kind = "register"
  /\ s.kind = "create" => s.account = t
  /\ s.kind = "register" => /\ s.account \in Tasks \ {t}
                            /\ operation[s.account] = [kind |-> "create", status |-> "done"]
  /\ s.account \in Tasks /\ s.nonce = 0
  /\ operation' \in [Tasks -> Operation]
  /\ operation'[t] = [kind |-> s.kind, status |-> "running"]
  /\ \A u \in Tasks \ {t} : operation'[u] = operation[u]
  /\ UNCHANGED <<signer, chainVars, races, failures>>

\* An operation that begins has a task of its own.
LEMMA BeginsBegun ==
  ASSUME TypeOK, NEW h \in Handlers, NEW kind \in KindNames, NEW account \in 0..MaxTasks,
         NEW step \in {"check", "nonce"}, Begins(h, kind, account, step),
         kind = "create" => account = 0,
         step = "check" <=> kind = "register",
         kind = "register" => /\ account \in Tasks
                              /\ operation[account] = [kind |-> "create", status |-> "done"]
  PROVE  \E t \in Tasks, s \in State : Begun(h, t, s)
<1>1. PICK t \in Tasks :
        /\ operation[t].status = "none"
        /\ operation' = [operation EXCEPT ![t] = [kind |-> kind, status |-> "running"]]
        /\ handler' = [handler EXCEPT ![h] =
             [task |-> t, account |-> IF account = 0 THEN t ELSE account,
              kind |-> kind, at |-> 1, nonce |-> 0, step |-> step]]
  BY DEF Begins
<1> DEFINE a == IF account = 0 THEN t ELSE account
           s == [task |-> t, account |-> a, kind |-> kind, at |-> 1, nonce |-> 0, step |-> step]
           o == [kind |-> kind, status |-> "running"]
<1>3. a \in Tasks /\ (kind = "register" => a = account)
  BY BoundAssumption DEF Tasks
<1>4. s \in State
  BY <1>3, BoundAssumption DEF State, Tasks
<1>5. handler' = [handler EXCEPT ![h] = s]
  BY <1>1
<1>6. o \in Operation
  BY DEF Operation
<1>7. kind = "create" => a = t
  OBVIOUS
<1>8. At(h, "idle") /\ kind \in Kinds(signer) /\ UNCHANGED <<signer, chainVars, races, failures>>
  BY DEF Begins
<1>9. step \in IF OnBase THEN {"nonce"} ELSE {"check", "nonce"}
  BY <1>8 DEF Kinds, OnBase, KeyOwners, TypeOK
<1>10. kind = "register" => a # t
  BY <1>1, <1>3
<1>11. s.task = t /\ s.account = a /\ s.kind = kind /\ s.at = 1 /\ s.nonce = 0 /\ s.step = step
  OBVIOUS
<1> HIDE DEF s
<1>12. Becomes(h, s)
  BY <1>4, <1>5, Put
<1> HIDE DEF o, a
<1>13. /\ operation' \in [Tasks -> Operation] /\ operation'[t] = o
       /\ \A u \in Tasks \ {t} : operation'[u] = operation[u]
  BY <1>1, <1>6 DEF TypeOK, o
<1>14. Begun(h, t, s)
  BY <1>1, <1>3, <1>4, <1>7, <1>8, <1>9, <1>10, <1>11, <1>12, <1>13 DEF Begun, o
<1>15. QED
  BY <1>4, <1>14

\* Every way in which an operation begins.
LEMMA StartsBegun ==
  ASSUME TypeOK, NEW h \in Handlers,
         \/ \E k \in {"call", "start", "contribute", "unread", "create"} : Start(h, k)
         \/ \E a \in Tasks : StartRegistration(h, a)
  PROVE  \E t \in Tasks, s \in State : Begun(h, t, s)
<1>0. 0 \in 0..MaxTasks /\ Tasks \subseteq 0..MaxTasks
  BY BoundAssumption DEF Tasks
<1>1. CASE \E k \in {"call", "start", "contribute", "unread", "create"} : Start(h, k)
  <2>1. PICK k \in {"call", "start", "contribute", "unread", "create"} : Begins(h, k, 0, "nonce")
    BY <1>1 DEF Start
  <2>2. k \in KindNames /\ k # "register"
    BY DEF KindNames
  <2>3. QED
    BY <1>0, <2>1, <2>2, BeginsBegun
<1>2. CASE \E a \in Tasks : StartRegistration(h, a)
  <2>1. PICK a \in Tasks : /\ operation[a] = [kind |-> "create", status |-> "done"]
                           /\ Begins(h, "register", a, "check")
    BY <1>2 DEF StartRegistration
  <2>2. "register" \in KindNames
    BY DEF KindNames
  <2>3. QED
    BY <1>0, <2>1, <2>2, BeginsBegun
<1>3. QED
  BY <1>1, <1>2

\* A step of the model is one of these.
LEMMA NextCases ==
  ASSUME TypeOK, OperationsInv, Next
  PROVE  \/ \E h \in Handlers, t \in Tasks, s \in State : Begun(h, t, s)
         \/ \E h \in Handlers : Serve(h) \/ StepFails(h)
         \/ Mine \/ Settle
<1>1. CASE Mine \/ Settle
  BY <1>1
<1>2. ASSUME NEW h \in Handlers,
             \/ \E k \in {"call", "start", "contribute", "unread", "create"} : Start(h, k)
             \/ \E a \in Tasks : StartRegistration(h, a)
      PROVE  \E g \in Handlers, t \in Tasks, s \in State : Begun(g, t, s)
  BY <1>2, StartsBegun
<1>3. QED
  BY <1>1, <1>2 DEF Next

\* A transaction that is executed may become a reverted one, and no other does.
LEMMA Reverts ==
  ASSUME TypeOK, NEW x \in Tx, MayRevert(x)
  PROVE  /\ reverted' \subseteq Tx /\ IsFiniteSet(reverted')
         /\ reverted \subseteq reverted'
         /\ \A y : y # x => (y \in reverted' <=> y \in reverted)
<1>1. CASE UNCHANGED reverted
  BY <1>1 DEF TypeOK
<1>2. CASE reverted' = reverted \cup {x}
  <2>1. IsFiniteSet(reverted \cup {x})
    BY FS_AddElement DEF TypeOK
  <2>2. QED
    BY <1>2, <2>1 DEF TypeOK
<1>3. QED
  BY <1>1, <1>2 DEF MayRevert

\* Where a call or a transaction may fail there is some of the budget left.
LEMMA Budget ==
  ASSUME TypeOK, MayFail
  PROVE  failures + 1 \in 0..MaxFailures
<1>1. Cardinality(reverted) \in Nat
  BY FS_CardinalityType DEF TypeOK
<1>2. QED
  BY <1>1, BoundAssumption DEF TypeOK, MayFail

\* What was counted, and what overtook what, is not forgotten.
LEMMA HistoryStep ==
  ASSUME TypeOK, NEW h \in Handlers, Serve(h) \/ StepFails(h)
  PROVE  /\ races' \subseteq {"overlap", "latest", "stale"} /\ races \subseteq races'
         /\ failures' \in 0..MaxFailures /\ (failures' = 0 => failures = 0)
         /\ failures' = 0 => ~StepFails(h)
<1>1. CASE Serve(h)
  <2>1. failures' = failures
    BY <1>1 DEF Serve, ReadNonce, Send, Wait, Check, ReadAccessKey, SendTransaction, DelayOver
  <2>f. ~StepFails(h) /\ failures' \in 0..MaxFailures
    <3>1. failures \in Nat
      BY BoundAssumption DEF TypeOK
    <3>2. failures + 1 # failures
      BY <3>1
    <3>3. QED
      BY <2>1, <3>2 DEF StepFails, TypeOK
  <2>2. CASE UNCHANGED races
    BY <2>1, <2>2, <2>f DEF TypeOK
  <2>3. CASE ReadNonce(h) \/ ReadAccessKey(h)
    <3>1. \E r : r \subseteq {"overlap", "latest", "stale"} /\ races' = races \cup r
      <4>1. PICK q : q \subseteq {"overlap", "latest", "stale"} /\ Records(q)
        <5>1. CASE ReadNonce(h)
          <6>1. {r \in {"overlap", "latest"} :
                   IF r = "overlap" THEN Holding(h)
                   ELSE handler[h].kind = "contribute" /\ pool # {}} \subseteq {"overlap", "latest", "stale"}
            OBVIOUS
          <6>2. QED
            BY <5>1, <6>1 DEF ReadNonce
        <5>2. CASE ReadAccessKey(h)
          <6>1. {r \in {"overlap", "stale"} :
                   IF r = "overlap" THEN Holding(h)
                   ELSE /\ final < used
                        /\ ~(handler[h].at = 3 /\ used = handler[h].nonce)} \subseteq {"overlap", "latest", "stale"}
            OBVIOUS
          <6>2. QED
            BY <5>2, <6>1 DEF ReadAccessKey
        <5>3. QED
          BY <2>3, <5>1, <5>2
      <4>2. races' = races \cup q \/ races' = races \cup {}
        BY <4>1 DEF Records
      <4>3. QED
        BY <4>1, <4>2
    <3>2. PICK r : r \subseteq {"overlap", "latest", "stale"} /\ races' = races \cup r
      BY <3>1
    <3>3. races' \subseteq {"overlap", "latest", "stale"} /\ races \subseteq races'
      BY <3>2 DEF TypeOK
    <3>4. QED
      BY <2>1, <2>f, <3>3
  <2>4. QED
    BY <1>1, <2>2, <2>3 DEF Serve, Send, Wait, Check, SendTransaction, DelayOver
<1>2. CASE StepFails(h)
  BY <1>2, BoundAssumption, Budget DEF StepFails, TypeOK
<1>3. QED
  BY <1>1, <1>2

\* The types of the chain.
LEMMA AffectsType ==
  ASSUME TypeOK, OperationsInv, NEW h \in Handlers, Busy(h), Affects(h)
  PROVE  /\ used' \in Nat /\ final' \in Nat
         /\ pool' \subseteq [nonce: Nat, tx: Tx] /\ IsFiniteSet(pool')
         /\ ledger' \in Seq(Tx) /\ registered' \subseteq Tasks \X Tokens
         /\ reverted' \subseteq Tx /\ IsFiniteSet(reverted')
<1> DEFINE s == handler[h]
           x == Sent(h)
<1>1. x \in Tx /\ s.nonce \in Nat /\ Running(s)
  BY Serving DEF State
<1>2. s.account \in Tasks
  BY <1>1 DEF Running
<1>3. CASE UNCHANGED chainVars
  BY <1>3 DEF TypeOK, chainVars
<1>4. CASE Pools(h)
  <2> DEFINE kept == pool \ Taken(s.nonce)
             p == [nonce |-> s.nonce, tx |-> x]
  <2>1. pool' = kept \cup {p} /\ UNCHANGED <<used, final, ledger, reverted, registered>>
    BY <1>4 DEF Pools
  <2>2. kept \subseteq pool /\ p \in [nonce: Nat, tx: Tx]
    BY <1>1
  <2>3. IsFiniteSet(kept)
    BY <2>2, FS_Subset DEF TypeOK
  <2> HIDE DEF kept, p
  <2>4. IsFiniteSet(kept \cup {p})
    BY <2>3, FS_AddElement
  <2>5. QED
    BY <2>1, <2>2, <2>4 DEF TypeOK
<1>5. CASE Executes(h)
  <2>1. /\ used' = s.nonce /\ UNCHANGED <<final, pool>> /\ ledger' = Append(ledger, x)
        /\ MayRevert(x)
        /\ \/ registered' = registered
           \/ Registers(h) /\ registered' = registered \cup {<<s.account, TokenOf(h)>>}
    BY <1>5 DEF Executes, Execute
  <2>r. reverted' \subseteq Tx /\ IsFiniteSet(reverted')
    BY <1>1, <2>1, Reverts
  <2>2. registered' \subseteq Tasks \X Tokens
    BY <1>2, <2>1 DEF Registers, TypeOK
  <2> HIDE DEF x
  <2>3. ledger' \in Seq(Tx)
    BY <1>1, <2>1 DEF TypeOK
  <2>4. QED
    BY <1>1, <2>1, <2>2, <2>3, <2>r DEF TypeOK
<1>6. QED
  BY <1>3, <1>4, <1>5 DEF Affects

\* What becomes of the operations.
Answered(h) ==
  \/ UNCHANGED operation
  \/ Answer(h, "done")
  \/ Answer(h, "failed") /\ ~InBackground(h)

\* A step answers the operation or leaves it as it is.
LEMMA FollowsAnswered ==
  ASSUME TypeOK, OperationsInv, NEW h \in Handlers, Busy(h), Follows(h)
  PROVE  Answered(h) /\ Becomes(h, handler'[h])
<1>1. CASE \E at, nonce, step : Goes(h, at, nonce, step)
  BY <1>1 DEF Goes, Becomes, Answered
<1>2. CASE Ends(h, "failed") /\ ~InBackground(h)
  BY <1>2, Answers DEF Ends, Becomes, Answered
<1>3. CASE Ends(h, "done")
  BY <1>3, Answers DEF Ends, Becomes, Answered
<1>4. CASE Created(h)
  BY <1>4, Answers DEF Created, Becomes, Answered
<1>5. QED
  BY <1>1, <1>2, <1>3, <1>4 DEF Follows

\* The transaction whose nonce is next is executed.
LEMMA MineForm ==
  ASSUME TypeOK, Mine
  PROVE  \E p \in pool :
           /\ p.nonce = used /\ p.tx \in Tx /\ pool' = pool \ {p}
           /\ ledger' = Append(ledger, p.tx) /\ MayRevert(p.tx)
           /\ used' = used + 1 /\ final' = used + 1
           /\ UNCHANGED <<signer, registered, operation, handler, races, failures>>
<1>1. PICK p \in pool : /\ p.nonce = used /\ pool' = pool \ {p}
                        /\ ledger' = Append(ledger, p.tx) /\ MayRevert(p.tx)
  BY DEF Mine
<1>2. p.tx \in Tx
  BY DEF TypeOK
<1>3. QED
  BY <1>1, <1>2 DEF Mine

\* Every step keeps the types.
LEMMA TypeStep ==
  ASSUME TypeOK, OperationsInv, Next
  PROVE  TypeOK'
<1>1. ASSUME NEW h \in Handlers, NEW t \in Tasks, NEW s \in State, Begun(h, t, s)
      PROVE  TypeOK'
  BY <1>1 DEF Begun, Becomes, TypeOK, chainVars
<1>2. ASSUME NEW h \in Handlers, Serve(h) \/ StepFails(h) PROVE TypeOK'
  <2>1. Busy(h) /\ Follows(h) /\ Affects(h) /\ UNCHANGED signer
    BY <1>2, ServeFollows
  <2>2. operation' \in [Tasks -> Operation] /\ handler' \in [Handlers -> State]
    BY <2>1, FollowsAnswered DEF Answered, Answer, Becomes, TypeOK
  <2>3. QED
    BY <1>2, <2>1, <2>2, AffectsType, HistoryStep DEF TypeOK
<1>3. CASE Mine
  <2>1. PICK p \in pool :
           /\ p.nonce = used /\ p.tx \in Tx /\ pool' = pool \ {p}
           /\ ledger' = Append(ledger, p.tx) /\ MayRevert(p.tx)
           /\ used' = used + 1 /\ final' = used + 1
           /\ UNCHANGED <<signer, registered, operation, handler, races, failures>>
    BY <1>3, MineForm
  <2>2. IsFiniteSet(pool')
    BY <2>1, FS_Subset DEF TypeOK
  <2>3. ledger' \in Seq(Tx)
    BY <2>1 DEF TypeOK
  <2>r. reverted' \subseteq Tx /\ IsFiniteSet(reverted')
    BY <2>1, Reverts
  <2>4. QED
    BY <2>1, <2>2, <2>3, <2>r DEF TypeOK
<1>4. CASE Settle
  BY <1>4 DEF Settle, TypeOK
<1>5. QED
  BY <1>1, <1>2, <1>3, <1>4, NextCases

-----------------------------------------------------------------------------
(* What is in flight                                                       *)

\* What the ledger holds after one more transaction.
LEMMA AppendExecuted ==
  ASSUME TypeOK, NEW y \in Tx, ledger' = Append(ledger, y)
  PROVE  /\ Len(ledger') = Len(ledger) + 1 /\ ledger'[Len(ledger) + 1] = y
         /\ \A i \in 1..Len(ledger) : ledger'[i] = ledger[i]
         /\ \A i \in 1..Len(ledger') : i \in 1..Len(ledger) \/ i = Len(ledger) + 1
         /\ \A x : Executed(x)' <=> Executed(x) \/ x = y
<1>1. ledger \in Seq(Tx) /\ Len(ledger) \in Nat
  BY LedgerType
<1>2. /\ Len(ledger') = Len(ledger) + 1 /\ ledger'[Len(ledger) + 1] = y
      /\ \A i \in 1..Len(ledger) : ledger'[i] = ledger[i]
  BY <1>1
<1>3. \A i \in 1..Len(ledger') : i \in 1..Len(ledger) \/ i = Len(ledger) + 1
  BY <1>1, <1>2
<1>4. \A i \in 1..Len(ledger) : i \in 1..Len(ledger')
  BY <1>1, <1>2
<1>5. Len(ledger) + 1 \in 1..Len(ledger')
  BY <1>1, <1>2
<1>6. QED
  BY <1>2, <1>3, <1>4, <1>5 DEF Executed

\* The ledger only grows, and a handler adds what it sends.
LEMMA FlightStep ==
  ASSUME TypeOK, OperationsInv, NEW h \in Handlers, Busy(h), Affects(h)
  PROVE  \A x \in Tx :
           /\ Executed(x) => Executed(x)'
           /\ InFlight(x)' => InFlight(x) \/ (x = Sent(h) /\ At(h, "send"))
           /\ Executed(x)' => Executed(x) \/ x = Sent(h)
<1> DEFINE y == Sent(h)
<1>1. y \in Tx
  BY Serving
<1>2. CASE UNCHANGED chainVars
  BY <1>2 DEF chainVars, Executed, InFlight, Pending
<1>3. CASE Pools(h)
  <2>1. ledger' = ledger /\ At(h, "send")
    BY <1>3 DEF Pools
  <2>2. \A p \in pool' : p \in pool \/ p.tx = y
    BY <1>3 DEF Pools
  <2> HIDE DEF y
  <2>3. \A x : Pending(x)' => Pending(x) \/ x = y
    BY <2>2 DEF Pending
  <2>4. \A x : Executed(x)' <=> Executed(x)
    BY <2>1 DEF Executed
  <2>5. QED
    BY <2>1, <2>3, <2>4 DEF InFlight, y
<1>4. CASE Executes(h)
  <2>1. ledger' = Append(ledger, y) /\ At(h, "send") /\ pool' = pool
    BY <1>4 DEF Executes, Execute
  <2> HIDE DEF y
  <2>2. \A x : Executed(x)' <=> Executed(x) \/ x = y
    BY <1>1, <2>1, AppendExecuted
  <2>3. \A x : Pending(x)' <=> Pending(x)
    BY <2>1 DEF Pending
  <2>4. QED
    BY <2>1, <2>2, <2>3 DEF InFlight, y
<1>5. QED
  BY <1>2, <1>3, <1>4 DEF Affects

\* A transaction that is mined stays in flight.
LEMMA MineFlight ==
  ASSUME TypeOK, Mine
  PROVE  \A x \in Tx : InFlight(x)' <=> InFlight(x)
<1>1. PICK p \in pool : p.tx \in Tx /\ pool' = pool \ {p} /\ ledger' = Append(ledger, p.tx)
  BY MineForm
<1>2. \A x : Executed(x)' <=> Executed(x) \/ x = p.tx
  BY <1>1, AppendExecuted
<1>3. \A x : Pending(x)' => Pending(x)
  BY <1>1 DEF Pending
<1>4. \A x : Pending(x) => Pending(x)' \/ x = p.tx
  BY <1>1 DEF Pending
<1>5. Pending(p.tx)
  BY DEF Pending
<1>6. QED
  BY <1>2, <1>3, <1>4, <1>5 DEF InFlight

\* What a handler is about to send is not in flight.
LEMMA NotSent ==
  ASSUME TypeOK, OperationsInv, NEW h \in Handlers, Busy(h), At(h, "send")
  PROVE  ~InFlight(Sent(h))
<1>1. PICK x \in Tx : x = Sent(h)
  BY Serving
<1>2. x.task = handler[h].task /\ x.at = handler[h].at /\ handler[h].at \in 1..3
  BY <1>1, Serving DEF Sent
<1>3. ~InFlight(x)
  BY <1>2 DEF OperationsInv, At
<1>4. QED
  BY <1>1, <1>3

\* What took effect is not undone.
LEMMA TookStep ==
  ASSUME TypeOK, OperationsInv, NEW h \in Handlers, Busy(h), Affects(h)
  PROVE  /\ reverted \subseteq reverted'
         /\ \A x \in Tx : Took(x) => Took(x)'
<1>1. \A x \in Tx : Executed(x) => Executed(x)'
  BY FlightStep
<1>2. /\ reverted \subseteq reverted'
      /\ \A x \in Tx : Executed(x) /\ x \in reverted' => x \in reverted
  <2>1. CASE reverted' = reverted
    BY <2>1
  <2>2. CASE Executes(h)
    <3>1. MayRevert(Sent(h)) /\ At(h, "send") /\ Sent(h) \in Tx
      BY <2>2, Serving DEF Executes, Execute
    <3>2. ~Executed(Sent(h))
      BY <3>1, NotSent DEF InFlight
    <3>3. QED
      BY <3>1, <3>2, Reverts
  <2>3. QED
    BY <2>1, <2>2 DEF Affects, chainVars, Pools
<1>3. QED
  BY <1>1, <1>2 DEF Took

\* The same when a transaction of the pool is mined: it was not executed before.
LEMMA MineTook ==
  ASSUME TypeOK, PoolInv, Mine
  PROVE  /\ reverted \subseteq reverted'
         /\ \A x \in Tx : Took(x) => Took(x)'
<1>1. PICK p \in pool : p.tx \in Tx /\ ledger' = Append(ledger, p.tx) /\ MayRevert(p.tx)
  BY MineForm
<1>2. \A x : Executed(x)' <=> Executed(x) \/ x = p.tx
  BY <1>1, AppendExecuted
<1>3. ~Executed(p.tx)
  BY DEF PoolInv
<1>4. /\ reverted \subseteq reverted'
      /\ \A x : x # p.tx => (x \in reverted' <=> x \in reverted)
  BY <1>1, Reverts
<1>5. QED
  BY <1>2, <1>3, <1>4 DEF Took

\* Every step keeps PoolInv.
LEMMA PoolStep ==
  ASSUME TypeOK, OperationsInv, PoolInv, Next
  PROVE  PoolInv'
<1>1. ASSUME ledger' = ledger, pool' = pool PROVE PoolInv'
  BY <1>1 DEF PoolInv, Executed
<1>2. ASSUME NEW h \in Handlers, Busy(h), Affects(h) PROVE PoolInv'
  <2> DEFINE y == Sent(h)
             e == [nonce |-> handler[h].nonce, tx |-> y]
  <2>1. y \in Tx
    BY <1>2, Serving
  <2>2. CASE Pools(h)
    <3>1. /\ pool' = (pool \ Taken(handler[h].nonce)) \cup {e} /\ ledger' = ledger
          /\ At(h, "send")
      BY <2>2 DEF Pools
    <3>2. ~Executed(y) /\ \A p \in pool : p.tx # y
      BY <1>2, <3>1, NotSent DEF InFlight, Pending
    <3>3. e.tx = y
      OBVIOUS
    <3> HIDE DEF e, y
    <3>4. \A p \in pool' : p \in pool \/ p = e
      BY <3>1
    <3>5. \A x : Executed(x)' <=> Executed(x)
      BY <3>1 DEF Executed
    <3>6. ASSUME NEW p \in pool', NEW q \in pool'
          PROVE  ~Executed(p.tx)' /\ (p.tx = q.tx => p = q)
      <4>1. ~Executed(p.tx)
        BY <3>2, <3>3, <3>4 DEF PoolInv
      <4>2. p.tx = q.tx => p = q
        BY <3>2, <3>3, <3>4 DEF PoolInv
      <4>3. QED
        BY <3>5, <4>1, <4>2
    <3>7. QED
      BY <3>6 DEF PoolInv, Executed
  <2>3. CASE Executes(h)
    <3>1. pool' = pool /\ ledger' = Append(ledger, y) /\ At(h, "send")
      BY <2>3 DEF Executes, Execute
    <3>2. \A p \in pool : p.tx # y
      BY <1>2, <3>1, NotSent DEF InFlight, Pending
    <3> HIDE DEF y
    <3>3. \A x : Executed(x)' <=> Executed(x) \/ x = y
      BY <2>1, <3>1, AppendExecuted
    <3>4. ASSUME NEW p \in pool', NEW q \in pool'
          PROVE  ~Executed(p.tx)' /\ (p.tx = q.tx => p = q)
      BY <3>1, <3>2, <3>3 DEF PoolInv
    <3>5. QED
      BY <3>4 DEF PoolInv, Executed
  <2>4. QED
    BY <1>1, <1>2, <2>2, <2>3 DEF Affects, chainVars
<1>3. CASE Mine
  <2>1. PICK p \in pool : p.tx \in Tx /\ pool' = pool \ {p} /\ ledger' = Append(ledger, p.tx)
    BY <1>3, MineForm
  <2>2. \A x : Executed(x)' <=> Executed(x) \/ x = p.tx
    BY <2>1, AppendExecuted
  <2>3. ASSUME NEW q \in pool', NEW r \in pool'
        PROVE  ~Executed(q.tx)' /\ (q.tx = r.tx => q = r)
    BY <2>1, <2>2 DEF PoolInv
  <2>4. QED
    BY <2>3 DEF PoolInv, Executed
<1>4. CASE Settle
  BY <1>1, <1>4 DEF Settle
<1>5. ASSUME NEW h \in Handlers, NEW t \in Tasks, NEW s \in State, Begun(h, t, s) PROVE PoolInv'
  BY <1>1, <1>5 DEF Begun, chainVars
<1>6. ASSUME NEW h \in Handlers, Serve(h) \/ StepFails(h) PROVE PoolInv'
  BY <1>2, <1>6, ServeFollows
<1>7. QED
  BY <1>3, <1>4, <1>5, <1>6, NextCases

-----------------------------------------------------------------------------
(* OperationsInv                                                           *)

\* Nothing changes what was answered, and a handler answers its own operation.
Kept(h) ==
  \A u \in Tasks :
    /\ operation[u].status # "none" =>
         operation'[u].status # "none" /\ operation'[u].kind = operation[u].kind
    /\ operation[u].status = "done" => operation'[u] = operation[u]
    /\ u # handler[h].task => operation'[u] = operation[u]

\* An answer changes no other operation, and none that was answered.
LEMMA AnsweredKept ==
  ASSUME TypeOK, OperationsInv, NEW h \in Handlers, Busy(h), Answered(h)
  PROVE  Kept(h)
<1> DEFINE s == handler[h]
           t == s.task
<1>1. Running(s) /\ t \in Tasks /\ operation \in [Tasks -> Operation]
  BY Serving DEF TypeOK
<1>2. operation[t] = [kind |-> s.kind,
                      status |-> IF s.kind = "create" /\ s.at > 1 THEN "done" ELSE "running"]
  BY <1>1 DEF Running
<1>3. CASE UNCHANGED operation
  BY <1>3 DEF Kept
<1>4. CASE Answer(h, "done")
  <2>1. operation'[t] = [kind |-> s.kind, status |-> "done"]
        /\ \A u \in Tasks \ {t} : operation'[u] = operation[u]
    BY <1>4 DEF Answer
  <2>2. operation[t].status = "done" => operation'[t] = operation[t]
    BY <1>2, <2>1
  <2>3. operation'[t].status = "done" /\ operation'[t].kind = operation[t].kind
    BY <1>2, <2>1
  <2>4. QED
    BY <2>1, <2>2, <2>3 DEF Kept
<1>5. CASE Answer(h, "failed") /\ ~InBackground(h)
  <2>1. operation'[t] = [kind |-> s.kind, status |-> "failed"]
        /\ \A u \in Tasks \ {t} : operation'[u] = operation[u]
    BY <1>5 DEF Answer
  <2>2. operation[t].status = "running" /\ operation'[t].kind = operation[t].kind
    BY <1>2, <1>5, <2>1 DEF InBackground
  <2>3. operation'[t].status = "failed"
    BY <2>1
  <2>4. QED
    BY <2>1, <2>2, <2>3 DEF Kept
<1>6. QED
  BY <1>3, <1>4, <1>5 DEF Answered

\* The operation of another handler is not touched.
LEMMA OthersRunning ==
  ASSUME TypeOK, OperationsInv, UNCHANGED signer, NEW g \in Handlers, Busy(g),
         handler'[g] = handler[g],
         operation'[handler[g].task] = operation[handler[g].task],
         \A u \in Tasks : operation[u].status = "done" => operation'[u] = operation[u]
  PROVE  Running(handler[g])'
<1> DEFINE s == handler[g]
<1>1. Running(s)
  BY Serving
<1>2. s.kind = "register" => operation'[s.account] = operation[s.account]
  <2> SUFFICES ASSUME s.kind = "register" PROVE operation'[s.account] = operation[s.account]
    OBVIOUS
  <2>1. s.account \in Tasks /\ operation[s.account] = [kind |-> "create", status |-> "done"]
    BY <1>1 DEF Running
  <2>2. operation[s.account].status = "done"
    BY <2>1
  <2>3. QED
    BY <2>1, <2>2
<1>3. QED
  BY <1>1, <1>2 DEF Running, OnBase

\* A handler goes on with its operation, one transaction after the other.
LEMMA FollowsRunning ==
  ASSUME TypeOK, OperationsInv, NEW h \in Handlers, Busy(h), Follows(h), Affects(h),
         UNCHANGED signer
  PROVE  \/ handler'[h] = Idle
         \/ /\ Running(handler[h])' /\ handler'[h].task = handler[h].task
            /\ handler'[h].kind = handler[h].kind
            /\ \/ handler'[h].at > handler[h].at
               \/ handler'[h].at = handler[h].at /\ handler[h].step \notin {"wait", "delay"}
            /\ handler[h].step = "send" =>
                 \/ handler'[h].at > handler[h].at
                 \/ handler'[h].step \in {"wait", "delay"}
            /\ handler[h].kind # "create" /\ handler'[h].at > handler[h].at =>
                 handler'[h].at = handler[h].at + 1 /\ SentOff(h)
<1> DEFINE s == handler[h]
<1>1. Running(s) /\ s.task \in Tasks
  BY Serving
<1>2. /\ s.task \in Tasks /\ s.account \in Tasks /\ s.kind \in Kinds(signer)
      /\ operation[s.task] =
           [kind |-> s.kind,
            status |-> IF s.kind = "create" /\ s.at > 1 THEN "done" ELSE "running"]
      /\ s.kind = "create" => s.account = s.task
      /\ s.kind = "register" => operation[s.account] = [kind |-> "create", status |-> "done"]
  BY <1>1 DEF Running
<1>3. ASSUME NEW at \in 1..3, NEW nonce \in Nat,
             NEW step \in {"check", "nonce", "send", "wait", "delay"},
             Goes(h, at, nonce, step), Onward(h, at, nonce, step)
      PROVE  /\ Running(handler[h])' /\ handler'[h].task = s.task /\ handler'[h].kind = s.kind
             /\ handler'[h].at > s.at \/ (handler'[h].at = s.at /\ s.step \notin {"wait", "delay"})
             /\ s.step = "send" => handler'[h].step \in {"wait", "delay"}
             /\ s.kind # "create" /\ handler'[h].at > s.at =>
                  handler'[h].at = s.at + 1 /\ SentOff(h)
  <2>1. handler'[h] = With(s, at, nonce, step) /\ UNCHANGED operation
    BY <1>3 DEF Goes, Becomes
  <2>2. /\ handler'[h].task = s.task /\ handler'[h].account = s.account
        /\ handler'[h].kind = s.kind /\ handler'[h].at = at
        /\ handler'[h].nonce = nonce /\ handler'[h].step = step
    BY <2>1 DEF With
  <2>3. operation'[s.task] =
           [kind |-> s.kind,
            status |-> IF s.kind = "create" /\ at > 1 THEN "done" ELSE "running"]
    BY <1>2, <1>3, <2>1 DEF Onward
  <2>4. Running(handler[h])'
    BY <1>2, <1>3, <2>1, <2>2, <2>3 DEF Running, Onward, OnBase
  <2>5. Took(Sent(h)) => SentOff(h)
    <3>1. PICK x \in Tx : x = Sent(h) /\ x.kind = s.kind
      BY Serving DEF Sent
    <3>2. Took(x) => Took(x)'
      BY TookStep
    <3>3. QED
      BY <3>1, <3>2 DEF Executed, Took, SentOff
  <2>6. QED
    BY <1>3, <2>2, <2>4, <2>5 DEF Onward
<1>4. CASE Created(h) /\ s.kind = "create" /\ s.at = 1
  <2>1. handler'[h] = With(s, 2, s.nonce, "check") /\ Answer(h, "done")
    BY <1>4, Answers DEF Created, Becomes
  <2>2. /\ handler'[h].task = s.task /\ handler'[h].account = s.account
        /\ handler'[h].kind = "create" /\ handler'[h].at = 2
        /\ handler'[h].nonce = s.nonce /\ handler'[h].step = "check"
    BY <1>4, <2>1 DEF With
  <2>3. operation'[s.task] = [kind |-> "create", status |-> "done"]
    BY <1>4, <2>1 DEF Answer
  <2>4. 2 \in 1..Len(Transactions("create")) /\ ~OnBase
    BY <1>4, KindFacts, Serving
  <2>5. Running(handler[h])'
    BY <1>2, <1>4, <2>2, <2>3, <2>4 DEF Running, OnBase
  <2>6. QED
    BY <1>4, <2>2, <2>5
<1>5. CASE handler'[h] = Idle
  BY <1>5
<1>6. CASE \E at \in 1..3, nonce \in Nat, step \in {"check", "nonce", "send", "wait", "delay"} :
             Goes(h, at, nonce, step) /\ Onward(h, at, nonce, step)
  <2>1. PICK at \in 1..3, nonce \in Nat, step \in {"check", "nonce", "send", "wait", "delay"} :
             Goes(h, at, nonce, step) /\ Onward(h, at, nonce, step)
    BY <1>6
  <2>2. QED
    BY <1>3, <2>1
<1>7. QED
  BY <1>4, <1>5, <1>6 DEF Follows, Ends, Becomes

\* An account is registered after it was created.
LEMMA ServeRegistered ==
  ASSUME TypeOK, OperationsInv, NEW h \in Handlers, Busy(h), Affects(h), Kept(h),
         NEW a \in Tasks, NEW k \in Tokens, <<a, k>> \in registered'
  PROVE  operation'[a] = [kind |-> "create", status |-> "done"]
<1> DEFINE s == handler[h]
<1>1. CASE <<a, k>> \in registered
  <2>1. operation[a] = [kind |-> "create", status |-> "done"]
    BY <1>1 DEF OperationsInv
  <2>2. operation[a].status = "done"
    BY <2>1
  <2>3. QED
    BY <2>1, <2>2 DEF Kept
<1>2. CASE <<a, k>> \notin registered
  <2>1. Executes(h)
    BY <1>2 DEF Affects, chainVars, Pools
  <2>2. Registers(h) /\ a = s.account
    BY <1>2, <2>1 DEF Executes, Execute
  <2>3. /\ Running(s) /\ s.kind \in {"call", "unread", "create", "register"}
        /\ s.at \in 1..Len(Transactions(s.kind)) /\ s.at \in 1..3
    BY <2>1, Serving DEF Executes
  <2>4. s.kind \notin {"call", "unread"}
    <3> SUFFICES ASSUME s.kind \in {"call", "unread"} PROVE FALSE
      OBVIOUS
    <3> DEFINE n == Len(Transactions(s.kind))
    <3>1. n = 1
      BY KindFacts
    <3>2. s.at \in 1..n
      BY <2>3
    <3> HIDE DEF n
    <3>3. s.at = 1
      BY <3>1, <3>2
    <3>4. TokenOf(h) = "pay"
      BY <3>3, KindFacts DEF TokenOf
    <3>5. QED
      BY <2>2, <3>4 DEF Registers, Tokens
  <2>5. CASE s.kind = "create"
    <3>1. s.at > 1
      <4> SUFFICES ASSUME s.at = 1 PROVE FALSE
        BY <2>3
      <4>1. TokenOf(h) = "account"
        BY <2>5, KindFacts DEF TokenOf
      <4>2. QED
        BY <2>2, <4>1 DEF Registers, Tokens
    <3>2. a = s.task /\ operation[a] = [kind |-> "create", status |-> "done"]
      BY <2>2, <2>3, <2>5, <3>1 DEF Running
    <3>3. operation[a].status = "done"
      BY <3>2
    <3>4. QED
      BY <3>2, <3>3 DEF Kept
  <2>6. CASE s.kind = "register"
    <3>1. operation[a] = [kind |-> "create", status |-> "done"]
      BY <2>2, <2>3, <2>6 DEF Running
    <3>2. operation[a].status = "done"
      BY <3>1
    <3>3. QED
      BY <3>1, <3>2 DEF Kept
  <2>7. QED
    BY <2>3, <2>4, <2>5, <2>6
<1>3. QED
  BY <1>1, <1>2

\* A transaction is in flight once, and those of an operation go off in order.
LEMMA ServeFlight ==
  ASSUME TypeOK, OperationsInv, NEW h \in Handlers, Busy(h), Affects(h), Follows(h), Kept(h),
         UNCHANGED signer, NEW x \in Tx, InFlight(x)'
  PROVE  /\ operation'[x.task].status # "none" /\ operation'[x.task].kind = x.kind
         /\ \A g \in Handlers : handler'[g].step # "idle" /\ handler'[g].task = x.task =>
              \/ x.at < handler'[g].at
              \/ x.at = handler'[g].at /\ handler'[g].step \in {"wait", "delay"}
<1> DEFINE s == handler[h]
<1>1. /\ Running(s) /\ s.task \in Tasks /\ Becomes(h, handler'[h]) /\ s.at \in 1..3
      /\ s \in State /\ x.task \in Tasks /\ x.at \in 1..3
  BY Serving, FollowsAnswered DEF Tx
<1>2. InFlight(x) \/ (x = Sent(h) /\ At(h, "send"))
  BY FlightStep
<1>3. CASE InFlight(x)
  <2>1. /\ operation[x.task].status # "none" /\ operation[x.task].kind = x.kind
        /\ \A g \in Handlers : Busy(g) /\ handler[g].task = x.task =>
             x.at < handler[g].at \/ (x.at = handler[g].at /\ handler[g].step \in {"wait", "delay"})
    BY <1>3 DEF OperationsInv
  <2>2. operation'[x.task].status # "none" /\ operation'[x.task].kind = x.kind
    BY <1>1, <2>1 DEF Kept
  <2>3. ASSUME NEW g \in Handlers, handler'[g].step # "idle", handler'[g].task = x.task
        PROVE  \/ x.at < handler'[g].at
               \/ x.at = handler'[g].at /\ handler'[g].step \in {"wait", "delay"}
    <3>1. CASE g # h
      BY <1>1, <2>1, <2>3, <3>1 DEF Becomes, Busy, At
    <3>2. CASE g = h
      <4>1. /\ handler'[h].task = s.task
            /\ \/ handler'[h].at > s.at
               \/ handler'[h].at = s.at /\ s.step \notin {"wait", "delay"}
        BY <2>3, <3>2, FollowsRunning DEF Idle
      <4>2. x.at < s.at \/ (x.at = s.at /\ s.step \in {"wait", "delay"})
        BY <2>1, <2>3, <3>2, <4>1
      <4>3. handler'[h].at \in Int
        BY <1>1 DEF Becomes, State
      <4>4. QED
        BY <1>1, <3>2, <4>1, <4>2, <4>3
    <3>3. QED
      BY <3>1, <3>2
  <2>4. QED
    BY <2>2, <2>3
<1>4. CASE x = Sent(h) /\ At(h, "send")
  <2>1. x.task = s.task /\ x.kind = s.kind /\ x.at = s.at /\ s.step = "send"
    BY <1>4 DEF Sent, At
  <2>2. operation[s.task].status # "none" /\ operation[s.task].kind = s.kind
    BY <1>1 DEF Running
  <2>3. operation'[x.task].status # "none" /\ operation'[x.task].kind = x.kind
    BY <1>1, <2>1, <2>2 DEF Kept
  <2>4. ASSUME NEW g \in Handlers, handler'[g].step # "idle", handler'[g].task = x.task
        PROVE  \/ x.at < handler'[g].at
               \/ x.at = handler'[g].at /\ handler'[g].step \in {"wait", "delay"}
    <3>1. g = h
      BY <1>1, <2>1, <2>4 DEF Becomes, Busy, At, OperationsInv
    <3>2. /\ \/ handler'[h].at > s.at
             \/ handler'[h].at = s.at /\ s.step \notin {"wait", "delay"}
          /\ handler'[h].at > s.at \/ handler'[h].step \in {"wait", "delay"}
      BY <2>1, <2>4, <3>1, FollowsRunning DEF Idle
    <3>3. handler'[h].at \in Int
      BY <1>1 DEF Becomes, State
    <3>4. QED
      BY <1>1, <2>1, <3>1, <3>2, <3>3
  <2>5. QED
    BY <2>3, <2>4
<1>5. QED
  BY <1>2, <1>3, <1>4

\* Every step of a handler keeps OperationsInv.
LEMMA ServeOperations ==
  ASSUME TypeOK, OperationsInv, NEW h \in Handlers, Serve(h) \/ StepFails(h), TypeOK'
  PROVE  OperationsInv'
<1> DEFINE s == handler[h]
<1>1. /\ Busy(h) /\ Follows(h) /\ Affects(h) /\ UNCHANGED signer
      /\ Answered(h) /\ Becomes(h, handler'[h]) /\ Kept(h)
  BY ServeFollows, FollowsAnswered, AnsweredKept
<1>2. handler'[h] = Idle \/ (Running(handler[h])' /\ handler'[h].task = s.task)
  BY <1>1, FollowsRunning
<1>3. ASSUME NEW g \in Handlers, Busy(g)' PROVE Running(handler[g])'
  <2>1. CASE g = h
    BY <1>2, <1>3, <2>1 DEF Idle, Busy, At
  <2>2. CASE g # h
    <3>1. handler'[g] = handler[g] /\ Busy(g)
      BY <1>1, <1>3, <2>2 DEF Becomes, Busy, At
    <3>2. handler[g].task \in Tasks /\ handler[g].task # s.task
      BY <1>1, <2>2, <3>1, Serving DEF OperationsInv
    <3>3. operation'[handler[g].task] = operation[handler[g].task]
      BY <1>1, <3>2 DEF Kept
    <3>4. \A u \in Tasks : operation[u].status = "done" => operation'[u] = operation[u]
      BY <1>1 DEF Kept
    <3>5. QED
      BY <1>1, <3>1, <3>3, <3>4, OthersRunning
  <2>3. QED
    BY <2>1, <2>2
<1>4. \A f, g \in Handlers :
        Busy(f)' /\ Busy(g)' /\ handler'[f].task = handler'[g].task => f = g
  <2>1. \A g \in Handlers : Busy(g)' => Busy(g) /\ handler'[g].task = handler[g].task
    BY <1>1, <1>2 DEF Becomes, Busy, At, Idle
  <2>2. QED
    BY <2>1 DEF OperationsInv
<1>5. \A t \in Tasks : operation'[t].status # "none" => operation'[t].kind \in Kinds(signer')
  <2>0. Running(s) /\ s.task \in Tasks
    BY <1>1, Serving
  <2>1. s.task \in Tasks /\ operation[s.task].status # "none"
    BY <2>0 DEF Running
  <2>2. QED
    BY <1>1, <2>1 DEF Kept, OperationsInv
<1>6. \A x \in Tx : InFlight(x)' =>
       /\ operation'[x.task].status # "none" /\ operation'[x.task].kind = x.kind
       /\ \A g \in Handlers : Busy(g)' /\ handler'[g].task = x.task =>
            \/ x.at < handler'[g].at
            \/ x.at = handler'[g].at /\ handler'[g].step \in {"wait", "delay"}
  BY <1>1, ServeFlight DEF Busy, At
<1>7. \A a \in Tasks, k \in Tokens : <<a, k>> \in registered' =>
        operation'[a] = [kind |-> "create", status |-> "done"]
  BY <1>1, ServeRegistered
<1>8. QED
  BY <1>3, <1>4, <1>5, <1>6, <1>7 DEF OperationsInv

\* An operation that begins is new.
LEMMA BegunOperations ==
  ASSUME TypeOK, OperationsInv, NEW h \in Handlers, NEW t \in Tasks, NEW s \in State,
         Begun(h, t, s)
  PROVE  OperationsInv'
<1>1. /\ ~Busy(h) /\ Becomes(h, s) /\ UNCHANGED <<signer, chainVars>>
      /\ operation[t].status = "none" /\ s.task = t
      /\ operation'[t] = [kind |-> s.kind, status |-> "running"]
      /\ \A u \in Tasks \ {t} : operation'[u] = operation[u]
  BY DEF Begun, Busy
<1>2. \A g \in Handlers : Busy(g) =>
        handler'[g] = handler[g] /\ handler[g].task \in Tasks \ {t} /\ Running(handler[g])
  <2> SUFFICES ASSUME NEW g \in Handlers, Busy(g)
               PROVE  handler'[g] = handler[g] /\ handler[g].task \in Tasks \ {t}
                      /\ Running(handler[g])
    OBVIOUS
  <2>1. Running(handler[g]) /\ handler[g].task \in Tasks
    BY Serving
  <2>2. operation[handler[g].task].status # "none"
    BY <2>1 DEF Running
  <2>3. QED
    BY <1>1, <2>1, <2>2 DEF Becomes
<1>3. \A u \in Tasks : operation[u].status = "done" => operation'[u] = operation[u]
  BY <1>1
<1>4. Running(handler[h])'
  <2>1. handler'[h] = s
    BY <1>1 DEF Becomes
  <2>2. 1 \in 1..Len(Transactions(s.kind))
    <3>1. s.kind \in Kinds(signer) /\ s.kind \in {"call", "start", "contribute", "unread", "create", "register"}
      BY DEF Begun, Kinds, KeyOwners, TypeOK
    <3> DEFINE n == Len(Transactions(s.kind))
    <3>2. s.kind \in KindNames
      BY <3>1 DEF KindNames
    <3>3. n \in {1, 2, 3}
      BY <3>1, <3>2, KindLengths
    <3> HIDE DEF n
    <3>4. 1 \in 1..n
      BY <3>3
    <3>5. QED
      BY <3>4 DEF n
  <2>3. /\ s.kind \in Kinds(signer) /\ s.at = 1 /\ s.account \in Tasks
        /\ s.step \in IF OnBase THEN {"nonce"} ELSE {"check", "nonce"}
        /\ s.step = "check" => s.kind = "register"
        /\ s.kind = "create" => s.account = t
        /\ s.kind = "register" => /\ s.account \in Tasks \ {t}
                                  /\ operation[s.account] = [kind |-> "create", status |-> "done"]
    BY DEF Begun
  <2>4. s.kind = "register" => operation'[s.account] = [kind |-> "create", status |-> "done"]
    BY <1>1, <2>3
  <2>5. QED
    BY <1>1, <2>1, <2>2, <2>3, <2>4 DEF Running, OnBase
<1>5. ASSUME NEW g \in Handlers, Busy(g)' PROVE Running(handler[g])'
  <2>1. CASE g = h
    BY <1>4, <2>1
  <2>2. CASE g # h
    <3>1. Busy(g)
      BY <1>1, <1>5, <2>2 DEF Becomes, Busy, At
    <3>2. operation'[handler[g].task] = operation[handler[g].task]
      BY <1>1, <1>2, <3>1
    <3>3. QED
      BY <1>1, <1>2, <1>3, <3>1, <3>2, OthersRunning
  <2>3. QED
    BY <2>1, <2>2
<1>6. \A f, g \in Handlers :
        Busy(f)' /\ Busy(g)' /\ handler'[f].task = handler'[g].task => f = g
  <2>1. \A g \in Handlers \ {h} : Busy(g)' => Busy(g) /\ handler'[g] = handler[g]
    BY <1>1 DEF Becomes, Busy, At
  <2>2. handler'[h].task = t
    BY <1>1 DEF Becomes
  <2>3. \A f, g \in Handlers : Busy(f) /\ Busy(g) /\ handler[f].task = handler[g].task => f = g
    BY DEF OperationsInv
  <2>4. QED
    BY <1>2, <2>1, <2>2, <2>3
<1>7. \A u \in Tasks : operation'[u].status # "none" => operation'[u].kind \in Kinds(signer')
  <2>1. s.kind \in Kinds(signer)
    BY DEF Begun
  <2>2. operation'[t].kind = s.kind
    BY <1>1
  <2>3. \A u \in Tasks : operation[u].status # "none" => operation[u].kind \in Kinds(signer)
    BY DEF OperationsInv
  <2>4. QED
    BY <1>1, <2>1, <2>2, <2>3
<1>8. ASSUME NEW x \in Tx, InFlight(x)'
      PROVE  /\ operation'[x.task].status # "none" /\ operation'[x.task].kind = x.kind
             /\ \A g \in Handlers : Busy(g)' /\ handler'[g].task = x.task =>
                  \/ x.at < handler'[g].at
                  \/ x.at = handler'[g].at /\ handler'[g].step \in {"wait", "delay"}
  <2>1. InFlight(x)
    BY <1>1, <1>8 DEF InFlight, Pending, Executed, chainVars
  <2>2. /\ operation[x.task].status # "none" /\ operation[x.task].kind = x.kind
        /\ \A g \in Handlers : Busy(g) /\ handler[g].task = x.task =>
             x.at < handler[g].at \/ (x.at = handler[g].at /\ handler[g].step \in {"wait", "delay"})
    BY <2>1 DEF OperationsInv
  <2>3. x.task \in Tasks \ {t}
    BY <1>1, <2>2 DEF Tx
  <2>4. ASSUME NEW g \in Handlers, Busy(g)', handler'[g].task = x.task
        PROVE  \/ x.at < handler'[g].at
               \/ x.at = handler'[g].at /\ handler'[g].step \in {"wait", "delay"}
    <3>1. g # h
      BY <1>1, <2>3, <2>4 DEF Becomes
    <3>2. handler'[g] = handler[g] /\ Busy(g)
      BY <1>1, <2>4, <3>1 DEF Becomes, Busy, At
    <3>3. QED
      BY <2>2, <2>4, <3>2
  <2>5. QED
    BY <1>1, <2>2, <2>3, <2>4
<1>9. \A a \in Tasks, k \in Tokens : <<a, k>> \in registered' =>
        operation'[a] = [kind |-> "create", status |-> "done"]
  <2> SUFFICES ASSUME NEW a \in Tasks, NEW k \in Tokens, <<a, k>> \in registered'
               PROVE  operation'[a] = [kind |-> "create", status |-> "done"]
    OBVIOUS
  <2>1. <<a, k>> \in registered
    BY <1>1 DEF chainVars
  <2>2. operation[a] = [kind |-> "create", status |-> "done"]
    BY <2>1 DEF OperationsInv
  <2>3. operation[a].status = "done"
    BY <2>2
  <2>4. QED
    BY <1>3, <2>2, <2>3
<1>10. QED
  BY <1>5, <1>6, <1>7, <1>8, <1>9 DEF OperationsInv

\* OperationsInv depends on the chain by what is in flight or registered.
LEMMA ChainOperations ==
  ASSUME TypeOK, OperationsInv, UNCHANGED <<signer, registered, operation, handler>>,
         \A x \in Tx : InFlight(x)' => InFlight(x)
  PROVE  OperationsInv'
<1>1. \A h \in Handlers : Busy(h)' <=> Busy(h)
  BY DEF Busy, At
<1>2. \A h \in Handlers : Running(handler[h]) => Running(handler[h])'
  BY DEF Running, OnBase
<1>3. QED
  BY <1>1, <1>2 DEF OperationsInv

\* Every step keeps OperationsInv.
LEMMA OperationsStep ==
  ASSUME TypeOK, OperationsInv, Next, TypeOK'
  PROVE  OperationsInv'
<1>1. CASE \E h \in Handlers, t \in Tasks, s \in State : Begun(h, t, s)
  BY <1>1, BegunOperations
<1>2. CASE \E h \in Handlers : Serve(h) \/ StepFails(h)
  BY <1>2, ServeOperations
<1>3. CASE Mine
  <2>1. UNCHANGED <<signer, registered, operation, handler>>
    BY <1>3 DEF Mine
  <2>2. QED
    BY <1>3, <2>1, MineFlight, ChainOperations
<1>4. CASE Settle
  <2>1. UNCHANGED <<signer, registered, operation, handler, pool, ledger>>
    BY <1>4 DEF Settle
  <2>2. \A x \in Tx : InFlight(x)' => InFlight(x)
    BY <2>1 DEF InFlight, Pending, Executed
  <2>3. QED
    BY <2>1, <2>2, ChainOperations
<1>5. QED
  BY <1>1, <1>2, <1>3, <1>4, NextCases

-----------------------------------------------------------------------------
(* OrderInv                                                                *)

\* The transaction before.
LEMMA BeforeForm ==
  ASSUME NEW x \in Tx, x.at > 1
  PROVE  /\ Before(x) = [task |-> x.task, kind |-> x.kind, at |-> x.at - 1]
         /\ Before(x) \in Tx
  BY DEF Before, Tx

\* An operation is answered as done when the transaction that decides is executed.
LEMMA FollowsDone ==
  ASSUME TypeOK, OperationsInv, NEW h \in Handlers, Busy(h), Follows(h),
         NEW t \in Tasks, operation[t].status # "done", operation'[t].status = "done"
  PROVE  /\ t = handler[h].task /\ operation'[t].kind = handler[h].kind
         /\ \/ handler[h].kind = "register"
            \/ handler[h].at = Decisive(handler[h].kind) /\ SentOff(h)
<1> DEFINE s == handler[h]
<1>1. Kept(h) /\ Running(s) /\ s.task \in Tasks
  BY FollowsAnswered, AnsweredKept, Serving
<1>2. t = s.task
  BY <1>1 DEF Kept
<1>3. operation[t].status # "none" /\ operation[t].kind = s.kind
  BY <1>1, <1>2 DEF Running
<1>4. operation'[t].kind = s.kind
  BY <1>1, <1>3 DEF Kept
<1>5. ~(s.kind = "create" /\ s.at > 1)
  BY <1>1, <1>2 DEF Running
<1>6. ~UNCHANGED operation
  OBVIOUS
<1>7. ~Ends(h, "failed")
  <2> SUFFICES ASSUME Ends(h, "failed") PROVE FALSE
    OBVIOUS
  <2>1. Answer(h, "failed")
    BY Answers DEF Ends
  <2>2. QED
    BY <1>2, <2>1 DEF Answer
<1>8. \/ s.kind = "register"
      \/ s.at = Decisive(s.kind) /\ SentOff(h)
      \/ s.kind = "create" /\ s.at = 1 /\ SentOff(h)
  BY <1>5, <1>6, <1>7 DEF Follows, Goes
<1>9. Decisive("create") = 1
  BY Decides
<1>10. QED
  BY <1>2, <1>4, <1>8, <1>9

\* Every step of a handler keeps the order.
LEMMA ServeOrder ==
  ASSUME TypeOK, OperationsInv, OrderInv, NEW h \in Handlers, Serve(h) \/ StepFails(h), TypeOK'
  PROVE  OrderInv'
<1> DEFINE s == handler[h]
<1>1. /\ Busy(h) /\ Follows(h) /\ Affects(h) /\ UNCHANGED signer
      /\ Answered(h) /\ Becomes(h, handler'[h]) /\ Kept(h)
  BY ServeFollows, FollowsAnswered, AnsweredKept
<1>2. PICK y \in Tx : y = Sent(h)
  BY <1>1, Serving
<1>3. /\ y.task = s.task /\ y.kind = s.kind /\ y.at = s.at
      /\ s.kind \in IF OnBase THEN {"call", "start", "contribute"} ELSE {"call", "unread", "create", "register"}
      /\ s.at \in 1..3 /\ s.task \in Tasks
  BY <1>1, <1>2, Serving DEF Sent
<1>4. \A x \in Tx : Executed(x) => Executed(x)'
  BY <1>1, FlightStep
<1>t. \A x \in Tx : Took(x) => Took(x)'
  BY <1>1, TookStep
<1>b. s.kind # "create" /\ s.at > 1 => Took(Before(y))
  BY <1>1, <1>2 DEF OrderInv
<1>5. s.kind # "create" /\ s.at > 1 => Executed(Before(y))
  BY <1>b DEF Took
<1>6. SentOff(h) => Took(y)'
  BY <1>2, <1>3 DEF SentOff, Took, Executed
<1>7. ASSUME NEW i \in 1..Len(ledger'), ledger'[i].kind # "create", ledger'[i].at > 1
      PROVE  \E j \in 1..(i - 1) : ledger'[j] = Before(ledger'[i])
  <2>1. CASE ledger' = ledger
    BY <1>7, <2>1 DEF OrderInv
  <2>2. CASE Executes(h)
    <3>1. ledger' = Append(ledger, y)
      BY <1>2, <2>2 DEF Executes, Execute
    <3>2. /\ Len(ledger') = Len(ledger) + 1 /\ ledger'[Len(ledger) + 1] = y
          /\ \A k \in 1..Len(ledger) : ledger'[k] = ledger[k]
          /\ \A k \in 1..Len(ledger') : k \in 1..Len(ledger) \/ k = Len(ledger) + 1
      BY <3>1, AppendExecuted
    <3>3. Len(ledger) \in Nat
      BY LedgerType
    <3>4. CASE i \in 1..Len(ledger)
      <4>1. PICK j \in 1..(i - 1) : ledger[j] = Before(ledger[i])
        BY <1>7, <3>2, <3>4 DEF OrderInv
      <4>2. j \in 1..Len(ledger)
        BY <3>3, <3>4
      <4>3. ledger'[j] = Before(ledger'[i])
        BY <3>2, <3>4, <4>1, <4>2
      <4>4. QED
        BY <4>3
    <3>5. CASE i = Len(ledger) + 1
      <4>1. Executed(Before(y))
        BY <1>3, <1>5, <1>7, <3>2, <3>5
      <4>2. PICK j \in 1..Len(ledger) : ledger[j] = Before(y)
        BY <4>1 DEF Executed
      <4>3. j \in 1..(i - 1) /\ ledger'[j] = Before(ledger'[i])
        BY <3>2, <3>3, <3>5, <4>2
      <4>4. QED
        BY <4>3
    <3>6. QED
      BY <3>2, <3>4, <3>5
  <2>3. QED
    BY <1>1, <2>1, <2>2 DEF Affects, chainVars, Pools
<1>8. ASSUME NEW p \in pool', p.tx.at > 1 PROVE Executed(Before(p.tx))'
  <2>1. p.tx \in Tx /\ Before(p.tx) \in Tx
    BY <1>8, BeforeForm DEF TypeOK
  <2>2. CASE p \in pool
    BY <1>4, <1>8, <2>1, <2>2 DEF OrderInv
  <2>3. CASE p \notin pool
    <3>1. Pools(h)
      BY <1>1, <2>3 DEF Affects, chainVars, Executes
    <3>2. p.tx = y /\ s.kind # "create"
      BY <1>2, <1>3, <2>3, <3>1 DEF Pools
    <3>3. Executed(Before(p.tx))
      BY <1>3, <1>5, <1>8, <3>2
    <3>4. QED
      BY <1>4, <2>1, <3>3
  <2>4. QED
    BY <2>2, <2>3
<1>9. ASSUME NEW g \in Handlers, Busy(g)', handler'[g].kind # "create", handler'[g].at > 1
      PROVE  Took(Before(Sent(g)))'
  <2>1. PICK x \in Tx : x = Sent(g)'
    <3>1. Sent(g)' \in Tx
      <4>1. CASE g = h
        <5>1. handler'[g] # Idle
          BY <1>9 DEF Busy, At, Idle
        <5>2. Running(handler[h])' /\ handler'[h].kind = s.kind /\ handler'[h].task = s.task
          BY <1>1, <4>1, <5>1, FollowsRunning
        <5>3. handler'[h].at \in 1..3 /\ handler'[h].kind \in KindNames
          BY <1>9, <4>1 DEF TypeOK, State
        <5>4. QED
          BY <1>3, <4>1, <5>2, <5>3 DEF Sent, Tx
      <4>2. CASE g # h
        <5>1. handler'[g] = handler[g] /\ Busy(g)
          BY <1>1, <1>9, <4>2 DEF Becomes, Busy, At
        <5>2. Sent(g) \in Tx
          BY <5>1, Serving
        <5>3. Sent(g)' = Sent(g)
          BY <5>1 DEF Sent
        <5>4. QED
          BY <5>2, <5>3
      <4>3. QED
        BY <4>1, <4>2
    <3>2. QED
      BY <3>1
  <2>2. x.task = handler'[g].task /\ x.kind = handler'[g].kind /\ x.at = handler'[g].at
    BY <2>1 DEF Sent
  <2>3. Before(x) \in Tx /\ Before(x) = [task |-> x.task, kind |-> x.kind, at |-> x.at - 1]
    BY <1>9, <2>2, BeforeForm
  <2>4. Took(Before(x))'
    <3>1. CASE g = h
      <4>1. handler'[g] # Idle
        BY <1>9 DEF Busy, At, Idle
      <4>2. /\ handler'[h].task = s.task /\ handler'[h].kind = s.kind
            /\ handler'[h].at > s.at \/ handler'[h].at = s.at
            /\ s.kind # "create" /\ handler'[h].at > s.at =>
                 handler'[h].at = s.at + 1 /\ SentOff(h)
        BY <1>1, <3>1, <4>1, FollowsRunning
      <4>3. CASE handler'[h].at = s.at
        <5>1. Before(x) = Before(y)
          <6>1. Before(y) = [task |-> y.task, kind |-> y.kind, at |-> y.at - 1]
            BY <1>3, <1>9, <3>1, <4>3, BeforeForm
          <6>2. QED
            BY <1>3, <2>2, <2>3, <3>1, <4>2, <4>3, <6>1
        <5>2. QED
          BY <1>t, <1>b, <1>9, <2>3, <3>1, <4>2, <4>3, <5>1
      <4>4. CASE handler'[h].at > s.at
        <5>1. Before(x) = y
          <6>1. x.at - 1 = y.at /\ x.task = y.task /\ x.kind = y.kind
            BY <1>3, <1>9, <2>2, <3>1, <4>2, <4>4
          <6>2. y = [task |-> y.task, kind |-> y.kind, at |-> y.at]
            BY DEF Tx
          <6>3. QED
            BY <2>3, <6>1, <6>2
        <5>2. QED
          BY <1>6, <1>9, <3>1, <4>2, <4>4, <5>1
      <4>5. QED
        BY <4>2, <4>3, <4>4
    <3>2. CASE g # h
      <4>1. handler'[g] = handler[g] /\ Busy(g)
        BY <1>1, <1>9, <3>2 DEF Becomes, Busy, At
      <4>2. Sent(g) = x
        BY <2>1, <4>1 DEF Sent
      <4>3. Took(Before(x))
        BY <1>9, <4>1, <4>2 DEF OrderInv
      <4>4. QED
        BY <1>t, <2>3, <4>3
    <3>3. QED
      BY <3>1, <3>2
  <2>5. QED
    BY <2>1, <2>4 DEF Took, Executed
<1>10. ASSUME NEW t \in Tasks, operation'[t].status = "done", operation'[t].kind # "register",
              NEW k \in 1..Decisive(operation'[t].kind)
       PROVE  Took(Part(t, k))'
  <2>1. operation'[t].kind \in {"call", "start", "contribute", "unread", "create"} /\ k \in 1..2
    <3>1. operation'[t].kind \in {"call", "start", "contribute", "unread", "create"}
      <4>1. operation[t].status = "done" => operation'[t] = operation[t]
        BY <1>1 DEF Kept
      <4>2. operation[t].status = "done" => operation[t].kind \in Kinds(signer)
        BY DEF OperationsInv
      <4>3. operation[t].status # "done" => operation'[t].kind = s.kind
        BY <1>1, <1>10, FollowsDone
      <4>4. QED
        BY <1>3, <1>10, <4>1, <4>2, <4>3 DEF Kinds, KeyOwners, TypeOK
    <3>2. Decisive(operation'[t].kind) \in {1, 2}
      BY <3>1, Decides
    <3> DEFINE d == Decisive(operation'[t].kind)
    <3>3. k \in 1..d /\ d \in {1, 2}
      BY <3>2
    <3> HIDE DEF d
    <3>4. k \in 1..2
      BY <3>3
    <3>5. QED
      BY <3>1, <3>4
  <2>2. PICK x : x = Part(t, k)'
    OBVIOUS
  <2>3. x = [task |-> t, kind |-> operation'[t].kind, at |-> k] /\ x \in Tx
    BY <2>1, <2>2 DEF Part, Tx, KindNames
  <2>4. CASE operation[t].status = "done"
    <3>1. operation'[t] = operation[t]
      BY <1>1, <2>4 DEF Kept
    <3>2. Took(Part(t, k))
      BY <1>10, <2>4, <3>1 DEF OrderInv
    <3>3. Part(t, k) = x
      BY <2>3, <3>1 DEF Part
    <3>4. Took(x)'
      BY <1>t, <2>3, <3>2, <3>3
    <3>5. QED
      BY <2>2, <3>4 DEF Took, Executed
  <2>5. CASE operation[t].status # "done"
    <3>1. /\ t = s.task /\ operation'[t].kind = s.kind
          /\ s.at = Decisive(s.kind) /\ SentOff(h)
      BY <1>1, <1>10, <2>5, FollowsDone
    <3>2. k \in 1..s.at
      BY <1>10, <3>1
    <3>3. CASE k = s.at
      <4>1. x = y
        <5>1. y = [task |-> y.task, kind |-> y.kind, at |-> y.at]
          BY DEF Tx
        <5>2. QED
          BY <1>3, <2>3, <3>1, <3>3, <5>1
      <4>2. Took(x)'
        BY <1>6, <3>1, <4>1
      <4>3. QED
        BY <2>2, <4>2 DEF Took, Executed
    <3>4. CASE k # s.at
      <4>1. s.kind # "create"
        BY <1>3, <3>1, <3>2, <3>4, Decides
      <4>2. s.at \in {1, 2}
        <5>1. Decisive(operation'[t].kind) \in {1, 2}
          BY <2>1, Decides
        <5>2. QED
          BY <3>1, <5>1
      <4>3. s.at = 2 /\ k = 1
        BY <3>2, <3>4, <4>2
      <4>4. Before(y) = x
        <5>1. Before(y) = [task |-> y.task, kind |-> y.kind, at |-> y.at - 1]
          BY <1>3, <4>3, BeforeForm
        <5>2. QED
          BY <1>3, <2>3, <3>1, <4>3, <5>1
      <4>5. Took(x)
        BY <1>b, <4>1, <4>3, <4>4
      <4>6. Took(x)'
        BY <1>t, <2>3, <4>5
      <4>7. QED
        BY <2>2, <4>6 DEF Took, Executed
    <3>5. QED
      BY <3>3, <3>4
  <2>6. QED
    BY <2>4, <2>5
<1>11. QED
  BY <1>7, <1>8, <1>9, <1>10 DEF OrderInv

\* The order is kept when the ledger only grows and nothing else changes.
LEMMA OrderKept ==
  ASSUME TypeOK, OperationsInv, OrderInv, pool' \subseteq pool,
         \A x \in Tx : Executed(x) => Executed(x)',
         \A x \in Tx : Took(x) => Took(x)',
         \A g \in Handlers : Busy(g)' /\ handler'[g].at > 1 => Busy(g) /\ handler'[g] = handler[g],
         \A t \in Tasks : operation'[t].status = "done" => operation'[t] = operation[t],
         \A i \in 1..Len(ledger') : ledger'[i].kind # "create" /\ ledger'[i].at > 1 =>
           \E j \in 1..(i - 1) : ledger'[j] = Before(ledger'[i])
  PROVE  OrderInv'
<1>1. ASSUME NEW p \in pool', p.tx.at > 1 PROVE Executed(Before(p.tx))'
  <2>1. p.tx \in Tx
    BY DEF TypeOK
  <2>2. Before(p.tx) \in Tx
    BY <1>1, <2>1, BeforeForm
  <2>3. Executed(Before(p.tx))
    BY <1>1 DEF OrderInv
  <2>4. QED
    BY <2>2, <2>3
<1>2. ASSUME NEW g \in Handlers, Busy(g)', handler'[g].kind # "create", handler'[g].at > 1
      PROVE  Took(Before(Sent(g)))'
  <2>1. Busy(g) /\ handler'[g] = handler[g]
    BY <1>2
  <2>2. PICK x \in Tx : x = Sent(g)
    BY <2>1, Serving
  <2>3. Sent(g)' = x
    BY <2>1, <2>2 DEF Sent
  <2>4. x.at > 1
    BY <1>2, <2>1, <2>2 DEF Sent
  <2>5. Before(x) \in Tx /\ Took(Before(x))
    BY <1>2, <2>1, <2>2, <2>4, BeforeForm DEF OrderInv
  <2>6. Took(Before(x))'
    BY <2>5
  <2>7. QED
    BY <2>3, <2>6 DEF Took, Executed
<1>3. ASSUME NEW t \in Tasks, operation'[t].status = "done", operation'[t].kind # "register",
             NEW k \in 1..Decisive(operation'[t].kind)
      PROVE  Took(Part(t, k))'
  <2>1. operation'[t] = operation[t]
    BY <1>3
  <2>2. Took(Part(t, k))
    BY <1>3, <2>1 DEF OrderInv
  <2>3. PICK x \in Tx : x = Part(t, k)
    BY <2>2, LedgerType DEF Took, Executed
  <2>4. Part(t, k)' = x
    BY <2>1, <2>3 DEF Part
  <2>5. Took(x)'
    BY <2>2, <2>3
  <2>6. QED
    BY <2>4, <2>5 DEF Took, Executed
<1>4. QED
  BY <1>1, <1>2, <1>3 DEF OrderInv

\* Every step keeps OrderInv.
LEMMA OrderStep ==
  ASSUME TypeOK, OperationsInv, OrderInv, PoolInv, Next, TypeOK'
  PROVE  OrderInv'
<1>1. ASSUME NEW h \in Handlers, NEW t \in Tasks, NEW s \in State, Begun(h, t, s)
      PROVE  OrderInv'
  <2>1. /\ Becomes(h, s) /\ UNCHANGED chainVars /\ s.at = 1
        /\ operation'[t] = [kind |-> s.kind, status |-> "running"]
        /\ \A u \in Tasks \ {t} : operation'[u] = operation[u]
    BY <1>1 DEF Begun
  <2>2. \A g \in Handlers : Busy(g)' /\ handler'[g].at > 1 => Busy(g) /\ handler'[g] = handler[g]
    BY <2>1 DEF Becomes, Busy, At
  <2>3. \A u \in Tasks : operation'[u].status = "done" => operation'[u] = operation[u]
    BY <2>1
  <2>4. \A x \in Tx : (Executed(x) => Executed(x)') /\ (Took(x) => Took(x)')
    BY <2>1 DEF chainVars, Executed, Took
  <2>5. pool' = pool /\ ledger' = ledger
    BY <2>1 DEF chainVars
  <2>6. \A i \in 1..Len(ledger') : ledger'[i].kind # "create" /\ ledger'[i].at > 1 =>
           \E j \in 1..(i - 1) : ledger'[j] = Before(ledger'[i])
    BY <2>5 DEF OrderInv
  <2>7. QED
    BY <2>2, <2>3, <2>4, <2>5, <2>6, OrderKept
<1>2. CASE \E h \in Handlers : Serve(h) \/ StepFails(h)
  BY <1>2, ServeOrder
<1>3. CASE Mine
  <2>1. PICK p \in pool :
           /\ p.tx \in Tx /\ pool' = pool \ {p} /\ ledger' = Append(ledger, p.tx)
           /\ UNCHANGED <<operation, handler>>
    BY <1>3, MineForm
  <2>2. /\ Len(ledger') = Len(ledger) + 1 /\ ledger'[Len(ledger) + 1] = p.tx
        /\ \A i \in 1..Len(ledger) : ledger'[i] = ledger[i]
        /\ \A i \in 1..Len(ledger') : i \in 1..Len(ledger) \/ i = Len(ledger) + 1
        /\ \A x : Executed(x)' <=> Executed(x) \/ x = p.tx
    BY <2>1, AppendExecuted
  <2>3. Len(ledger) \in Nat
    BY LedgerType
  <2>4. ASSUME NEW i \in 1..Len(ledger'), ledger'[i].kind # "create", ledger'[i].at > 1
        PROVE  \E j \in 1..(i - 1) : ledger'[j] = Before(ledger'[i])
    <3>1. CASE i \in 1..Len(ledger)
      <4>1. PICK j \in 1..(i - 1) : ledger[j] = Before(ledger[i])
        BY <2>2, <2>4, <3>1 DEF OrderInv
      <4>2. j \in 1..Len(ledger)
        BY <2>3, <3>1
      <4>3. ledger'[j] = Before(ledger'[i])
        BY <2>2, <3>1, <4>1, <4>2
      <4>4. QED
        BY <4>3
    <3>2. CASE i = Len(ledger) + 1
      <4>1. Executed(Before(p.tx))
        BY <2>2, <2>4, <3>2 DEF OrderInv
      <4>2. PICK j \in 1..Len(ledger) : ledger[j] = Before(p.tx)
        BY <4>1 DEF Executed
      <4>3. j \in 1..(i - 1) /\ ledger'[j] = Before(ledger'[i])
        BY <2>2, <2>3, <3>2, <4>2
      <4>4. QED
        BY <4>3
    <3>3. QED
      BY <2>2, <3>1, <3>2
  <2>5. \A g \in Handlers : Busy(g)' /\ handler'[g].at > 1 => Busy(g) /\ handler'[g] = handler[g]
    BY <2>1 DEF Busy, At
  <2>6. \A x \in Tx : Took(x) => Took(x)'
    BY <1>3, MineTook
  <2>7. QED
    BY <2>1, <2>2, <2>4, <2>5, <2>6, OrderKept
<1>4. CASE Settle
  <2>1. UNCHANGED <<pool, ledger, reverted, operation, handler>>
    BY <1>4 DEF Settle
  <2>2. \A g \in Handlers : Busy(g)' /\ handler'[g].at > 1 => Busy(g) /\ handler'[g] = handler[g]
    BY <2>1 DEF Busy, At
  <2>3. \A x \in Tx : (Executed(x) => Executed(x)') /\ (Took(x) => Took(x)')
    BY <2>1 DEF Executed, Took
  <2>4. \A i \in 1..Len(ledger') : ledger'[i].kind # "create" /\ ledger'[i].at > 1 =>
           \E j \in 1..(i - 1) : ledger'[j] = Before(ledger'[i])
    BY <2>1 DEF OrderInv
  <2>5. QED
    BY <2>1, <2>2, <2>3, <2>4, OrderKept
<1>5. QED
  BY <1>1, <1>2, <1>3, <1>4, NextCases

-----------------------------------------------------------------------------
(* FailedInv                                                               *)

\* What decides an operation comes no earlier than what its handler sends.
LEMMA LastAhead ==
  ASSUME TypeOK, OperationsInv, NEW h \in Handlers, Busy(h), ~InBackground(h)
  PROVE  LET l == Last(handler[h].task)
         IN /\ l \in Tx /\ l.task = handler[h].task /\ l.at >= handler[h].at
            /\ l.at = handler[h].at => l = Sent(h)
<1> DEFINE s == handler[h]
           d == Decisive(s.kind)
<1>1. /\ Running(s) /\ s.task \in Tasks /\ s.at \in 1..Len(Transactions(s.kind)) /\ s.at \in 1..3
      /\ s.kind \in {"call", "start", "contribute", "unread", "create", "register"}
  BY Serving
<1>2. operation[s.task].kind = s.kind
  BY <1>1 DEF Running
<1>3. d \in 1..2 /\ d >= s.at
  <2>1. CASE s.kind = "create"
    BY <1>1, <2>1, Decides DEF InBackground
  <2>2. CASE s.kind # "create"
    <3>1. d = Len(Transactions(s.kind))
      BY <2>2 DEF Decisive
    <3>2. d \in {1, 2}
      BY <1>1, <2>2, Decides
    <3> DEFINE n == Len(Transactions(s.kind))
    <3>3. s.at \in 1..n /\ n = d
      BY <1>1, <3>1
    <3> HIDE DEF n, d
    <3>4. QED
      BY <3>2, <3>3
  <2>3. QED
    BY <2>1, <2>2
<1>4. Last(s.task) = [task |-> s.task, kind |-> s.kind, at |-> d]
  BY <1>2 DEF Last, Part
<1>5. [task |-> s.task, kind |-> s.kind, at |-> d] \in Tx
  BY <1>1, <1>3 DEF Tx, KindNames
<1>6. d = s.at => [task |-> s.task, kind |-> s.kind, at |-> d] = Sent(h)
  BY DEF Sent
<1> HIDE DEF d
<1>7. QED
  BY <1>3, <1>4, <1>5, <1>6

\* A step gives life to what the handler sends, and to nothing else.
LEMMA AliveStep ==
  ASSUME TypeOK, OperationsInv, NEW h \in Handlers, Busy(h), Affects(h)
  PROVE  \A x \in Tx : Alive(x)' => Alive(x) \/ (x = Sent(h) /\ At(h, "send"))
<1> DEFINE y == Sent(h)
<1>1. reverted \subseteq reverted'
  BY TookStep
<1>2. ASSUME NEW x \in Tx, Executed(x)', ~Executed(x) PROVE x = y /\ At(h, "send")
  <2>1. x = y
    BY <1>2, FlightStep
  <2>2. ledger' # ledger
    BY <1>2 DEF Executed
  <2>3. QED
    BY <2>1, <2>2 DEF Affects, chainVars, Pools, Executes
<1>3. ASSUME NEW x \in Tx, Pending(x)', ~Pending(x) PROVE x = y /\ At(h, "send")
  <2>1. PICK p \in pool' : p.tx = x
    BY <1>3 DEF Pending
  <2>2. p \notin pool
    BY <1>3, <2>1 DEF Pending
  <2>3. Pools(h)
    BY <2>2 DEF Affects, chainVars, Executes
  <2>4. QED
    BY <2>1, <2>2, <2>3 DEF Pools
<1> HIDE DEF y
<1>4. ASSUME NEW x \in Tx, Alive(x)', ~Alive(x) PROVE x = y /\ At(h, "send")
  <2>1. CASE Pending(x)'
    BY <1>3, <1>4, <2>1 DEF Alive
  <2>2. CASE Effective(x)'
    <3>1. Executed(x)' /\ x \notin reverted'
      BY <2>2 DEF Effective
    <3>2. ~Executed(x)
      BY <1>1, <1>4, <3>1 DEF Alive, Effective
    <3>3. QED
      BY <1>2, <3>1, <3>2
  <2>3. QED
    BY <1>4, <2>1, <2>2 DEF Alive
<1>5. QED
  BY <1>4 DEF y

\* Nothing comes to life when a transaction is mined.
LEMMA MineAlive ==
  ASSUME TypeOK, PoolInv, Mine
  PROVE  \A x \in Tx : Alive(x)' => Alive(x)
<1>1. reverted \subseteq reverted' /\ \A x \in Tx : InFlight(x)' <=> InFlight(x)
  BY MineTook, MineFlight
<1>2. \A x \in Tx : Pending(x)' => Pending(x)
  BY MineForm DEF Pending
<1>3. ASSUME NEW x \in Tx, Effective(x)' PROVE Alive(x)
  <2>1. Executed(x)' /\ x \notin reverted
    BY <1>1, <1>3 DEF Effective
  <2>2. InFlight(x)'
    BY <2>1 DEF InFlight
  <2>3. InFlight(x)
    BY <1>1, <2>2
  <2>4. QED
    BY <2>1, <2>3 DEF InFlight, Alive, Effective
<1>4. QED
  BY <1>2, <1>3 DEF Alive

\* Without failing calls an operation fails before its last transaction is sent,
\* because another one took its nonce, or because it reverted.
LEMMA FailsLast ==
  ASSUME TypeOK, OperationsInv, NEW h \in Handlers, Serve(h), Ends(h, "failed")
  PROVE  /\ ~InBackground(h)
         /\ \/ /\ UNCHANGED <<pool, ledger, reverted>>
               /\ handler[h].step = "send" \/ ~Alive(Sent(h))
            \/ /\ UNCHANGED pool /\ handler[h].step = "send"
               /\ Sent(h) \in reverted'
<1>0. handler'[h] = Idle
  BY DEF Ends, Becomes
<1>1. CASE ReadNonce(h) \/ ReadAccessKey(h)
  <2>0. PICK n : Goes(h, handler[h].at, n, "send")
    BY <1>1, ReadForms
  <2>1. handler'[h].step = "send"
    BY <2>0 DEF Goes, Becomes, With
  <2>2. QED
    BY <1>0, <2>1 DEF Idle
<1>2. CASE Send(h)
  <2>1. handler[h].step = "send" /\ UNCHANGED <<ledger, reverted>>
    BY <1>2, SendForms
  <2>2. ~Goes(h, handler[h].at, handler[h].nonce, "wait")
    BY <1>0 DEF Goes, Becomes, With, Idle
  <2>3. pool' = pool /\ ~InBackground(h)
    BY <1>2, <2>2, SendForms
  <2>4. QED
    BY <2>1, <2>3
<1>3. CASE Wait(h)
  <2>1. UNCHANGED <<pool, ledger, reverted>> /\ Busy(h) /\ OnBase /\ ~Pending(Sent(h))
    BY <1>3, WaitForms DEF Wait, chainVars
  <2>2. ~InBackground(h)
    BY <2>1, Serving DEF InBackground
  <2>3. ~Effective(Sent(h))
    <3>1. \A at, nonce : ~Goes(h, at, nonce, "send") /\ ~Goes(h, at, nonce, "nonce")
      BY <1>0 DEF Goes, Becomes, With, Idle
    <3>2. ~Ends(h, "done")
      <4> SUFFICES ASSUME Ends(h, "done") PROVE FALSE
        OBVIOUS
      <4>1. Answer(h, "done") /\ Answer(h, "failed")
        BY <2>1, Answers DEF Ends
      <4>2. QED
        BY <4>1 DEF Answer
    <3>3. QED
      BY <1>3, <3>1, <3>2, WaitForms
  <2>4. QED
    BY <2>1, <2>2, <2>3 DEF Alive
<1>4. ASSUME Busy(h), Ends(h, "done") PROVE FALSE
  <2>1. Answer(h, "done") /\ Answer(h, "failed")
    BY <1>4, Answers DEF Ends
  <2>2. QED
    BY <2>1 DEF Answer
<1>5. \A at, nonce, step : step # "idle" => ~Goes(h, at, nonce, step)
  BY <1>0 DEF Goes, Becomes, With, Idle
<1>6. ~Created(h)
  BY <1>0 DEF Created, Becomes, With, Idle
<1>7. CASE Check(h)
  BY <1>4, <1>5, <1>7, CheckForms
<1>8. CASE SendTransaction(h)
  <2>1. Busy(h) /\ handler[h].step = "send" /\ ~OnBase /\ UNCHANGED pool
    BY <1>8, SendTransactionForms
  <2>2. ~Continues(h)
    BY <1>4, <1>5, <1>6, <2>1, ContinuesForms
  <2>3. Breaks(h) /\ (UNCHANGED <<ledger, reverted>> \/ Sent(h) \in reverted')
    BY <1>8, <2>2, SendTransactionForms
  <2>4. ~InBackground(h)
    BY <1>4, <1>5, <2>1, <2>3, BreaksForms
  <2>5. QED
    BY <2>1, <2>3, <2>4
<1>9. CASE DelayOver(h)
  BY <1>5, <1>9, DelayForms
<1>10. QED
  BY <1>1, <1>2, <1>3, <1>7, <1>8, <1>9 DEF Serve

\* What failed is over after every step of a handler.
LEMMA ServeFailed ==
  ASSUME TypeOK, OperationsInv, FailedInv, NEW h \in Handlers, Serve(h) \/ StepFails(h)
  PROVE  FailedInv'
<1> DEFINE s == handler[h]
<1> SUFFICES ASSUME failures' = 0, NEW t \in Tasks, operation'[t].status = "failed"
             PROVE  ~Alive(Last(t))'
  BY DEF FailedInv
<1>1. /\ failures = 0 /\ Serve(h) /\ Busy(h) /\ Follows(h) /\ Affects(h)
      /\ Answered(h) /\ Becomes(h, handler'[h]) /\ Kept(h) /\ Running(s) /\ s.task \in Tasks
  BY HistoryStep, ServeFollows, FollowsAnswered, AnsweredKept, Serving
<1>2. CASE operation[t].status = "failed"
  <2>1. t # s.task
    BY <1>1, <1>2 DEF Running
  <2>2. operation'[t] = operation[t]
    BY <1>1, <2>1 DEF Kept
  <2>3. ~Alive(Last(t))
    BY <1>1, <1>2 DEF FailedInv
  <2>4. PICK x : x = Last(t)
    OBVIOUS
  <2>5. Last(t)' = x /\ x.task = t
    BY <2>2, <2>4 DEF Last, Part
  <2>6. x # Sent(h)
    BY <2>1, <2>5 DEF Sent
  <2>7. ~Alive(x)'
    <3>1. CASE x \in Tx
      BY <1>1, <2>3, <2>4, <2>6, <3>1, AliveStep
    <3>2. CASE x \notin Tx
      <4>1. \A p \in pool' : p.tx \in Tx
        BY <1>1, AffectsType
      <4>2. \A i \in 1..Len(ledger') : ledger'[i] \in Tx
        BY <1>1, AffectsType
      <4>3. QED
        BY <3>2, <4>1, <4>2 DEF Alive, Effective, Pending, Executed
    <3>3. QED
      BY <3>1, <3>2
  <2>8. QED
    BY <2>5, <2>7 DEF Alive, Effective, Pending, Executed
<1>3. CASE operation[t].status # "failed"
  <2>1. t = s.task /\ ~UNCHANGED operation
    BY <1>1, <1>3 DEF Kept
  <2>2. Ends(h, "failed")
    <3>1. ~Answer(h, "done")
      BY <2>1 DEF Answer
    <3>2. ~Ends(h, "done")
      BY <1>1, <3>1, Answers DEF Ends
    <3>3. ~Created(h)
      BY <1>1, <3>1, Answers DEF Created
    <3>4. \A at, nonce, step : ~Goes(h, at, nonce, step)
      BY <2>1 DEF Goes
    <3>5. QED
      BY <1>1, <3>2, <3>3, <3>4 DEF Follows
  <2>3. /\ ~InBackground(h)
        /\ \/ /\ UNCHANGED <<pool, ledger, reverted>>
              /\ s.step = "send" \/ ~Alive(Sent(h))
           \/ UNCHANGED pool /\ s.step = "send" /\ Sent(h) \in reverted'
    BY <1>1, <2>2, FailsLast
  <2>4. PICK x \in Tx : x = Last(t)
    BY <1>1, <2>1, <2>3, LastAhead
  <2>5. x.task = t /\ x.at >= s.at /\ (x.at = s.at => x = Sent(h))
    BY <1>1, <2>1, <2>3, <2>4, LastAhead
  <2>i. ~Alive(x)
    <3> SUFFICES ASSUME Alive(x) PROVE FALSE
      OBVIOUS
    <3>0. InFlight(x)
      BY DEF Alive, Effective, InFlight
    <3>1. x.at < s.at \/ (x.at = s.at /\ s.step \in {"wait", "delay"})
      BY <1>1, <2>1, <2>5, <3>0 DEF OperationsInv
    <3>2. x.at = s.at /\ s.step # "send"
      <4>1. x.at \in Int /\ s.at \in Int
        BY <1>1, Serving DEF Tx
      <4>2. QED
        BY <2>5, <3>1, <4>1
    <3>3. QED
      BY <2>3, <2>5, <3>2
  <2>6. ~Alive(x)'
    <3>1. CASE UNCHANGED <<pool, ledger, reverted>>
      BY <2>i, <3>1 DEF Alive, Effective, Pending, Executed
    <3>2. CASE UNCHANGED pool /\ Sent(h) \in reverted'
      <4>1. CASE x = Sent(h)
        BY <2>i, <3>2, <4>1 DEF Alive, Effective, Pending
      <4>2. CASE x # Sent(h)
        BY <1>1, <2>i, <4>2, AliveStep
      <4>3. QED
        BY <4>1, <4>2
    <3>3. QED
      BY <2>3, <3>1, <3>2
  <2>7. operation'[t].kind = operation[t].kind
    BY <1>1, <2>1 DEF Kept, Running
  <2>8. Last(t)' = x
    BY <2>4, <2>7 DEF Last, Part
  <2>9. QED
    BY <2>6, <2>8 DEF Alive, Effective, Pending, Executed
<1>4. QED
  BY <1>2, <1>3

\* FailedInv depends on what is in flight and on what failed.
LEMMA FailedKept ==
  ASSUME TypeOK, FailedInv, UNCHANGED failures, \A x \in Tx : Alive(x)' => Alive(x),
         TypeOK',
         \A t \in Tasks : operation'[t].status = "failed" => operation'[t] = operation[t]
  PROVE  FailedInv'
<1> SUFFICES ASSUME failures' = 0, NEW t \in Tasks, operation'[t].status = "failed"
             PROVE  ~Alive(Last(t))'
  BY DEF FailedInv
<1>1. operation'[t] = operation[t] /\ ~Alive(Last(t))
  BY DEF FailedInv
<1>2. PICK x : x = Last(t)
  OBVIOUS
<1>3. Last(t)' = x
  BY <1>1, <1>2 DEF Last, Part
<1>4. ~Alive(x)'
  <2>1. CASE x \in Tx
    BY <1>1, <1>2, <2>1
  <2>2. CASE x \notin Tx
    <3>1. \A p \in pool' : p.tx \in Tx
      BY DEF TypeOK
    <3>2. \A i \in 1..Len(ledger') : ledger'[i] \in Tx
      BY DEF TypeOK
    <3>3. QED
      BY <2>2, <3>1, <3>2 DEF Alive, Effective, Pending, Executed
  <2>3. QED
    BY <2>1, <2>2
<1>5. QED
  BY <1>3, <1>4 DEF Alive, Effective, Pending, Executed

\* Every step keeps FailedInv.
LEMMA FailedStep ==
  ASSUME TypeOK, OperationsInv, FailedInv, PoolInv, Next, TypeOK'
  PROVE  FailedInv'
<1>1. ASSUME NEW h \in Handlers, NEW t \in Tasks, NEW s \in State, Begun(h, t, s)
      PROVE  FailedInv'
  <2>1. /\ UNCHANGED chainVars /\ UNCHANGED failures
        /\ operation'[t] = [kind |-> s.kind, status |-> "running"]
        /\ \A u \in Tasks \ {t} : operation'[u] = operation[u]
    BY <1>1 DEF Begun
  <2>2. \A u \in Tasks : operation'[u].status = "failed" => operation'[u] = operation[u]
    BY <2>1
  <2>3. \A x \in Tx : Alive(x)' => Alive(x)
    BY <2>1 DEF chainVars, Alive, Effective, Pending, Executed
  <2>4. QED
    BY <2>1, <2>2, <2>3, FailedKept
<1>2. CASE \E h \in Handlers : Serve(h) \/ StepFails(h)
  BY <1>2, ServeFailed
<1>3. CASE Mine
  <2>1. UNCHANGED <<operation, failures>>
    BY <1>3 DEF Mine
  <2>2. QED
    BY <1>3, <2>1, MineAlive, FailedKept
<1>4. CASE Settle
  <2>1. UNCHANGED <<operation, failures, pool, ledger, reverted>>
    BY <1>4 DEF Settle
  <2>2. \A x \in Tx : Alive(x)' => Alive(x)
    BY <2>1 DEF Alive, Effective, Pending, Executed
  <2>3. QED
    BY <2>1, <2>2, FailedKept
<1>5. QED
  BY <1>1, <1>2, <1>3, <1>4, NextCases

-----------------------------------------------------------------------------
(* NoncesInv                                                               *)

\* Who comes to hold a nonce.
LEMMA SendOrigin ==
  ASSUME TypeOK, OperationsInv, NEW h \in Handlers, Serve(h) \/ StepFails(h),
         handler'[h].step = "send"
  PROVE  /\ UNCHANGED chainVars
         /\ \/ /\ ReadNonce(h) \/ ReadAccessKey(h)
               /\ handler'[h].nonce = IF OnBase THEN NonceFor(h) ELSE final + 1
            \/ /\ Wait(h) /\ OnBase /\ Approving(h) /\ Executed(Sent(h))
               /\ handler'[h].nonce = handler[h].nonce + 1
<1> DEFINE s == handler[h]
<1>1. \A at, nonce, step : Goes(h, at, nonce, step) => step = "send" /\ handler'[h].nonce = nonce
  BY DEF Goes, Becomes, With
<1>2. \A status : ~Ends(h, status)
  BY DEF Ends, Becomes, Idle
<1>3. ~Created(h)
  BY DEF Created, Becomes, With
<1>4. CASE ReadNonce(h) \/ ReadAccessKey(h)
  <2>1. UNCHANGED chainVars
    BY <1>4 DEF ReadNonce, ReadAccessKey
  <2>2. PICK n : n = (IF OnBase THEN NonceFor(h) ELSE final + 1) /\ Goes(h, s.at, n, "send")
    BY <1>4, ReadForms
  <2>3. handler'[h].nonce = n
    BY <1>1, <2>2
  <2>4. QED
    BY <1>4, <2>1, <2>2, <2>3
<1>5. CASE Send(h)
  <2>1. ~Goes(h, s.at, s.nonce, "wait") /\ ~Ends(h, "failed")
    BY <1>1, <1>2
  <2>2. QED
    BY <1>5, <2>1, SendForms
<1>6. CASE Wait(h)
  <2>1. Executed(Sent(h)) /\ Approving(h) /\ Goes(h, 2, s.nonce + 1, "send") /\ OnBase
    BY <1>1, <1>2, <1>6, WaitForms DEF Effective
  <2>2. handler'[h].nonce = s.nonce + 1
    BY <1>1, <2>1
  <2>3. UNCHANGED chainVars
    BY <1>6 DEF Wait
  <2>4. QED
    BY <1>6, <2>1, <2>2, <2>3
<1>n. /\ ~Goes(h, s.at, s.nonce, "nonce") /\ ~Goes(h, 3, s.nonce, "check")
      /\ ~Goes(h, 2, s.nonce, "delay") /\ ~Ends(h, "done") /\ ~Ends(h, "failed")
  BY <1>1, <1>2
<1>7. CASE Check(h)
  BY <1>n, <1>7, CheckForms
<1>8. CASE SendTransaction(h)
  <2>1. Busy(h) /\ ~OnBase /\ (Continues(h) \/ Breaks(h))
    BY <1>8, SendTransactionForms
  <2>2. QED
    BY <1>n, <1>3, <2>1, ContinuesForms, BreaksForms
<1>9. CASE DelayOver(h)
  BY <1>n, <1>9, DelayForms
<1>10. CASE StepFails(h)
  BY <1>n, <1>10, FailsForms, BreaksForms
<1>11. QED
  BY <1>4, <1>5, <1>6, <1>7, <1>8, <1>9, <1>10 DEF Serve

\* Only what was sent is waited for.
LEMMA WaitOrigin ==
  ASSUME TypeOK, OperationsInv, NEW h \in Handlers, Serve(h) \/ StepFails(h),
         handler'[h].step = "wait"
  PROVE  Pools(h) /\ Goes(h, handler[h].at, handler[h].nonce, "wait")
<1> DEFINE s == handler[h]
<1>1. \A at, nonce, step : Goes(h, at, nonce, step) => step = "wait"
  BY DEF Goes, Becomes, With
<1>2. \A status : ~Ends(h, status)
  BY DEF Ends, Becomes, Idle
<1>3. ~Created(h)
  BY DEF Created, Becomes, With
<1>4. CASE ReadNonce(h) \/ ReadAccessKey(h)
  <2>1. PICK n : Goes(h, s.at, n, "send")
    BY <1>4, ReadForms
  <2>2. QED
    BY <1>1, <2>1
<1>5. CASE Send(h)
  <2>1. /\ s.step = "send" /\ OnBase /\ UNCHANGED <<used, final, ledger, reverted, registered>>
        /\ s.nonce >= used
        /\ pool' = (pool \ {p \in pool : p.nonce = s.nonce})
                     \cup {[nonce |-> s.nonce, tx |-> Sent(h)]}
        /\ Goes(h, s.at, s.nonce, "wait")
    BY <1>2, <1>5, SendForms
  <2>2. QED
    BY <2>1 DEF Pools, Taken, At
<1>6. CASE Wait(h)
  BY <1>1, <1>2, <1>6, WaitForms
<1>7. CASE Check(h)
  BY <1>1, <1>2, <1>7, CheckForms
<1>8. CASE SendTransaction(h)
  <2>1. Busy(h) /\ ~OnBase /\ (Continues(h) \/ Breaks(h))
    BY <1>8, SendTransactionForms
  <2>2. QED
    BY <1>1, <1>2, <1>3, <2>1, ContinuesForms, BreaksForms
<1>9. CASE DelayOver(h)
  BY <1>1, <1>9, DelayForms
<1>10. CASE StepFails(h)
  BY <1>1, <1>2, <1>10, FailsForms, BreaksForms
<1>11. QED
  BY <1>4, <1>5, <1>6, <1>7, <1>8, <1>9, <1>10 DEF Serve

\* The pool without a gap, and how a transaction joins it.
Gapless(u, q) ==
  /\ \A p, r \in q : p.nonce = r.nonce => p = r
  /\ {p.nonce : p \in q} = u..(u + Cardinality(q) - 1)

\* A transaction takes the nonce of another.
LEMMA PoolReplaces ==
  ASSUME NEW u \in Nat, NEW q, q \subseteq [nonce: Nat, tx: Tx], IsFiniteSet(q), Gapless(u, q),
         NEW n \in Nat, NEW x \in Tx, NEW o \in q, o.nonce = n,
         NEW new, new = (q \ {p \in q : p.nonce = n}) \cup {[nonce |-> n, tx |-> x]}
  PROVE  Cardinality(new) = Cardinality(q) /\ Gapless(u, new) /\ n < u + Cardinality(q)
<1> DEFINE k == q \ {o}
           y == [nonce |-> n, tx |-> x]
<1>1. {p \in q : p.nonce = n} = {o}
  BY DEF Gapless
<1>2. new = k \cup {y} /\ y \notin k /\ y.nonce = n
  BY <1>1 DEF Gapless
<1>3. IsFiniteSet(k) /\ Cardinality(k) = Cardinality(q) - 1 /\ Cardinality(q) \in Nat
  BY FS_RemoveElement, FS_CardinalityType
<1>4. {p.nonce : p \in new} = {p.nonce : p \in q}
  BY <1>2
<1>5. \A p, r \in new : p.nonce = r.nonce => p = r
  BY <1>2 DEF Gapless
<1>6. n \in u..(u + Cardinality(q) - 1)
  BY DEF Gapless
<1> HIDE DEF k, y
<1>7. Cardinality(new) = Cardinality(k) + 1
  BY <1>2, <1>3, FS_AddElement
<1>8. Cardinality(new) = Cardinality(q)
  BY <1>3, <1>7
<1>9. Gapless(u, new)
  BY <1>4, <1>5, <1>8 DEF Gapless
<1>10. QED
  BY <1>3, <1>6, <1>8, <1>9

\* A transaction takes the next nonce.
LEMMA PoolAdds ==
  ASSUME NEW u \in Nat, NEW q, q \subseteq [nonce: Nat, tx: Tx], IsFiniteSet(q), Gapless(u, q),
         NEW n \in Nat, n >= u, n <= u + Cardinality(q), NEW x \in Tx,
         \A p \in q : p.nonce # n,
         NEW new, new = q \cup {[nonce |-> n, tx |-> x]}
  PROVE  /\ Cardinality(new) = Cardinality(q) + 1 /\ Gapless(u, new)
         /\ n = u + Cardinality(q)
<1> DEFINE y == [nonce |-> n, tx |-> x]
           c == Cardinality(q)
<1>1. y \notin q /\ y.nonce = n /\ new = q \cup {y}
  OBVIOUS
<1>2. c \in Nat
  BY FS_CardinalityType
<1>3. n \notin {p.nonce : p \in q}
  OBVIOUS
<1>4. n \notin u..(u + c - 1)
  BY <1>3 DEF Gapless
<1>5. n = u + c
  BY <1>2, <1>4
<1>6. {p.nonce : p \in new} = {p.nonce : p \in q} \cup {n}
  BY <1>1
<1>7. \A p, r \in new : p.nonce = r.nonce => p = r
  BY <1>1 DEF Gapless
<1>8. Cardinality(new) = c + 1
  <2> HIDE DEF y
  <2> QED
    BY <1>1, FS_AddElement
<1>9. {p.nonce : p \in q} = u..(u + c - 1)
  BY DEF Gapless
<1> HIDE DEF c, y
<1>10. {p.nonce : p \in new} = u..(u + (c + 1) - 1)
  BY <1>2, <1>5, <1>6, <1>9
<1>11. Gapless(u, new)
  BY <1>7, <1>8, <1>10 DEF Gapless
<1>12. QED
  BY <1>5, <1>8, <1>11 DEF c

\* The transaction whose nonce is next leaves.
LEMMA PoolMines ==
  ASSUME NEW u \in Nat, NEW q, q \subseteq [nonce: Nat, tx: Tx], IsFiniteSet(q), Gapless(u, q),
         NEW o \in q, o.nonce = u, NEW new, new = q \ {o}
  PROVE  Cardinality(new) + 1 = Cardinality(q) /\ Gapless(u + 1, new)
<1> DEFINE c == Cardinality(q)
<1>1. IsFiniteSet(new) /\ Cardinality(new) = c - 1 /\ c \in Nat
  BY FS_RemoveElement, FS_CardinalityType
<1>2. {p.nonce : p \in new} = {p.nonce : p \in q} \ {u}
  BY DEF Gapless
<1>3. \A p, r \in new : p.nonce = r.nonce => p = r
  BY DEF Gapless
<1>4. {p.nonce : p \in q} = u..(u + c - 1)
  BY DEF Gapless
<1> HIDE DEF c
<1>5. {p.nonce : p \in new} = (u + 1)..((u + 1) + Cardinality(new) - 1)
  BY <1>1, <1>2, <1>4
<1>6. Gapless(u + 1, new)
  BY <1>3, <1>5 DEF Gapless
<1>7. Cardinality(new) + 1 = c
  BY <1>1
<1>8. QED
  BY <1>6, <1>7 DEF c

\* The pool of the service has no gap.
LEMMA PoolGapless ==
  ASSUME TypeOK, NoncesInv
  PROVE  /\ Gapless(used, pool) /\ Free = used + Cardinality(pool) /\ Cardinality(pool) \in Nat
         /\ pool \subseteq [nonce: Nat, tx: Tx] /\ IsFiniteSet(pool)
         /\ used \in Nat /\ final \in Nat /\ Free \in Nat
<1>1. pool \subseteq [nonce: Nat, tx: Tx] /\ IsFiniteSet(pool) /\ used \in Nat /\ final \in Nat
  BY DEF TypeOK
<1>2. Cardinality(pool) \in Nat
  BY <1>1, FS_CardinalityType
<1>3. Free = used + Cardinality(pool) /\ Free \in Nat
  BY <1>1, <1>2 DEF Free
<1>4. \A p, r \in pool : p.nonce = r.nonce => p = r
  BY DEF NoncesInv
<1>5. {p.nonce : p \in pool} = used..(Free - 1)
  BY DEF NoncesInv
<1>6. Gapless(used, pool)
  <2>1. Free - 1 = used + Cardinality(pool) - 1
    BY <1>1, <1>2, <1>3
  <2>2. {p.nonce : p \in pool} = used..(used + Cardinality(pool) - 1)
    BY <1>5, <2>1
  <2>3. QED
    BY <1>4, <2>2 DEF Gapless
<1>7. QED
  BY <1>1, <1>2, <1>3, <1>6

\* A transaction takes the next nonce of the pool, or the place of another.
LEMMA PoolsGapless ==
  ASSUME TypeOK, OperationsInv, NoncesInv, NEW h \in Handlers, Busy(h), Pools(h)
  PROVE  /\ Gapless(used', pool') /\ used' = used /\ handler[h].nonce < Free'
         /\ IF Taken(handler[h].nonce) = {} THEN Free' = Free + 1 /\ handler[h].nonce = Free
            ELSE Free' = Free
<1> DEFINE n == handler[h].nonce
           x == Sent(h)
           c == Cardinality(pool)
<1>1. /\ n \in Nat /\ x \in Tx /\ n >= used /\ used' = used
      /\ pool' = (pool \ Taken(n)) \cup {[nonce |-> n, tx |-> x]}
  BY Serving DEF Pools, State
<1>2. /\ Gapless(used, pool) /\ Free = used + c /\ c \in Nat
      /\ pool \subseteq [nonce: Nat, tx: Tx] /\ IsFiniteSet(pool) /\ used \in Nat
  BY PoolGapless
<1>3. n <= Free
  BY DEF NoncesInv, Pools
<1>4. Free' = used' + Cardinality(pool')
  BY DEF Free
<1>5. CASE Taken(n) = {}
  <2>1. \A p \in pool : p.nonce # n
    BY <1>5 DEF Taken
  <2>2. pool' = pool \cup {[nonce |-> n, tx |-> x]}
    BY <1>1, <1>5
  <2>3. Cardinality(pool') = c + 1 /\ Gapless(used, pool') /\ n = used + c
    <3> HIDE DEF n, x
    <3>1. n <= used + Cardinality(pool)
      BY <1>2, <1>3
    <3>2. QED
      BY <1>1, <1>2, <2>1, <2>2, <3>1, PoolAdds
  <2> HIDE DEF n, c
  <2>4. QED
    BY <1>1, <1>2, <1>4, <1>5, <2>3 DEF n
<1>6. CASE Taken(n) # {}
  <2>1. PICK o \in pool : o.nonce = n
    BY <1>6 DEF Taken
  <2>2. Cardinality(pool') = c /\ Gapless(used, pool') /\ n < used + c
    <3>1. pool' = (pool \ {p \in pool : p.nonce = n}) \cup {[nonce |-> n, tx |-> x]}
      BY <1>1 DEF Taken
    <3> HIDE DEF n, x
    <3>2. QED
      BY <1>1, <1>2, <2>1, <3>1, PoolReplaces
  <2> HIDE DEF n, c
  <2>3. QED
    BY <1>1, <1>2, <1>4, <1>6, <2>2 DEF n
<1>7. QED
  BY <1>5, <1>6

\* Nonces are used, and the pending nonce grows.
LEMMA AffectsNonces ==
  ASSUME TypeOK, OperationsInv, NoncesInv, NEW h \in Handlers, Busy(h), Affects(h)
  PROVE  /\ used' = Len(ledger') /\ final' = final /\ used' >= used /\ Free' >= Free
         /\ used' \in Nat /\ Free' \in Nat
         /\ ~OnBase => pool' = {}
         /\ Gapless(used', pool')
<1>1. /\ Gapless(used, pool) /\ used = Len(ledger) /\ (~OnBase => pool = {})
      /\ used \in Nat /\ Free \in Nat /\ Free = used + Cardinality(pool)
      /\ Cardinality(pool) \in Nat
  BY PoolGapless DEF NoncesInv
<1>2. CASE UNCHANGED chainVars
  <2>1. Free' = Free /\ UNCHANGED <<used, final, pool, ledger>>
    BY <1>2 DEF chainVars, Free
  <2>2. QED
    BY <1>1, <2>1
<1>3. CASE Pools(h)
  <2>1. UNCHANGED <<used, final, ledger>> /\ OnBase
    BY <1>3 DEF Pools
  <2>2. Gapless(used', pool') /\ (Free' = Free + 1 \/ Free' = Free)
    BY <1>3, PoolsGapless
  <2>3. QED
    BY <1>1, <2>1, <2>2
<1>4. CASE Executes(h)
  <2>1. /\ used' = handler[h].nonce /\ handler[h].nonce > used /\ ~OnBase
        /\ UNCHANGED <<final, pool>>
    BY <1>4 DEF Executes, Execute
  <2>2. used' = used + 1
    BY <1>1, <1>4, <2>1 DEF NoncesInv, Executes, TypeOK, State
  <2>3. Len(ledger') = used + 1
    <3>1. PICK y \in Tx : ledger' = Append(ledger, y)
      BY <1>4, Serving DEF Executes, Execute
    <3>2. QED
      BY <1>1, <3>1, AppendExecuted
  <2>4. pool' = {} /\ Cardinality(pool) = 0 /\ Free' = used' + Cardinality(pool)
    BY <1>1, <2>1, FS_EmptySet DEF Free
  <2>5. Gapless(used', pool')
    <3> DEFINE u == used'
    <3>1. u \in Nat /\ u = used + 1
      BY <1>1, <2>2
    <3> HIDE DEF u
    <3>2. u..(u + 0 - 1) = {}
      BY <3>1
    <3>3. Cardinality(pool') = 0
      BY <2>4, FS_EmptySet
    <3>4. Gapless(u, pool')
      BY <2>4, <3>2, <3>3 DEF Gapless
    <3>5. QED
      BY <3>4 DEF u
  <2>6. QED
    BY <1>1, <2>1, <2>2, <2>3, <2>4, <2>5
<1>5. QED
  BY <1>2, <1>3, <1>4 DEF Affects

\* The pool of the next state is without a gap up to its pending nonce.
LEMMA GaplessNonces ==
  ASSUME TypeOK', Gapless(used', pool')
  PROVE  /\ \A p, q \in pool' : p.nonce = q.nonce => p = q
         /\ {p.nonce : p \in pool'} = used'..(Free' - 1)
<1>1. IsFiniteSet(pool') /\ used' \in Nat
  BY DEF TypeOK
<1>2. Cardinality(pool') \in Nat
  BY <1>1, FS_CardinalityType
<1>3. Free' = used' + Cardinality(pool')
  BY DEF Free
<1> DEFINE u == used'
           q == pool'
           f == Free'
<1>4. u \in Nat /\ Cardinality(q) \in Nat /\ f = u + Cardinality(q) /\ Gapless(u, q)
  BY <1>1, <1>2, <1>3
<1> HIDE DEF u, q, f
<1>5. f - 1 = u + Cardinality(q) - 1
  BY <1>4
<1>6. {p.nonce : p \in q} = u..(f - 1) /\ \A p, r \in q : p.nonce = r.nonce => p = r
  BY <1>4, <1>5 DEF Gapless
<1>7. QED
  BY <1>6 DEF u, q, f

\* Every step of a handler keeps NoncesInv.
LEMMA ServeNonces ==
  ASSUME TypeOK, OperationsInv, NoncesInv, NEW h \in Handlers, Serve(h) \/ StepFails(h), TypeOK'
  PROVE  NoncesInv'
<1> DEFINE s == handler[h]
<1>1. Busy(h) /\ Affects(h) /\ UNCHANGED signer /\ Becomes(h, handler'[h])
  BY ServeFollows, FollowsAnswered
<1>2. /\ used' = Len(ledger') /\ final' = final /\ used' >= used /\ Free' >= Free
      /\ used' \in Nat /\ Free' \in Nat /\ (~OnBase => pool' = {})
      /\ Gapless(used', pool')
  BY <1>1, AffectsNonces
<1>3. used \in Nat /\ final \in Nat /\ Free \in Nat /\ final <= used /\ (OnBase' <=> OnBase)
      /\ Cardinality(pool) \in Nat /\ Free = used + Cardinality(pool)
  BY <1>1, PoolGapless DEF NoncesInv, OnBase
<1>4. used' = Len(ledger') /\ final' <= used' /\ (~OnBase' => pool' = {})
  BY <1>2, <1>3
<1>5. /\ \A p, q \in pool' : p.nonce = q.nonce => p = q
      /\ {p.nonce : p \in pool'} = used'..(Free' - 1)
  BY <1>2, GaplessNonces
<1>6. ASSUME NEW g \in Handlers, handler'[g].step = "send"
      PROVE  handler'[g].nonce <= IF OnBase' THEN Free' ELSE used' + 1
  <2>1. handler'[g].nonce <= IF OnBase THEN Free ELSE used + 1
    <3>1. CASE g = h
      <4>1. CASE handler'[h].nonce = IF OnBase THEN NonceFor(h) ELSE final + 1
        BY <1>3, <3>1, <4>1 DEF NonceFor
      <4>2. CASE OnBase /\ Approving(h) /\ handler'[h].nonce = s.nonce + 1
        <5>1. s.nonce < Free /\ s.nonce \in Nat
          BY <4>2 DEF NoncesInv, TypeOK, State
        <5>2. QED
          BY <1>3, <3>1, <4>2, <5>1
      <4>3. QED
        BY <1>6, <3>1, <4>1, <4>2, SendOrigin
    <3>2. CASE g # h
      BY <1>1, <1>6, <3>2 DEF NoncesInv, Becomes, At
    <3>3. QED
      BY <3>1, <3>2
  <2>2. handler'[g].nonce \in Nat
    BY DEF TypeOK, State
  <2>3. QED
    BY <1>2, <1>3, <2>1, <2>2
<1>7. ASSUME NEW g \in Handlers, Approving(g)' PROVE handler'[g].nonce < Free'
  <2>1. CASE g = h
    <3>1. Pools(h) /\ Goes(h, s.at, s.nonce, "wait")
      BY <1>7, <2>1, WaitOrigin DEF Approving, At
    <3>2. handler'[h].nonce = s.nonce
      BY <3>1 DEF Goes, Becomes, With
    <3>3. QED
      BY <1>1, <2>1, <3>1, <3>2, PoolsGapless
  <2>2. CASE g # h
    <3>1. Approving(g) /\ handler'[g] = handler[g]
      BY <1>1, <1>7, <2>2 DEF Approving, Becomes, At
    <3>2. handler[g].nonce < Free /\ handler[g].nonce \in Nat
      BY <3>1 DEF NoncesInv, TypeOK, State
    <3>3. QED
      BY <1>2, <1>3, <3>1, <3>2
  <2>3. QED
    BY <2>1, <2>2
<1>8. QED
  BY <1>4, <1>5, <1>6, <1>7 DEF NoncesInv, At

\* What is mined leaves the pending nonce as it is.
LEMMA MineNonces ==
  ASSUME TypeOK, NoncesInv, Mine, TypeOK'
  PROVE  NoncesInv' /\ Free' = Free /\ OnBase
<1>1. PICK p \in pool :
         /\ p.nonce = used /\ p.tx \in Tx /\ pool' = pool \ {p}
         /\ ledger' = Append(ledger, p.tx) /\ MayRevert(p.tx)
           /\ used' = used + 1 /\ final' = used + 1
         /\ UNCHANGED <<signer, operation, handler>>
  BY MineForm
<1>2. /\ Gapless(used, pool) /\ Free = used + Cardinality(pool) /\ Cardinality(pool) \in Nat
      /\ pool \subseteq [nonce: Nat, tx: Tx] /\ IsFiniteSet(pool) /\ used \in Nat /\ Free \in Nat
  BY PoolGapless
<1>3. Cardinality(pool') + 1 = Cardinality(pool) /\ Gapless(used + 1, pool')
  <2> DEFINE new == pool'
  <2>1. new = pool \ {p} /\ p \in pool /\ p.nonce = used
    BY <1>1
  <2> HIDE DEF new
  <2>2. Cardinality(new) + 1 = Cardinality(pool) /\ Gapless(used + 1, new)
    BY <1>2, <2>1, PoolMines
  <2>3. QED
    BY <2>2 DEF new
<1>4. Cardinality(pool') \in Nat
  BY FS_CardinalityType DEF TypeOK
<1>5. Free' = used' + Cardinality(pool')
  BY DEF Free
<1>6. Free' = Free
  BY <1>1, <1>2, <1>3, <1>4, <1>5
<1>7. /\ \A p1, q \in pool' : p1.nonce = q.nonce => p1 = q
      /\ {p1.nonce : p1 \in pool'} = used'..(Free' - 1)
  BY <1>1, <1>3, GaplessNonces
<1>8. OnBase /\ OnBase'
  BY <1>1 DEF NoncesInv, OnBase
<1>9. used' = Len(ledger')
  BY <1>1, <1>2, AppendExecuted DEF NoncesInv
<1>10. \A g \in Handlers : handler'[g].step = "send" => handler'[g].nonce <= Free'
  BY <1>1, <1>6, <1>8 DEF NoncesInv, At
<1>11. \A g \in Handlers : Approving(g)' => handler'[g].nonce < Free'
  BY <1>1, <1>6 DEF NoncesInv, Approving, At
<1>12. final' <= used'
  BY <1>1, <1>2
<1>13. NoncesInv'
  BY <1>7, <1>8, <1>9, <1>10, <1>11, <1>12 DEF NoncesInv, At
<1>14. QED
  BY <1>6, <1>8, <1>13

\* Every step keeps NoncesInv.
LEMMA NoncesStep ==
  ASSUME TypeOK, OperationsInv, NoncesInv, Next, TypeOK'
  PROVE  NoncesInv'
<1>1. ASSUME NEW h \in Handlers, NEW t \in Tasks, NEW s \in State, Begun(h, t, s)
      PROVE  NoncesInv'
  <2>1. Becomes(h, s) /\ UNCHANGED <<signer, chainVars>> /\ s.step \in {"check", "nonce"}
    BY <1>1 DEF Begun
  <2>2. \A g \in Handlers : /\ At(g, "send")' => At(g, "send") /\ handler'[g] = handler[g]
                            /\ Approving(g)' => Approving(g) /\ handler'[g] = handler[g]
    BY <2>1 DEF Becomes, At, Approving
  <2>3. UNCHANGED <<used, final, pool, ledger>> /\ Free' = Free /\ (OnBase' <=> OnBase)
    BY <2>1 DEF chainVars, Free, OnBase
  <2>4. QED
    BY <2>2, <2>3 DEF NoncesInv
<1>2. CASE \E h \in Handlers : Serve(h) \/ StepFails(h)
  BY <1>2, ServeNonces
<1>3. CASE Mine
  BY <1>3, MineNonces
<1>4. CASE Settle
  <2>1. /\ UNCHANGED <<signer, used, pool, ledger, handler>> /\ final < used
        /\ final' = final + 1 /\ Free' = Free /\ (OnBase' <=> OnBase)
    BY <1>4 DEF Settle, Free, OnBase
  <2>2. final' <= used'
    BY <2>1 DEF TypeOK
  <2>3. \A g \in Handlers : (At(g, "send")' <=> At(g, "send")) /\ (Approving(g)' <=> Approving(g))
    BY <2>1 DEF At, Approving
  <2>4. QED
    BY <2>1, <2>2, <2>3 DEF NoncesInv
<1>5. QED
  BY <1>1, <1>2, <1>3, <1>4, NextCases

-----------------------------------------------------------------------------
(* AloneInv                                                                *)

\* An operation that is alone is not refused.
LEMMA AloneServe ==
  ASSUME TypeOK, OperationsInv, NoncesInv, AloneInv, Undisturbed, NEW h \in Handlers, Serve(h),
         reverted' = {}
  PROVE  /\ ~Ends(h, "failed")
         /\ Send(h) => Pools(h) /\ Taken(handler[h].nonce) = {}
         /\ SendTransaction(h) => Executes(h) /\ Continues(h)
<1> DEFINE s == handler[h]
<1>1. /\ Gapless(used, pool) /\ Free = used + Cardinality(pool) /\ Cardinality(pool) \in Nat
      /\ used \in Nat /\ s.nonce \in Nat
  BY PoolGapless DEF TypeOK, State
<1>2. ~\E p \in pool : p.nonce = Free
  <2>1. \A p \in pool : p.nonce \in used..(Free - 1)
    BY DEF NoncesInv
  <2>2. Free \notin used..(Free - 1)
    BY <1>1
  <2>3. QED
    BY <2>1, <2>2
<1>3. ASSUME Send(h) PROVE Pools(h) /\ Taken(s.nonce) = {} /\ handler'[h] # Idle
  <2>1. s.step = "send" /\ OnBase
    BY <1>3, SendForms
  <2>2. s.nonce = Free
    BY <2>1 DEF AloneInv, Undisturbed, At
  <2>3. ~(s.nonce < used) /\ ~\E p \in pool : p.nonce = s.nonce
    BY <1>1, <1>2, <2>2
  <2>4. /\ pool' = (pool \ {p \in pool : p.nonce = s.nonce})
                     \cup {[nonce |-> s.nonce, tx |-> Sent(h)]}
        /\ s.nonce >= used /\ Goes(h, s.at, s.nonce, "wait")
        /\ UNCHANGED <<used, final, ledger, reverted, registered>>
    BY <1>3, <2>3, SendForms
  <2>5. handler'[h].step = "wait"
    BY <2>4 DEF Goes, Becomes, With
  <2>6. QED
    BY <2>1, <2>3, <2>4, <2>5 DEF Pools, Taken, At, Idle
<1>4. ASSUME SendTransaction(h) PROVE Executes(h) /\ Continues(h)
  <2>1. s.step = "send" /\ ~OnBase /\ UNCHANGED <<final, pool>>
    BY <1>4, SendTransactionForms
  <2>2. s.nonce = used + 1
    BY <2>1 DEF AloneInv, Undisturbed, At
  <2>3. s.nonce > used /\ ~(s.nonce <= used)
    BY <1>1, <2>2
  <2>4. Execute(h) /\ Continues(h)
    BY <1>4, <2>3, SendTransactionForms
  <2>5. QED
    BY <2>1, <2>3, <2>4 DEF Executes, At
<1>5. ASSUME Ends(h, "failed") PROVE FALSE
  <2>0. Busy(h) /\ handler'[h] = Idle
    BY <1>5, ServeFollows DEF Ends, Becomes
  <2>a. reverted = {}
    BY DEF Undisturbed
  <2>1. s.step = "send" \/ ~InFlight(Sent(h))
    <3>1. s.step = "send" \/ ~Alive(Sent(h))
      BY <1>5, FailsLast
    <3>2. InFlight(Sent(h)) => Alive(Sent(h))
      BY <2>a DEF InFlight, Alive, Effective
    <3>3. QED
      BY <3>1, <3>2
  <2>n. \A at, nonce, step : Goes(h, at, nonce, step) => step = "idle"
    BY <2>0 DEF Goes, Becomes, With, Idle
  <2>2. ~Ends(h, "done")
    <3> SUFFICES ASSUME Ends(h, "done") PROVE FALSE
      OBVIOUS
    <3>1. Answer(h, "done") /\ Answer(h, "failed")
      BY <1>5, <2>0, Answers DEF Ends
    <3>2. QED
      BY <3>1 DEF Answer
  <2>g. /\ ~Goes(h, s.at, s.nonce, "nonce") /\ ~Goes(h, 3, s.nonce, "check")
        /\ ~Goes(h, 2, s.nonce, "delay")
    BY <2>n
  <2>3. CASE ReadNonce(h) \/ ReadAccessKey(h)
    <3>1. PICK n : Goes(h, s.at, n, "send")
      BY <2>3, ReadForms
    <3>2. QED
      BY <2>n, <3>1
  <2>4. CASE Wait(h)
    <3>1. s.step = "wait" /\ ~Pending(Sent(h))
      BY <2>4, WaitForms
    <3>2. InFlight(Sent(h))
      BY <3>1 DEF AloneInv, Undisturbed, At
    <3>3. QED
      BY <2>1, <3>1, <3>2
  <2>5. CASE Check(h)
    BY <2>2, <2>5, <2>g, CheckForms
  <2>6. CASE SendTransaction(h)
    <3>1. Continues(h) /\ ~OnBase
      BY <1>4, <2>6, SendTransactionForms
    <3>2. ~Created(h)
      BY <2>0 DEF Created, Becomes, With, Idle
    <3>3. QED
      BY <2>0, <2>2, <2>g, <3>1, <3>2, ContinuesForms
  <2>7. CASE DelayOver(h)
    BY <2>7, <2>g, DelayForms
  <2>8. QED
    BY <1>3, <2>0, <2>3, <2>4, <2>5, <2>6, <2>7 DEF Serve
<1>6. QED
  BY <1>3, <1>4, <1>5

\* Every step of a handler keeps AloneInv.
LEMMA ServeAlone ==
  ASSUME TypeOK, OperationsInv, NoncesInv, AloneInv, RegistersInv, NEW h \in Handlers,
         Serve(h) \/ StepFails(h), TypeOK'
  PROVE  AloneInv'
<1> DEFINE s == handler[h]
<1> SUFFICES ASSUME failures' = 0, races' = {}, reverted' = {}
             PROVE  /\ \A g, k \in Handlers : Holds(g)' /\ Holds(k)' => g = k
                    /\ \A g \in Handlers :
                         /\ At(g, "send")' => handler'[g].nonce = (IF OnBase' THEN Free' ELSE used' + 1)
                         /\ Approving(g)' => handler'[g].nonce + 1 = Free'
                         /\ At(g, "wait")' => InFlight(Sent(g))'
                    /\ \A t \in Tasks : operation'[t].status # "failed"
  BY DEF AloneInv, Undisturbed
<1>1. Serve(h) /\ Undisturbed
  <2>1. races = {} /\ failures = 0 /\ Serve(h)
    BY HistoryStep
  <2>2. reverted = {}
    BY ServeFollows, TookStep
  <2>3. QED
    BY <2>1, <2>2 DEF Undisturbed
<1>2. /\ Busy(h) /\ Affects(h) /\ UNCHANGED signer /\ Becomes(h, handler'[h]) /\ Follows(h)
      /\ Kept(h)
  BY <1>1, ServeFollows, FollowsAnswered, AnsweredKept
<1>3. /\ \A g, k \in Handlers : Holds(g) /\ Holds(k) => g = k
      /\ \A g \in Handlers :
           /\ At(g, "send") => handler[g].nonce = (IF OnBase THEN Free ELSE used + 1)
           /\ Approving(g) => handler[g].nonce + 1 = Free
           /\ At(g, "wait") => InFlight(Sent(g))
      /\ \A t \in Tasks : operation[t].status # "failed"
  BY <1>1 DEF AloneInv, Undisturbed
<1>4. /\ used \in Nat /\ final \in Nat /\ Free \in Nat /\ final <= used /\ (OnBase' <=> OnBase)
      /\ Cardinality(pool) \in Nat /\ Free = used + Cardinality(pool)
  BY <1>2, PoolGapless DEF NoncesInv, OnBase
<1>5. \A g \in Handlers \ {h} :
        /\ handler'[g] = handler[g] /\ (Holds(g)' <=> Holds(g))
        /\ \A step : At(g, step)' <=> At(g, step)
        /\ Approving(g)' <=> Approving(g)
  BY <1>2 DEF Becomes, Holds, At, Approving
<1>6. ASSUME Holds(h)' PROVE Holds(h) \/ \A g \in Handlers \ {h} : ~Holds(g)
  <2>1. CASE handler'[h].step = "send"
    <3>1. CASE ReadNonce(h) \/ ReadAccessKey(h)
      <4>1. ~Holding(h)
        BY <1>1, <3>1 DEF ReadNonce, ReadAccessKey, Records, Undisturbed
      <4>2. QED
        BY <4>1 DEF Holding
    <3>2. CASE Approving(h)
      BY <3>2 DEF Holds
    <3>3. QED
      BY <2>1, <3>1, <3>2, SendOrigin
  <2>2. CASE Approving(h)'
    BY <2>2, WaitOrigin DEF Approving, At, Pools, Holds
  <2>3. QED
    BY <1>6, <2>1, <2>2 DEF Holds, At
<1>7. \A g, k \in Handlers : Holds(g)' /\ Holds(k)' => g = k
  BY <1>3, <1>5, <1>6
\* What another one holds is not changed.
<1>8. ASSUME NEW g \in Handlers \ {h}, Holds(g) PROVE UNCHANGED chainVars /\ Free' = Free
  <2>1. ~At(h, "send")
    BY <1>3, <1>8 DEF Holds
  <2>2. UNCHANGED chainVars
    BY <1>2, <2>1 DEF Affects, Pools, Executes
  <2>3. QED
    BY <2>2 DEF chainVars, Free
<1>9. ASSUME NEW g \in Handlers, At(g, "send")'
      PROVE  handler'[g].nonce = (IF OnBase' THEN Free' ELSE used' + 1)
  <2>1. CASE g # h
    BY <1>3, <1>4, <1>5, <1>8, <1>9, <2>1 DEF Holds, chainVars
  <2>2. CASE g = h
    <3>1. UNCHANGED chainVars /\ Free' = Free
      BY <1>9, <2>2, SendOrigin DEF At, chainVars, Free
    <3>2. CASE /\ ReadNonce(h) \/ ReadAccessKey(h)
               /\ handler'[h].nonce = IF OnBase THEN NonceFor(h) ELSE final + 1
      <4>1. CASE OnBase
        <5>1. ReadNonce(h)
          BY <3>2, <4>1 DEF ReadAccessKey
        <5>2. ~(s.kind = "contribute" /\ pool # {})
          BY <1>1, <5>1 DEF ReadNonce, Records, Undisturbed
        <5>3. pool = {} => Free = used
          <6> SUFFICES ASSUME pool = {} PROVE Free = used
            OBVIOUS
          <6>1. Cardinality(pool) = 0
            BY FS_EmptySet
          <6>2. QED
            BY <1>4, <6>1
        <5>4. NonceFor(h) = Free
          BY <5>2, <5>3 DEF NonceFor
        <5>5. QED
          BY <1>4, <2>2, <3>1, <3>2, <4>1, <5>4
      <4>2. CASE ~OnBase
        <5>1. ReadAccessKey(h) /\ s.step = "nonce"
          BY <3>2, <4>2 DEF ReadNonce, ReadAccessKey, At
        <5>2. ~(final < used /\ ~(s.at = 3 /\ used = s.nonce))
          BY <1>1, <5>1 DEF ReadAccessKey, Records, Undisturbed
        <5>3. final = used
          <6>1. CASE s.at = 3 /\ used = s.nonce
            <7>1. s.kind = "create"
              <8>1. /\ s.kind \in {"call", "unread", "create", "register"}
                    /\ s.at \in 1..Len(Transactions(s.kind))
                BY <1>2, <4>2, Serving
              <8>2. s.kind \in KindNames
                BY <8>1 DEF KindNames
              <8> DEFINE n == Len(Transactions(s.kind))
              <8>3. s.kind \in {"call", "unread", "register"} => n = 1
                BY <8>2, KindLengths
              <8>4. s.at \in 1..n
                BY <8>1
              <8> HIDE DEF n
              <8>5. QED
                BY <6>1, <8>1, <8>3, <8>4
            <7>2. QED
              BY <1>1, <1>2, <5>1, <6>1, <7>1 DEF RegistersInv, Undisturbed
          <6>2. CASE ~(final < used)
            BY <1>4, <6>2
          <6>3. QED
            BY <5>2, <6>1, <6>2
        <5>4. used' = used
          BY <3>1 DEF chainVars
        <5>5. QED
          BY <1>4, <2>2, <3>2, <4>2, <5>3, <5>4
      <4>3. QED
        BY <4>1, <4>2
    <3>3. CASE OnBase /\ Approving(h) /\ handler'[h].nonce = s.nonce + 1
      BY <1>3, <1>4, <2>2, <3>1, <3>3
    <3>4. QED
      BY <1>9, <2>2, <3>2, <3>3, SendOrigin DEF At
  <2>3. QED
    BY <2>1, <2>2
<1>10. ASSUME At(h, "wait")'
       PROVE  /\ Pools(h) /\ Taken(s.nonce) = {} /\ handler'[h].nonce = s.nonce
              /\ s.nonce = Free /\ Free' = Free + 1 /\ Sent(h)' = Sent(h)
  <2>1. Pools(h) /\ Goes(h, s.at, s.nonce, "wait")
    BY <1>10, WaitOrigin DEF At
  <2>2. handler'[h].nonce = s.nonce /\ Sent(h)' = Sent(h)
    BY <2>1 DEF Goes, Becomes, With, Sent
  <2>3. s.nonce = Free
    BY <1>3, <2>1 DEF Pools
  <2>4. Taken(s.nonce) = {}
    <3>1. \A p \in pool : p.nonce \in used..(Free - 1)
      BY DEF NoncesInv
    <3>2. Free \notin used..(Free - 1)
      BY <1>4
    <3>3. QED
      BY <2>3, <3>1, <3>2 DEF Taken
  <2>5. Free' = Free + 1
    BY <1>2, <2>1, <2>4, PoolsGapless
  <2>6. QED
    BY <2>1, <2>2, <2>3, <2>4, <2>5
<1>11. ASSUME NEW g \in Handlers, Approving(g)' PROVE handler'[g].nonce + 1 = Free'
  <2>1. CASE g # h
    BY <1>3, <1>5, <1>8, <1>11, <2>1 DEF Holds
  <2>2. CASE g = h
    <3>1. At(h, "wait")'
      BY <1>11, <2>2 DEF Approving
    <3>2. QED
      BY <1>10, <2>2, <3>1
  <2>3. QED
    BY <2>1, <2>2
\* Nothing is replaced in the pool.
<1>12. ASSUME NEW x \in Tx, InFlight(x) PROVE InFlight(x)'
  <2>1. CASE UNCHANGED chainVars
    BY <1>12, <2>1 DEF chainVars, InFlight, Pending, Executed
  <2>2. CASE Pools(h)
    <3>1. s.step = "send" /\ OnBase
      BY <2>2 DEF Pools, At
    <3>2. s.nonce = Free
      BY <1>3, <3>1 DEF At
    <3>3. Taken(s.nonce) = {}
      <4>1. \A p \in pool : p.nonce \in used..(Free - 1)
        BY DEF NoncesInv
      <4>2. Free \notin used..(Free - 1)
        BY <1>4
      <4>3. QED
        BY <3>2, <4>1, <4>2 DEF Taken
    <3>4. pool \subseteq pool' /\ ledger' = ledger
      BY <2>2, <3>3 DEF Pools
    <3>5. QED
      BY <1>12, <3>4 DEF InFlight, Pending, Executed
  <2>3. CASE Executes(h)
    <3>1. pool' = pool
      BY <2>3 DEF Executes
    <3>2. Executed(x) => Executed(x)'
      BY <1>2, FlightStep
    <3>3. QED
      BY <1>12, <3>1, <3>2 DEF InFlight, Pending
  <2>4. QED
    BY <1>2, <2>1, <2>2, <2>3 DEF Affects
<1>13. ASSUME NEW g \in Handlers, At(g, "wait")' PROVE InFlight(Sent(g))'
  <2>1. CASE g # h
    <3>1. At(g, "wait") /\ handler'[g] = handler[g]
      BY <1>5, <1>13, <2>1
    <3>2. Busy(g)
      BY <3>1 DEF At, Busy
    <3>3. PICK x \in Tx : x = Sent(g)
      BY <3>2, Serving
    <3>4. InFlight(x)'
      BY <1>3, <1>12, <3>1, <3>3
    <3>5. Sent(g)' = x
      BY <3>1, <3>3 DEF Sent
    <3>6. QED
      BY <3>4, <3>5 DEF InFlight, Pending, Executed
  <2>2. CASE g = h
    <3>1. [nonce |-> s.nonce, tx |-> Sent(h)] \in pool' /\ Sent(h)' = Sent(h)
      BY <1>10, <1>13, <2>2 DEF Pools
    <3>2. \E p \in pool' : p.tx = Sent(h)'
      BY <3>1
    <3>3. QED
      BY <2>2, <3>2 DEF InFlight, Pending
  <2>3. QED
    BY <2>1, <2>2
<1>14. ASSUME NEW t \in Tasks, operation'[t].status = "failed" PROVE FALSE
  <2>1. operation[t].status # "failed" /\ ~UNCHANGED operation
    BY <1>3, <1>14
  <2>2. t = s.task
    BY <1>2, <2>1, <1>14 DEF Kept
  <2>3. ~Answer(h, "done")
    BY <1>14, <2>2 DEF Answer
  <2>4. ~Ends(h, "done") /\ ~Created(h)
    BY <1>2, <2>3, Answers DEF Ends, Created
  <2>5. \A at, nonce, step : ~Goes(h, at, nonce, step)
    BY <2>1 DEF Goes
  <2>6. Ends(h, "failed")
    BY <1>2, <2>4, <2>5 DEF Follows
  <2>7. QED
    BY <1>1, <2>6, AloneServe
<1>15. QED
  BY <1>7, <1>9, <1>11, <1>13, <1>14

\* Every step keeps AloneInv.
LEMMA AloneStep ==
  ASSUME TypeOK, OperationsInv, NoncesInv, AloneInv, RegistersInv, Next, TypeOK'
  PROVE  AloneInv'
<1>1. ASSUME NEW h \in Handlers, NEW t \in Tasks, NEW s \in State, Begun(h, t, s)
      PROVE  AloneInv'
  <2>1. /\ Becomes(h, s) /\ s.step \in {"check", "nonce"}
        /\ UNCHANGED <<signer, used, final, pool, ledger, reverted, races, failures>>
        /\ operation'[t] = [kind |-> s.kind, status |-> "running"]
        /\ \A u \in Tasks \ {t} : operation'[u] = operation[u]
    BY <1>1 DEF Begun, chainVars
  <2>2. Free' = Free /\ (OnBase' <=> OnBase)
    BY <2>1 DEF Free, OnBase
  <2>3. \A g \in Handlers :
          /\ Holds(g)' => Holds(g) /\ handler'[g] = handler[g]
          /\ At(g, "send")' => At(g, "send") /\ handler'[g] = handler[g]
          /\ At(g, "wait")' => At(g, "wait") /\ handler'[g] = handler[g]
          /\ Approving(g)' => Approving(g) /\ handler'[g] = handler[g]
    BY <2>1 DEF Becomes, Holds, At, Approving
  <2>4. \A g \in Handlers : handler'[g] = handler[g] /\ InFlight(Sent(g)) => InFlight(Sent(g))'
    BY <2>1 DEF InFlight, Pending, Executed, Sent
  <2>5. \A u \in Tasks : operation[u].status # "failed" => operation'[u].status # "failed"
    BY <2>1
  <2>6. QED
    BY <2>1, <2>2, <2>3, <2>4, <2>5 DEF AloneInv, Undisturbed
<1>2. CASE \E h \in Handlers : Serve(h) \/ StepFails(h)
  BY <1>2, ServeAlone
<1>3. CASE Mine \/ Settle
  <2>1. UNCHANGED <<signer, operation, handler, races, failures>>
    BY <1>3 DEF Mine, Settle
  <2>2. /\ OnBase' <=> OnBase
        /\ \A g \in Handlers : /\ Holds(g)' <=> Holds(g)
                               /\ \A step : At(g, step)' <=> At(g, step)
                               /\ Approving(g)' <=> Approving(g)
                               /\ handler'[g] = handler[g]
    BY <2>1 DEF OnBase, Holds, At, Approving
  <2>3. Free' = Free /\ (OnBase \/ used' = used)
    BY <1>3, MineNonces DEF Settle, Free
  <2>4. \A x \in Tx : InFlight(x) => InFlight(x)'
    BY <1>3, MineFlight DEF Settle, InFlight, Pending, Executed
  <2>5. ASSUME NEW g \in Handlers, At(g, "wait"), InFlight(Sent(g)) PROVE InFlight(Sent(g))'
    <3>1. Busy(g)
      BY <2>5 DEF At, Busy
    <3>2. PICK x \in Tx : x = Sent(g)
      BY <3>1, Serving
    <3>3. InFlight(x)'
      BY <2>4, <2>5, <3>2
    <3>4. Sent(g)' = x
      BY <2>1, <3>2 DEF Sent
    <3>5. QED
      BY <3>3, <3>4 DEF InFlight, Pending, Executed
  <2>6. Undisturbed' => Undisturbed
    BY <1>3, <2>1, MineForm, Reverts DEF Settle, Undisturbed
  <2>7. QED
    BY <2>1, <2>2, <2>3, <2>5, <2>6 DEF AloneInv
<1>4. QED
  BY <1>1, <1>2, <1>3, NextCases

-----------------------------------------------------------------------------
(* RegistersInv                                                            *)

\* The transaction of a handler was executed.
Tried(s) == Executed([task |-> s.task, kind |-> s.kind, at |-> s.at])

\* What a handler that registers the tokens of a new account relies on.
Registering(s) ==
  LET first == <<s.task, "usdt">> \in registered
  IN /\ s.at = 3 \/ s.step = "delay" => first
     /\ s.step = "delay" => Tried(s)
     /\ s.at > 1 /\ s.step # "send" => s.nonce <= used
     /\ s.at = 2 /\ s.step \in {"check", "nonce"} /\ first => s.nonce < used
     /\ s.at = 3 /\ s.step \in {"check", "nonce"} /\ s.nonce = used => final = used

\* RegistersInv in these terms.
LEMMA RegistersForm ==
  RegistersInv <=>
    (Undisturbed =>
      /\ \A t \in Tasks : operation[t] = [kind |-> "create", status |-> "done"] =>
           \/ {t} \X Tokens \subseteq registered
           \/ \E h \in Handlers : Busy(h) /\ handler[h].task = t
      /\ \A h \in Handlers :
           Busy(h) /\ handler[h].kind = "create" => Registering(handler[h]))
  BY DEF RegistersInv, Registering, Tried, Sent

\* The steps of the handler of a new account.
LEMMA CreateRegistering ==
  ASSUME TypeOK, OperationsInv, NoncesInv, AloneInv, Undisturbed, NEW h \in Handlers, Serve(h),
         handler[h].kind = "create", Registering(handler[h]), Busy(h)', TypeOK', reverted' = {}
  PROVE  Registering(handler[h])'
<1> DEFINE s == handler[h]
<1>1. /\ Busy(h) /\ Running(s) /\ s.task \in Tasks /\ ~OnBase /\ s.nonce \in Nat
      /\ s.account = s.task /\ s.at \in 1..3
  <2>1. Busy(h)
    BY ServeFollows
  <2>2. /\ Running(s) /\ s.task \in Tasks /\ s.at \in 1..3 /\ s \in State
        /\ s.kind \in IF OnBase THEN {"call", "start", "contribute"}
                                ELSE {"call", "unread", "create", "register"}
    BY <2>1, Serving
  <2>3. ~OnBase /\ s.nonce \in Nat
    BY <2>2 DEF State
  <2>4. s.account = s.task
    BY <2>2 DEF Running
  <2>5. QED
    BY <2>1, <2>2, <2>3, <2>4
<1>2. used \in Nat /\ final \in Nat /\ final <= used
  BY DEF NoncesInv, TypeOK
<1>3. /\ s.at = 3 \/ s.step = "delay" => <<s.task, "usdt">> \in registered
      /\ s.step = "delay" => Tried(s)
      /\ s.at > 1 /\ s.step # "send" => s.nonce <= used
      /\ /\ s.at = 2 /\ s.step \in {"check", "nonce"} /\ <<s.task, "usdt">> \in registered
         => s.nonce < used
      /\ s.at = 3 /\ s.step \in {"check", "nonce"} /\ s.nonce = used => final = used
  BY DEF Registering
<1>4. \A at, nonce, step : Goes(h, at, nonce, step) =>
        /\ handler'[h].task = s.task /\ handler'[h].at = at
        /\ handler'[h].nonce = nonce /\ handler'[h].step = step
  BY DEF Goes, Becomes, With
<1>5. \A status : ~Ends(h, status)
  BY DEF Ends, Becomes, Busy, At, Idle
<1>6. TokenOf(h) = (IF s.at = 1 THEN "account" ELSE IF s.at = 2 THEN "usdt" ELSE "usdc")
  BY <1>1, KindFacts DEF TokenOf
<1>7. CASE ReadNonce(h) \/ ReadAccessKey(h)
  <2>1. PICK n : Goes(h, s.at, n, "send")
    BY <1>7, ReadForms
  <2>2. handler'[h].task = s.task /\ handler'[h].at = s.at /\ handler'[h].step = "send"
    BY <1>4, <2>1
  <2>3. UNCHANGED registered
    BY <1>7 DEF ReadNonce, ReadAccessKey, chainVars
  <2>4. QED
    BY <1>3, <2>2, <2>3 DEF Registering
<1>8. CASE Check(h)
  <2>1. UNCHANGED <<used, final, registered>> /\ s.step = "check"
    BY <1>8 DEF Check, chainVars, At
  <2>2. s.at > 1
    BY <1>1, <2>1 DEF Running
  <2>3. CASE /\ <<s.account, TokenOf(h)>> \notin registered
             /\ Goes(h, s.at, s.nonce, "nonce")
    <3>1. /\ handler'[h].task = s.task /\ handler'[h].at = s.at
          /\ handler'[h].nonce = s.nonce /\ handler'[h].step = "nonce"
      BY <1>4, <2>3
    <3>2. QED
      BY <1>1, <1>3, <2>1, <2>2, <3>1 DEF Registering
  <2>4. CASE /\ <<s.account, TokenOf(h)>> \in registered
             /\ s.at = 2 /\ Goes(h, 3, s.nonce, "check")
    <3>1. /\ handler'[h].task = s.task /\ handler'[h].at = 3
          /\ handler'[h].nonce = s.nonce /\ handler'[h].step = "check"
      BY <1>4, <2>4
    <3>2. <<s.task, "usdt">> \in registered
      BY <1>1, <1>6, <2>4
    <3>3. s.nonce < used
      BY <1>3, <2>1, <2>4, <3>2
    <3>4. s.nonce <= used /\ s.nonce # used
      BY <1>1, <1>2, <3>3
    <3>5. QED
      BY <2>1, <3>1, <3>2, <3>4 DEF Registering
  <2>5. QED
    BY <1>5, <1>8, <2>3, <2>4, CheckForms
<1>9. CASE SendTransaction(h)
  <2>1. Execute(h) /\ Continues(h) /\ UNCHANGED final /\ s.nonce > used /\ s.step = "send"
    BY <1>9, AloneServe DEF Executes, At
  <2>2. used' = s.nonce
    BY <2>1 DEF Execute
  <2>3. CASE Goes(h, 2, s.nonce, "delay") /\ s.at = 2
    <3>1. /\ handler'[h].task = s.task /\ handler'[h].at = 2
          /\ handler'[h].nonce = s.nonce /\ handler'[h].step = "delay"
      BY <1>4, <2>3
    <3>2. TokenOf(h) = "usdt"
      BY <1>6, <2>3
    <3>3. <<s.task, "usdt">> \in registered'
      BY <1>1, <2>1, <3>2 DEF Execute, Registers, Tokens
    <3>4. s.nonce <= used'
      BY <1>1, <2>2
    <3>5. Tried(handler[h])'
      <4>1. /\ handler'[h].task = s.task /\ handler'[h].kind = s.kind
            /\ handler'[h].at = s.at
        BY <2>3 DEF Goes, Becomes, With
      <4>2. ledger' = Append(ledger, Sent(h)) /\ Sent(h) \in Tx
        BY <1>1, <2>1, Serving DEF Execute
      <4>3. Len(ledger) + 1 \in 1..Len(ledger') /\ ledger'[Len(ledger) + 1] = Sent(h)
        BY <4>2, AppendExecuted, LedgerType
      <4>4. QED
        BY <4>1, <4>3 DEF Tried, Executed, Sent
    <3>6. QED
      BY <3>1, <3>3, <3>4, <3>5 DEF Registering
  <2>4. CASE Created(h) /\ s.at = 1
    <3>1. /\ handler'[h].task = s.task /\ handler'[h].at = 2
          /\ handler'[h].nonce = s.nonce /\ handler'[h].step = "check"
      BY <2>4 DEF Created, Becomes, With
    <3>2. TokenOf(h) = "account"
      BY <1>6, <2>4
    <3>3. registered' = registered
      BY <2>1, <3>2 DEF Execute, Registers, Tokens
    <3>4. <<s.task, "usdt">> \notin registered
      <4> SUFFICES ASSUME <<s.task, "usdt">> \in registered PROVE FALSE
        OBVIOUS
      <4>1. "usdt" \in Tokens
        BY DEF Tokens
      <4>2. operation[s.task] = [kind |-> "create", status |-> "done"]
        BY <1>1, <4>1 DEF OperationsInv
      <4>3. operation[s.task].status = "running"
        BY <1>1, <2>4 DEF Running
      <4>4. QED
        BY <4>2, <4>3
    <3>5. s.nonce <= used'
      BY <1>1, <2>2
    <3>6. QED
      BY <3>1, <3>3, <3>4, <3>5 DEF Registering
  <2>5. QED
    BY <1>1, <1>5, <2>1, <2>3, <2>4, ContinuesForms
<1>10. CASE DelayOver(h)
  <2>1. /\ s.step = "delay" /\ s.at = 2 /\ Goes(h, 3, s.nonce, "check")
    BY <1>10, DelayForms
  <2>2. final >= s.nonce /\ UNCHANGED <<used, final, registered>>
    BY <1>3, <1>10, <2>1 DEF DelayOver, chainVars, Tried, Sent
  <2>3. /\ handler'[h].task = s.task /\ handler'[h].at = 3
        /\ handler'[h].nonce = s.nonce /\ handler'[h].step = "check"
    BY <1>4, <2>1
  <2>4. s.nonce <= used /\ (s.nonce = used => final = used)
    BY <1>1, <1>2, <1>3, <2>1, <2>2
  <2>5. QED
    BY <1>3, <2>1, <2>2, <2>3, <2>4 DEF Registering
<1>11. ~Send(h) /\ ~Wait(h)
  BY <1>1 DEF Send, Wait
<1>12. QED
  BY <1>7, <1>8, <1>9, <1>10, <1>11 DEF Serve

\* The last step of the handler of a new account leaves it registered.
LEMMA CreateEnds ==
  ASSUME TypeOK, OperationsInv, NoncesInv, AloneInv, Undisturbed, NEW h \in Handlers, Serve(h),
         handler[h].kind = "create", Registering(handler[h]), Ends(h, "done"),
         reverted' = {}
  PROVE  {handler[h].task} \X Tokens \subseteq registered'
<1> DEFINE s == handler[h]
<1>1. Busy(h) /\ Running(s) /\ ~OnBase /\ s.account = s.task /\ s.at \in 1..3
  <2>1. Busy(h)
    BY ServeFollows
  <2>2. /\ Running(s) /\ s.at \in 1..3
        /\ s.kind \in IF OnBase THEN {"call", "start", "contribute"}
                                ELSE {"call", "unread", "create", "register"}
    BY <2>1, Serving
  <2>3. s.account = s.task
    BY <2>2 DEF Running
  <2>4. QED
    BY <2>1, <2>2, <2>3
<1>2. handler'[h] = Idle
  BY DEF Ends, Becomes
<1>3. \A at, nonce, step : Goes(h, at, nonce, step) => step = "idle"
  BY <1>2 DEF Goes, Becomes, With, Idle
<1>4. ~Created(h) /\ ~Goes(h, 2, s.nonce, "delay") /\ ~Goes(h, 3, s.nonce, "check")
      /\ ~Goes(h, s.at, s.nonce, "nonce")
  BY <1>2, <1>3 DEF Created, Becomes, With, Idle
<1>5. s.at = 3 => <<s.task, "usdt">> \in registered /\ TokenOf(h) = "usdc"
  BY KindFacts DEF Registering, TokenOf
<1>6. CASE Check(h)
  <2>1. s.at = 3 /\ <<s.task, "usdc">> \in registered /\ UNCHANGED registered
    BY <1>1, <1>4, <1>5, <1>6, CheckForms DEF Check, chainVars
  <2>2. QED
    BY <1>5, <2>1 DEF Tokens
<1>7. CASE SendTransaction(h)
  <2>1. Execute(h) /\ Continues(h)
    BY <1>7, AloneServe DEF Executes
  <2>2. s.at = 3
    BY <1>1, <1>4, <2>1, ContinuesForms
  <2>3. registered' = registered \cup {<<s.task, "usdc">>}
    BY <1>1, <1>5, <2>1, <2>2 DEF Execute, Registers, Tokens
  <2>4. QED
    BY <1>5, <2>2, <2>3 DEF Tokens
<1>8. CASE ReadNonce(h) \/ ReadAccessKey(h)
  <2>1. PICK n : Goes(h, s.at, n, "send")
    BY <1>8, ReadForms
  <2>2. QED
    BY <1>3, <2>1
<1>9. ~DelayOver(h) /\ ~Send(h) /\ ~Wait(h)
  BY <1>1, <1>4, DelayForms DEF Send, Wait
<1>10. QED
  BY <1>6, <1>7, <1>8, <1>9 DEF Serve

\* What was executed stays so.
LEMMA TriedKept ==
  ASSUME TypeOK, OperationsInv, NEW h \in Handlers, Busy(h), Affects(h),
         NEW g \in Handlers, Busy(g), handler'[g] = handler[g], Tried(handler[g])
  PROVE  Tried(handler[g])'
<1>1. Sent(g) \in Tx /\ Executed(Sent(g))
  BY Serving DEF Tried, Sent
<1>2. Executed(Sent(g))'
  BY <1>1, FlightStep DEF Executed, Sent
<1>3. QED
  BY <1>2 DEF Tried, Sent

\* A registration that another handler sends is no harm.
LEMMA OthersRegistering ==
  ASSUME TypeOK, OperationsInv, NoncesInv, NEW h \in Handlers, Busy(h), Affects(h),
         NEW g \in Handlers, Busy(g), handler'[g] = handler[g], Registering(handler[g])
  PROVE  Registering(handler[g])'
<1> DEFINE s == handler[g]
<1>1. used \in Nat /\ final \in Nat /\ final <= used /\ s.nonce \in Nat
  BY DEF NoncesInv, TypeOK, State
<1>t. Tried(s) => Tried(s)'
  BY TriedKept
<1>2. CASE UNCHANGED <<used, final, registered>>
  BY <1>t, <1>2 DEF Registering
<1>3. CASE Executes(h)
  <2>1. /\ used' = handler[h].nonce /\ handler[h].nonce > used /\ UNCHANGED final
        /\ registered \subseteq registered'
    BY <1>3 DEF Executes, Execute
  <2>2. handler[h].nonce \in Nat
    BY DEF TypeOK, State
  <2>3. \A n \in Nat : n <= used => n <= used' /\ n < used' /\ n # used'
    BY <1>1, <2>1, <2>2
  <2>4. s.at = 3 \/ s.step = "delay" => <<s.task, "usdt">> \in registered'
    BY <2>1 DEF Registering
  <2>5. s.at > 1 /\ s.step # "send" => s.nonce < used' /\ s.nonce <= used' /\ s.nonce # used'
    BY <1>1, <2>3 DEF Registering
  <2>6. s.at = 2 \/ s.at = 3 => s.at > 1
    OBVIOUS
  <2>7. s.step \in {"check", "nonce"} => s.step # "send"
    OBVIOUS
  <2>8. QED
    BY <1>t, <2>4, <2>5, <2>6, <2>7 DEF Registering
<1>4. QED
  BY <1>2, <1>3 DEF Affects, chainVars, Pools

\* Every step of a handler keeps RegistersInv.
LEMMA ServeRegisters ==
  ASSUME TypeOK, OperationsInv, NoncesInv, AloneInv, RegistersInv, NEW h \in Handlers,
         Serve(h) \/ StepFails(h), TypeOK'
  PROVE  RegistersInv'
<1> DEFINE s == handler[h]
<1> SUFFICES ASSUME failures' = 0, races' = {}, reverted' = {}
             PROVE  /\ \A t \in Tasks : operation'[t] = [kind |-> "create", status |-> "done"] =>
                         \/ {t} \X Tokens \subseteq registered'
                         \/ \E g \in Handlers : Busy(g)' /\ handler'[g].task = t
                    /\ \A g \in Handlers :
                         Busy(g)' /\ handler'[g].kind = "create" => Registering(handler[g])'
  BY DEF RegistersInv, Registering, Tried, Sent, Undisturbed
<1>1. Serve(h) /\ Undisturbed
  <2>1. races = {} /\ failures = 0 /\ Serve(h)
    BY HistoryStep
  <2>2. reverted = {}
    BY ServeFollows, TookStep
  <2>3. QED
    BY <2>1, <2>2 DEF Undisturbed
<1>2. /\ Busy(h) /\ Affects(h) /\ UNCHANGED signer /\ Becomes(h, handler'[h]) /\ Follows(h)
      /\ Kept(h) /\ Running(s) /\ s.task \in Tasks
  BY <1>1, ServeFollows, FollowsAnswered, AnsweredKept, Serving
<1>3. /\ \A t \in Tasks : operation[t] = [kind |-> "create", status |-> "done"] =>
           \/ {t} \X Tokens \subseteq registered
           \/ \E g \in Handlers : Busy(g) /\ handler[g].task = t
      /\ \A g \in Handlers :
           Busy(g) /\ handler[g].kind = "create" => Registering(handler[g])
  BY <1>1, RegistersForm DEF Undisturbed
<1>4. \/ handler'[h] = Idle
      \/ Busy(h)' /\ handler'[h].task = s.task /\ handler'[h].kind = s.kind
  BY <1>2, FollowsRunning DEF Running, Busy, At
<1>5. ASSUME NEW t \in Tasks, operation'[t] = [kind |-> "create", status |-> "done"]
      PROVE  \/ {t} \X Tokens \subseteq registered'
             \/ \E g \in Handlers : Busy(g)' /\ handler'[g].task = t
  <2>1. CASE t = s.task
    <3>1. CASE handler'[h] = Idle
      <4>1. s.kind = "create"
        <5>1. operation[t].status # "none" /\ operation[t].kind = s.kind
          BY <1>2, <2>1 DEF Running
        <5>2. operation'[t].kind = s.kind
          BY <1>2, <5>1 DEF Kept
        <5>3. QED
          BY <1>5, <5>2
      <4>2. ~Ends(h, "failed")
        BY <1>1, AloneServe
      <4>3. Ends(h, "done")
        <5>1. ~Created(h)
          BY <3>1 DEF Created, Becomes, With, Idle
        <5>2. \A at, nonce : \A step \in {"check", "nonce", "send", "wait", "delay"} :
                ~Goes(h, at, nonce, step)
          BY <3>1 DEF Goes, Becomes, With, Idle
        <5>3. QED
          BY <1>2, <4>2, <5>1, <5>2 DEF Follows
      <4>4. {s.task} \X Tokens \subseteq registered'
        BY <1>1, <1>2, <1>3, <4>1, <4>3, CreateEnds
      <4>5. QED
        BY <2>1, <4>4
    <3>2. QED
      BY <1>4, <2>1, <3>1
  <2>2. CASE t # s.task
    <3>1. operation[t] = [kind |-> "create", status |-> "done"]
      BY <1>2, <1>5, <2>2 DEF Kept
    <3>2. registered \subseteq registered'
      BY <1>2 DEF Affects, chainVars, Pools, Executes, Execute
    <3>3. \A g \in Handlers : Busy(g) /\ handler[g].task = t => Busy(g)' /\ handler'[g].task = t
      BY <1>2, <2>2 DEF Becomes, Busy, At
    <3>4. QED
      BY <1>3, <3>1, <3>2, <3>3
  <2>3. QED
    BY <2>1, <2>2
<1>6. ASSUME NEW g \in Handlers, Busy(g)', handler'[g].kind = "create"
      PROVE  Registering(handler[g])'
  <2>1. CASE g = h
    <3>1. s.kind = "create"
      BY <1>4, <1>6, <2>1 DEF Busy, At, Idle
    <3>2. QED
      BY <1>1, <1>2, <1>3, <1>6, <2>1, <3>1, CreateRegistering
  <2>2. CASE g # h
    <3>1. handler'[g] = handler[g] /\ Busy(g)
      BY <1>2, <1>6, <2>2 DEF Becomes, Busy, At
    <3>2. Registering(handler[g])
      BY <1>3, <1>6, <3>1
    <3>3. QED
      BY <1>2, <3>1, <3>2, OthersRegistering
  <2>3. QED
    BY <2>1, <2>2
<1>7. QED
  BY <1>5, <1>6

\* Every step keeps RegistersInv.
LEMMA RegistersStep ==
  ASSUME TypeOK, OperationsInv, NoncesInv, AloneInv, RegistersInv, Next, TypeOK', OperationsInv'
  PROVE  RegistersInv'
<1>1. ASSUME NEW h \in Handlers, NEW t \in Tasks, NEW s \in State, Begun(h, t, s)
      PROVE  RegistersInv'
  <2>1. /\ Becomes(h, s) /\ s.at = 1 /\ s.step \in {"check", "nonce"} /\ ~Busy(h)
        /\ UNCHANGED <<used, final, ledger, reverted, registered, races, failures>>
        /\ operation'[t] = [kind |-> s.kind, status |-> "running"]
        /\ \A u \in Tasks \ {t} : operation'[u] = operation[u]
    BY <1>1 DEF Begun, chainVars, Busy
  <2>2. \A u \in Tasks : operation'[u] = [kind |-> "create", status |-> "done"] =>
          operation[u] = [kind |-> "create", status |-> "done"]
    BY <2>1
  <2>3. \A g \in Handlers : Busy(g) => Busy(g)' /\ handler'[g] = handler[g]
    BY <2>1 DEF Becomes, Busy, At
  <2>4. \A g \in Handlers \ {h} : Busy(g)' => Busy(g) /\ handler'[g] = handler[g]
    BY <2>1 DEF Becomes, Busy, At
  <2>5. Registering(handler[h])'
    <3>1. handler'[h] = s
      BY <2>1 DEF Becomes
    <3>2. s.at = 1 /\ s.step # "delay"
      BY <2>1
    <3>3. QED
      BY <3>1, <3>2 DEF Registering
  <2>6. \A g \in Handlers : handler'[g] = handler[g] /\ Registering(handler[g]) =>
          Registering(handler[g])'
    BY <2>1 DEF Registering, Tried, Executed
  <2> SUFFICES ASSUME failures' = 0, races' = {}, reverted' = {}
               PROVE  /\ \A u \in Tasks : operation'[u] = [kind |-> "create", status |-> "done"] =>
                           \/ {u} \X Tokens \subseteq registered'
                           \/ \E g \in Handlers : Busy(g)' /\ handler'[g].task = u
                      /\ \A g \in Handlers :
                           Busy(g)' /\ handler'[g].kind = "create" => Registering(handler[g])'
    BY DEF RegistersInv, Registering, Tried, Sent, Undisturbed
  <2>7. /\ \A u \in Tasks : operation[u] = [kind |-> "create", status |-> "done"] =>
             \/ {u} \X Tokens \subseteq registered
             \/ \E g \in Handlers : Busy(g) /\ handler[g].task = u
        /\ \A g \in Handlers :
             Busy(g) /\ handler[g].kind = "create" => Registering(handler[g])
    BY <2>1, RegistersForm DEF Undisturbed
  <2>8. QED
    BY <2>1, <2>2, <2>3, <2>4, <2>5, <2>6, <2>7
<1>2. CASE \E h \in Handlers : Serve(h) \/ StepFails(h)
  BY <1>2, ServeRegisters
\* There are no accounts of NEAR on Base.
<1>3. CASE Mine
  <2>1. OnBase'
    BY <1>3, MineNonces DEF Mine, OnBase
  <2>2. Kinds(signer') \subseteq {"call", "start", "contribute"}
    BY <2>1 DEF OnBase, Kinds, KeyOwners, TypeOK
  <2>3. \A t \in Tasks : operation'[t] # [kind |-> "create", status |-> "done"]
    <3> SUFFICES ASSUME NEW t \in Tasks, operation'[t] = [kind |-> "create", status |-> "done"]
                 PROVE  FALSE
      OBVIOUS
    <3>1. operation'[t].kind = "create" /\ operation'[t].status # "none"
      OBVIOUS
    <3>2. operation'[t].kind \in Kinds(signer')
      BY <3>1 DEF OperationsInv
    <3>3. QED
      BY <2>2, <3>1, <3>2
  <2>4. \A h \in Handlers : Busy(h)' => handler'[h].kind # "create"
    BY <2>2 DEF OperationsInv, Running
  <2>5. QED
    BY <2>3, <2>4 DEF RegistersInv
<1>4. CASE Settle
  <2>1. /\ UNCHANGED <<used, ledger, reverted, registered, operation, handler, races, failures>>
        /\ final < used
    BY <1>4 DEF Settle
  <2>2. \A h \in Handlers : Busy(h)' <=> Busy(h)
    BY <2>1 DEF Busy, At
  <2>3. ASSUME NEW h \in Handlers, Registering(handler[h]) PROVE Registering(handler[h])'
    <3>1. final # used
      BY <2>1 DEF TypeOK
    <3>2. QED
      BY <2>1, <2>3, <3>1 DEF Registering, Tried, Executed
  <2> SUFFICES ASSUME failures' = 0, races' = {}, reverted' = {}
               PROVE  /\ \A t \in Tasks : operation'[t] = [kind |-> "create", status |-> "done"] =>
                           \/ {t} \X Tokens \subseteq registered'
                           \/ \E g \in Handlers : Busy(g)' /\ handler'[g].task = t
                      /\ \A g \in Handlers :
                           Busy(g)' /\ handler'[g].kind = "create" => Registering(handler[g])'
    BY DEF RegistersInv, Registering, Tried, Sent, Undisturbed
  <2>4. QED
    BY <2>1, <2>2, <2>3, RegistersForm DEF Undisturbed
<1>5. QED
  BY <1>1, <1>2, <1>3, <1>4, NextCases

-----------------------------------------------------------------------------
(* The theorems                                                            *)

\* The invariant holds before any operation.
LEMMA InitInv ==
  ASSUME Init
  PROVE  IInv
<1>1. /\ signer \in KeyOwners
      /\ used = 0 /\ final = 0 /\ pool = {} /\ ledger = <<>> /\ reverted = {}
      /\ registered = {}
      /\ operation = [t \in Tasks |-> [kind |-> "none", status |-> "none"]]
      /\ handler = [h \in Handlers |-> Idle] /\ races = {} /\ failures = 0
  BY DEF Init
<1>2. \A h \in Handlers : handler[h] = Idle
  BY <1>1
<1>3. \A t \in Tasks : operation[t] = [kind |-> "none", status |-> "none"]
  BY <1>1
<1>4. \A h \in Handlers : ~Busy(h) /\ ~At(h, "send") /\ ~At(h, "wait") /\ ~Approving(h) /\ ~Holds(h)
  BY <1>2 DEF Busy, At, Approving, Holds, Idle
<1>5. \A t \in Tasks : operation[t].status = "none"
  BY <1>3
<1>6. Cardinality(pool) = 0 /\ IsFiniteSet(pool)
  BY <1>1, FS_EmptySet
<1>7. Free = 0
  BY <1>1, <1>6 DEF Free
<1>8. ledger \in Seq(Tx) /\ Len(ledger) = 0
  BY <1>1
<1>9. \A x : ~InFlight(x)
  BY <1>1, <1>8 DEF InFlight, Pending, Executed
<1>10. TypeOK
  <2>1. operation \in [Tasks -> Operation]
    BY <1>1 DEF Operation, KindNames
  <2>2. handler \in [Handlers -> State]
    BY <1>1, IdleState
  <2>3. 0 \in 0..MaxFailures
    BY BoundAssumption
  <2>4. IsFiniteSet(reverted)
    BY <1>1, FS_EmptySet
  <2>5. QED
    BY <1>1, <1>6, <1>8, <2>1, <2>2, <2>3, <2>4 DEF TypeOK
<1>11. OperationsInv
  BY <1>1, <1>4, <1>5, <1>9 DEF OperationsInv
<1>12. OrderInv
  <2>1. \A t \in Tasks : operation[t].status # "done"
    BY <1>5
  <2>2. QED
    BY <1>1, <1>4, <1>8, <2>1 DEF OrderInv
<1>13. FailedInv /\ PoolInv
  BY <1>1, <1>5 DEF FailedInv, PoolInv
<1>14. NoncesInv
  <2>1. {p.nonce : p \in pool} = used..(Free - 1)
    BY <1>1, <1>7
  <2>2. QED
    BY <1>1, <1>4, <1>8, <2>1 DEF NoncesInv
<1>15. AloneInv
  <2>1. \A t \in Tasks : operation[t].status # "failed"
    BY <1>5
  <2>2. QED
    BY <1>4, <2>1 DEF AloneInv
<1>16. RegistersInv
  <2>1. \A t \in Tasks : operation[t] # [kind |-> "create", status |-> "done"]
    BY <1>3
  <2>2. QED
    BY <1>4, <2>1 DEF RegistersInv
<1>17. QED
  BY <1>10, <1>11, <1>12, <1>13, <1>14, <1>15, <1>16 DEF IInv

\* Every step keeps the invariant.
LEMMA StepInv ==
  ASSUME IInv, Next
  PROVE  IInv'
<1>1. /\ TypeOK /\ OperationsInv /\ OrderInv /\ PoolInv /\ NoncesInv /\ FailedInv
      /\ AloneInv /\ RegistersInv
  BY DEF IInv
<1>2. TypeOK'
  BY <1>1, TypeStep
<1>3. OperationsInv' /\ OrderInv' /\ PoolInv' /\ NoncesInv' /\ FailedInv' /\ AloneInv'
  BY <1>1, <1>2, OperationsStep, OrderStep, PoolStep, NoncesStep, FailedStep, AloneStep
<1>4. RegistersInv'
  BY <1>1, <1>2, <1>3, RegistersStep
<1>5. QED
  BY <1>2, <1>3, <1>4 DEF IInv

\* It depends on the variables only.
LEMMA StutterInv ==
  ASSUME IInv, UNCHANGED vars
  PROVE  IInv'
<1>1. UNCHANGED <<signer, used, final, pool, ledger, reverted, registered, operation, handler,
                  races, failures>>
  BY DEF vars, chainVars
<1>2. /\ OnBase' <=> OnBase
      /\ \A h \in Handlers : Busy(h)' <=> Busy(h)
  BY <1>1 DEF OnBase, Busy, At
<1>3. TypeOK'
  BY <1>1 DEF IInv, TypeOK
<1>4. OperationsInv'
  <2>1. \A x \in Tx : InFlight(x)' => InFlight(x)
    BY <1>1 DEF InFlight, Pending, Executed
  <2>2. QED
    BY <1>1, <2>1, ChainOperations DEF IInv
<1>5. OrderInv' /\ PoolInv'
  BY <1>1, <1>2 DEF IInv, OrderInv, PoolInv, Took, Executed, Part, Sent, Busy, At
<1>6. NoncesInv'
  BY <1>1 DEF IInv, NoncesInv, OnBase, Free, At, Approving
<1>7. FailedInv'
  BY <1>1, <1>2 DEF IInv, FailedInv, Alive, Effective, Pending, Executed, Last, Part
<1>8. AloneInv'
  BY <1>1 DEF IInv, AloneInv, Undisturbed, InFlight, Pending, Executed, Sent, OnBase, Free,
     At, Holds, Approving
<1>9. RegistersInv'
  BY <1>1, <1>2 DEF IInv, RegistersInv, Undisturbed, Executed, Sent
<1>10. QED
  BY <1>3, <1>4, <1>5, <1>6, <1>7, <1>8, <1>9 DEF IInv

\* The inductive invariant holds of every behaviour of the services that share a key.
THEOREM Invariance == Spec => []IInv
<1>1. Init => IInv
  BY InitInv
<1>2. IInv /\ [Next]_vars => IInv'
  BY StepInv, StutterInv
<1>3. QED
  BY <1>1, <1>2, PTL DEF Spec

\* The order of the ledger makes the answers true.
LEMMA IInvAnswersTrue ==
  ASSUME IInv
  PROVE  AnswersTrue
<1>1. ASSUME NEW t \in Tasks, operation[t].status = "done", operation[t].kind # "register",
             NEW k \in 1..Decisive(operation[t].kind)
      PROVE  /\ Took(Part(t, k))
             /\ \E i \in 1..Len(ledger) :
                  /\ ledger[i] = Part(t, k)
                  /\ k > 1 => \E j \in 1..(i - 1) : ledger[j] = Part(t, k - 1)
  <2>0. Took(Part(t, k))
    BY <1>1 DEF IInv, OrderInv
  <2>1. PICK i \in 1..Len(ledger) : ledger[i] = Part(t, k)
    BY <2>0 DEF Took, Executed
  <2>2. Part(t, k) = [task |-> t, kind |-> operation[t].kind, at |-> k]
    BY DEF Part
  <2>3. ASSUME k > 1 PROVE \E j \in 1..(i - 1) : ledger[j] = Part(t, k - 1)
    <3>1. operation[t].kind # "create"
      BY <1>1, <2>3, Decides
    <3>2. ledger[i].kind # "create" /\ ledger[i].at > 1
      BY <2>1, <2>2, <2>3, <3>1
    <3>3. PICK j \in 1..(i - 1) : ledger[j] = Before(ledger[i])
      BY <3>2 DEF IInv, OrderInv
    <3>4. ledger[i] \in Tx
      BY DEF IInv, TypeOK
    <3>5. Before(ledger[i]) = Part(t, k - 1)
      BY <2>1, <2>2, <3>2, <3>4, BeforeForm DEF Part
    <3>6. QED
      BY <3>3, <3>5
  <2>4. QED
    BY <2>0, <2>1, <2>3
<1>2. \A t \in Tasks : failures = 0 /\ operation[t].status = "failed" => ~Alive(Last(t))
  BY DEF IInv, FailedInv
<1>3. QED
  BY <1>1, <1>2 DEF AnswersTrue

\* BaseAccountService and NearAccountService answer an operation as done when all its
\* transactions were executed in their order, and as failed, unless an answer was
\* lost, when the transaction that decides never will be.
THEOREM Truth == Spec => []AnswersTrue
<1>1. IInv => AnswersTrue
  BY IInvAnswersTrue
<1>2. QED
  BY <1>1, Invariance, PTL

\* An operation of the chain services that is alone with its key succeeds, and
\* createSubAccount then leaves the account registered with both tokens.
THEOREM AloneSuccess == Spec => []AloneSucceeds
<1>1. IInv => AloneSucceeds
  BY DEF IInv, AloneInv, RegistersInv, AloneSucceeds, Undisturbed, Quiet, Busy
<1>2. QED
  BY <1>1, Invariance, PTL

-----------------------------------------------------------------------------
(* Progress: what the liveness of the operations rests on                  *)

\* What is left at each step.
LEMMA LeftValues ==
  ASSUME NEW s
  PROVE  /\ s.step = "idle" => Left(s) = 0
         /\ s.step = "delay" => Left(s) = 6 * (3 - s.at) + 1
         /\ s.step = "wait" => Left(s) = 6 * (3 - s.at) + 2
         /\ s.step = "send" => Left(s) = 6 * (3 - s.at) + 3
         /\ s.step = "nonce" => Left(s) = 6 * (3 - s.at) + 4
         /\ s.step = "check" => Left(s) = 6 * (3 - s.at) + 5
  BY DEF Left

\* At most five steps for a transaction.
LEMMA LeftBounds ==
  ASSUME NEW s, s.at \in 1..3, s.step \in {"check", "nonce", "send", "wait", "delay"}
  PROVE  Left(s) \in Nat /\ Left(s) > 6 * (3 - s.at) /\ Left(s) < 6 * (3 - s.at) + 6
<1> DEFINE n == 6 * (3 - s.at)
<1>1. n \in Nat
  OBVIOUS
<1>2. Left(s) \in {n + 1, n + 2, n + 3, n + 4, n + 5}
  BY LeftValues
<1> HIDE DEF n
<1>3. QED
  BY <1>1, <1>2 DEF n

\* The steps of one transaction come one after the other, and so do transactions.
LEMMA Shorter ==
  ASSUME NEW s, NEW r, s.at \in 1..3, r.at \in 1..3,
         s.step \in {"check", "nonce", "send", "wait", "delay"},
         r.step \in {"check", "nonce", "send", "wait", "delay"},
         \/ r.at > s.at
         \/ /\ r.at = s.at
            /\ \/ s.step = "check" /\ r.step \in {"nonce", "delay"}
               \/ s.step = "nonce" /\ r.step \in {"send", "delay"}
               \/ s.step = "send" /\ r.step \in {"wait", "delay"}
  PROVE  Left(r) < Left(s)
<1>1. Left(s) \in Nat /\ Left(s) > 6 * (3 - s.at)
  BY LeftBounds
<1>2. Left(r) \in Nat /\ Left(r) < 6 * (3 - r.at) + 6
  BY LeftBounds
<1>3. CASE r.at > s.at
  BY <1>1, <1>2, <1>3
<1>4. CASE r.at = s.at
  BY <1>4, LeftValues
<1>5. QED
  BY <1>3, <1>4

\* A handler that is done has nothing left.
LEMMA ShorterIdle ==
  ASSUME NEW s, s.at \in 1..3, s.step \in {"check", "nonce", "send", "wait", "delay"}
  PROVE  Left(Idle) < Left(s)
<1>1. Left(Idle) = 0
  BY DEF Left, Idle
<1>2. Left(s) \in Nat /\ Left(s) > 6 * (3 - s.at)
  BY LeftBounds
<1>3. QED
  BY <1>1, <1>2

\* A call that does not succeed is not made again.
LEMMA BreaksShorten ==
  ASSUME TypeOK, OperationsInv, NEW h \in Handlers, Busy(h), Breaks(h),
         handler[h].step # "delay"
  PROVE  Becomes(h, handler'[h]) /\ Left(handler'[h]) < Left(handler[h])
<1> DEFINE s == handler[h]
<1>1. s.at \in 1..3 /\ s.step \in {"check", "nonce", "send", "wait", "delay"}
  BY Serving DEF Busy, At, State
<1>2. CASE Ends(h, "failed") \/ Ends(h, "done")
  BY <1>1, <1>2, ShorterIdle DEF Ends, Becomes
<1>3. CASE Goes(h, 2, s.nonce, "delay") /\ InBackground(h) /\ s.at = 2
  <2>1. Becomes(h, handler'[h]) /\ handler'[h].at = 2 /\ handler'[h].step = "delay"
    BY <1>3 DEF Goes, Becomes, With
  <2>2. Running(s) /\ ~OnBase
    BY <1>3, Serving DEF InBackground
  <2>3. s.step \in {"check", "nonce", "send"}
    BY <1>1, <2>2 DEF Running
  <2>4. QED
    BY <1>1, <1>3, <2>1, <2>3, Shorter
<1>4. QED
  BY <1>2, <1>3, BreaksForms

\* After a transaction on NEAR the next one follows.
LEMMA ContinuesShorten ==
  ASSUME TypeOK, OperationsInv, NEW h \in Handlers, Busy(h), Continues(h), ~OnBase,
         handler[h].step = "send"
  PROVE  Becomes(h, handler'[h]) /\ Left(handler'[h]) < Left(handler[h])
<1> DEFINE s == handler[h]
<1>1. s.at \in 1..3
  BY Serving
<1>2. CASE Ends(h, "done")
  BY <1>1, <1>2, ShorterIdle DEF Ends, Becomes
<1>3. CASE Goes(h, 2, s.nonce, "delay") /\ s.at = 2
  <2>1. Becomes(h, handler'[h]) /\ handler'[h].at = 2 /\ handler'[h].step = "delay"
    BY <1>3 DEF Goes, Becomes, With
  <2>2. QED
    BY <1>1, <1>3, <2>1, Shorter
<1>4. CASE Created(h) /\ s.at = 1
  <2>1. Becomes(h, handler'[h]) /\ handler'[h].at = 2 /\ handler'[h].step = "check"
    BY <1>4 DEF Created, Becomes, With
  <2>2. QED
    BY <1>1, <1>4, <2>1, Shorter
<1>5. QED
  BY <1>2, <1>3, <1>4, ContinuesForms

\* Every step of a handler leaves it with less to do.
LEMMA ServeShortens ==
  ASSUME TypeOK, OperationsInv, NEW h \in Handlers, Serve(h) \/ StepFails(h)
  PROVE  Becomes(h, handler'[h]) /\ Left(handler'[h]) < Left(handler[h])
<1> DEFINE s == handler[h]
<1>1. /\ Busy(h) /\ s.at \in 1..3 /\ s.step \in {"check", "nonce", "send", "wait", "delay"}
      /\ Running(s)
  BY ServeFollows, Serving DEF Busy, At, State
<1>2. ASSUME NEW status, Ends(h, status)
      PROVE  Becomes(h, handler'[h]) /\ Left(handler'[h]) < Left(s)
  BY <1>1, <1>2, ShorterIdle DEF Ends, Becomes
<1>3. ASSUME NEW at \in 1..3, NEW n, NEW step \in {"check", "nonce", "send", "wait", "delay"},
             Goes(h, at, n, step),
             \/ at > s.at
             \/ /\ at = s.at
                /\ \/ s.step = "check" /\ step \in {"nonce", "delay"}
                   \/ s.step = "nonce" /\ step \in {"send", "delay"}
                   \/ s.step = "send" /\ step \in {"wait", "delay"}
      PROVE  Becomes(h, handler'[h]) /\ Left(handler'[h]) < Left(s)
  <2>1. Becomes(h, handler'[h]) /\ handler'[h].at = at /\ handler'[h].step = step
    BY <1>3 DEF Goes, Becomes, With
  <2>2. QED
    BY <1>1, <1>3, <2>1, Shorter
<1>4. 2 \in 1..3 /\ 3 \in 1..3
  OBVIOUS
<1>5. CASE ReadNonce(h) \/ ReadAccessKey(h)
  BY <1>1, <1>3, <1>5, ReadForms
<1>6. CASE Send(h)
  BY <1>1, <1>2, <1>3, <1>6, SendForms
<1>7. CASE Wait(h)
  <2>1. s.step = "wait" /\ (Approving(h) => s.at = 1)
    BY <1>7, WaitForms DEF Approving
  <2>2. CASE Ends(h, "failed") \/ Ends(h, "done")
    BY <1>2, <2>2
  <2>3. CASE Goes(h, 2, s.nonce + 1, "send") /\ s.at = 1
    BY <1>3, <1>4, <2>3
  <2>4. CASE Goes(h, 2, s.nonce, "nonce") /\ s.at = 1
    BY <1>3, <1>4, <2>4
  <2>5. QED
    BY <1>7, <2>1, <2>2, <2>3, <2>4, WaitForms
<1>8. CASE Check(h)
  <2>1. s.step = "check"
    BY <1>8, CheckForms
  <2>2. CASE Goes(h, s.at, s.nonce, "nonce")
    BY <1>1, <1>3, <2>1, <2>2
  <2>3. CASE Goes(h, 3, s.nonce, "check") /\ s.at = 2
    BY <1>3, <1>4, <2>3
  <2>4. CASE Ends(h, "done")
    BY <1>2, <2>4
  <2>5. QED
    BY <1>8, <2>2, <2>3, <2>4, CheckForms
<1>9. CASE DelayOver(h)
  BY <1>1, <1>3, <1>4, <1>9, DelayForms
<1>10. CASE SendTransaction(h)
  <2>1. s.step = "send" /\ ~OnBase /\ (Continues(h) \/ Breaks(h))
    BY <1>10, SendTransactionForms
  <2>2. CASE Continues(h)
    BY <1>1, <2>1, <2>2, ContinuesShorten
  <2>3. CASE Breaks(h)
    BY <1>1, <2>1, <2>3, BreaksShorten
  <2>4. QED
    BY <2>1, <2>2, <2>3
<1>11. CASE StepFails(h)
  BY <1>11, FailsForms, BreaksShorten
<1>12. QED
  BY <1>5, <1>6, <1>7, <1>8, <1>9, <1>10, <1>11 DEF Serve

\* A block leaves the chain with less to settle.
LEMMA ChainShortens ==
  ASSUME TypeOK, NoncesInv, Mine \/ Settle
  PROVE  UNCHANGED <<operation, handler>> /\ Unsettled' < Unsettled
<1>1. used \in Nat /\ final \in Nat /\ final <= used /\ Cardinality(pool) \in Nat
  BY FS_CardinalityType DEF TypeOK, NoncesInv
<1>2. CASE Mine
  <2>1. PICK p \in pool : /\ pool' = pool \ {p} /\ used' = used + 1 /\ final' = used + 1
                          /\ UNCHANGED <<operation, handler>>
    BY <1>2, MineForm
  <2>2. Cardinality(pool') = Cardinality(pool) - 1
    BY <2>1, FS_RemoveElement DEF TypeOK
  <2>3. QED
    BY <1>1, <2>1, <2>2 DEF Unsettled
<1>3. CASE Settle
  BY <1>1, <1>3 DEF Settle, Unsettled
<1>4. QED
  BY <1>2, <1>3

\* No chain service tries anything for ever: a step begins a new operation, or leaves
\* one handler with less to do, or the chain with less to settle.
THEOREM Descent == Spec => StepsRunOut
<1> DEFINE Begins1 == \E t \in Tasks : operation[t].status = "none" /\ operation'[t].status = "running"
           Serves1 == \E h \in Handlers : /\ Left(handler'[h]) < Left(handler[h])
                                          /\ \A g \in Handlers \ {h} : handler'[g] = handler[g]
           Settles1 == UNCHANGED <<operation, handler>> /\ Unsettled' < Unsettled
<1>1. ASSUME IInv, Next PROVE Begins1 \/ Serves1 \/ Settles1
  <2>1. TypeOK /\ OperationsInv /\ NoncesInv
    BY <1>1 DEF IInv
  <2>2. CASE \E h \in Handlers, t \in Tasks, s \in State : Begun(h, t, s)
    <3>1. PICK h \in Handlers, t \in Tasks, s \in State : Begun(h, t, s)
      BY <2>2
    <3>2. operation[t].status = "none" /\ operation'[t].status = "running"
      BY <3>1 DEF Begun
    <3>3. QED
      BY <3>2
  <2>3. CASE \E h \in Handlers : Serve(h) \/ StepFails(h)
    <3>1. PICK h \in Handlers : Serve(h) \/ StepFails(h)
      BY <2>3
    <3>2. QED
      BY <2>1, <3>1, ServeShortens DEF Becomes
  <2>4. CASE Mine \/ Settle
    BY <2>1, <2>4, ChainShortens
  <2>5. QED
    BY <1>1, <2>1, <2>2, <2>3, <2>4, NextCases
<1>2. IInv /\ [Next]_vars => [Begins1 \/ Serves1 \/ Settles1]_vars
  BY <1>1
<1>3. QED
  BY <1>2, Invariance, PTL DEF Spec, StepsRunOut

\* An operation that goes on keeps its handler.
LEMMA ServeServed ==
  ASSUME TypeOK, OperationsInv, NEW h \in Handlers, Serve(h) \/ StepFails(h),
         NEW t \in Tasks, operation'[t].status = "running",
         operation[t].status = "running" =>
           \E g \in Handlers : Busy(g) /\ handler[g].task = t
  PROVE  \E g \in Handlers : Busy(g)' /\ handler'[g].task = t
<1> DEFINE s == handler[h]
<1>1. /\ Busy(h) /\ Follows(h) /\ Becomes(h, handler'[h]) /\ Kept(h) /\ Running(s)
      /\ s.task \in Tasks
  BY ServeFollows, FollowsAnswered, AnsweredKept, Serving
<1>2. CASE t # s.task
  <2>1. operation[t].status = "running"
    BY <1>1, <1>2 DEF Kept
  <2>2. PICK g \in Handlers : Busy(g) /\ handler[g].task = t
    BY <2>1
  <2>3. handler'[g] = handler[g]
    BY <1>1, <1>2, <2>2 DEF Becomes
  <2>4. QED
    BY <2>2, <2>3 DEF Busy, At
<1>3. CASE t = s.task
  <2>1. ASSUME NEW status \in {"done", "failed"},
               operation' = [operation EXCEPT ![s.task].status = status]
        PROVE  FALSE
    <3>1. Answer(h, status)
      BY <1>1, <2>1, Answers
    <3>2. operation'[t].status = status
      BY <1>3, <3>1 DEF Answer
    <3>3. QED
      BY <2>1, <3>2
  <2>2. ~Ends(h, "done") /\ ~Ends(h, "failed") /\ ~Created(h)
    BY <2>1 DEF Ends, Created
  <2>3. PICK at \in 1..3, nonce \in Nat, step \in {"check", "nonce", "send", "wait", "delay"} :
          Goes(h, at, nonce, step)
    BY <1>1, <2>2 DEF Follows
  <2>4. handler'[h].task = t /\ handler'[h].step # "idle"
    BY <1>3, <2>3 DEF Goes, Becomes, With
  <2>5. QED
    BY <2>4 DEF Busy, At
<1>4. QED
  BY <1>2, <1>3

\* A handler pauses after a registration, executed or not.
LEMMA PausesForms ==
  ASSUME TypeOK, OperationsInv, NEW h \in Handlers, Serve(h) \/ StepFails(h),
         handler'[h].step = "delay"
  PROVE  /\ Goes(h, 2, handler[h].nonce, "delay") /\ handler[h].at = 2 /\ InBackground(h)
         /\ handler[h].step # "delay" /\ (Execute(h) \/ UNCHANGED ledger)
<1> DEFINE s == handler[h]
<1>1. \A at, nonce : \A step \in {"check", "nonce", "send", "wait"} : ~Goes(h, at, nonce, step)
  BY DEF Goes, Becomes, With
<1>2. ~Created(h) /\ \A status : ~Ends(h, status)
  BY DEF Created, Ends, Becomes, With, Idle
<1>3. ~ReadNonce(h) /\ ~ReadAccessKey(h)
  BY <1>1, ReadForms
<1>4. ~Send(h)
  BY <1>1, <1>2, SendForms
<1>5. ~Wait(h)
  BY <1>1, <1>2, WaitForms
<1>6. ~Check(h)
  BY <1>1, <1>2, CheckForms
<1>7. ~DelayOver(h)
  BY <1>1, DelayForms
<1>8. CASE SendTransaction(h)
  <2>1. /\ Busy(h) /\ s.step = "send" /\ ~OnBase
        /\ Continues(h) \/ Breaks(h)
        /\ Execute(h) \/ UNCHANGED ledger
    BY <1>8, SendTransactionForms
  <2>2. Goes(h, 2, s.nonce, "delay") /\ s.at = 2 /\ InBackground(h)
    BY <1>2, <2>1, ContinuesForms, BreaksForms
  <2>3. QED
    BY <2>1, <2>2
<1>9. CASE StepFails(h)
  <2>1. Busy(h) /\ Breaks(h) /\ s.step # "delay" /\ (Execute(h) \/ UNCHANGED ledger)
    BY <1>9, FailsForms
  <2>2. QED
    BY <1>2, <2>1, BreaksForms
<1>10. QED
  BY <1>3, <1>4, <1>5, <1>6, <1>7, <1>8, <1>9 DEF Serve

\* What a handler that pauses has sent is behind it.
LEMMA PausesBehind ==
  ASSUME TypeOK, OperationsInv, NEW h \in Handlers, Serve(h) \/ StepFails(h),
         handler'[h].step = "delay", Executed(Sent(h))'
  PROVE  handler'[h].nonce <= used'
<1> DEFINE s == handler[h]
<1>1. Busy(h) /\ Running(s) /\ s.nonce \in Nat /\ Sent(h) \in Tx
  BY ServeFollows, Serving DEF State
<1>2. /\ Goes(h, 2, s.nonce, "delay") /\ s.at = 2 /\ InBackground(h)
      /\ s.step # "delay" /\ (Execute(h) \/ UNCHANGED ledger)
  BY PausesForms
<1>3. /\ handler'[h].task = s.task /\ handler'[h].kind = s.kind /\ handler'[h].at = s.at
      /\ handler'[h].nonce = s.nonce
  BY <1>2 DEF Goes, Becomes, With
<1>4. CASE Execute(h)
  BY <1>1, <1>3, <1>4 DEF Execute
<1>5. CASE UNCHANGED ledger
  <2>1. Executed(Sent(h))
    BY <1>3, <1>5 DEF Executed, Sent
  <2>2. PICK x \in Tx : x = Sent(h) /\ InFlight(x)
    BY <1>1, <2>1 DEF InFlight
  <2>3. x.task = s.task /\ x.at = s.at
    BY <2>2 DEF Sent
  <2>4. s.step \in {"wait", "delay"} \/ s.at < s.at
    BY <1>1, <2>2, <2>3 DEF OperationsInv
  <2>5. s.step # "wait"
    <3>1. ~OnBase
      BY <1>1, <1>2, Serving DEF InBackground
    <3>2. QED
      BY <1>1, <3>1 DEF Running
  <2>6. QED
    BY <1>2, <2>4, <2>5
<1>6. QED
  BY <1>2, <1>4, <1>5

\* A step of one handler does not take another one back.
LEMMA OthersBehind ==
  ASSUME TypeOK, OperationsInv, NEW h \in Handlers, Serve(h) \/ StepFails(h),
         NEW g \in Handlers \ {h}, handler'[g].step = "delay", Executed(Sent(g))',
         Executed(Sent(g)) => handler[g].nonce <= used
  PROVE  handler'[g].nonce <= used'
<1>1. Busy(h) /\ Affects(h) /\ Becomes(h, handler'[h])
  BY ServeFollows, FollowsAnswered
<1>2. handler'[g] = handler[g] /\ Busy(g)
  BY <1>1 DEF Becomes, Busy, At
<1>3. handler[g].task # handler[h].task /\ Sent(g) \in Tx /\ handler[g].nonce \in Nat
  BY <1>1, <1>2, Serving DEF OperationsInv, State
<1>4. PICK x \in Tx : x = Sent(g)
  BY <1>3
<1>5. Executed(x)'
  BY <1>2, <1>4 DEF Executed, Sent
<1>6. x # Sent(h)
  BY <1>3, <1>4 DEF Sent
<1>7. Executed(x)
  BY <1>1, <1>5, <1>6, FlightStep
<1>8. handler[g].nonce <= used
  BY <1>4, <1>7
<1>9. used \in Nat /\ used' \in Nat /\ used <= used'
  <2>1. used \in Nat /\ handler[h].nonce \in Nat
    BY DEF TypeOK, State
  <2>2. QED
    BY <1>1, <2>1 DEF Affects, Pools, Executes, Execute, chainVars
<1>10. QED
  BY <1>2, <1>3, <1>8, <1>9

\* Every step keeps ProgressInv.
LEMMA ProgressStep ==
  ASSUME TypeOK, OperationsInv, NoncesInv, ProgressInv, Next, TypeOK', OperationsInv'
  PROVE  ProgressInv'
<1>1. /\ \A t \in Tasks : operation[t].status = "running" =>
           \E h \in Handlers : Busy(h) /\ handler[h].task = t
      /\ \A h \in Handlers : handler[h].step = "delay" /\ Executed(Sent(h)) =>
           handler[h].nonce <= used
  BY DEF ProgressInv, At
<1> SUFFICES /\ \A t \in Tasks : operation'[t].status = "running" =>
                  \E h \in Handlers : Busy(h)' /\ handler'[h].task = t
             /\ \A h \in Handlers : handler'[h].step = "delay" /\ Executed(Sent(h))' =>
                  handler'[h].nonce <= used'
  BY DEF ProgressInv, At
<1>2. ASSUME NEW h \in Handlers, NEW t \in Tasks, NEW s \in State, Begun(h, t, s)
      PROVE  /\ \A u \in Tasks : operation'[u].status = "running" =>
                  \E g \in Handlers : Busy(g)' /\ handler'[g].task = u
             /\ \A g \in Handlers : handler'[g].step = "delay" /\ Executed(Sent(g))' =>
                  handler'[g].nonce <= used'
  <2>1. /\ handler'[h] = s /\ s.task = t /\ s.step \in {"nonce", "check"} /\ ~Busy(h)
        /\ \A g \in Handlers \ {h} : handler'[g] = handler[g]
        /\ \A u \in Tasks \ {t} : operation'[u] = operation[u]
        /\ UNCHANGED <<used, ledger>>
    BY <1>2 DEF Begun, Becomes, chainVars, Busy
  <2>2. ASSUME NEW u \in Tasks, operation'[u].status = "running"
        PROVE  \E g \in Handlers : Busy(g)' /\ handler'[g].task = u
    <3>1. CASE u = t
      BY <2>1, <3>1 DEF Busy, At
    <3>2. CASE u # t
      <4>1. PICK g \in Handlers : Busy(g) /\ handler[g].task = u
        BY <1>1, <2>1, <2>2, <3>2
      <4>2. handler'[g] = handler[g]
        BY <2>1, <4>1
      <4>3. QED
        BY <4>1, <4>2 DEF Busy, At
    <3>3. QED
      BY <3>1, <3>2
  <2>3. ASSUME NEW g \in Handlers, handler'[g].step = "delay", Executed(Sent(g))'
        PROVE  handler'[g].nonce <= used'
    <3>1. handler'[g] = handler[g]
      BY <2>1, <2>3
    <3>2. Executed(Sent(g))
      BY <2>1, <2>3, <3>1 DEF Executed, Sent
    <3>3. QED
      BY <1>1, <2>1, <2>3, <3>1, <3>2
  <2>4. QED
    BY <2>2, <2>3
<1>3. ASSUME NEW h \in Handlers, Serve(h) \/ StepFails(h)
      PROVE  /\ \A u \in Tasks : operation'[u].status = "running" =>
                  \E g \in Handlers : Busy(g)' /\ handler'[g].task = u
             /\ \A g \in Handlers : handler'[g].step = "delay" /\ Executed(Sent(g))' =>
                  handler'[g].nonce <= used'
  <2>1. ASSUME NEW u \in Tasks, operation'[u].status = "running"
        PROVE  \E g \in Handlers : Busy(g)' /\ handler'[g].task = u
    BY <1>1, <1>3, <2>1, ServeServed
  <2>2. ASSUME NEW g \in Handlers, handler'[g].step = "delay", Executed(Sent(g))'
        PROVE  handler'[g].nonce <= used'
    <3>1. CASE g = h
      BY <1>3, <2>2, <3>1, PausesBehind
    <3>2. CASE g # h
      <4>1. handler'[g] = handler[g]
        BY <1>3, <3>2, ServeFollows, FollowsAnswered DEF Becomes
      <4>2. Executed(Sent(g)) => handler[g].nonce <= used
        BY <1>1, <2>2, <4>1
      <4>3. QED
        BY <1>3, <2>2, <3>2, <4>2, OthersBehind
    <3>3. QED
      BY <3>1, <3>2
  <2>3. QED
    BY <2>1, <2>2
<1>4. CASE Mine
  <2>1. UNCHANGED <<signer, operation, handler>> /\ OnBase
    BY <1>4, MineNonces DEF Mine
  <2>2. \A h \in Handlers : handler'[h].step # "delay"
    <3> SUFFICES ASSUME NEW h \in Handlers, handler[h].step = "delay" PROVE FALSE
      BY <2>1
    <3>1. Busy(h)
      BY DEF Busy, At
    <3>2. Running(handler[h])
      BY <3>1, Serving
    <3>3. QED
      BY <2>1, <3>2 DEF Running
  <2>3. QED
    BY <1>1, <2>1, <2>2 DEF Busy, At
<1>5. CASE Settle
  BY <1>1, <1>5 DEF Settle, Busy, At, Executed, Sent
<1>6. QED
  BY <1>2, <1>3, <1>4, <1>5, NextCases

\* The transactions of the pool are behind each other, and the first one is next.
LEMMA NextInPool ==
  ASSUME TypeOK, NoncesInv, NEW q \in pool
  PROVE  \E p \in pool : p.nonce = used
<1>1. used \in Nat /\ Free \in Nat
  BY FS_CardinalityType DEF TypeOK, Free
<1>2. {p.nonce : p \in pool} = used..(Free - 1)
  BY DEF NoncesInv
<1>3. q.nonce \in used..(Free - 1)
  BY <1>2
<1>4. used \in used..(Free - 1)
  BY <1>1, <1>3
<1>5. QED
  BY <1>2, <1>4

\* No handler of the chain services waits for what cannot come, and no operation that
\* is not answered is without one.
THEOREM Unblocked == Spec => []NeverStuck
<1>1. Init => ProgressInv
  BY DEF Init, ProgressInv, Idle, At
<1>2. IInv /\ IInv' /\ ProgressInv /\ [Next]_vars => ProgressInv'
  <2>1. ASSUME IInv, IInv', ProgressInv, Next PROVE ProgressInv'
    BY <2>1, ProgressStep DEF IInv
  <2>2. ASSUME ProgressInv, UNCHANGED vars PROVE ProgressInv'
    BY <2>2 DEF ProgressInv, vars, chainVars, Busy, At, Executed, Sent
  <2>3. QED
    BY <2>1, <2>2
<1>3. IInv /\ ProgressInv => NeverStuck
  <2> SUFFICES ASSUME IInv, ProgressInv PROVE NeverStuck
    OBVIOUS
  <2>1. TypeOK /\ OperationsInv /\ NoncesInv
    BY DEF IInv
  <2>2. ASSUME NEW h \in Handlers, ~At(h, "idle")
        PROVE  CanGoOn(h) \/ (\E p \in pool : p.nonce = used) \/ final < used
    <3>1. handler[h].step \in {"check", "nonce", "send", "wait", "delay"}
      BY <2>1, <2>2 DEF TypeOK, State, At
    <3>2. CASE handler[h].step = "wait" /\ Pending(Sent(h))
      BY <2>1, <3>2, NextInPool DEF Pending
    <3>3. CASE /\ handler[h].step = "delay" /\ Executed(Sent(h))
               /\ ~(final >= handler[h].nonce)
      <4>1. handler[h].nonce <= used
        BY <3>3 DEF ProgressInv, At
      <4>2. handler[h].nonce \in Nat /\ used \in Nat /\ final \in Nat
        BY <2>1 DEF TypeOK, State
      <4>3. QED
        BY <3>3, <4>1, <4>2
    <3>4. QED
      BY <3>1, <3>2, <3>3 DEF CanGoOn, At
  <2>3. \A t \in Tasks : operation[t].status = "running" =>
          \E h \in Handlers : ~At(h, "idle") /\ handler[h].task = t
    BY DEF ProgressInv, Busy
  <2>4. QED
    BY <2>2, <2>3 DEF NeverStuck
<1>4. QED
  BY <1>1, <1>2, <1>3, Invariance, PTL DEF Spec
=============================================================================
