--------------------------- MODULE Accounts_proofs ---------------------------
(***************************************************************************)
(* The safety of Accounts for any number of devices and of requests served *)
(* at the same time, any limit of attempts and any number of failing       *)
(* calls.  All but LockoutHolds, which follows step by step, rests on      *)
(* IInv, an inductive invariant.                                           *)
(***************************************************************************)
EXTENDS Accounts, TLAPS, FiniteSetTheorems

State == [step: Steps, device: Devices, code: Nat, count: 0..MaxAttempts, copy: Copies]

\* Idle is a state of a handler.
LEMMA IdleState == Idle \in State /\ Idle.step = "idle"
<1>1. AnyDevice \in Devices
  BY SetsAssumption DEF AnyDevice
<1>2. QED
  BY <1>1, AttemptsAssumption DEF Idle, State, Steps, NoCopy, Copies

\* What a step does to the handlers: h goes to another state, to another step
\* in the same state, or is idle again.
LEMMA Put ==
  ASSUME TypeOK, NEW h \in Handlers, NEW s \in State,
         handler' = [handler EXCEPT ![h] = s]
  PROVE  /\ handler' \in [Handlers -> State] /\ handler'[h] = s
         /\ \A g \in Handlers \ {h} : handler'[g] = handler[g]
<1>1. handler \in [Handlers -> State]
  BY DEF TypeOK, State
<1>2. QED
  BY <1>1

LEMMA Move ==
  ASSUME TypeOK, NEW h \in Handlers, NEW step \in Steps, Moves(h, step)
  PROVE  /\ handler' \in [Handlers -> State]
         /\ handler'[h].step = step /\ handler'[h].code = handler[h].code
         /\ handler'[h].count = handler[h].count
         /\ \A g \in Handlers \ {h} : handler'[g] = handler[g]
  BY DEF TypeOK, State, Moves

LEMMA End ==
  ASSUME TypeOK, NEW h \in Handlers, Ends(h)
  PROVE  /\ handler' \in [Handlers -> State] /\ handler'[h].step = "idle"
         /\ \A g \in Handlers \ {h} : handler'[g] = handler[g]
  BY IdleState, Put DEF Ends

\* A request arrives at an idle handler.
LEMMA Arrival ==
  ASSUME TypeOK, NEW h \in Handlers, NEW step \in Steps, NEW d \in Devices,
         NEW c \in Nat, Serves(h, step, d, c)
  PROVE  /\ handler' \in [Handlers -> State]
         /\ handler'[h].step = step /\ handler'[h].code = c
         /\ \A g \in Handlers \ {h} : handler'[g] = handler[g]
<1> DEFINE s == [Idle EXCEPT !.step = step, !.device = d, !.code = c]
<1>1. s \in State /\ s.step = step /\ s.code = c
  BY IdleState DEF State
<1>2. handler' = [handler EXCEPT ![h] = s]
  BY DEF Serves
<1> HIDE DEF s
<1>3. QED
  BY <1>1, <1>2, Put

\* A state with another step, and another code or count.
WithCode(r, step, c) == [r EXCEPT !.step = step, !.code = c]
WithCount(r, step, n) == [r EXCEPT !.step = step, !.count = n]

LEMMA OtherCode ==
  ASSUME NEW r \in State, NEW step \in Steps, NEW c \in Nat
  PROVE  /\ WithCode(r, step, c) \in State
         /\ WithCode(r, step, c).step = step /\ WithCode(r, step, c).code = c
         /\ WithCode(r, step, c).count = r.count
  BY DEF State, WithCode

LEMMA OtherCount ==
  ASSUME NEW r \in State, NEW step \in Steps, NEW n \in 0..MaxAttempts
  PROVE  /\ WithCount(r, step, n) \in State
         /\ WithCount(r, step, n).step = step /\ WithCount(r, step, n).count = n
  BY DEF State, WithCount

\* Nobody has registered yet: the invariant holds.
LEMMA InitInv == Init => IInv
<1> SUFFICES ASSUME Init PROVE IInv
  OBVIOUS
<1>1. \A h \in Handlers : handler[h] = Idle /\ handler[h].step = "idle"
  BY IdleState DEF Init
<1>2. handler \in [Handlers -> State]
  BY IdleState DEF Init
<1>3. TypeOK
  BY <1>2, AttemptsAssumption, BoundAssumption
     DEF Init, TypeOK, State, NoCopy, Copies, Races
<1>4. CountInv /\ CodeInv /\ OrphanInv
  BY <1>1 DEF Init, CountInv, CodeInv, OrphanInv, Storing, Verified, Verifying, At
<1>5. QED
  BY <1>3, <1>4 DEF IInv

-----------------------------------------------------------------------------
(* What leaves each part of the invariant alone                            *)

\* The count: no handler gets a count or leaves with one.
LEMMA CountFrame ==
  ASSUME IInv, UNCHANGED <<attempts, wrong, failures>>, races \subseteq races',
         \A g \in Handlers : \/ handler'[g] = handler[g]
                             \/ /\ handler[g].step # "count"
                                /\ handler'[g].step \notin {"otp", "count"}
  PROVE  CountInv'
  BY DEF IInv, CountInv, At

\* The codes: no handler has or gets one on its way.
LEMMA CodeFrame ==
  ASSUME IInv, UNCHANGED <<codes, mailed>>, races \subseteq races',
         spent \subseteq spent', user' = "none" => user = "none",
         otp' = otp \/ otp \in spent' \/ otp # Len(codes),
         \A g \in Handlers :
           \/ handler'[g] = handler[g]
           \/ /\ ~Storing(g)
              /\ handler'[g].step \notin {"store", "delOtp", "delAttempts", "mail"}
              /\ handler'[g].step = "drop" => handler'[g].code \in spent'
  PROVE  CodeInv'
  BY DEF IInv, CodeInv, Storing, At

\* The accounts: no handler verifies.
LEMMA OrphanFrame ==
  ASSUME IInv, UNCHANGED <<near, wallet, failures>>, races \subseteq races',
         otp' = otp \/ otp' = 0, user' = "verified" <=> user = "verified",
         \A g \in Handlers :
           \/ handler'[g] = handler[g]
           \/ handler[g].step \notin Verifying /\ handler'[g].step \notin Verifying
  PROVE  OrphanInv'
  BY DEF IInv, OrphanInv, Verified, Verifying, At

-----------------------------------------------------------------------------
(* The steps                                                               *)

\* What arrives, and the guard's copy: only the handler moves, outside of what
\* the invariant speaks of.
Outside == {"idle", "create", "attempts", "user", "findUser", "fill"}

LEMMA OutsideStep ==
  ASSUME IInv, UNCHANGED <<user, near, wallet, codes, mailed, otp, attempts, wrong,
                           spent, races, failures>>,
         isActive' \in BOOLEAN, authUser' \in Copies, requests' \in 0..MaxRequests,
         handler' \in [Handlers -> State],
         \A g \in Handlers :
           \/ handler'[g] = handler[g]
           \/ handler[g].step \in Outside /\ handler'[g].step \in Outside
  PROVE  IInv'
<1>1. TypeOK'
  BY DEF IInv, TypeOK, State
<1>2. CountInv' /\ CodeInv' /\ OrphanInv'
  BY CountFrame, CodeFrame, OrphanFrame DEF Outside, Storing, Verifying
<1>3. QED
  BY <1>1, <1>2 DEF IInv

LEMMA OutsideInv ==
  ASSUME IInv, NEW h \in Handlers,
         \/ \E d \in Devices : \/ Register(h, d)
                               \/ \E c \in mailed \cup {0} : Verify(h, d, c)
         \/ Call(h) \/ ReadCopy(h) \/ ReadUser(h) \/ FillCopy(h)
         \/ \E b \in BOOLEAN : SetActive(h, b)
  PROVE  IInv'
<1> USE DEF userVars, codeVars, budgets
<1>1. /\ TypeOK /\ handler[h] \in State /\ mailed \cup {0} \subseteq Nat
      /\ isActive \in BOOLEAN /\ authUser \in Copies /\ requests \in 0..MaxRequests
      /\ handler \in [Handlers -> State]
      /\ AnyDevice \in Devices
      /\ {"create", "attempts", "user", "findUser", "fill"} \subseteq Steps
  BY SetsAssumption DEF IInv, TypeOK, State, AnyDevice, Steps
<1>2. requests < MaxRequests => requests + 1 \in 0..MaxRequests
  BY <1>1, BoundAssumption
<1>3. CASE \E d \in Devices : Register(h, d)
  <2>1. PICK d \in Devices : Register(h, d)
    BY <1>3
  <2>2. Serves(h, "create", d, 0) /\ handler[h].step = "idle"
    BY <2>1 DEF Register, Receive, At
  <2>3. /\ handler' \in [Handlers -> State] /\ handler'[h].step = "create"
        /\ \A g \in Handlers \ {h} : handler'[g] = handler[g]
    BY <1>1, <2>2, Arrival
  <2>4. QED
    BY <1>1, <1>2, <2>1, <2>2, <2>3, OutsideStep DEF Register, Receive, Outside
<1>4. CASE \E d \in Devices : \E c \in mailed \cup {0} : Verify(h, d, c)
  <2>1. PICK d \in Devices, c \in mailed \cup {0} : Verify(h, d, c)
    BY <1>4
  <2>2. Serves(h, "attempts", d, c) /\ handler[h].step = "idle" /\ c \in Nat
    BY <1>1, <2>1 DEF Verify, Receive, At
  <2>3. /\ handler' \in [Handlers -> State] /\ handler'[h].step = "attempts"
        /\ \A g \in Handlers \ {h} : handler'[g] = handler[g]
    BY <1>1, <2>2, Arrival
  <2>4. QED
    BY <1>1, <1>2, <2>1, <2>2, <2>3, OutsideStep DEF Verify, Receive, Outside
<1>5. CASE Call(h)
  <2>1. Serves(h, "user", AnyDevice, 0) /\ handler[h].step = "idle"
    BY <1>5 DEF Call, Receive, At
  <2>2. /\ handler' \in [Handlers -> State] /\ handler'[h].step = "user"
        /\ \A g \in Handlers \ {h} : handler'[g] = handler[g]
    BY <1>1, <2>1, Arrival
  <2>3. QED
    BY <1>1, <1>2, <1>5, <2>1, <2>2, OutsideStep DEF Call, Receive, Outside
<1>6. CASE \E b \in BOOLEAN : SetActive(h, b)
  BY <1>1, <1>2, <1>6, OutsideStep DEF SetActive, Receive
<1>7. CASE ReadCopy(h)
  <2>1. /\ handler' \in [Handlers -> State] /\ handler'[h].step \in {"idle", "findUser"}
        /\ \A g \in Handlers \ {h} : handler'[g] = handler[g]
        /\ handler[h].step = "user"
    BY <1>1, <1>7, Move, End DEF ReadCopy, At
  <2>2. QED
    BY <1>1, <1>7, <2>1, OutsideStep DEF ReadCopy, Outside
<1>8. CASE ReadUser(h)
  <2> DEFINE c == [cached |-> TRUE, active |-> isActive, verified |-> user = "verified"]
             s == [handler[h] EXCEPT !.step = "fill", !.copy = c]
  <2>1. c \in Copies
    BY <1>1 DEF Copies
  <2>2. s \in State /\ s.step = "fill"
    BY <1>1, <2>1 DEF State
  <2>3. handler' = [handler EXCEPT ![h] = s] /\ handler[h].step = "findUser"
    BY <1>8 DEF ReadUser, At
  <2> HIDE DEF s
  <2>4. /\ handler' \in [Handlers -> State] /\ handler'[h] = s
        /\ \A g \in Handlers \ {h} : handler'[g] = handler[g]
    BY <1>1, <2>2, <2>3, Put
  <2>5. QED
    BY <1>1, <1>8, <2>2, <2>3, <2>4, OutsideStep DEF ReadUser, Outside
<1>9. CASE FillCopy(h)
  <2>1. /\ handler' \in [Handlers -> State] /\ handler'[h].step = "idle"
        /\ \A g \in Handlers \ {h} : handler'[g] = handler[g]
        /\ handler[h].step = "fill"
    BY <1>1, <1>9, End DEF FillCopy, At
  <2>2. authUser' \in Copies
    BY <1>1, <1>9 DEF FillCopy, State
  <2>3. QED
    BY <1>1, <1>9, <2>1, <2>2, OutsideStep DEF FillCopy, Outside
<1>10. QED
  BY <1>3, <1>4, <1>5, <1>6, <1>7, <1>8, <1>9

-----------------------------------------------------------------------------
(* Codes on their way                                                      *)

\* Generating a code, for a registration or a resend.
LEMMA NewCode ==
  ASSUME IInv, NEW d \in Devices, codes' = Append(codes, d)
  PROVE  /\ codes' \in Seq(Devices) /\ Len(codes) \in Nat
         /\ Len(codes') = Len(codes) + 1
         /\ mailed \subseteq 1..Len(codes') /\ Len(codes') \notin mailed
<1>1. codes \in Seq(Devices) /\ mailed \subseteq 1..Len(codes)
  BY DEF IInv, TypeOK
<1>2. QED
  BY <1>1

LEMMA CreateInv ==
  ASSUME IInv, NEW h \in Handlers, Create(h)
  PROVE  IInv'
<1> USE DEF userVars, codeVars, budgets
<1>1. /\ TypeOK /\ handler[h] \in State /\ handler[h].step = "create"
      /\ UNCHANGED <<isActive, wallet, near, mailed, otp, attempts, wrong, spent,
                     authUser, races, failures, requests>>
  BY DEF IInv, TypeOK, State, Create, At
<1>2. CASE user # "none"
  <2>1. /\ handler' \in [Handlers -> State] /\ handler'[h].step = "idle"
        /\ \A g \in Handlers \ {h} : handler'[g] = handler[g]
    BY <1>1, <1>2, End DEF Create
  <2>2. QED
    BY <1>1, <1>2, <2>1, OutsideStep DEF Create, Outside, IInv, TypeOK
<1>3. CASE user = "none"
  <2> DEFINE s == WithCode(handler[h], "store", Len(codes) + 1)
  <2>1. user' = "pending" /\ codes' = Append(codes, handler[h].device)
    BY <1>3 DEF Create
  <2>2. /\ codes' \in Seq(Devices) /\ Len(codes) \in Nat
        /\ Len(codes') = Len(codes) + 1
        /\ mailed \subseteq 1..Len(codes') /\ Len(codes') \notin mailed
    BY <1>1, <2>1, NewCode DEF State
  <2>3. "store" \in Steps /\ Len(codes) + 1 \in Nat
    BY <2>2 DEF Steps
  <2>4. handler' = [handler EXCEPT ![h] = s]
    BY <1>3 DEF Create, WithCode
  <2>5. s \in State /\ s.step = "store" /\ s.code = Len(codes')
    BY <1>1, <2>2, <2>3, OtherCode
  <2> HIDE DEF s
  <2>6. /\ handler' \in [Handlers -> State] /\ handler'[h] = s
        /\ \A g \in Handlers \ {h} : handler'[g] = handler[g]
    BY <1>1, <2>5, <2>4, Put
  <2>7. TypeOK'
    BY <1>1, <2>1, <2>2, <2>6 DEF TypeOK, State
  <2>8. codes = <<>> /\ Len(codes) = 0
    BY <1>3 DEF IInv, CodeInv
  <2>9. \A g \in Handlers : /\ ~Storing(g) /\ ~At(g, "mail")
                            /\ At(g, "drop") => handler[g].code \in spent
    BY <2>2, <2>8 DEF IInv, CodeInv
  <2>10. CountInv'
    BY <1>1, <2>5, <2>6, CountFrame
  <2>11. CodeInv'
    BY <1>1, <2>1, <2>2, <2>5, <2>6, <2>9 DEF CodeInv, Storing, At
  <2>12. OrphanInv'
    BY <1>1, <1>3, <2>1, <2>5, <2>6, OrphanFrame DEF Verifying
  <2>13. QED
    BY <2>7, <2>10, <2>11, <2>12 DEF IInv
<1>4. QED
  BY <1>2, <1>3

LEMMA ResendInv ==
  ASSUME IInv, NEW h \in Handlers, NEW d \in Devices, Resend(h, d)
  PROVE  IInv'
<1> USE DEF userVars, codeVars, budgets
<1>1. /\ TypeOK /\ handler[h] \in State /\ handler[h].step = "idle"
      /\ UNCHANGED <<user, isActive, wallet, near, mailed, otp, attempts, wrong, spent,
                     authUser, failures>>
      /\ races' = IF Others(h, {"store", "delOtp", "delAttempts"})
                  THEN races \cup {"code"} ELSE races
      /\ user = "pending" /\ codes' = Append(codes, d)
      /\ Serves(h, "delOtp", d, Len(codes) + 1)
  BY DEF IInv, TypeOK, State, Resend, Receive, At, Records
<1>2. requests' \in 0..MaxRequests
  BY <1>1, BoundAssumption DEF Resend, Receive, TypeOK
<1>3. /\ codes' \in Seq(Devices) /\ Len(codes) \in Nat
      /\ Len(codes') = Len(codes) + 1
      /\ mailed \subseteq 1..Len(codes') /\ Len(codes') \notin mailed
  BY <1>1, NewCode
<1>4. /\ handler' \in [Handlers -> State] /\ handler'[h].step = "delOtp"
      /\ handler'[h].code = Len(codes')
      /\ \A g \in Handlers \ {h} : handler'[g] = handler[g]
  BY <1>1, <1>3, Arrival DEF Steps
<1>5. TypeOK'
  BY <1>1, <1>2, <1>3, <1>4 DEF TypeOK, State, Races
<1>6. CountInv'
  BY <1>1, <1>4, CountFrame
<1>7. OrphanInv'
  BY <1>1, <1>4, OrphanFrame DEF Verifying
<1>8. CodeInv'
  <2>1. \A g \in Handlers \ {h} :
          Storing(g) \/ At(g, "mail") => /\ handler[g].code \in 1..Len(codes')
                                         /\ handler[g].code # Len(codes')
    BY <1>3 DEF IInv, CodeInv
  <2>2. "code" \notin races' => \A g \in Handlers \ {h} : ~Storing(g)
    BY <1>1 DEF Others, Storing
  <2>3. \A g \in Handlers \ {h} : At(g, "drop") => handler[g].code \in spent
    BY DEF IInv, CodeInv
  <2>4. QED
    BY <1>1, <1>3, <1>4, <2>1, <2>2, <2>3 DEF CodeInv, Storing, At
<1>9. QED
  BY <1>5, <1>6, <1>7, <1>8 DEF IInv

LEMMA DeleteCodeInv ==
  ASSUME IInv, NEW h \in Handlers, DeleteCode(h)
  PROVE  IInv'
<1> USE DEF userVars, codeVars, budgets
<1>1. /\ TypeOK /\ handler[h].step = "delOtp" /\ otp' = 0
      /\ UNCHANGED <<user, isActive, wallet, near, codes, mailed, attempts, wrong,
                     spent, authUser, races, failures, requests>>
  BY DEF IInv, DeleteCode, At
<1>2. /\ handler' \in [Handlers -> State] /\ handler'[h].step = "delAttempts"
      /\ handler'[h].code = handler[h].code
      /\ \A g \in Handlers \ {h} : handler'[g] = handler[g]
  BY Move DEF IInv, DeleteCode, Steps
<1>3. TypeOK'
  BY <1>1, <1>2 DEF TypeOK, State
<1>4. CountInv'
  BY <1>1, <1>2, CountFrame
<1>5. OrphanInv'
  BY <1>1, <1>2, OrphanFrame DEF Verifying
<1>6. CodeInv'
  BY <1>1, <1>2 DEF IInv, CodeInv, Storing, At
<1>7. QED
  BY <1>3, <1>4, <1>5, <1>6 DEF IInv

LEMMA DeleteAttemptsInv ==
  ASSUME IInv, NEW h \in Handlers, DeleteAttempts(h)
  PROVE  IInv'
<1> USE DEF userVars, codeVars, budgets
<1>1. /\ TypeOK /\ handler[h].step = "delAttempts" /\ attempts' = 0 /\ wrong' = 0
      /\ UNCHANGED <<user, isActive, wallet, near, codes, mailed, otp,
                     spent, authUser, failures, requests>>
      /\ races' = IF Others(h, {"otp", "count"}) THEN races \cup {"count"} ELSE races
  BY DEF IInv, DeleteAttempts, At, Records
<1>2. /\ handler' \in [Handlers -> State] /\ handler'[h].step = "store"
      /\ handler'[h].code = handler[h].code
      /\ \A g \in Handlers \ {h} : handler'[g] = handler[g]
  BY Move DEF IInv, DeleteAttempts, Steps
<1>3. TypeOK'
  BY <1>1, <1>2, AttemptsAssumption DEF TypeOK, State, Races
<1>4. CountInv'
  <2>1. "count" \notin races' => \A g \in Handlers : ~At(g, "count")
    BY <1>1 DEF Others, At
  <2>2. QED
    BY <1>1, <1>2, <2>1 DEF IInv, CountInv, At
<1>5. OrphanInv'
  BY <1>1, <1>2, OrphanFrame DEF Verifying
<1>6. CodeInv'
  BY <1>1, <1>2 DEF IInv, CodeInv, Storing, At
<1>7. QED
  BY <1>3, <1>4, <1>5, <1>6 DEF IInv

LEMMA StoreCodeInv ==
  ASSUME IInv, NEW h \in Handlers, StoreCode(h)
  PROVE  IInv'
<1> USE DEF userVars, codeVars, budgets
<1>1. /\ TypeOK /\ handler[h] \in State /\ handler[h].step = "store"
      /\ otp' = handler[h].code
      /\ UNCHANGED <<user, isActive, wallet, near, codes, mailed, attempts, wrong,
                     spent, authUser, failures, requests>>
      /\ races' = IF user = "verified" \/ Others(h, Verifying)
                  THEN races \cup {"resend"} ELSE races
  BY DEF IInv, TypeOK, State, StoreCode, At, Records
<1>2. /\ handler' \in [Handlers -> State] /\ handler'[h].step = "mail"
      /\ handler'[h].code = handler[h].code
      /\ \A g \in Handlers \ {h} : handler'[g] = handler[g]
  BY Move DEF IInv, StoreCode, Steps
<1>3. TypeOK'
  BY <1>1, <1>2 DEF TypeOK, State, Races
<1>4. CountInv'
  BY <1>1, <1>2, CountFrame
<1>5. OrphanInv'
  <2>1. "resend" \notin races' =>
          user # "verified" /\ \A g \in Handlers : handler[g].step \notin Verifying
    BY <1>1 DEF Others, Verifying
  <2>2. QED
    BY <1>1, <1>2, <2>1 DEF IInv, OrphanInv, Verified, Verifying, At
<1>6. CodeInv'
  BY <1>1, <1>2 DEF IInv, CodeInv, Storing, At
<1>7. QED
  BY <1>3, <1>4, <1>5, <1>6 DEF IInv

LEMMA MailInv ==
  ASSUME IInv, NEW h \in Handlers, Mail(h)
  PROVE  IInv'
<1> USE DEF userVars, codeVars, budgets
<1>1. /\ TypeOK /\ handler[h] \in State /\ handler[h].step = "mail"
      /\ mailed' = mailed \cup {handler[h].code}
      /\ UNCHANGED <<user, isActive, wallet, near, codes, otp, attempts, wrong,
                     spent, authUser, races, failures, requests>>
      /\ handler[h].code \in 1..Len(codes)
  BY DEF IInv, TypeOK, State, Mail, At, CodeInv
<1>2. /\ handler' \in [Handlers -> State] /\ handler'[h].step = "idle"
      /\ \A g \in Handlers \ {h} : handler'[g] = handler[g]
  BY End DEF IInv, Mail
<1>3. TypeOK'
  BY <1>1, <1>2 DEF TypeOK, State
<1>4. CountInv'
  BY <1>1, <1>2, CountFrame
<1>5. OrphanInv'
  BY <1>1, <1>2, OrphanFrame DEF Verifying
<1>6. CodeInv'
  BY <1>1, <1>2 DEF IInv, CodeInv, Storing, At
<1>7. QED
  BY <1>3, <1>4, <1>5, <1>6 DEF IInv

-----------------------------------------------------------------------------
(* Verifying                                                               *)

LEMMA ReadAttemptsInv ==
  ASSUME IInv, NEW h \in Handlers, ReadAttempts(h)
  PROVE  IInv'
<1> USE DEF userVars, codeVars, budgets
<1> DEFINE s == WithCount(handler[h], "otp", attempts)
<1>1. /\ TypeOK /\ handler[h] \in State /\ handler[h].step = "attempts"
      /\ attempts \in 0..MaxAttempts /\ "otp" \in Steps
      /\ UNCHANGED <<user, isActive, wallet, near, codes, mailed, otp, attempts, wrong,
                     spent, authUser, races, failures, requests>>
  BY DEF IInv, TypeOK, State, Steps, ReadAttempts, At
<1>2. s \in State /\ s.step = "otp" /\ s.count = attempts
  BY <1>1, OtherCount
<1>3. IF attempts >= MaxAttempts THEN Ends(h) ELSE handler' = [handler EXCEPT ![h] = s]
  BY DEF ReadAttempts, WithCount
<1> HIDE DEF s
<1>4. /\ handler' \in [Handlers -> State]
      /\ \/ handler'[h].step = "idle"
         \/ /\ handler'[h].step = "otp" /\ handler'[h].count < MaxAttempts
      /\ \A g \in Handlers \ {h} : handler'[g] = handler[g]
  BY <1>1, <1>2, <1>3, Put, End, AttemptsAssumption
<1>5. TypeOK'
  BY <1>1, <1>4 DEF TypeOK, State
<1>6. CountInv'
  BY <1>1, <1>4 DEF IInv, CountInv, At
<1>7. CodeInv'
  BY <1>1, <1>4, CodeFrame DEF Storing
<1>8. OrphanInv'
  BY <1>1, <1>4, OrphanFrame DEF Verifying
<1>9. QED
  BY <1>5, <1>6, <1>7, <1>8 DEF IInv

LEMMA ReadCodeInv ==
  ASSUME IInv, NEW h \in Handlers, ReadCode(h)
  PROVE  IInv'
<1> USE DEF userVars, codeVars, budgets
<1> DEFINE next == Answer(h)
           s == WithCode(handler[h], next, otp)
<1>1. /\ TypeOK /\ handler[h] \in State /\ handler[h].step = "otp"
      /\ otp \in Nat /\ wrong \in Nat /\ attempts \in Nat /\ handler[h].count \in Nat
      /\ UNCHANGED <<user, isActive, wallet, near, codes, mailed, otp, attempts,
                     spent, authUser, failures, requests>>
      /\ handler' = [handler EXCEPT ![h] = IF next = "idle" THEN Idle ELSE s]
      /\ wrong' = IF next = "count" THEN wrong + 1 ELSE wrong
      /\ races' = IF next = "count" /\ ((attempts # handler[h].count)
                                          \/ Others(h, {"otp", "count"}))
                  THEN races \cup {"count"} ELSE races
  BY AttemptsAssumption DEF IInv, TypeOK, State, ReadCode, At, Records, WithCode
<1>2. /\ next \in {"idle", "count", "consume"} /\ next \in Steps
      /\ next # "idle" => otp # 0
  BY DEF Answer, Steps
<1>3. s \in State /\ s.step = next /\ s.count = handler[h].count
  BY <1>1, <1>2, OtherCode
<1> HIDE DEF next, s
<1> DEFINE r == IF next = "idle" THEN Idle ELSE s
<1>4. r \in State /\ r.step = next /\ (next # "idle" => r.count = handler[h].count)
  BY <1>3, IdleState
<1>5. handler' = [handler EXCEPT ![h] = r]
  BY <1>1
<1> HIDE DEF r
<1>6. /\ handler' \in [Handlers -> State]
      /\ handler'[h].step = next
      /\ next # "idle" => handler'[h].count = handler[h].count
      /\ \A g \in Handlers \ {h} : handler'[g] = handler[g]
  BY <1>1, <1>4, <1>5, Put
<1>7. TypeOK'
  BY <1>1, <1>6 DEF TypeOK, State, Races
<1>8. CountInv'
  <2>1. CASE next # "count"
    BY <1>1, <1>2, <1>6, <2>1, CountFrame
  <2>2. CASE next = "count"
    <3>1. "count" \notin races' =>
            /\ attempts = handler[h].count
            /\ \A g \in Handlers : ~At(g, "count")
      BY <1>1, <2>2 DEF Others, At
    <3>2. QED
      BY <1>1, <1>6, <2>2, <3>1 DEF IInv, CountInv, At
  <2>3. QED
    BY <2>1, <2>2
<1>9. CodeInv'
  BY <1>1, <1>2, <1>6, CodeFrame DEF Storing
<1>10. OrphanInv'
  <2>1. CASE next # "consume"
    BY <1>1, <1>2, <1>6, <2>1, OrphanFrame DEF Verifying
  <2>2. CASE next = "consume"
    BY <1>1, <1>2, <1>6, <2>2 DEF IInv, OrphanInv, Verified, Verifying, At
  <2>3. QED
    BY <2>1, <2>2
<1>11. QED
  BY <1>7, <1>8, <1>9, <1>10 DEF IInv

LEMMA CountWrongInv ==
  ASSUME IInv, NEW h \in Handlers, CountWrong(h)
  PROVE  IInv'
<1> USE DEF userVars, codeVars, budgets
<1>1. /\ TypeOK /\ handler[h].step = "count"
      /\ handler[h].count \in Nat /\ handler[h].count < MaxAttempts
      /\ attempts' = handler[h].count + 1
      /\ UNCHANGED <<user, isActive, wallet, near, codes, mailed, otp, wrong,
                     spent, authUser, races, failures, requests>>
  BY AttemptsAssumption DEF IInv, TypeOK, CountInv, CountWrong, At
<1>2. /\ handler' \in [Handlers -> State] /\ handler'[h].step \in {"lock", "idle"}
      /\ \A g \in Handlers \ {h} : handler'[g] = handler[g]
  BY <1>1, Move, End DEF CountWrong, Steps
<1>3. attempts' \in 0..MaxAttempts
  BY <1>1, AttemptsAssumption
<1>4. TypeOK'
  BY <1>1, <1>2, <1>3 DEF TypeOK, State
<1>5. CountInv'
  BY <1>1, <1>2 DEF IInv, CountInv, At
<1>6. CodeInv'
  BY <1>1, <1>2, CodeFrame DEF Storing
<1>7. OrphanInv'
  BY <1>1, <1>2, OrphanFrame DEF Verifying
<1>8. QED
  BY <1>4, <1>5, <1>6, <1>7 DEF IInv

\* A code that goes in place of the one that was compared is recorded.
LEMMA SpentCode ==
  ASSUME IInv, NEW h \in Handlers, handler[h].step \in {"drop", "lock", "consume"},
         UNCHANGED <<user, codes, mailed>>, otp' = 0,
         races \subseteq races', otp \notin {0, handler[h].code} => "code" \in races',
         spent' = spent \cup {handler[h].code},
         handler'[h].step \in {"idle", "reset"},
         \A g \in Handlers \ {h} : handler'[g] = handler[g]
  PROVE  CodeInv'
<1>1. mailed \subseteq 1..Len(codes)
  BY DEF IInv, TypeOK
<1>2. CASE "code" \in races'
  BY <1>2 DEF IInv, CodeInv, Storing, At
<1>3. CASE otp \in {0, handler[h].code}
  BY <1>1, <1>3 DEF IInv, CodeInv, Storing, At
<1>4. QED
  BY <1>2, <1>3

\* A code read after its time is spent when it is deleted.
LEMMA ReadExpiredInv ==
  ASSUME IInv, NEW h \in Handlers, ReadExpired(h)
  PROVE  IInv'
<1> USE DEF userVars, codeVars, budgets
<1> DEFINE s == WithCode(handler[h], "drop", otp)
<1>1. /\ TypeOK /\ handler[h] \in State /\ handler[h].step = "otp" /\ otp \in Nat
      /\ "drop" \in Steps /\ spent' = spent \cup {otp}
      /\ UNCHANGED <<user, isActive, wallet, near, codes, mailed, otp, attempts, wrong,
                     authUser, races, failures, requests>>
      /\ handler' = [handler EXCEPT ![h] = s]
  BY DEF IInv, TypeOK, State, Steps, ReadExpired, At, WithCode
<1>2. s \in State /\ s.step = "drop" /\ s.code = otp
  BY <1>1, OtherCode
<1> HIDE DEF s
<1>3. /\ handler' \in [Handlers -> State] /\ handler'[h] = s
      /\ \A g \in Handlers \ {h} : handler'[g] = handler[g]
  BY <1>1, <1>2, Put
<1>4. TypeOK'
  BY <1>1, <1>3 DEF TypeOK, State
<1>5. CountInv' /\ CodeInv' /\ OrphanInv'
  BY <1>1, <1>2, <1>3, CountFrame, CodeFrame, OrphanFrame DEF Storing, Verifying
<1>6. QED
  BY <1>4, <1>5 DEF IInv

LEMMA DropExpiredInv ==
  ASSUME IInv, NEW h \in Handlers, DropExpired(h)
  PROVE  IInv'
<1> USE DEF userVars, codeVars, budgets
<1>1. /\ TypeOK /\ handler[h] \in State /\ handler[h].step = "drop" /\ otp' = 0
      /\ UNCHANGED <<user, isActive, wallet, near, codes, mailed, attempts, wrong, spent,
                     authUser, failures, requests>>
      /\ races' = IF otp \notin {0, handler[h].code} THEN races \cup {"code"} ELSE races
  BY DEF IInv, TypeOK, State, DropExpired, At, Records
<1>2. /\ handler' \in [Handlers -> State] /\ handler'[h].step = "idle"
      /\ \A g \in Handlers \ {h} : handler'[g] = handler[g]
  BY <1>1, End DEF DropExpired
<1>3. TypeOK'
  BY <1>1, <1>2 DEF TypeOK, State, Races
<1>4. spent' = spent \cup {handler[h].code}
  BY <1>1 DEF IInv, CodeInv, At
<1>5. CodeInv'
  BY <1>1, <1>2, <1>4, SpentCode
<1>6. CountInv' /\ OrphanInv'
  BY <1>1, <1>2, CountFrame, OrphanFrame DEF Verifying
<1>7. QED
  BY <1>3, <1>5, <1>6 DEF IInv

LEMMA LockInv ==
  ASSUME IInv, NEW h \in Handlers, Lock(h)
  PROVE  IInv'
<1> USE DEF userVars, codeVars, budgets
<1>1. /\ TypeOK /\ handler[h] \in State /\ handler[h].step = "lock" /\ otp' = 0
      /\ spent' = spent \cup {handler[h].code}
      /\ UNCHANGED <<user, isActive, wallet, near, codes, mailed, attempts, wrong,
                     authUser, failures, requests>>
      /\ races' = IF otp \notin {0, handler[h].code} THEN races \cup {"code"} ELSE races
  BY DEF IInv, TypeOK, State, Lock, At, Records
<1>2. /\ handler' \in [Handlers -> State] /\ handler'[h].step = "idle"
      /\ \A g \in Handlers \ {h} : handler'[g] = handler[g]
  BY <1>1, End DEF Lock
<1>3. TypeOK'
  BY <1>1, <1>2 DEF TypeOK, State, Races
<1>4. CountInv'
  BY <1>1, <1>2, CountFrame
<1>5. CodeInv'
  BY <1>1, <1>2, SpentCode
<1>6. OrphanInv'
  BY <1>1, <1>2, OrphanFrame DEF Verifying
<1>7. QED
  BY <1>3, <1>4, <1>5, <1>6 DEF IInv

LEMMA ConsumeCodeInv ==
  ASSUME IInv, NEW h \in Handlers, ConsumeCode(h)
  PROVE  IInv'
<1> USE DEF userVars, codeVars, budgets
<1>1. /\ TypeOK /\ handler[h] \in State /\ handler[h].step = "consume" /\ otp' = 0
      /\ spent' = spent \cup {handler[h].code}
      /\ UNCHANGED <<user, isActive, wallet, near, codes, mailed, attempts, wrong,
                     authUser, failures, requests>>
      /\ races \subseteq races' /\ (races \subseteq Races => races' \subseteq Races)
      /\ otp \notin {0, handler[h].code} => "code" \in races'
      /\ Others(h, Verifying) => "verify" \in races'
  BY DEF IInv, TypeOK, State, ConsumeCode, At, Races
<1>2. /\ handler' \in [Handlers -> State] /\ handler'[h].step = "reset"
      /\ \A g \in Handlers \ {h} : handler'[g] = handler[g]
  BY <1>1, Move DEF ConsumeCode, Steps
<1>3. TypeOK'
  BY <1>1, <1>2 DEF TypeOK, State
<1>4. CountInv'
  BY <1>1, <1>2, CountFrame
<1>5. CodeInv'
  BY <1>1, <1>2, SpentCode
<1>6. OrphanInv'
  <2>1. "verify" \notin races' =>
          \A g \in Handlers \ {h} : handler[g].step \notin Verifying
    BY <1>1 DEF Others
  <2>2. QED
    BY <1>1, <1>2, <2>1 DEF IInv, OrphanInv, Verified, Verifying, At
<1>7. QED
  BY <1>3, <1>4, <1>5, <1>6 DEF IInv

LEMMA ResetAttemptsInv ==
  ASSUME IInv, NEW h \in Handlers, ResetAttempts(h)
  PROVE  IInv'
<1> USE DEF userVars, codeVars, budgets
<1>1. /\ TypeOK /\ handler[h].step = "reset" /\ attempts' = 0 /\ wrong' = 0
      /\ UNCHANGED <<user, isActive, wallet, near, codes, mailed, otp, spent,
                     authUser, races, failures, requests>>
  BY DEF IInv, ResetAttempts, At
<1>2. /\ handler' \in [Handlers -> State] /\ handler'[h].step = "find"
      /\ \A g \in Handlers \ {h} : handler'[g] = handler[g]
  BY <1>1, Move DEF ResetAttempts, Steps
<1>3. TypeOK'
  BY <1>1, <1>2, AttemptsAssumption DEF TypeOK, State
<1>4. CountInv'
  <2>1. \A g \in Handlers : handler[g].count \in Nat
    BY <1>1, AttemptsAssumption DEF TypeOK
  <2>2. QED
    BY <1>1, <1>2, <2>1 DEF IInv, CountInv, At
<1>5. CodeInv'
  BY <1>1, <1>2, CodeFrame DEF Storing
<1>6. OrphanInv'
  BY <1>1, <1>2 DEF IInv, OrphanInv, Verified, Verifying, At
<1>7. QED
  BY <1>3, <1>4, <1>5, <1>6 DEF IInv

LEMMA FindUserInv ==
  ASSUME IInv, NEW h \in Handlers, FindUser(h)
  PROVE  IInv'
<1> USE DEF userVars, codeVars, budgets
<1>1. /\ TypeOK /\ handler[h].step = "find"
      /\ UNCHANGED <<user, isActive, wallet, near, codes, mailed, otp, attempts, wrong,
                     spent, authUser, races, failures, requests>>
  BY DEF IInv, FindUser, At
<1>2. /\ handler' \in [Handlers -> State] /\ handler'[h].step = "near"
      /\ \A g \in Handlers \ {h} : handler'[g] = handler[g]
  BY <1>1, Move DEF FindUser, Steps
<1>3. TypeOK'
  BY <1>1, <1>2 DEF TypeOK, State
<1>4. CountInv' /\ CodeInv'
  BY <1>1, <1>2, CountFrame, CodeFrame DEF Storing
<1>5. OrphanInv'
  BY <1>1, <1>2 DEF IInv, OrphanInv, Verified, Verifying, At
<1>6. QED
  BY <1>3, <1>4, <1>5 DEF IInv

LEMMA CreateNearInv ==
  ASSUME IInv, NEW h \in Handlers, CreateNear(h)
  PROVE  IInv'
<1> USE DEF userVars, codeVars, budgets
<1> DEFINE s == WithCode(handler[h], "save", near + 1)
<1>1. /\ TypeOK /\ handler[h] \in State /\ handler[h].step = "near"
      /\ near \in Nat /\ near' = near + 1 /\ "save" \in Steps
      /\ UNCHANGED <<user, isActive, wallet, codes, mailed, otp, attempts, wrong,
                     spent, authUser, races, failures, requests>>
      /\ handler' = [handler EXCEPT ![h] = s]
  BY DEF IInv, TypeOK, State, Steps, CreateNear, At, WithCode
<1>2. s \in State /\ s.step = "save" /\ s.code = near'
  BY <1>1, OtherCode
<1> HIDE DEF s
<1>3. /\ handler' \in [Handlers -> State] /\ handler'[h] = s
      /\ \A g \in Handlers \ {h} : handler'[g] = handler[g]
  BY <1>1, <1>2, Put
<1>4. TypeOK'
  BY <1>1, <1>3 DEF TypeOK, State
<1>5. CountInv' /\ CodeInv'
  BY <1>1, <1>2, <1>3, CountFrame, CodeFrame DEF Storing
<1>6. OrphanInv'
  BY <1>1, <1>2, <1>3 DEF IInv, OrphanInv, Verified, Verifying, At
<1>7. QED
  BY <1>4, <1>5, <1>6 DEF IInv

LEMMA SaveUserInv ==
  ASSUME IInv, NEW h \in Handlers, SaveUser(h)
  PROVE  IInv'
<1> USE DEF userVars, codeVars, budgets
<1>1. /\ TypeOK /\ handler[h] \in State /\ handler[h].step = "save"
      /\ user' = "verified" /\ wallet' = handler[h].code
      /\ UNCHANGED <<isActive, near, codes, mailed, otp, attempts, wrong,
                     spent, authUser, races, failures, requests>>
  BY DEF IInv, TypeOK, State, SaveUser, At
<1>2. /\ handler' \in [Handlers -> State] /\ handler'[h].step = "idle"
      /\ \A g \in Handlers \ {h} : handler'[g] = handler[g]
  BY <1>1, End DEF SaveUser
<1>3. TypeOK'
  BY <1>1, <1>2 DEF TypeOK, State
<1>4. CountInv' /\ CodeInv'
  BY <1>1, <1>2, CountFrame, CodeFrame DEF Storing
<1>5. OrphanInv'
  BY <1>1, <1>2 DEF IInv, OrphanInv, Verified, Verifying, At
<1>6. QED
  BY <1>3, <1>4, <1>5 DEF IInv

-----------------------------------------------------------------------------
(* Time and failures                                                       *)

LEMMA StepFailsInv ==
  ASSUME IInv, NEW h \in Handlers, StepFails(h)
  PROVE  IInv'
<1> USE DEF userVars, codeVars, budgets
<1>1. /\ TypeOK /\ near' \in {near, near + 1} /\ near \in Nat
      /\ failures \in Nat /\ failures < MaxFailures /\ failures' = failures + 1
      /\ UNCHANGED <<user, isActive, wallet, codes, mailed, otp, attempts, wrong,
                     spent, authUser, races, requests>>
  BY BoundAssumption DEF IInv, TypeOK, StepFails
<1>2. /\ handler' \in [Handlers -> State] /\ handler'[h].step = "idle"
      /\ \A g \in Handlers \ {h} : handler'[g] = handler[g]
  BY <1>1, End DEF StepFails
<1>3. failures' \in 0..MaxFailures /\ failures' # 0
  BY <1>1, BoundAssumption
<1>4. TypeOK'
  BY <1>1, <1>2, <1>3 DEF TypeOK, State
<1>5. CountInv'
  BY <1>1, <1>2, <1>3 DEF IInv, CountInv
<1>6. CodeInv'
  BY <1>1, <1>2, <1>3 DEF IInv, CodeInv, Storing, At
<1>7. OrphanInv'
  BY <1>3 DEF OrphanInv
<1>8. QED
  BY <1>4, <1>5, <1>6, <1>7 DEF IInv

LEMMA TimeInv ==
  ASSUME IInv, CodeExpires \/ AttemptsExpire \/ CopyExpires
  PROVE  IInv'
<1> USE DEF userVars, codeVars, budgets
<1>1. TypeOK /\ handler \in [Handlers -> State]
  BY DEF IInv, TypeOK, State
<1>2. CASE CodeExpires
  <2>1. TypeOK'
    BY <1>1, <1>2 DEF CodeExpires, TypeOK
  <2>2. CountInv' /\ CodeInv' /\ OrphanInv'
    BY <1>2, CountFrame, CodeFrame, OrphanFrame DEF CodeExpires
  <2>3. QED
    BY <2>1, <2>2 DEF IInv
<1>3. CASE AttemptsExpire
  <2>1. TypeOK'
    BY <1>1, <1>3, AttemptsAssumption DEF AttemptsExpire, TypeOK
  <2>2. CountInv'
    BY <1>3 DEF IInv, CountInv, AttemptsExpire, At
  <2>3. CodeInv' /\ OrphanInv'
    BY <1>3, CodeFrame, OrphanFrame DEF AttemptsExpire
  <2>4. QED
    BY <2>1, <2>2, <2>3 DEF IInv
<1>4. CASE CopyExpires
  <2>1. NoCopy \in Copies /\ isActive \in BOOLEAN /\ requests \in 0..MaxRequests
    BY <1>1 DEF TypeOK, NoCopy, Copies
  <2>2. QED
    BY <1>1, <1>4, <2>1, OutsideStep DEF CopyExpires
<1>5. QED
  BY <1>2, <1>3, <1>4

LEMMA NextInv ==
  ASSUME IInv, [Next]_vars
  PROVE  IInv'
<1>1. ASSUME NEW h \in Handlers, Arrive(h)
      PROVE  IInv'
  BY <1>1, OutsideInv, ResendInv DEF Arrive
<1>2. ASSUME NEW h \in Handlers, Serve(h)
      PROVE  IInv'
  BY <1>2, OutsideInv, CreateInv, DeleteCodeInv, DeleteAttemptsInv, StoreCodeInv,
     MailInv, ReadAttemptsInv, ReadExpiredInv, DropExpiredInv, ReadCodeInv, CountWrongInv, LockInv, ConsumeCodeInv,
     ResetAttemptsInv, FindUserInv, CreateNearInv, SaveUserInv, StepFailsInv
     DEF Serve
<1>3. CASE UNCHANGED vars
  BY <1>3 DEF vars, IInv, TypeOK, CountInv, CodeInv, OrphanInv, Storing, Verified, At
<1>4. QED
  BY <1>1, <1>2, <1>3, TimeInv DEF Next

-----------------------------------------------------------------------------
(* The theorems                                                            *)

\* The inductive invariant holds of every behaviour of register, resendOtp,
\* verifyOtp, verifyEmail and the guard.
THEOREM Invariance == Spec => []IInv
<1>1. Init => IInv
  BY InitInv
<1>2. IInv /\ [Next]_vars => IInv'
  BY NextInv
<1>3. QED
  BY <1>1, <1>2, PTL DEF Spec

\* verifyOtp compares no more wrong codes between two resets of the count than
\* MAX_OTP_ATTEMPTS, and the count in the cache tells how many, unless a count is
\* lost to a failing call or to a second request.
THEOREM AttemptsAreCounted == Spec => []AttemptsCounted
<1>1. IInv => AttemptsCounted
  <2> SUFFICES ASSUME IInv, failures = 0, "count" \notin races
               PROVE  /\ wrong <= MaxAttempts
                      /\ (\A h \in Handlers : ~At(h, "count")) => wrong <= attempts
    BY DEF AttemptsCounted
  <2>1. attempts \in 0..MaxAttempts /\ wrong \in Nat
    BY DEF IInv, TypeOK
  <2>2. CASE \A h \in Handlers : ~At(h, "count")
    BY <2>1, <2>2, AttemptsAssumption DEF IInv, CountInv
  <2>3. CASE \E h \in Handlers : At(h, "count")
    <3>1. PICK h \in Handlers : At(h, "count")
      BY <2>3
    <3>2. /\ handler[h].count < MaxAttempts /\ wrong <= handler[h].count + 1
          /\ handler[h].count \in Nat
      BY <3>1, AttemptsAssumption DEF IInv, TypeOK, CountInv, At
    <3>3. QED
      BY <2>1, <2>3, <3>2, AttemptsAssumption
  <2>4. QED
    BY <2>2, <2>3
<1>2. QED
  BY <1>1, Invariance, PTL

\* The code of the last mail that arrived is the one in the cache until it is
\* used, used up or expires, unless two requests overtake each other.
THEOREM LastMailIsGood == Spec => []LastMailWorks
<1>1. IInv => LastMailWorks
  BY DEF IInv, CodeInv, LastMailWorks
<1>2. QED
  BY <1>1, Invariance, PTL

\* verifyEmail leaves no NEAR account that belongs to nobody, unless a call fails
\* or another verification or a resend comes in between.
THEOREM NoOrphansLeft == Spec => []NoOrphans
<1>1. IInv => NoOrphans
  <2> DEFINE Kept == {wallet} \ {0}
             Saving == {h \in Handlers : At(h, "save")}
  <2> SUFFICES ASSUME IInv, failures = 0, races \cap {"verify", "resend"} = {}
               PROVE  near = Cardinality(Kept) + Cardinality(Saving)
    BY DEF NoOrphans
  <2>1. near \in Nat /\ wallet \in Nat /\ OrphanInv
    BY DEF IInv, TypeOK
  <2>2. CASE user = "verified"
    <3>1. Kept = {1} /\ Saving = {} /\ near = 1
      BY <2>1, <2>2 DEF OrphanInv, At, Verified, Verifying
    <3> HIDE DEF Kept, Saving
    <3>2. QED
      BY <3>1, FS_Singleton, FS_EmptySet
  <2>3. CASE user # "verified" /\ Saving = {}
    <3>1. Kept = {} /\ near = 0
      BY <2>1, <2>3 DEF OrphanInv
    <3> HIDE DEF Kept, Saving
    <3>2. QED
      BY <2>3, <3>1, FS_EmptySet
  <2>4. CASE user # "verified" /\ Saving # {}
    <3>1. PICK h \in Handlers : At(h, "save")
      BY <2>4
    <3>2. Kept = {} /\ Saving = {h} /\ near = 1
      BY <2>1, <2>4, <3>1 DEF OrphanInv, At, Verified, Verifying
    <3> HIDE DEF Kept, Saving
    <3>3. QED
      BY <3>2, FS_Singleton, FS_EmptySet
  <2>5. QED
    BY <2>2, <2>3, <2>4
<1>2. QED
  BY <1>1, Invariance, PTL

-----------------------------------------------------------------------------
(* The guard                                                               *)

\* The copy stays and no handler gets to "fill": the lockout holds.
LEMMA LockoutFrame ==
  ASSUME LockedOut, ~isActive', authUser' = authUser, NEW h \in Handlers,
         handler'[h].step # "fill",
         \A g \in Handlers \ {h} : handler'[g] = handler[g]
  PROVE  LockedOut'
  BY DEF LockedOut, At

\* A handler that gets another code or count.
LEMMA PutCode ==
  ASSUME TypeOK, NEW h \in Handlers, NEW step \in Steps, NEW c \in Nat,
         handler' = [handler EXCEPT ![h] = WithCode(handler[h], step, c)]
  PROVE  /\ handler'[h].step = step
         /\ \A g \in Handlers \ {h} : handler'[g] = handler[g]
<1> DEFINE s == WithCode(handler[h], step, c)
<1>1. handler[h] \in State
  BY DEF TypeOK, State
<1>2. s \in State /\ s.step = step
  BY <1>1, OtherCode
<1> HIDE DEF s
<1>3. QED
  BY <1>2, Put DEF s

LEMMA LockoutArrive ==
  ASSUME IInv, LockedOut, ~isActive', NEW h \in Handlers, Arrive(h)
  PROVE  LockedOut'
<1>1. TypeOK /\ AnyDevice \in Devices
  BY SetsAssumption DEF IInv, AnyDevice
<1>2. CASE \E b \in BOOLEAN : SetActive(h, b)
  BY <1>2 DEF SetActive, LockedOut, At
<1>3. CASE \E step \in Steps \ {"fill"}, d \in Devices, c \in Nat :
             Serves(h, step, d, c) /\ authUser' = authUser
  <2>1. PICK step \in Steps \ {"fill"}, d \in Devices, c \in Nat :
               Serves(h, step, d, c) /\ authUser' = authUser
    BY <1>3
  <2>2. QED
    BY <1>1, <2>1, Arrival, LockoutFrame
<1>4. {"create", "delOtp", "attempts", "user"} \subseteq Steps \ {"fill"}
  BY DEF Steps
<1>5. CASE \E d \in Devices : Register(h, d)
  BY <1>3, <1>4, <1>5 DEF Register
<1>6. CASE \E d \in Devices : Resend(h, d)
  <2>1. Len(codes) + 1 \in Nat
    BY <1>1 DEF TypeOK
  <2>2. QED
    BY <1>3, <1>4, <1>6, <2>1 DEF Resend
<1>7. CASE \E d \in Devices : \E c \in mailed \cup {0} : Verify(h, d, c)
  <2>1. mailed \cup {0} \subseteq Nat
    BY <1>1 DEF TypeOK
  <2>2. QED
    BY <1>3, <1>4, <1>7, <2>1 DEF Verify
<1>8. CASE Call(h)
  BY <1>1, <1>3, <1>4, <1>8 DEF Call
<1>9. QED
  BY <1>2, <1>5, <1>6, <1>7, <1>8 DEF Arrive

LEMMA LockoutServe ==
  ASSUME IInv, LockedOut, ~isActive', NEW h \in Handlers, Serve(h)
  PROVE  LockedOut'
<1>1. /\ TypeOK /\ handler[h] \in State /\ isActive \in BOOLEAN
      /\ Steps \ {"fill"} \subseteq Steps
      /\ near \in Nat /\ otp \in Nat /\ attempts \in Nat /\ Len(codes) + 1 \in Nat
      /\ attempts \in 0..MaxAttempts
  BY AttemptsAssumption DEF IInv, TypeOK, State
<1>2. CASE ReadUser(h)
  <2> DEFINE c == [cached |-> TRUE, active |-> isActive, verified |-> user = "verified"]
             s == [handler[h] EXCEPT !.step = "fill", !.copy = c]
  <2>1. c \in Copies /\ c.active = isActive
    BY <1>1 DEF Copies
  <2>2. isActive = FALSE
    BY <1>1 DEF LockedOut
  <2> HIDE DEF c
  <2>3. s \in State /\ s.copy = c
    BY <1>1, <2>1 DEF State, Steps
  <2>4. handler' = [handler EXCEPT ![h] = s] /\ authUser' = authUser
    BY <1>2 DEF ReadUser, c
  <2> HIDE DEF s
  <2>5. /\ handler'[h].copy = c
        /\ \A g \in Handlers \ {h} : handler'[g] = handler[g]
    BY <1>1, <2>3, <2>4, Put
  <2>6. QED
    BY <2>1, <2>2, <2>4, <2>5 DEF LockedOut, At
<1>3. CASE FillCopy(h)
  <2>1. /\ handler'[h].step = "idle" /\ authUser' = handler[h].copy
        /\ \A g \in Handlers \ {h} : handler'[g] = handler[g]
        /\ handler[h].step = "fill"
    BY <1>1, <1>3, End DEF FillCopy, At
  <2>2. QED
    BY <2>1 DEF LockedOut, At
<1>4. CASE authUser' = authUser /\ Ends(h)
  BY <1>1, <1>4, End, LockoutFrame
<1>5. CASE authUser' = authUser /\ \E step \in Steps \ {"fill"} : Moves(h, step)
  <2>1. PICK step \in Steps \ {"fill"} : Moves(h, step)
    BY <1>5
  <2>2. /\ handler'[h].step # "fill"
        /\ \A g \in Handlers \ {h} : handler'[g] = handler[g]
    BY <1>1, <2>1, Move
  <2>3. QED
    BY <1>5, <2>2, LockoutFrame
<1>6. CASE authUser' = authUser /\ \E step \in Steps \ {"fill"}, c \in Nat :
             handler' = [handler EXCEPT ![h] = WithCode(handler[h], step, c)]
  <2>1. PICK step \in Steps \ {"fill"}, c \in Nat :
               handler' = [handler EXCEPT ![h] = WithCode(handler[h], step, c)]
    BY <1>6
  <2>2. /\ handler'[h].step # "fill"
        /\ \A g \in Handlers \ {h} : handler'[g] = handler[g]
    BY <1>1, <2>1, PutCode
  <2>3. QED
    BY <1>6, <2>2, LockoutFrame
<1>7. {"store", "mail", "delAttempts", "otp", "count", "lock", "consume", "reset",
       "find", "near", "save", "findUser"} \subseteq Steps \ {"fill"}
  BY DEF Steps
<1>8. CASE ReadAttempts(h)
  <2> DEFINE s == WithCount(handler[h], "otp", attempts)
  <2>1. s \in State /\ s.step = "otp"
    <3>1. "otp" \in Steps
      BY <1>7
    <3>2. QED
      BY <1>1, <3>1, OtherCount
  <2>2. Ends(h) \/ handler' = [handler EXCEPT ![h] = s]
    BY <1>8 DEF ReadAttempts, WithCount
  <2>3. authUser' = authUser
    BY <1>8 DEF ReadAttempts
  <2> HIDE DEF s
  <2>4. QED
    BY <1>1, <1>4, <2>1, <2>2, <2>3, Put, LockoutFrame
<1>9. CASE ReadCode(h)
  <2> DEFINE next == Answer(h)
  <2>1. next = "idle" \/ next \in {"count", "consume"}
    BY DEF Answer
  <2>2. CASE next = "idle"
    BY <1>4, <1>9, <2>2 DEF ReadCode, Ends
  <2>3. CASE next \in {"count", "consume"}
    <3>1. handler' = [handler EXCEPT ![h] = WithCode(handler[h], next, otp)]
      BY <1>9, <2>3 DEF ReadCode, WithCode
    <3>2. next \in Steps \ {"fill"} /\ authUser' = authUser
      BY <1>7, <1>9, <2>3 DEF ReadCode
    <3> HIDE DEF next
    <3>3. QED
      BY <1>1, <1>6, <3>1, <3>2
  <2>4. QED
    BY <2>1, <2>2, <2>3
<1>10. CASE Create(h)
  <2>1. CASE Ends(h)
    BY <1>4, <1>10, <2>1 DEF Create
  <2>2. CASE ~Ends(h)
    <3>1. handler' = [handler EXCEPT ![h] = WithCode(handler[h], "store", Len(codes) + 1)]
      BY <1>10, <2>2 DEF Create, WithCode
    <3>2. authUser' = authUser /\ "store" \in Steps \ {"fill"}
      BY <1>7, <1>10 DEF Create
    <3>3. QED
      BY <1>1, <1>6, <3>1, <3>2
  <2>3. QED
    BY <2>1, <2>2
<1>11. CASE CreateNear(h)
  <2>1. handler' = [handler EXCEPT ![h] = WithCode(handler[h], "save", near + 1)]
    BY <1>11 DEF CreateNear, WithCode
  <2>2. authUser' = authUser /\ near + 1 \in Nat /\ "save" \in Steps \ {"fill"}
    BY <1>1, <1>7, <1>11 DEF CreateNear
  <2>3. QED
    BY <1>6, <2>1, <2>2
<1>12. CASE \/ Mail(h) \/ DropExpired(h) \/ Lock(h) \/ SaveUser(h) \/ StepFails(h)
  BY <1>4, <1>12 DEF Mail, DropExpired, Lock, SaveUser, StepFails
<1>13. CASE \/ DeleteCode(h) \/ DeleteAttempts(h) \/ StoreCode(h) \/ ConsumeCode(h)
            \/ ResetAttempts(h) \/ FindUser(h)
  BY <1>5, <1>7, <1>13
     DEF DeleteCode, DeleteAttempts, StoreCode, ConsumeCode, ResetAttempts, FindUser
<1>14. CASE ReadCopy(h) \/ CountWrong(h)
  BY <1>4, <1>5, <1>7, <1>14 DEF ReadCopy, CountWrong
<1>15. CASE ReadExpired(h)
  <2>1. handler' = [handler EXCEPT ![h] = WithCode(handler[h], "drop", otp)]
    BY <1>15 DEF ReadExpired, WithCode
  <2>2. authUser' = authUser /\ otp \in Nat /\ "drop" \in Steps \ {"fill"}
    BY <1>1, <1>15 DEF ReadExpired, Steps, TypeOK
  <2>3. QED
    BY <1>6, <2>1, <2>2
<1>16. QED
  BY <1>2, <1>3, <1>8, <1>9, <1>10, <1>11, <1>12, <1>13, <1>14, <1>15 DEF Serve

\* AuthGuard goes on refusing a deactivated user from the moment its copy of an
\* active one is gone: no request that read the user before fills it in again.
THEOREM LockoutIsKept == Spec => LockoutHolds
<1>1. IInv /\ [Next]_vars => [LockedOut /\ ~isActive' => LockedOut']_vars
  <2> SUFFICES ASSUME IInv, [Next]_vars, LockedOut, ~isActive', vars' # vars
               PROVE  LockedOut'
    OBVIOUS
  <2>1. CASE \E h \in Handlers : Arrive(h) \/ Serve(h)
    BY <2>1, LockoutArrive, LockoutServe
  <2>2. CASE CodeExpires \/ AttemptsExpire \/ CopyExpires
    BY <2>2 DEF CodeExpires, AttemptsExpire, CopyExpires, LockedOut, At, NoCopy
  <2>3. QED
    BY <2>1, <2>2 DEF Next
<1>2. QED
  BY <1>1, Invariance, PTL DEF Spec, LockoutHolds
==============================================================================
