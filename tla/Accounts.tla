------------------------------ MODULE Accounts ------------------------------
(***************************************************************************)
(* The account of one person: registration, the verification codes that    *)
(* MailService keeps in the cache, the NEAR account that a verified e-mail *)
(* address gets, deactivation, and the copy of the user from which         *)
(* AuthGuard and VerifiedUserGuard admit requests for five minutes.        *)
(*                                                                         *)
(* Each call to the cache, MongoDB, the mail provider or the chain is a    *)
(* step; requests interleave between them.  "races" records what overtook  *)
(* what, and every property says which of these it does not survive.       *)
(***************************************************************************)
EXTENDS Integers, FiniteSets, Sequences

CONSTANTS
  Devices,      \* devices that register, ask for codes and enter them
  Handlers,     \* requests served at the same time
  MaxAttempts,  \* MAX_OTP_ATTEMPTS
  MaxRequests,  \* bound: requests in a behaviour
  MaxFailures   \* bound: failing calls in a behaviour

ASSUME SetsAssumption ==
  IsFiniteSet(Devices) /\ Devices # {} /\ IsFiniteSet(Handlers)
ASSUME AttemptsAssumption == MaxAttempts \in Nat \ {0}
ASSUME BoundAssumption == MaxRequests \in Nat /\ MaxFailures \in Nat

VARIABLES
  user,      \* the user in MongoDB: "none", "pending" or "verified"
  isActive,  \* the user is not deactivated
  wallet,    \* the user's NEAR account, 0 if none
  near,      \* NEAR accounts created for the user
  codes,     \* the codes generated so far: the device each is for
  mailed,    \* codes that reached the mailbox
  otp,       \* otp:<email> in the cache, 0 if none
  attempts,  \* otp_attempts:<email> in the cache, 0 if none
  authUser,  \* auth_user:<user> in Redis
  handler,   \* what each handler serves and where it is; "code" is the code
             \* it was given, compared or generated, later the NEAR account
  wrong,     \* history: wrong codes compared since attempts was last cleared
  spent,     \* history: codes that were used, used up or expired
  races,     \* history: what overtook what
  failures, requests  \* budgets spent

userVars == <<user, isActive, wallet, near>>
codeVars == <<codes, mailed, otp, attempts, wrong, spent>>
budgets == <<failures, requests>>
vars == <<user, isActive, wallet, near, codes, mailed, otp, attempts, authUser,
          handler, wrong, spent, races, failures, requests>>

Steps == {"idle", "create", "store", "mail", "delOtp", "delAttempts", "attempts",
          "otp", "drop", "count", "lock", "consume", "reset", "find", "near",
          "save", "user", "findUser", "fill"}
Races == {"count", "code", "verify", "resend"}
Verifying == {"consume", "reset", "find", "near", "save"}
NoCopy == [cached |-> FALSE, active |-> FALSE, verified |-> FALSE]
Copies == [cached: BOOLEAN, active: BOOLEAN, verified: BOOLEAN]

TypeOK ==
  /\ user \in {"none", "pending", "verified"} /\ isActive \in BOOLEAN
  /\ near \in Nat /\ wallet \in Nat
  /\ codes \in Seq(Devices) /\ otp \in Nat
  /\ mailed \subseteq 1..Len(codes) /\ spent \subseteq Nat
  /\ attempts \in 0..MaxAttempts /\ wrong \in Nat
  /\ authUser \in Copies
  /\ handler \in [Handlers -> [step: Steps, device: Devices, code: Nat,
                               count: 0..MaxAttempts, copy: Copies]]
  /\ races \subseteq Races
  /\ failures \in 0..MaxFailures /\ requests \in 0..MaxRequests

AnyDevice == CHOOSE d \in Devices : TRUE
Idle == [step |-> "idle", device |-> AnyDevice, code |-> 0, count |-> 0, copy |-> NoCopy]

Init ==
  /\ user = "none" /\ isActive = TRUE /\ wallet = 0 /\ near = 0
  /\ codes = <<>> /\ mailed = {} /\ otp = 0 /\ attempts = 0 /\ wrong = 0
  /\ spent = {} /\ authUser = NoCopy
  /\ handler = [h \in Handlers |-> Idle]
  /\ races = {}
  /\ failures = 0 /\ requests = 0

At(h, step) == handler[h].step = step
Moves(h, step) == handler' = [handler EXCEPT ![h].step = step]
Ends(h) == handler' = [handler EXCEPT ![h] = Idle]
Records(race, happened) ==
  races' = IF happened THEN races \cup {race} ELSE races
Others(h, steps) == \E g \in Handlers \ {h} : handler[g].step \in steps

-----------------------------------------------------------------------------
(* Requests arrive                                                         *)

Receive(h) ==
  /\ At(h, "idle") /\ requests < MaxRequests
  /\ requests' = requests + 1
  /\ UNCHANGED failures

Serves(h, step, d, code) ==
  handler' = [handler EXCEPT ![h] = [Idle EXCEPT !.step = step, !.device = d,
                                       !.code = code]]

\* register: the e-mail address and the username are free.
Register(h, d) ==
  /\ Receive(h) /\ user = "none"
  /\ Serves(h, "create", d, 0)
  /\ UNCHANGED <<userVars, codeVars, authUser, races>>

\* resendVerificationOtp: somebody whose address is not verified.
Resend(h, d) ==
  /\ Receive(h) /\ user = "pending"
  /\ codes' = Append(codes, d)
  /\ Serves(h, "delOtp", d, Len(codes) + 1)
  /\ Records("code", Others(h, {"store", "delOtp", "delAttempts"}))
  /\ UNCHANGED <<userVars, mailed, otp, attempts, wrong, spent, authUser>>

\* verifyEmail, with a code that was mailed or with a wrong one.
Verify(h, d, code) ==
  /\ Receive(h) /\ code \in mailed \cup {0} /\ user # "none"
  /\ Serves(h, "attempts", d, code)
  /\ UNCHANGED <<userVars, codeVars, authUser, races>>

\* A request with a session: AuthGuard.getUserData.
Call(h) ==
  /\ Receive(h) /\ user # "none"
  /\ Serves(h, "user", AnyDevice, 0)
  /\ UNCHANGED <<userVars, codeVars, authUser, races>>

\* deactivate and activate clear the cache of UserService, not the guard's.
SetActive(h, b) ==
  /\ Receive(h) /\ user # "none" /\ isActive # b
  /\ isActive' = b
  /\ UNCHANGED <<user, wallet, near, codeVars, authUser, handler, races>>

-----------------------------------------------------------------------------
(* register and resendOtp                                                  *)

\* The indexes on e-mail address and username refuse the second of two.
Create(h) ==
  /\ At(h, "create")
  /\ IF user = "none"
     THEN /\ user' = "pending" /\ codes' = Append(codes, handler[h].device)
          /\ handler' = [handler EXCEPT ![h].step = "store", ![h].code = Len(codes) + 1]
     ELSE Ends(h) /\ UNCHANGED <<user, codes>>
  /\ UNCHANGED <<isActive, wallet, near, mailed, otp, attempts, wrong, spent, authUser,
                 races, budgets>>

DeleteCode(h) ==
  /\ At(h, "delOtp")
  /\ otp' = 0
  /\ Moves(h, "delAttempts")
  /\ UNCHANGED <<userVars, codes, mailed, attempts, wrong, spent, authUser, races, budgets>>

\* The lockout ends with it.
DeleteAttempts(h) ==
  /\ At(h, "delAttempts")
  /\ attempts' = 0 /\ wrong' = 0
  /\ Moves(h, "store")
  /\ Records("count", Others(h, {"otp", "count"}))
  /\ UNCHANGED <<userVars, codes, mailed, otp, spent, authUser, budgets>>

\* storeOtp
StoreCode(h) ==
  /\ At(h, "store")
  /\ otp' = handler[h].code
  /\ Moves(h, "mail")
  /\ Records("resend", user = "verified" \/ Others(h, Verifying))
  /\ UNCHANGED <<userVars, codes, mailed, attempts, wrong, spent, authUser, budgets>>

Mail(h) ==
  /\ At(h, "mail")
  /\ mailed' = mailed \cup {handler[h].code}
  /\ Ends(h)
  /\ UNCHANGED <<userVars, codes, otp, attempts, wrong, spent, authUser, races, budgets>>

-----------------------------------------------------------------------------
(* verifyOtp                                                               *)

\* Slip: one attempt too many.
ReadAttemptsLate(h) ==
  /\ At(h, "attempts")
  /\ IF attempts > MaxAttempts THEN Ends(h)
     ELSE handler' = [handler EXCEPT ![h].step = "otp", ![h].count = attempts]
  /\ UNCHANGED <<userVars, codeVars, authUser, races, budgets>>

ReadAttempts(h) ==
  /\ At(h, "attempts")
  /\ IF attempts >= MaxAttempts THEN Ends(h)
     ELSE handler' = [handler EXCEPT ![h].step = "otp", ![h].count = attempts]
  /\ UNCHANGED <<userVars, codeVars, authUser, races, budgets>>

\* The code that was read is past its time, which the cache has not noticed yet.
ReadExpired(h) ==
  /\ At(h, "otp") /\ otp # 0
  /\ handler' = [handler EXCEPT ![h].step = "drop", ![h].code = otp]
  /\ spent' = spent \cup {otp}
  /\ UNCHANGED <<userVars, codes, mailed, otp, attempts, wrong, authUser, races, budgets>>

\* The code that goes may be a newer one.
DropExpired(h) ==
  /\ At(h, "drop")
  /\ otp' = 0
  /\ Ends(h)
  /\ Records("code", otp \notin {0, handler[h].code})
  /\ UNCHANGED <<userVars, codes, mailed, attempts, wrong, spent, authUser, budgets>>

\* The next step for the code that was read, in its time.
Answer(h) ==
  IF otp = 0 \/ codes[otp] # handler[h].device THEN "idle"
  ELSE IF handler[h].code # otp THEN "count" ELSE "consume"

ReadCode(h) ==
  LET next == Answer(h) IN
  /\ At(h, "otp") /\ otp \notin spent
  /\ handler' = [handler EXCEPT ![h] = IF next = "idle" THEN Idle
                                       ELSE [@ EXCEPT !.step = next, !.code = otp]]
  /\ wrong' = IF next = "count" THEN wrong + 1 ELSE wrong
  /\ Records("count", next = "count" /\ (attempts # handler[h].count \/ Others(h, {"otp", "count"})))
  /\ UNCHANGED <<userVars, codes, mailed, otp, attempts, spent, authUser, budgets>>

\* Slip: a wrong code is always the first.
CountFirst(h) ==
  /\ At(h, "count")
  /\ attempts' = 1
  /\ IF MaxAttempts = 1 THEN Moves(h, "lock") ELSE Ends(h)
  /\ UNCHANGED <<userVars, codes, mailed, otp, wrong, spent, authUser, races, budgets>>

\* Slip: every wrong code ends the right one.
CountAndDrop(h) ==
  /\ At(h, "count")
  /\ attempts' = handler[h].count + 1 /\ otp' = 0
  /\ Ends(h)
  /\ UNCHANGED <<userVars, codes, mailed, wrong, spent, authUser, races, budgets>>

\* The count is the one that was read, plus one.
CountWrong(h) ==
  /\ At(h, "count")
  /\ attempts' = handler[h].count + 1
  /\ IF handler[h].count + 1 >= MaxAttempts THEN Moves(h, "lock") ELSE Ends(h)
  /\ UNCHANGED <<userVars, codes, mailed, otp, wrong, spent, authUser, races, budgets>>

\* The code that goes may be a newer one.
Lock(h) ==
  /\ At(h, "lock")
  /\ otp' = 0 /\ spent' = spent \cup {handler[h].code}
  /\ Ends(h)
  /\ Records("code", otp \notin {0, handler[h].code})
  /\ UNCHANGED <<userVars, codes, mailed, attempts, wrong, authUser, budgets>>

\* A right code is deleted after it was compared: two requests can both have it.
\* The code that goes may be a newer one.
ConsumeCode(h) ==
  /\ At(h, "consume")
  /\ otp' = 0 /\ spent' = spent \cup {handler[h].code}
  /\ Moves(h, "reset")
  /\ races' = races \cup {r \in {"verify", "code"} :
                           IF r = "verify" THEN Others(h, Verifying)
                           ELSE otp \notin {0, handler[h].code}}
  /\ UNCHANGED <<userVars, codes, mailed, attempts, wrong, authUser, budgets>>

ResetAttempts(h) ==
  /\ At(h, "reset")
  /\ attempts' = 0 /\ wrong' = 0
  /\ Moves(h, "find")
  /\ UNCHANGED <<userVars, codes, mailed, otp, spent, authUser, races, budgets>>
-----------------------------------------------------------------------------
(* verifyEmail, once the code is accepted                                  *)

\* The user is found whatever became of the address since.
FindUser(h) ==
  /\ At(h, "find")
  /\ Moves(h, "near")
  /\ UNCHANGED <<userVars, codeVars, authUser, races, budgets>>

\* createSubAccount takes the username or, when there is such an account, one
\* with a suffix.
CreateNear(h) ==
  /\ At(h, "near")
  /\ near' = near + 1
  /\ handler' = [handler EXCEPT ![h].step = "save", ![h].code = near + 1]
  /\ UNCHANGED <<user, isActive, wallet, codeVars, authUser, races, budgets>>

\* Slip: only the address is marked as verified.
SaveFlag(h) ==
  /\ At(h, "save")
  /\ user' = "verified"
  /\ Ends(h)
  /\ UNCHANGED <<isActive, wallet, near, codeVars, authUser, races, budgets>>

SaveUser(h) ==
  /\ At(h, "save")
  /\ user' = "verified" /\ wallet' = handler[h].code
  /\ Ends(h)
  /\ UNCHANGED <<isActive, near, codeVars, authUser, races, budgets>>

-----------------------------------------------------------------------------
(* AuthGuard.getUserData                                                   *)

ReadCopy(h) ==
  /\ At(h, "user")
  /\ IF authUser.cached THEN Ends(h) ELSE Moves(h, "findUser")
  /\ UNCHANGED <<userVars, codeVars, authUser, races, budgets>>

\* Slip: the flag is not read.
ReadUserAsActive(h) ==
  /\ At(h, "findUser")
  /\ handler' = [handler EXCEPT ![h].step = "fill",
       ![h].copy = [cached |-> TRUE, active |-> TRUE, verified |-> user = "verified"]]
  /\ UNCHANGED <<userVars, codeVars, authUser, races, budgets>>

ReadUser(h) ==
  /\ At(h, "findUser")
  /\ handler' = [handler EXCEPT ![h].step = "fill",
       ![h].copy = [cached |-> TRUE, active |-> isActive, verified |-> user = "verified"]]
  /\ UNCHANGED <<userVars, codeVars, authUser, races, budgets>>

FillCopy(h) ==
  /\ At(h, "fill")
  /\ authUser' = handler[h].copy
  /\ Ends(h)
  /\ UNCHANGED <<userVars, codeVars, races, budgets>>

-----------------------------------------------------------------------------
(* Time and failures                                                       *)

\* Ten minutes after it was stored.
CodeExpires ==
  /\ otp # 0
  /\ otp' = 0 /\ spent' = spent \cup {otp}
  /\ UNCHANGED <<userVars, codes, mailed, attempts, wrong, authUser, handler,
                 races, budgets>>

\* Thirty minutes after the last wrong code: by then the code it was compared
\* with has expired.
AttemptsExpire ==
  /\ attempts # 0 /\ otp = 0
  /\ \A h \in Handlers : ~At(h, "otp") /\ ~At(h, "count")
  /\ attempts' = 0 /\ wrong' = 0
  /\ UNCHANGED <<userVars, codes, mailed, otp, spent, authUser, handler, races, budgets>>

\* Five minutes after it was read.
CopyExpires ==
  /\ authUser.cached
  /\ authUser' = NoCopy
  /\ UNCHANGED <<userVars, codeVars, handler, races, budgets>>

\* A call fails; the request answers with an error.  The NEAR account may have
\* been created nevertheless.
StepFails(h) ==
  /\ failures < MaxFailures /\ ~At(h, "idle")
  /\ failures' = failures + 1
  /\ \/ UNCHANGED near
     \/ At(h, "near") /\ near' = near + 1
  /\ Ends(h)
  /\ UNCHANGED <<user, isActive, wallet, codeVars, authUser, races, requests>>

Arrive(h) == \/ \E d \in Devices : \/ Register(h, d) \/ Resend(h, d)
                                   \/ \E c \in mailed \cup {0} : Verify(h, d, c)
             \/ Call(h)
             \/ \E b \in BOOLEAN : SetActive(h, b)

Serve(h) == \/ Create(h) \/ DeleteCode(h) \/ DeleteAttempts(h) \/ StoreCode(h)
            \/ Mail(h) \/ ReadAttempts(h) \/ ReadExpired(h) \/ DropExpired(h)
            \/ ReadCode(h) \/ CountWrong(h)
            \/ Lock(h) \/ ConsumeCode(h) \/ ResetAttempts(h) \/ FindUser(h)
            \/ CreateNear(h) \/ SaveUser(h) \/ ReadCopy(h) \/ ReadUser(h)
            \/ FillCopy(h) \/ StepFails(h)

Next == \/ \E h \in Handlers : Arrive(h) \/ Serve(h)
        \/ CodeExpires \/ AttemptsExpire \/ CopyExpires

Spec == Init /\ [][Next]_vars

-----------------------------------------------------------------------------

\* No more wrong codes are compared between two resets of the count than are
\* allowed; the count in the cache says how many.  Lost counts (a failing call,
\* two requests that read the same count) are the exceptions.
AttemptsCounted ==
  (failures = 0 /\ "count" \notin races) =>
    /\ wrong <= MaxAttempts
    /\ (\A h \in Handlers : ~At(h, "count")) => wrong <= attempts

\* The last code works when its mail has arrived, until it is used, used up or
\* expires, whatever fails.  Two requests at once are the exceptions: resends that
\* store their codes in the other order, and a verification that deletes the code
\* of a resend in place of the one it compared or found expired.
LastMailWorks ==
  ("code" \notin races /\ Len(codes) \in mailed \ spent) => otp = Len(codes)

\* Every NEAR account made for the user is his, or about to be: none is replaced by
\* a second one, and no deposit is lost on an account whose key nobody keeps.  A
\* failing call loses one, and so do two verifications at once and a resend that
\* the verification overtakes.
NoOrphans ==
  (failures = 0 /\ races \cap {"verify", "resend"} = {}) =>
    near = Cardinality({wallet} \ {0}) + Cardinality({h \in Handlers : At(h, "save")})

\* The guard refuses a deactivated user once its copy of an active one is gone,
\* and goes on refusing: no request that read the user before caches it later.
LockedOut == /\ ~isActive /\ ~(authUser.cached /\ authUser.active)
             /\ \A h \in Handlers : At(h, "fill") => ~handler[h].copy.active
LockoutHolds == [][LockedOut /\ ~isActive' => LockedOut']_vars

-----------------------------------------------------------------------------
(* Why the invariants hold: the inductive invariant                        *)

\* A code that is on its way into the cache, and a verification whose code is
\* consumed.
Storing(h) == handler[h].step \in {"store", "delOtp", "delAttempts"}
Verified(h) == handler[h].step \in Verifying \ {"consume"}

\* A request that goes on with a count has attempts left.
CountInv ==
  /\ \A h \in Handlers : handler[h].step \in {"otp", "count"} =>
       handler[h].count < MaxAttempts
  /\ (failures = 0 /\ "count" \notin races) =>
       /\ \A g, h \in Handlers : At(g, "count") /\ At(h, "count") => g = h
       /\ \A h \in Handlers : At(h, "count") => wrong <= handler[h].count + 1
       /\ (\A h \in Handlers : ~At(h, "count")) => wrong <= attempts

\* One code at a time is on its way, the last one, and its mail is not there yet;
\* a mail is sent after its code is stored.
CodeInv ==
  /\ user = "none" => codes = <<>>
  /\ \A h \in Handlers :
       /\ Storing(h) \/ At(h, "mail") => handler[h].code \in 1..Len(codes)
       /\ At(h, "drop") => handler[h].code \in spent
  /\ "code" \notin races =>
       /\ \A h \in Handlers : Storing(h) =>
            /\ handler[h].code = Len(codes) /\ Len(codes) \notin mailed
            /\ \A g \in Handlers \ {h} :
                 ~Storing(g) /\ (At(g, "mail") => handler[g].code # Len(codes))
       /\ \/ Len(codes) \in mailed
          \/ \E h \in Handlers : At(h, "mail") /\ handler[h].code = Len(codes)
          => otp = Len(codes) \/ Len(codes) \in spent

\* One verification at a time has consumed a code, and leaves none to another.
OrphanInv ==
  (failures = 0 /\ races \cap {"verify", "resend"} = {}) =>
    /\ \A h \in Handlers : Verified(h) =>
         /\ user # "verified" /\ otp = 0
         /\ \A g \in Handlers \ {h} : ~Verified(g) /\ ~At(g, "consume")
    /\ user = "verified" => /\ otp = 0 /\ \A h \in Handlers : ~At(h, "consume")
                            /\ near = 1 /\ wallet = 1
    /\ user # "verified" => wallet = 0
    /\ user # "verified" /\ (\A h \in Handlers : ~At(h, "save")) => near = 0
    /\ \A h \in Handlers : At(h, "save") => near = 1 /\ handler[h].code = 1

IInv == TypeOK /\ CountInv /\ CodeInv /\ OrphanInv
=============================================================================
