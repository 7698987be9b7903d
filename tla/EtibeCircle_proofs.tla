------------------------ MODULE EtibeCircle_proofs ------------------------
(***************************************************************************)
(* What the EtibeCircle contract promises of payouts and counters, for any *)
(* accounts, any size of circle, any unrecorded money and any number of    *)
(* runs.  It rests on IInv, an inductive invariant.                        *)
(***************************************************************************)
EXTENDS EtibeCircle, TLAPS, FiniteSetTheorems

\* The members are finitely many.
LEMMA MembersFinite ==
  ASSUME TypeOK
  PROVE  /\ IsFiniteSet(memberList) /\ Size \in Nat /\ MaxMembers \in Nat
<1>1. IsFiniteSet(memberList)
  BY AddressAssumption, FS_Subset DEF TypeOK
<1>2. QED
  BY <1>1, FS_CardinalityType, MembersAssumption DEF Size

\* While the circle runs, the round is one of those with contributions, its
\* recipient is a member, and the order has one place for each member.
LEMMA RunningRound ==
  ASSUME TypeOK, RunInv, isActive
  PROVE  /\ currentRound \in Rounds /\ currentRound \in 1..Size
         /\ payoutOrder \in [1..Size -> memberList]
         /\ Recipient \in memberList
<1>1. PICK n \in 0..MaxMembers : payoutOrder \in [1..n -> memberList]
  BY DEF TypeOK, Orders
<1>2. DOMAIN payoutOrder = 1..n /\ DOMAIN payoutOrder = 1..Size
  BY <1>1 DEF RunInv
<1>3. payoutOrder \in [1..Size -> memberList]
  BY <1>1, <1>2
<1>4. currentRound \in 1..Size /\ currentRound \in Rounds
  BY MembersFinite DEF RunInv, TypeOK, Rounds
<1>5. QED
  BY <1>3, <1>4 DEF Recipient

\* So are the contributors of a round.
LEMMA ContributorsFinite ==
  ASSUME TypeOK, NEW r \in Rounds
  PROVE  /\ IsFiniteSet(contributions[r])
         /\ Cardinality(contributions[r]) \in Nat
<1>1. contributions[r] \subseteq memberList
  BY DEF TypeOK
<1>2. QED
  BY <1>1, MembersFinite, FS_Subset, FS_CardinalityType

\* The rounds of one account are finitely many.
LEMMA RoundsFinite ==
  ASSUME NEW S \in SUBSET Rounds
  PROVE  IsFiniteSet(S) /\ Cardinality(S) \in Nat
<1>1. IsFiniteSet(Rounds)
  BY FS_Interval, MembersAssumption DEF Rounds
<1>2. QED
  BY <1>1, FS_Subset, FS_CardinalityType

\* A contract as deployed satisfies the invariant.
LEMMA InitInv == Init => IInv
<1> SUFFICES ASSUME Init PROVE IInv
  OBVIOUS
<1>1. Cardinality({}) = 0
  BY FS_EmptySet
<1>2. payoutOrder \in Orders(0)
  BY DEF Init, Orders
<1>3. TypeOK
  <2>1. 0 \in 0..MaxMembers /\ 0 \in 0..MaxDeposits /\ 0 \in 0..MaxStarts
    BY MembersAssumption, BoundAssumption
  <2>2. \E n \in 0..MaxMembers : payoutOrder \in Orders(n)
    BY <1>2, <2>1
  <2>3. Size = 0 /\ Size <= MaxMembers
    BY <1>1, MembersAssumption DEF Init, Size
  <2>4. QED
    BY <2>1, <2>2, <2>3 DEF Init, TypeOK
<1>4. \A a \in Address : {r \in Rounds : a \in contributions[r]} = {}
  BY DEF Init
<1>5. CountsAgree
  BY <1>1, <1>4 DEF Init, CountsAgree
<1>6. FirstRunInv
  BY DEF Init, FirstRunInv
<1>7. QED
  BY <1>3, <1>5, <1>6 DEF Init, IInv, RunInv, PaidAtMostOnce, PaidInOrder

\* Money that comes or goes unrecorded moves nothing else.
LEMMA MoneyStep ==
  ASSUME IInv, balance' \in Nat, swept' \in BOOLEAN,
         deposits' \in 0..MaxDeposits,
         swept' \/ (~swept /\ balance' >= balance),
         UNCHANGED <<roundVars, memberVars, contributionVars, payoutOrder,
                     paidTo, starts>>
  PROVE  IInv'
<1> USE DEF roundVars, memberVars, contributionVars
<1>1. TypeOK'
  BY DEF IInv, TypeOK, Size, Orders
<1>2. RunInv' /\ PaidAtMostOnce' /\ PaidInOrder' /\ CountsAgree'
  BY DEF IInv, RunInv, Size, PaidAtMostOnce, PaidInOrder, CountsAgree
<1>3. FirstRunInv'
  <2> SUFFICES ASSUME isActive, starts = 1, ~swept'
               PROVE  balance' >= Cardinality(contributions[currentRound])
    BY DEF IInv, FirstRunInv
  <2>1. /\ balance >= Cardinality(contributions[currentRound])
        /\ balance' >= balance /\ balance \in Nat
    BY DEF IInv, FirstRunInv, TypeOK
  <2>2. Cardinality(contributions[currentRound]) \in Nat
    BY RunningRound, ContributorsFinite DEF IInv
  <2>3. QED
    BY <2>1, <2>2
<1>4. QED
  BY <1>1, <1>2, <1>3 DEF IInv

\* A new member has contributed to no round.
LEMMA AddMemberStep ==
  ASSUME IInv, NEW a \in Address, AddMember(a)
  PROVE  IInv'
<1> USE DEF roundVars
<1>1. IsFiniteSet(memberList) /\ Size \in Nat /\ MaxMembers \in Nat
  BY MembersFinite DEF IInv
<1>2. Size' = Size + 1
  BY <1>1, FS_AddElement DEF AddMember, Size
<1>3. \E n \in 0..MaxMembers : payoutOrder' \in Orders(n)'
  <2>1. PICK n \in 0..MaxMembers : payoutOrder \in [1..n -> memberList]
    BY DEF IInv, TypeOK, Orders
  <2>2. payoutOrder \in [1..n -> memberList \cup {a}]
    BY <2>1
  <2>3. QED
    BY <2>2 DEF AddMember, Orders
<1>4. contributions' \in [Rounds -> SUBSET memberList']
  BY DEF AddMember, IInv, TypeOK
<1>5. TypeOK'
  BY <1>1, <1>2, <1>3, <1>4 DEF AddMember, IInv, TypeOK
<1>6. RunInv' /\ PaidAtMostOnce' /\ PaidInOrder'
  BY DEF AddMember, IInv, RunInv, PaidAtMostOnce, PaidInOrder
<1>7. {r \in Rounds : a \in contributions[r]} = {}
  BY DEF AddMember, IInv, TypeOK
<1>8. Cardinality({r \in Rounds : a \in contributions[r]}) = 0
  BY <1>7, FS_EmptySet
<1>9. contributedRounds' = [contributedRounds EXCEPT ![a] = 0]
      /\ contributedRounds \in [Address -> Nat]
      /\ UNCHANGED <<contributions, contributionCount>>
  BY DEF AddMember, IInv, TypeOK
<1>10. CountsAgree'
  <2>1. \A r \in Rounds : contributionCount'[r] = Cardinality(contributions'[r])
    BY <1>9 DEF IInv, CountsAgree
  <2>2. ASSUME NEW b \in Address
        PROVE  contributedRounds'[b]
                 = Cardinality({r \in Rounds : b \in contributions[r]})
    BY <1>8, <1>9 DEF IInv, CountsAgree
  <2>3. QED
    BY <1>9, <2>1, <2>2 DEF CountsAgree
<1>11. FirstRunInv'
  BY DEF AddMember, IInv, FirstRunInv
<1>12. QED
  BY <1>5, <1>6, <1>10, <1>11 DEF IInv

\* A member joins a round's contributions: both counters count it.
LEMMA ContributeStep ==
  ASSUME IInv, NEW a \in Address, Contribute(a)
  PROVE  IInv'
<1> DEFINE R == currentRound
<1>1. R \in Rounds /\ a \in memberList /\ a \notin contributions[R]
  BY RunningRound DEF Contribute, MayContribute, IInv
<1>2. /\ contributions \in [Rounds -> SUBSET memberList]
      /\ contributionCount \in [Rounds -> Nat]
      /\ contributedRounds \in [Address -> Nat]
  BY DEF IInv, TypeOK
<1>3. /\ contributions' = [contributions EXCEPT ![R] = @ \cup {a}]
      /\ contributionCount' = [contributionCount EXCEPT ![R] = @ + 1]
      /\ contributedRounds' = [contributedRounds EXCEPT ![a] = @ + 1]
  BY DEF Contribute
<1>4. balance' \in Nat
  BY DEF Contribute, ExactAmount, IInv, TypeOK
<1>5. UNCHANGED <<isActive, currentRound, totalRounds, memberList,
                  hasReceivedPayout, payoutOrder, paidTo, swept, deposits,
                  starts>>
  BY DEF Contribute, roundVars, memberVars
<1> HIDE DEF R
<1>6. TypeOK'
  <2>1. /\ contributions' \in [Rounds -> SUBSET memberList]
        /\ contributionCount' \in [Rounds -> Nat]
        /\ contributedRounds' \in [Address -> Nat]
    BY <1>1, <1>2, <1>3
  <2>2. QED
    BY <1>4, <1>5, <2>1 DEF IInv, TypeOK, Size, Orders
<1>7. RunInv' /\ PaidAtMostOnce' /\ PaidInOrder'
  BY <1>5 DEF IInv, RunInv, Size, PaidAtMostOnce, PaidInOrder
<1>8. \A r \in Rounds : contributionCount'[r] = Cardinality(contributions'[r])
  <2>1. IsFiniteSet(contributions[R])
    BY <1>1, ContributorsFinite DEF IInv
  <2>2. Cardinality(contributions[R] \cup {a})
          = Cardinality(contributions[R]) + 1
    BY <1>1, <2>1, FS_AddElement
  <2>3. QED
    BY <1>1, <1>2, <1>3, <2>2 DEF IInv, CountsAgree
<1>9. ASSUME NEW b \in Address
      PROVE  contributedRounds'[b]
               = Cardinality({r \in Rounds : b \in contributions'[r]})
  <2>1. contributedRounds[b]
          = Cardinality({r \in Rounds : b \in contributions[r]})
    BY DEF IInv, CountsAgree
  <2>2. CASE b = a
    <3> DEFINE S == {r \in Rounds : a \in contributions[r]}
    <3>1. S \in SUBSET Rounds /\ R \notin S
      BY <1>1
    <3>2. {r \in Rounds : a \in contributions'[r]} = S \cup {R}
      BY <1>1, <1>2, <1>3
    <3>3. contributedRounds'[a] = Cardinality(S) + 1
      BY <1>2, <1>3, <2>1, <2>2
    <3> HIDE DEF S
    <3>4. Cardinality(S \cup {R}) = Cardinality(S) + 1
      BY <3>1, RoundsFinite, FS_AddElement
    <3>5. QED
      BY <2>2, <3>2, <3>3, <3>4
  <2>3. CASE b # a
    <3>1. {r \in Rounds : b \in contributions'[r]}
            = {r \in Rounds : b \in contributions[r]}
      BY <1>1, <1>2, <1>3, <2>3
    <3>2. contributedRounds'[b] = contributedRounds[b]
      BY <1>2, <1>3, <2>3
    <3>3. QED
      BY <2>1, <3>1, <3>2
  <2>4. QED
    BY <2>2, <2>3
<1>10. FirstRunInv'
  <2>1. isActive /\ starts # 0 /\ R = currentRound /\ balance' = balance + 1
    BY DEF Contribute, MayContribute, ExactAmount, IInv, TypeOK, FirstRunInv, R
  <2>2. \A r \in Rounds : r > R => contributions'[r] = contributions[r]
    BY <1>1, <1>2, <1>3 DEF Rounds
  <2>3. Cardinality(contributions'[R]) = Cardinality(contributions[R]) + 1
    BY <1>1, <1>2, <1>3, ContributorsFinite, FS_AddElement DEF IInv
  <2>4. Cardinality(contributions[R]) \in Nat /\ balance \in Nat
    BY <1>1, ContributorsFinite DEF IInv, TypeOK
  <2>5. QED
    BY <1>5, <2>1, <2>2, <2>3, <2>4 DEF IInv, FirstRunInv
<1>11. QED
  BY <1>6, <1>7, <1>8, <1>9, <1>10 DEF IInv, CountsAgree

\* The order of a circle that is not running is replaced.
LEMMA SetPayoutOrderStep ==
  ASSUME IInv, NEW order \in Orders(Size), SetPayoutOrder(order)
  PROVE  IInv'
<1> USE DEF roundVars, memberVars, contributionVars
<1>1. Size \in 0..MaxMembers
  BY MembersFinite DEF IInv, TypeOK
<1>2. \E n \in 0..MaxMembers : payoutOrder' \in Orders(n)
  BY <1>1 DEF SetPayoutOrder
<1>3. TypeOK'
  BY <1>2 DEF SetPayoutOrder, IInv, TypeOK, Size, Orders
<1>4. /\ RunInv' /\ PaidAtMostOnce' /\ PaidInOrder' /\ CountsAgree'
      /\ FirstRunInv'
  BY DEF SetPayoutOrder, IInv, RunInv, PaidAtMostOnce, PaidInOrder,
         CountsAgree, FirstRunInv
<1>5. QED
  BY <1>3, <1>4 DEF IInv

\* A run starts with nobody before its first round.
LEMMA StartCircleStep ==
  ASSUME IInv, StartCircle
  PROVE  IInv'
<1> USE DEF memberVars, contributionVars
<1>1. Size \in 0..MaxMembers /\ Size >= 2 /\ 1 \in 1..Size
      /\ 1 \in 0..MaxMembers
  BY MembersFinite, MembersAssumption DEF StartCircle, IInv, TypeOK
<1>2. starts' \in 0..MaxStarts
  BY BoundAssumption DEF StartCircle, IInv, TypeOK
<1>3. TypeOK'
  BY <1>1, <1>2 DEF StartCircle, IInv, TypeOK, Size, Orders
<1>4. RunInv' /\ PaidAtMostOnce' /\ CountsAgree'
  BY <1>1 DEF StartCircle, IInv, RunInv, Size, PaidAtMostOnce, CountsAgree
<1>5. PaidInOrder'
  BY <1>1 DEF StartCircle, PaidInOrder
<1>6. FirstRunInv'
  <2> SUFFICES ASSUME starts' = 1 PROVE FirstRunInv'
    BY <1>2 DEF FirstRunInv, StartCircle, IInv, TypeOK
  <2>1. starts = 0 /\ hasReceivedPayout = {} /\ balance \in Nat
        /\ \A r \in Rounds : contributions[r] = {}
    BY DEF StartCircle, IInv, TypeOK, FirstRunInv
  <2>2. 1 \in Rounds /\ Cardinality(contributions[1]) = 0
    BY <2>1, FS_EmptySet, MembersAssumption DEF Rounds
  <2>3. QED
    BY <2>1, <2>2 DEF StartCircle, FirstRunInv
<1>7. QED
  BY <1>3, <1>4, <1>5, <1>6 DEF IInv

\* The recipient was not paid before and is now; the round moves past it, or
\* the run is over.
LEMMA ReleasePayoutStep ==
  ASSUME IInv, ReleasePayout
  PROVE  IInv'
<1> USE DEF contributionVars
<1>1. /\ currentRound \in Rounds /\ currentRound \in 1..Size
      /\ payoutOrder \in [1..Size -> memberList]
      /\ Recipient \in memberList /\ Recipient \notin hasReceivedPayout
      /\ isActive /\ Size \in Nat /\ MaxMembers \in Nat
  BY RunningRound, MembersFinite DEF ReleasePayout, Payable, IInv
<1>2. memberList \subseteq Address
  BY DEF IInv, TypeOK
<1>3. balance' \in Nat
  BY <1>1 DEF ReleasePayout, Payable, IInv, TypeOK
<1>4. isActive' \in BOOLEAN /\ currentRound' \in 0..MaxMembers
  <2>1. isActive \in BOOLEAN /\ Size <= MaxMembers /\ totalRounds = Size
    BY <1>1 DEF IInv, TypeOK, RunInv
  <2>2. CASE currentRound = totalRounds
    <3>1. NextRound
      BY DEF ReleasePayout
    <3>2. isActive' = FALSE /\ currentRound' = currentRound
      BY <2>2, <3>1, Zenon DEF NextRound
    <3>3. currentRound \in 0..MaxMembers
      BY <1>1 DEF Rounds
    <3>4. QED
      BY <3>2, <3>3, Zenon
  <2>3. CASE currentRound # totalRounds
    BY <1>1, <2>1, <2>3 DEF ReleasePayout, NextRound, Rounds
  <2>4. QED
    BY <2>2, <2>3
<1>5. hasReceivedPayout' \subseteq memberList /\ paidTo' \in [Address -> Nat]
  BY <1>1, <1>2 DEF ReleasePayout, IInv, TypeOK
<1>6. TypeOK'
  BY <1>3, <1>4, <1>5 DEF ReleasePayout, IInv, TypeOK, Size, Orders
<1>7. RunInv'
  BY <1>1 DEF ReleasePayout, NextRound, IInv, RunInv, Size
<1>8. PaidAtMostOnce'
  BY <1>1, <1>2 DEF ReleasePayout, IInv, TypeOK, PaidAtMostOnce
<1>9. PaidInOrder'
  <2> SUFFICES ASSUME isActive' PROVE PaidInOrder'
    BY DEF PaidInOrder
  <2>1. /\ currentRound' = currentRound + 1 /\ payoutOrder' = payoutOrder
        /\ hasReceivedPayout' = hasReceivedPayout \cup {Recipient}
        /\ currentRound # Size /\ DOMAIN payoutOrder = 1..Size
    BY DEF ReleasePayout, NextRound, IInv, RunInv
  <2>2. \A i \in 1..currentRound : i = currentRound \/ i \in 1..(currentRound - 1)
    BY <1>1
  <2>3. \A i \in 1..currentRound : payoutOrder[i] \in hasReceivedPayout'
    BY <1>1, <2>1, <2>2 DEF IInv, PaidInOrder, Recipient
  <2>4. \A i, j \in 1..currentRound : payoutOrder[i] = payoutOrder[j] => i = j
    BY <1>1, <2>2 DEF IInv, PaidInOrder, Recipient
  <2>5. currentRound' - 1 = currentRound /\ currentRound' \in 1..Size
    BY <1>1, <2>1
  <2>6. QED
    BY <2>1, <2>3, <2>4, <2>5 DEF PaidInOrder
<1>10. CountsAgree'
  BY DEF ReleasePayout, IInv, CountsAgree
<1>11. FirstRunInv'
  <2>1. starts # 0 /\ starts' = starts /\ contributions' = contributions
    BY <1>1 DEF ReleasePayout, IInv, FirstRunInv
  <2> SUFFICES ASSUME isActive', starts = 1 PROVE FirstRunInv'
    BY <2>1 DEF FirstRunInv
  <2>2. /\ currentRound' = currentRound + 1 /\ payoutOrder' = payoutOrder
        /\ hasReceivedPayout' = hasReceivedPayout \cup {Recipient}
        /\ currentRound # Size /\ currentRound' - 1 = currentRound
    BY <1>1 DEF ReleasePayout, NextRound, IInv, RunInv
  <2>3. \A m \in hasReceivedPayout' :
          \E i \in 1..currentRound : payoutOrder[i] = m
    <3>1. \A i \in 1..(currentRound - 1) : i \in 1..currentRound
      BY <1>1
    <3>2. currentRound \in 1..currentRound
      BY <1>1
    <3>3. \A m \in hasReceivedPayout :
            \E i \in 1..(currentRound - 1) : payoutOrder[i] = m
      BY <1>1 DEF IInv, FirstRunInv
    <3>4. QED
      BY <2>2, <3>1, <3>2, <3>3 DEF Recipient
  <2>4. /\ currentRound' \in Rounds
        /\ \A r \in Rounds : r > currentRound => contributions[r] = {}
    BY <1>1, <1>7, <1>6, <2>2 DEF IInv, FirstRunInv, TypeOK, Rounds
  <2>5. Cardinality(contributions[currentRound']) = 0
    <3>1. currentRound' > currentRound
      BY <1>1, <2>2
    <3>2. contributions[currentRound'] = {}
      BY <2>4, <3>1
    <3>3. QED
      BY <3>2, FS_EmptySet
  <2>6. QED
    BY <1>1, <1>3, <2>1, <2>2, <2>3, <2>4, <2>5 DEF FirstRunInv, Rounds
<1>12. QED
  BY <1>6, <1>7, <1>8, <1>9, <1>10, <1>11 DEF IInv

\* No call takes the contract out of the invariant.
LEMMA NextInv == IInv /\ [Next]_vars => IInv'
<1> SUFFICES ASSUME IInv, [Next]_vars PROVE IInv'
  OBVIOUS
<1>1. ASSUME NEW a \in Address, AddMember(a) PROVE IInv'
  BY <1>1, AddMemberStep
<1>2. ASSUME NEW a \in Address, Contribute(a) PROVE IInv'
  BY <1>2, ContributeStep
<1>3. ASSUME NEW order \in Orders(Size), SetPayoutOrder(order) PROVE IInv'
  BY <1>3, SetPayoutOrderStep
<1>4. CASE StartCircle
  BY <1>4, StartCircleStep
<1>5. CASE ReleasePayout
  BY <1>5, ReleasePayoutStep
<1>6. CASE EmergencyWithdraw
  <2>1. balance' \in Nat /\ swept' \in BOOLEAN /\ deposits' \in 0..MaxDeposits
        /\ swept'
    BY <1>6 DEF EmergencyWithdraw, IInv, TypeOK
  <2>2. QED
    BY <1>6, <2>1, MoneyStep DEF EmergencyWithdraw
<1>7. CASE Deposit
  <2>1. balance' \in Nat /\ swept' \in BOOLEAN /\ deposits' \in 0..MaxDeposits
        /\ (swept' \/ (~swept /\ balance' >= balance))
    BY <1>7, BoundAssumption DEF Deposit, IInv, TypeOK
  <2>2. QED
    BY <1>7, <2>1, MoneyStep DEF Deposit
<1>8. CASE UNCHANGED vars
  <2>1. balance' \in Nat /\ swept' \in BOOLEAN /\ deposits' \in 0..MaxDeposits
        /\ (swept' \/ (~swept /\ balance' >= balance))
    BY <1>8 DEF vars, IInv, TypeOK
  <2>2. QED
    BY <1>8, <2>1, MoneyStep
       DEF vars, roundVars, memberVars, contributionVars
<1>9. QED
  BY <1>1, <1>2, <1>3, <1>4, <1>5, <1>6, <1>7, <1>8 DEF Next

\* Every state of every sequence of calls satisfies the inductive invariant.
THEOREM Invariance == Spec => []IInv
  BY InitInv, NextInv, PTL DEF Spec

\* releasePayout pays no account twice, however many runs there are.
THEOREM NobodyPaidTwice == Spec => []PaidAtMostOnce
<1>1. IInv => PaidAtMostOnce
  BY DEF IInv
<1>2. QED
  BY <1>1, Invariance, PTL

\* Payouts of a run follow the order it was started with.
THEOREM OrderIsFollowed == Spec => []PaidInOrder
<1>1. IInv => PaidInOrder
  BY DEF IInv
<1>2. QED
  BY <1>1, Invariance, PTL

\* The two counters of contributions count the contributors of the rounds.
THEOREM CountersAgree == Spec => []CountsAgree
<1>1. IInv => CountsAgree
  BY DEF IInv
<1>2. QED
  BY <1>1, Invariance, PTL

\* An order without repetitions never gets stuck in a first run: whoever was
\* paid is listed before the round.
THEOREM FirstRunNeverStuck == Spec => []OrderedNeverStuck
<1>1. ASSUME IInv PROVE OrderedNeverStuck
  <2> SUFFICES ASSUME isActive, starts = 1, Recipient \in hasReceivedPayout,
                      \A i, j \in DOMAIN payoutOrder :
                         payoutOrder[i] = payoutOrder[j] => i = j
               PROVE  FALSE
    BY DEF OrderedNeverStuck
  <2>1. PICK i \in 1..(currentRound - 1) : payoutOrder[i] = Recipient
    BY <1>1 DEF IInv, FirstRunInv
  <2>2. currentRound \in 1..Size /\ DOMAIN payoutOrder = 1..Size
        /\ Size \in Nat
    BY <1>1, MembersFinite DEF IInv, RunInv
  <2>3. i \in 1..Size /\ i # currentRound
    BY <2>2
  <2>4. QED
    BY <2>1, <2>2, <2>3 DEF Recipient
<1>2. QED
  BY <1>1, Invariance, PTL

\* A round of a first run in which every member has contributed is payable.
THEOREM FullRoundHasItsPayout == Spec => []FullRoundsPayable
<1>1. IInv => FullRoundsPayable
  BY DEF IInv, FirstRunInv, FullRoundsPayable, Size
<1>2. QED
  BY <1>1, Invariance, PTL

\* When the last payout of a run is made the order has listed as many distinct
\* members as there are members, so all of them.
LEMMA LastPayout ==
  ASSUME IInv, ReleasePayout, ~isActive'
  PROVE  hasReceivedPayout' = memberList'
<1>1. /\ currentRound = Size /\ payoutOrder \in [1..Size -> memberList]
      /\ Size \in Nat /\ IsFiniteSet(memberList) /\ isActive
      /\ currentRound \in 1..Size
      /\ Recipient \notin hasReceivedPayout
  BY RunningRound, MembersFinite
     DEF ReleasePayout, Payable, NextRound, IInv, RunInv
<1>2. \A i \in 1..Size : i = Size \/ i \in 1..(currentRound - 1)
  BY <1>1
<1>3. \A i, j \in 1..Size : payoutOrder[i] = payoutOrder[j] => i = j
  BY <1>1, <1>2 DEF IInv, PaidInOrder, Recipient
<1>4. payoutOrder \in Injection(1..Size, memberList)
  BY <1>1, <1>3 DEF Injection, IsInjective
<1>5. Cardinality(1..Size) = Cardinality(memberList)
  BY <1>1, FS_Interval DEF Size
<1>6. payoutOrder \in Surjection(1..Size, memberList)
  BY <1>1, <1>4, <1>5, FS_Injection
<1>7. \A m \in memberList : \E i \in 1..Size : payoutOrder[i] = m
  BY <1>6 DEF Surjection
<1>8. /\ hasReceivedPayout' = hasReceivedPayout \cup {Recipient}
      /\ memberList' = memberList
      /\ hasReceivedPayout \subseteq memberList
      /\ Recipient \in memberList
  BY <1>1, RunningRound DEF ReleasePayout, IInv, TypeOK
<1>9. \A i \in 1..Size : payoutOrder[i] \in hasReceivedPayout'
  BY <1>1, <1>2, <1>8 DEF IInv, PaidInOrder, Recipient
<1>10. QED
  BY <1>7, <1>8, <1>9

\* A run that ends has paid every member of the circle.
THEOREM CompletedMeansPaid == Spec => CompletionPaysAll
<1>1. ASSUME IInv, [Next]_vars, isActive, ~isActive'
      PROVE  hasReceivedPayout' = memberList'
  <2>1. ReleasePayout
    BY <1>1 DEF Next, vars, roundVars, AddMember, Contribute, SetPayoutOrder,
                StartCircle, EmergencyWithdraw, Deposit
  <2>2. QED
    BY <1>1, <2>1, LastPayout
<1>2. IInv /\ [Next]_vars
        => [isActive /\ ~isActive' => hasReceivedPayout' = memberList']_vars
  BY <1>1
<1>3. QED
  BY <1>2, Invariance, PTL DEF Spec, CompletionPaysAll
=============================================================================
