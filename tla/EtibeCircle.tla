---------------------------- MODULE EtibeCircle ----------------------------
(***************************************************************************)
(* The EtibeCircle contract of a circle on Base.  A call that reverts      *)
(* changes nothing, so every require is a guard.  The contract is atomic:  *)
(* the hazards are the order of the owner's calls, the members' calls      *)
(* between them, and what a second start inherits from the first.          *)
(*                                                                         *)
(* Amounts are in units of contributionAmount.  positions, names and       *)
(* gracePeriodDays are stored and never read by the contract; memberList   *)
(* is read only for its length and isMember for membership, so both are    *)
(* one set.                                                                *)
(***************************************************************************)
EXTENDS Integers, FiniteSets

CONSTANTS
  Address,      \* the accounts that can be members
  MaxMembers,   \* maxMembers of the constructor
  MaxDeposits,  \* bound: transfers outside contributeETH and contributeToken
  MaxStarts     \* bound: calls of startCircle that succeed

ASSUME AddressAssumption == IsFiniteSet(Address)
ASSUME MembersAssumption == MaxMembers \in 2..50
ASSUME BoundAssumption == MaxDeposits \in Nat /\ MaxStarts \in Nat

VARIABLES
  isActive,
  currentRound,
  totalRounds,
  memberList,        \* the members
  hasReceivedPayout, \* members whose hasReceivedPayout is set
  contributedRounds, \* per account
  payoutOrder,       \* positions -> members
  contributions,     \* roundContributions: round -> who contributed
  contributionCount, \* roundContributionCount: round -> how many
  balance,           \* what the contract holds of its currency
  paidTo,            \* history: payouts to each account
  swept,             \* history: emergencyWithdraw took something
  deposits, starts   \* budgets spent

roundVars == <<isActive, currentRound, totalRounds>>
memberVars == <<memberList, hasReceivedPayout>>
contributionVars == <<contributedRounds, contributions, contributionCount>>
vars == <<isActive, currentRound, totalRounds, memberList, hasReceivedPayout,
          contributedRounds, payoutOrder, contributions, contributionCount,
          balance, paidTo, swept, deposits, starts>>

Rounds == 1..MaxMembers
Size == Cardinality(memberList)

\* The payout orders of n places; setPayoutOrder does not ask for distinct
\* members.
Orders(n) == [1..n -> memberList]

TypeOK ==
  /\ isActive \in BOOLEAN
  /\ currentRound \in 0..MaxMembers /\ totalRounds \in 0..MaxMembers
  /\ memberList \subseteq Address /\ Size <= MaxMembers
  /\ hasReceivedPayout \subseteq memberList
  /\ contributedRounds \in [Address -> Nat]
  /\ \E n \in 0..MaxMembers : payoutOrder \in Orders(n)
  /\ contributions \in [Rounds -> SUBSET memberList]
  /\ contributionCount \in [Rounds -> Nat]
  /\ balance \in Nat
  /\ paidTo \in [Address -> Nat]
  /\ swept \in BOOLEAN
  /\ deposits \in 0..MaxDeposits /\ starts \in 0..MaxStarts

Init ==
  /\ isActive = FALSE /\ currentRound = 0 /\ totalRounds = 0
  /\ memberList = {} /\ hasReceivedPayout = {}
  /\ contributedRounds = [a \in Address |-> 0]
  /\ payoutOrder = [i \in {} |-> 0]
  /\ contributions = [r \in Rounds |-> {}]
  /\ contributionCount = [r \in Rounds |-> 0]
  /\ balance = 0
  /\ paidTo = [a \in Address |-> 0]
  /\ swept = FALSE /\ deposits = 0 /\ starts = 0

-----------------------------------------------------------------------------
(* The owner's calls                                                       *)

\* Slips: members join a full circle, or one that is running.
AddMemberOverfull(a) ==
  /\ ~isActive /\ a \notin memberList
  /\ memberList' = memberList \cup {a}
  /\ contributedRounds' = [contributedRounds EXCEPT ![a] = 0]
  /\ UNCHANGED <<roundVars, hasReceivedPayout, payoutOrder, contributions,
                 contributionCount, balance, paidTo, swept, deposits, starts>>
AddMemberLate(a) ==
  /\ a \notin memberList /\ Size < MaxMembers
  /\ memberList' = memberList \cup {a}
  /\ contributedRounds' = [contributedRounds EXCEPT ![a] = 0]
  /\ UNCHANGED <<roundVars, hasReceivedPayout, payoutOrder, contributions,
                 contributionCount, balance, paidTo, swept, deposits, starts>>

AddMember(a) ==
  /\ ~isActive /\ a \notin memberList /\ Size < MaxMembers
  /\ memberList' = memberList \cup {a}
  /\ contributedRounds' = [contributedRounds EXCEPT ![a] = 0]
  /\ UNCHANGED <<roundVars, hasReceivedPayout, payoutOrder, contributions,
                 contributionCount, balance, paidTo, swept, deposits, starts>>

SetPayoutOrder(order) ==
  /\ ~isActive
  /\ payoutOrder' = order
  /\ UNCHANGED <<roundVars, memberVars, contributionVars, balance, paidTo,
                 swept, deposits, starts>>

\* Nothing of an earlier run is cleared.
StartCircle ==
  /\ ~isActive /\ starts < MaxStarts
  /\ Size >= 2 /\ DOMAIN payoutOrder = 1..Size
  /\ isActive' = TRUE
  /\ currentRound' = 1
  /\ totalRounds' = Size
  /\ starts' = starts + 1
  /\ UNCHANGED <<memberVars, contributionVars, payoutOrder, balance, paidTo,
                 swept, deposits>>

Recipient == payoutOrder[currentRound]

\* Slip: nobody asks whether the recipient was paid.
PayableAgain == isActive /\ currentRound <= totalRounds /\ balance >= Size

\* A payout asks for the money, not for the round's contributions.
Payable == /\ isActive /\ currentRound <= totalRounds
           /\ Recipient \notin hasReceivedPayout
           /\ balance >= Size

\* Slip: the round stays.
StayInRound ==
  /\ isActive' = (currentRound # totalRounds)
  /\ UNCHANGED currentRound

NextRound ==
  IF currentRound = totalRounds
  THEN isActive' = FALSE /\ UNCHANGED currentRound
  ELSE currentRound' = currentRound + 1 /\ UNCHANGED isActive

ReleasePayout ==
  /\ Payable
  /\ balance' = balance - Size
  /\ paidTo' = [paidTo EXCEPT ![Recipient] = @ + 1]
  /\ hasReceivedPayout' = hasReceivedPayout \cup {Recipient}
  /\ NextRound
  /\ UNCHANGED <<totalRounds, memberList, contributionVars, payoutOrder,
                 swept, deposits, starts>>

EmergencyWithdraw ==
  /\ balance > 0
  /\ balance' = 0
  /\ swept' = TRUE
  /\ UNCHANGED <<roundVars, memberVars, contributionVars, payoutOrder, paidTo,
                 deposits, starts>>

-----------------------------------------------------------------------------
(* The members' calls                                                      *)

\* Slip: any amount is taken.
AnyAmount(value) == TRUE

MayContribute(a) == /\ isActive /\ a \in memberList
                    /\ a \notin contributions[currentRound]
ExactAmount(value) == value = 1

\* contributeETH or contributeToken, by the circle's currency.
Contribute(a) ==
  /\ MayContribute(a)
  /\ \E value \in 0..2 : ExactAmount(value) /\ balance' = balance + value
  /\ contributions' = [contributions EXCEPT ![currentRound] = @ \cup {a}]
  /\ contributionCount' = [contributionCount EXCEPT ![currentRound] = @ + 1]
  /\ contributedRounds' = [contributedRounds EXCEPT ![a] = @ + 1]
  /\ UNCHANGED <<roundVars, memberVars, payoutOrder, paidTo, swept, deposits,
                 starts>>

\* Money that comes in unrecorded: receive() of an ETH circle, which is how
\* the backend sends every ETH contribution, or a plain ERC-20 transfer.
Deposit ==
  /\ deposits < MaxDeposits
  /\ deposits' = deposits + 1
  /\ balance' = balance + 1
  /\ UNCHANGED <<roundVars, memberVars, contributionVars, payoutOrder, paidTo,
                 swept, starts>>

Next == \/ \E a \in Address : AddMember(a) \/ Contribute(a)
        \/ \E order \in Orders(Size) : SetPayoutOrder(order)
        \/ StartCircle \/ ReleasePayout \/ EmergencyWithdraw \/ Deposit

Spec == Init /\ [][Next]_vars

-----------------------------------------------------------------------------

\* However often the circle is completed and started again, and in whatever
\* order members are listed, releasePayout pays no account twice.
PaidAtMostOnce ==
  \A a \in Address : paidTo[a] = (IF a \in hasReceivedPayout THEN 1 ELSE 0)

\* While a circle runs, the members listed before the current round are the
\* ones who have been paid in this run: the order and the round cannot move
\* under it, and the recipient of the round exists.
PaidInOrder ==
  isActive => /\ currentRound \in DOMAIN payoutOrder
              /\ \A i \in 1..(currentRound - 1) :
                   payoutOrder[i] \in hasReceivedPayout
              /\ \A i, j \in 1..(currentRound - 1) :
                   payoutOrder[i] = payoutOrder[j] => i = j

\* A circle completes only when every member has been paid: an order that
\* lists a member twice gets stuck instead of leaving another one out.
CompletionPaysAll ==
  [][isActive /\ ~isActive' => hasReceivedPayout' = memberList']_vars

\* A first run whose order lists nobody twice never comes to a round that
\* releasePayout refuses for "Already received payout".
OrderedNeverStuck ==
  (/\ isActive /\ starts = 1
   /\ \A i, j \in DOMAIN payoutOrder : payoutOrder[i] = payoutOrder[j] => i = j)
  => Recipient \notin hasReceivedPayout

\* In a first run, when every member has contributed to the round and nothing
\* was swept, its payout has its money, whatever was paid before.
FullRoundsPayable ==
  (/\ isActive /\ starts = 1 /\ ~swept
   /\ contributions[currentRound] = memberList)
  => balance >= Size

\* The two counters of contributions agree with who contributed: getRoundProgress
\* never reports more contributions than members, a member's contributedRounds
\* never exceeds the rounds, and the totals of both are equal per round.
CountsAgree ==
  /\ \A r \in Rounds : contributionCount[r] = Cardinality(contributions[r])
  /\ \A a \in Address :
       contributedRounds[a] = Cardinality({r \in Rounds : a \in contributions[r]})

\* While a circle runs its members, its order and its rounds have the same
\* length.
RunInv ==
  isActive => /\ totalRounds = Size /\ DOMAIN payoutOrder = 1..Size
              /\ currentRound \in 1..Size

\* A first run inherits nothing: only members before the round are paid, later
\* rounds have no contributions, and those of the round are in the balance.
FirstRunInv ==
  /\ starts = 0 => /\ ~isActive /\ hasReceivedPayout = {}
                   /\ \A r \in Rounds : contributions[r] = {}
  /\ isActive /\ starts = 1 =>
       /\ \A m \in hasReceivedPayout :
            \E i \in 1..(currentRound - 1) : payoutOrder[i] = m
       /\ \A r \in Rounds : r > currentRound => contributions[r] = {}
       /\ ~swept => balance >= Cardinality(contributions[currentRound])

\* No call, in any order of the calls of several runs, takes the circle out of
\* these: the inductive invariant behind what is promised of payouts and of the
\* counters.  It is about the require lines of addMember, setPayoutOrder,
\* startCircle, releasePayout and contribute.
IInv == /\ TypeOK /\ RunInv /\ PaidAtMostOnce /\ PaidInOrder /\ CountsAgree
        /\ FirstRunInv
=============================================================================
