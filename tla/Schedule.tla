------------------------------ MODULE Schedule ------------------------------
(***************************************************************************)
(* The calendar of one circle, and what its members are told of it: the    *)
(* dates its payout jobs get, the dates, deadlines, totals and recipients  *)
(* that CircleService computes for its clients, and the collections and    *)
(* payouts they describe.                                                  *)
(*                                                                         *)
(* Dates are days, counted from a first of January; hours, time zones and  *)
(* daylight saving are left out.  Jobs are single steps here, and so are   *)
(* requests but for the writes of a contribution; their interleavings are  *)
(* the subject of Payouts and Circles.  The circle is on NEAR and all of   *)
(* its members have accounts.  A contribution is of one unit, and a member *)
(* makes one at a time.                                                    *)
(***************************************************************************)
EXTENDS Integers, FiniteSets, FiniteSetsExt, Sequences

CONSTANTS
  N,       \* members of the circle when it starts; CreateCircleDto allows 50
  Payers,  \* bound: the members who contribute
  Starts,  \* days: start dates the creator may enter, and days he may start on
  Graces   \* gracePeriodDays, a month at most

ASSUME MembersAssumption == N \in 2..50 /\ Payers \subseteq 1..N
ASSUME GracesAssumption == Graces \subseteq 0..30

VARIABLES
  frequency,    \* contributionSettings.frequency
  start,        \* startDate
  clock,        \* how many payout dates have passed since the start
  status,       \* of the circle
  round,        \* currentRound
  received,     \* members whose hasReceivedPayout is set
  nextPayout,   \* nextPayoutDate
  total,        \* totalContributed
  recorded,     \* the members with a CONFIRMED contribution, by round
  paying,       \* where the makeContribution of each member is, and its round
  oldest,       \* the round of the oldest copy of the circle that is still in use
  jobs,         \* the payout jobs: their dates and states
  scheduled,    \* history: scheduleCirclePayouts has come to its end
  lost,         \* history: members whose contribution of the round was never added
  carried       \* history: what is in the total, and recorded under a passed round

circleVars == <<frequency, start, clock, status, round, received, nextPayout>>
moneyVars == <<total, recorded, paying, lost, carried>>
jobVars == <<jobs, scheduled>>
vars == <<circleVars, moneyVars, oldest, jobVars>>

Members == 1..N  \* by position; member r is the recipient of round r
Rounds == 1..N
Frequencies == {"WEEKLY", "BI_WEEKLY", "MONTHLY"}

-----------------------------------------------------------------------------
(* Dates                                                                   *)

\* A common year, a leap year and some more.
MonthLength(m) ==
  LET k == ((m - 1) % 12) + 1
  IN IF k = 2 THEN (IF m = 14 THEN 29 ELSE 28)
     ELSE IF k \in {4, 6, 9, 11} THEN 30 ELSE 31
Months == 1..84
FirstDay[m \in Months] == IF m = 1 THEN 1 ELSE FirstDay[m - 1] + MonthLength(m - 1)
MonthOf(d) ==  \* no month is longer than 31 days, so none before (d - 1) \div 31 + 1
  CHOOSE m \in ((d - 1) \div 31 + 1)..84 :
    FirstDay[m] <= d /\ d < FirstDay[m] + MonthLength(m)

ASSUME StartsAssumption == Starts \subseteq 1..365

\* setDate and setMonth of a Date.  A month that has no such day runs over into
\* the next one.
AddDays(d, n) == d + n
AddMonths(d, n) == LET m == MonthOf(d) IN FirstDay[m + n] + (d - FirstDay[m])

\* n periods further in one go, as calculateNextPayoutDate (one period) and
\* calculateContributionDeadline count them.
AddPeriods(d, n) ==
  CASE frequency = "WEEKLY" -> AddDays(d, 7 * n)
    [] frequency = "BI_WEEKLY" -> AddDays(d, 14 * n)
    [] frequency = "MONTHLY" -> AddMonths(d, n)

\* addFrequencyPeriod
AddFrequencyPeriod(d) == AddPeriods(d, 1)

\* Slip: the dates are counted from the start, not from one another.
DirectPayoutDates == [r \in Rounds |-> AddPeriods(start, r)]

\* calculateAllPayoutDates: each date from the one before, so that a month that
\* was too short moves all later dates.
CalculateAllPayoutDates ==
  LET date[r \in 0..N] == IF r = 0 THEN start ELSE AddFrequencyPeriod(date[r - 1])
  IN [r \in Rounds |-> date[r]]

\* calculatePayoutDateForRound: the same loop, once per round.
CalculatePayoutDateForRound(r) ==
  LET date[i \in 0..r] == IF i = 0 THEN start ELSE AddFrequencyPeriod(date[i - 1])
  IN date[r]

Today == IF clock = 0 THEN start ELSE CalculateAllPayoutDates[clock]

-----------------------------------------------------------------------------

Latest == FirstDay[84]

TypeOK ==
  /\ frequency \in Frequencies /\ start \in Starts /\ clock \in 0..N
  /\ status \in {"RECRUITING", "ACTIVE", "COMPLETED"}
  /\ round \in 0..N /\ received \subseteq Members
  /\ nextPayout \in 1..Latest
  /\ total \in Nat /\ carried \in Nat /\ lost \subseteq Payers
  /\ recorded \in [0..N -> SUBSET Payers]
  /\ paying \in [Payers -> [step: {"idle", "record", "add"}, round: 0..N]]
  /\ oldest \in 0..N
  /\ jobs \in [Rounds -> [date: 0..Latest,
                          state: {"none", "delayed", "completed", "failed"}]]
  /\ scheduled \in BOOLEAN

NotPaying == [step |-> "idle", round |-> 0]

\* createCircle, with the start date the creator entered, and activateCircle after
\* it: contributions are taken from now on.
Init ==
  /\ frequency \in Frequencies /\ start \in Starts
  /\ clock = 0 /\ status = "RECRUITING" /\ round = 0 /\ received = {}
  /\ nextPayout = AddPeriods(start, 1)
  /\ total = 0 /\ carried = 0 /\ lost = {} /\ oldest = 0
  /\ recorded = [r \in 0..N |-> {}]
  /\ paying = [m \in Payers |-> NotPaying]
  /\ jobs = [r \in Rounds |-> [date |-> 0, state |-> "none"]]
  /\ scheduled = FALSE

\* makeContribution reads the circle, which the cache has for five minutes, as it was
\* before payouts that have advanced it since, and refuses a second contribution of
\* that round; then it pays.
ReadCircle(m) ==
  /\ paying[m].step = "idle"
  /\ \E c \in oldest..round :
       /\ status # "COMPLETED" \/ c < round
       /\ m \notin recorded[c]
       /\ paying' = [paying EXCEPT ![m] = [step |-> "record", round |-> c]]
  /\ UNCHANGED <<circleVars, total, recorded, lost, carried, oldest, jobVars>>

\* The contribution is recorded under the round of the copy that was read.
CreateTransaction(m) ==
  /\ paying[m].step = "record"
  /\ recorded' = [recorded EXCEPT ![paying[m].round] = @ \cup {m}]
  /\ paying' = [paying EXCEPT ![m].step = "add"]
  /\ UNCHANGED <<circleVars, total, lost, carried, oldest, jobVars>>

\* incrementTotalContributed adds it to whatever round the total is of by now.
IncrementTotal(m) ==
  /\ paying[m].step = "add"
  /\ total' = total + 1
  /\ carried' = IF paying[m].round = round THEN carried ELSE carried + 1
  /\ paying' = [paying EXCEPT ![m] = NotPaying]
  /\ UNCHANGED <<circleVars, recorded, lost, oldest, jobVars>>

\* The payment or a write fails, or the server dies.
ContributionFails(m) ==
  /\ paying[m].step # "idle"
  /\ lost' = IF paying[m] = [step |-> "add", round |-> round] THEN lost \cup {m} ELSE lost
  /\ paying' = [paying EXCEPT ![m] = NotPaying]
  /\ UNCHANGED <<circleVars, total, recorded, carried, oldest, jobVars>>

Contribute(m) == \/ ReadCircle(m) \/ CreateTransaction(m)
                 \/ IncrementTotal(m) \/ ContributionFails(m)

\* startCircle: the day of the start replaces the start date; nextPayoutDate waits
\* for the scheduler, and totalContributed is left as it is.
StartCircle ==
  /\ status = "RECRUITING"
  /\ status' = "ACTIVE" /\ round' = 1 /\ start' \in Starts
  /\ carried' = total /\ lost' = {}
  /\ UNCHANGED <<frequency, clock, received, nextPayout, total, recorded, paying,
                 oldest, jobVars>>

\* scheduleCirclePayouts, for the listener or for the reconciliation on a later
\* boot.  The jobs of some rounds cannot be added, or the server dies before the
\* circle is updated; a date that has passed leaves no delay.
SchedulePayouts ==
  LET dates == CalculateAllPayoutDates IN
  /\ status = "ACTIVE"
  /\ \E added \in SUBSET {r \in Rounds : jobs[r].state = "none"} :
       jobs' = [r \in Rounds |->
         IF r \in added THEN [date |-> Max({Today, dates[r]}), state |-> "delayed"]
         ELSE jobs[r]]
  /\ \/ nextPayout' = dates[1] /\ scheduled' = TRUE
     \/ UNCHANGED <<nextPayout, scheduled>>
  /\ UNCHANGED <<frequency, start, clock, status, round, received, moneyVars, oldest>>

\* Slip: the total of the round is carried over.
AdvanceAndKeepTotal ==
  round' = round + 1 /\ carried' = 0 /\ lost' = {} /\ UNCHANGED total

\* One update: the next round, with nothing in its total.
AdvanceRound == round' = round + 1 /\ total' = 0 /\ carried' = 0 /\ lost' = {}

\* The due job of the lowest round runs.  It is refused when currentRound has
\* reached its round, or fails for a lack of funds; a payout advances the round.
RunPayout(r) ==
  /\ jobs[r].state = "delayed" /\ jobs[r].date <= Today
  /\ \A q \in 1..(r - 1) : jobs[q].state # "delayed"
  /\ \/ /\ round < r
        /\ received' = received \cup {r}
        /\ AdvanceRound
        /\ status' = IF received' = Members THEN "COMPLETED" ELSE status
        /\ jobs' = [jobs EXCEPT ![r].state = "completed"]
     \/ /\ jobs' = [jobs EXCEPT ![r].state = "failed"]
        /\ UNCHANGED <<status, round, received, total, carried, lost>>
  /\ UNCHANGED <<frequency, start, clock, nextPayout, recorded, paying, oldest, scheduled>>

\* The next payout date comes; what is due runs first, and no request or copy of the
\* circle is as old as the time between two dates.
Pass ==
  /\ status # "RECRUITING" /\ clock < N
  /\ \A r \in Rounds : ~(jobs[r].state = "delayed" /\ jobs[r].date <= Today)
  /\ \A m \in Payers : paying[m].step = "idle"
  /\ clock' = clock + 1 /\ oldest' = round
  /\ UNCHANGED <<frequency, start, status, round, received, nextPayout, moneyVars, jobVars>>

Next == \/ \E m \in Payers : Contribute(m)
        \/ StartCircle \/ SchedulePayouts
        \/ \E r \in Rounds : RunPayout(r)
        \/ Pass

Spec == Init /\ [][Next]_vars

-----------------------------------------------------------------------------
(* What the clients are shown                                              *)

\* Slip: the deadline of the round itself.
DeadlineOfRound(grace) == AddDays(AddPeriods(start, round), -grace)

\* calculateContributionDeadline, for the round the circle is in.
ContributionDeadline(grace) == AddDays(AddPeriods(start, round + 1), -grace)

\* getPayoutSchedule
PayoutSchedule ==
  [r \in Members |-> [date |-> CalculatePayoutDateForRound(r),
                      hasReceived |-> r \in received]]

\* The nextRecipient of getCircleDashboard and getNextPayoutInfo: the first
\* member without a payout, by position.
NextRecipient == Min(Members \ received)

\* getCircleDashboard and getContributionProgress count what was collected in two
\* ways: the total of the circle, and the contributions of its round.  (Here with a
\* copy of the circle that is up to date.)
Collected == total
MembersContributed == Cardinality(recorded[round])

-----------------------------------------------------------------------------

Started == status # "RECRUITING"
Shortest == CASE frequency = "WEEKLY" -> 7
              [] frequency = "BI_WEEKLY" -> 14
              [] frequency = "MONTHLY" -> 28

\* The job of the round was added before its payout was due.
OnTime(r) == jobs[r].state # "none" /\ jobs[r].date = CalculateAllPayoutDates[r]

\* No job runs before the date getPayoutSchedule shows for its round, and one that
\* runs later has become due with what was added late.  Payouts on time are a week
\* (a month of 28 days) apart, so that one is settled before the next is due.  Once
\* the scheduler has been through, nextPayoutDate, which is never moved on, is the
\* date of the recipient it is shown with: the first member, who is never paid.
PayoutsOnSchedule ==
  Started =>
    /\ \A r \in Rounds : jobs[r].state # "none" =>
         jobs[r].date \in {PayoutSchedule[q].date : q \in r..N}
    /\ \A r \in Rounds \ {N} :
         OnTime(r) /\ OnTime(r + 1) => jobs[r + 1].date - jobs[r].date >= Shortest
    /\ scheduled => nextPayout = PayoutSchedule[NextRecipient].date

\* The first job is refused, so round r ends with the payout of round r + 1, and the
\* deadline shown in round r is the grace period before it, give or take the days
\* by which months that were too short have moved the payouts.  Unless the grace
\* period is as long as the period, it is after the payout before.
DeadlineFitsPayout ==
  \A grace \in Graces :
    (Started /\ round < N /\ OnTime(round + 1)) =>
      /\ jobs[round + 1].date - (ContributionDeadline(grace) + grace) \in -3..3
      /\ grace + 3 < Shortest => ContributionDeadline(grace) > PayoutSchedule[round].date

\* The contributions of the round that the total lacks: one is just being made, or
\* the request that made it failed or died before the total was updated.
Unadded == lost \cup {m \in Payers : paying[m] = [step |-> "add", round |-> round]}

\* The two counts of what was collected differ by what the total lacks, and by what
\* was carried into it: what was contributed before the start, throughout round 1,
\* and contributions made with a copy of the circle that payouts had overtaken.
\* Nothing else sets them apart, and every payout puts an end to both.
CollectedAgrees ==
  Collected + Cardinality(Unadded) = MembersContributed + carried

-----------------------------------------------------------------------------
(* The inductive invariant                                                 *)

\* Nothing is scheduled before the start, and the first round begins with it: the
\* job of round 1 is refused, and its member stays the next recipient.
StatusInv ==
  /\ status = "RECRUITING" =>
       round = 0 /\ ~scheduled /\ \A r \in Rounds : jobs[r].state = "none"
  /\ Started => round >= 1
  /\ 1 \notin received

\* Copies are of rounds that have begun, and nothing is recorded under another one.
\* A member with a contribution under way has one of its round if it was recorded, and
\* the total still lacks it; one whose contribution was lost makes no other.
PayingInv ==
  /\ oldest <= round
  /\ \A r \in Rounds : r > round => recorded[r] = {}
  /\ \A m \in Payers :
       /\ paying[m].round <= round
       /\ paying[m].step = "record" => m \notin recorded[paying[m].round]
       /\ paying[m].step = "add" => m \in recorded[paying[m].round]
  /\ lost \subseteq recorded[round]
  /\ \A m \in lost : ~(paying[m].step = "add" /\ paying[m].round = round)

\* DeadlineFitsPayout follows from the dates alone.
IInv == TypeOK /\ StatusInv /\ PayoutsOnSchedule /\ PayingInv /\ CollectedAgrees
=============================================================================
