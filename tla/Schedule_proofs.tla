-------------------------- MODULE Schedule_proofs --------------------------
(***************************************************************************)
(* Proofs about Schedule: what is collected and shown, and the dates of    *)
(* the payouts, for circles of any size, start and frequency.              *)
(*                                                                         *)
(* The dates are defined by recursion, over the months and over the        *)
(* rounds.  What a recursion computes is proved by taking the least round  *)
(* (month) at which it would not hold: that there is one comes from the    *)
(* well-founded order of the finite sets 0..n.                             *)
(***************************************************************************)
EXTENDS Schedule, TLAPS, FiniteSetTheorems

(* Recursion over numbers                                                  *)

\* A set of numbers has a least one: the sets 0..k are ordered like their ends.
LEMMA Least ==
  ASSUME NEW K \in SUBSET Nat, K # {}
  PROVE  \E m \in K : \A k \in K : m <= k
<1> DEFINE T == {0..k : k \in K}
<1>1. T \subseteq FiniteSubsetsOf(Nat)
  <2>1. ASSUME NEW k \in K PROVE 0..k \in SUBSET Nat /\ IsFiniteSet(0..k)
    BY FS_Interval
  <2> QED BY <2>1 DEF FiniteSubsetsOf
<1>2. T # {}
  OBVIOUS
<1>3. IsWellFoundedOn(StrictSubsetOrdering(Nat), FiniteSubsetsOf(Nat))
  BY FS_StrictSubsetOrderingWellFounded
<1>4. PICK x \in T : \A y \in T : ~ (<<y, x>> \in StrictSubsetOrdering(Nat))
  <2> HIDE DEF T
  <2> QED BY <1>1, <1>2, <1>3, WFMin
<1>5. PICK m \in K : x = 0..m
  OBVIOUS
<1>6. ASSUME NEW k \in K, k < m PROVE FALSE
  <2>1. 0..k \subseteq 0..m /\ m \in 0..m /\ m \notin 0..k /\ 0..m \subseteq Nat
    BY <1>6
  <2>2. <<0..k, x>> \in StrictSubsetOrdering(Nat)
    BY <1>5, <2>1 DEF StrictSubsetOrdering
  <2> QED BY <1>4, <2>2
<1> QED BY <1>6

\* What holds of 0 and of the successor of each number that it holds of.
LEMMA Steps ==
  ASSUME NEW n \in Nat, NEW G \in SUBSET Nat, 0 \in G,
         \A i \in 1..n : i - 1 \in G => i \in G
  PROVE  0..n \subseteq G
<1> DEFINE K == (0..n) \ G
<1> SUFFICES ASSUME K # {} PROVE FALSE
  OBVIOUS
<1>0. K \in SUBSET Nat
  OBVIOUS
<1>1. PICK m \in K : \A k \in K : m <= k
  <2> HIDE DEF K
  <2> QED BY <1>0, Least
<1>2. m \in 1..n /\ m - 1 \in 0..n /\ m - 1 \notin K
  BY <1>1
<1> QED BY <1>1, <1>2

\* Recursion over 0..n is well defined.
LEMMA Recursion ==
  ASSUME NEW n \in Nat, NEW c \in Nat, NEW f \in [Nat \X Nat -> Nat]
  PROVE  \E g \in [0..n -> Nat] : /\ g[0] = c
                                  /\ \A i \in 1..n : g[i] = f[<<g[i - 1], i>>]
<1> DEFINE Defined(k) == \E g \in [0..k -> Nat] : /\ g[0] = c
                                                  /\ \A i \in 1..k : g[i] = f[<<g[i - 1], i>>]
           G == {k \in 0..n : Defined(k)}
<1>1. 0 \in G
  <2> DEFINE g == [i \in 0..0 |-> c]
  <2>1. g \in [0..0 -> Nat] /\ g[0] = c /\ 1..0 = {}
    OBVIOUS
  <2> HIDE DEF g
  <2>2. Defined(0)
    BY <2>1
  <2> QED BY <2>2
<1>2. ASSUME NEW k \in 1..n, k - 1 \in G PROVE k \in G
  <2>1. PICK g \in [0..(k - 1) -> Nat] : /\ g[0] = c
                                         /\ \A i \in 1..(k - 1) : g[i] = f[<<g[i - 1], i>>]
    BY <1>2
  <2> DEFINE h == [i \in 0..k |-> IF i < k THEN g[i] ELSE f[<<g[k - 1], k>>]]
  <2>2. g[k - 1] \in Nat /\ f[<<g[k - 1], k>>] \in Nat
    OBVIOUS
  <2>3. h \in [0..k -> Nat]
    BY <2>2
  <2>4. h[0] = c
    BY <2>1
  <2>5. ASSUME NEW i \in 1..k PROVE h[i] = f[<<h[i - 1], i>>]
    <3>1. i - 1 \in 0..(k - 1) /\ h[i - 1] = g[i - 1]
      OBVIOUS
    <3>2. CASE i = k
      <4>1. h[k] = f[<<g[k - 1], k>>]
        OBVIOUS
      <4> QED BY <3>1, <3>2, <4>1
    <3>3. CASE i # k
      <4>1. i \in 1..(k - 1) /\ h[i] = g[i]
        BY <3>3
      <4> QED BY <2>1, <3>1, <4>1
    <3> QED BY <3>2, <3>3
  <2> HIDE DEF h
  <2>6. Defined(k)
    BY <2>3, <2>4, <2>5
  <2> QED BY <2>6, k \in 0..n
<1>3. G \in SUBSET Nat
  OBVIOUS
<1> HIDE DEF G
<1>4. n \in G
  BY <1>1, <1>2, <1>3, Steps
<1> QED BY <1>4 DEF G

\* And it has one solution.
LEMMA Unique ==
  ASSUME NEW n \in Nat, NEW f, NEW g, NEW h, g[0] = h[0],
         \A i \in 1..n : g[i] = f[<<g[i - 1], i>>],
         \A i \in 1..n : h[i] = f[<<h[i - 1], i>>]
  PROVE  \A i \in 0..n : g[i] = h[i]
<1> DEFINE G == {i \in 0..n : g[i] = h[i]}
<1>1. 0 \in G /\ G \in SUBSET Nat
  OBVIOUS
<1>2. ASSUME NEW i \in 1..n, i - 1 \in G PROVE i \in G
  <2>1. g[i - 1] = h[i - 1] /\ i \in 0..n
    BY <1>2
  <2>2. g[i] = f[<<g[i - 1], i>>] /\ h[i] = f[<<h[i - 1], i>>]
    OBVIOUS
  <2>3. g[i] = h[i]
    BY <2>1, <2>2
  <2> QED BY <2>1, <2>3
<1> HIDE DEF G
<1>3. 0..n \subseteq G
  BY <1>1, <1>2, Steps
<1> QED BY <1>3 DEF G

-----------------------------------------------------------------------------
(* The calendar                                                            *)

\* A month has 28 to 31 days.
LEMMA MonthLengths == \A m \in Int : MonthLength(m) \in 28..31
  BY DEF MonthLength

\* The recursion of FirstDay is well defined.
LEMMA FirstDays ==
  /\ FirstDay \in [Months -> Nat] /\ FirstDay[1] = 1
  /\ \A m \in 1..83 : FirstDay[m + 1] = FirstDay[m] + MonthLength(m)
<1> DEFINE f == [p \in Nat \X Nat |-> p[1] + MonthLength(p[2])]
           Days(h) == [m \in Months |-> IF m = 1 THEN 1 ELSE h[m - 1] + MonthLength(m - 1)]
<1>1. f \in [Nat \X Nat -> Nat]
  <2>1. ASSUME NEW p \in Nat \X Nat PROVE p[1] + MonthLength(p[2]) \in Nat
    <3>1. p[1] \in Nat /\ p[2] \in Int
      OBVIOUS
    <3>2. MonthLength(p[2]) \in 28..31
      BY <3>1, MonthLengths
    <3> QED BY <3>1, <3>2
  <2> QED BY <2>1
<1>2. \A i, j \in Nat : f[<<i, j>>] = i + MonthLength(j)
  OBVIOUS
<1> HIDE DEF f
<1>3. PICK g \in [0..83 -> Nat] : g[0] = 1 /\ \A i \in 1..83 : g[i] = f[<<g[i - 1], i>>]
  <2>1. 83 \in Nat /\ 1 \in Nat
    OBVIOUS
  <2> QED BY <1>1, <2>1, Recursion, ZenonT(40)
<1> DEFINE h == [m \in Months |-> g[m - 1]]
<1>4. h = Days(h)
  <2>1. ASSUME NEW m \in Months
        PROVE  h[m] = IF m = 1 THEN 1 ELSE h[m - 1] + MonthLength(m - 1)
    <3>1. CASE m = 1
      BY <1>3, <3>1 DEF Months
    <3>2. CASE m # 1
      <4>1. m - 1 \in 1..83 /\ m - 1 \in Months /\ m - 1 - 1 \in 0..83 /\ m - 1 \in Nat
        BY <3>2 DEF Months
      <4>2. g[m - 1] = f[<<g[m - 1 - 1], m - 1>>]
        BY <1>3, <4>1
      <4>3. g[m - 1 - 1] \in Nat
        BY <4>1
      <4>4. g[m - 1] = g[m - 1 - 1] + MonthLength(m - 1)
        BY <1>2, <4>1, <4>2, <4>3
      <4> QED BY <3>2, <4>1, <4>4
    <3> QED BY <3>1, <3>2
  <2> QED BY <2>1
<1> HIDE DEF h
<1>5. \E k : k = Days(k)
  BY <1>4
<1>6. FirstDay = CHOOSE k : k = Days(k)
  BY DEF FirstDay
<1>7. FirstDay = Days(FirstDay)
  BY <1>5, <1>6
<1>7a. \A m \in Months : FirstDay[m] = IF m = 1 THEN 1 ELSE FirstDay[m - 1] + MonthLength(m - 1)
  <2> DEFINE F == FirstDay
  <2>1. F = Days(F)
    BY <1>7
  <2> HIDE DEF F
  <2>2. \A m \in Months : F[m] = IF m = 1 THEN 1 ELSE F[m - 1] + MonthLength(m - 1)
    BY <2>1
  <2> QED BY <2>2 DEF F
<1> HIDE DEF Days
<1>8. FirstDay[1] = 1
  BY <1>7a DEF Months
<1>9. ASSUME NEW m \in 1..83 PROVE FirstDay[m + 1] = FirstDay[m] + MonthLength(m)
  <2>1. m + 1 \in Months /\ m + 1 # 1 /\ m + 1 - 1 = m
    BY DEF Months
  <2>2. FirstDay[m + 1] = FirstDay[m + 1 - 1] + MonthLength(m + 1 - 1)
    BY <1>7a, <2>1
  <2> QED BY <2>1, <2>2
<1>10. FirstDay \in [Months -> Nat]
  <2> DEFINE G == {i \in 0..83 : FirstDay[i + 1] \in Nat}
  <2>1. 0 \in G /\ G \in SUBSET Nat
    BY <1>8
  <2>2. ASSUME NEW i \in 1..83, i - 1 \in G PROVE i \in G
    <3>1. FirstDay[i] \in Nat /\ i \in Int
      <4>1. i - 1 + 1 = i
        OBVIOUS
      <4> QED BY <2>2, <4>1
    <3>2. FirstDay[i + 1] \in Nat
      BY <1>9, <3>1, MonthLengths
    <3> QED BY <3>2
  <2> HIDE DEF G
  <2>3. 0..83 \subseteq G
    BY <2>1, <2>2, Steps
  <2>4. ASSUME NEW m \in Months PROVE FirstDay[m] \in Nat
    <3>1. m - 1 \in 0..83 /\ m - 1 + 1 = m
      BY DEF Months
    <3> QED BY <2>3, <3>1 DEF G
  <2>5. FirstDay = [m \in Months |-> FirstDay[m]]
    BY <1>7 DEF Days
  <2> QED BY <2>4, <2>5
<1> QED BY <1>8, <1>9, <1>10

\* Months have 28 days at least and 31 at most.
LEMMA Growth ==
  \A m \in Months : 1 + 28 * (m - 1) <= FirstDay[m] /\ FirstDay[m] <= 1 + 31 * (m - 1)
<1> DEFINE G == {i \in 0..83 : 1 + 28 * i <= FirstDay[i + 1] /\ FirstDay[i + 1] <= 1 + 31 * i}
<1>1. 0 \in G /\ G \in SUBSET Nat
  BY FirstDays
<1>2. ASSUME NEW i \in 1..83, i - 1 \in G PROVE i \in G
  <2>1. i - 1 + 1 = i /\ i \in Months /\ i \in Int
    BY DEF Months
  <2>2. FirstDay[i] \in Nat /\ FirstDay[i + 1] = FirstDay[i] + MonthLength(i)
    BY <2>1, FirstDays
  <2>3. MonthLength(i) \in 28..31
    BY <2>1, MonthLengths
  <2>4. 1 + 28 * (i - 1) <= FirstDay[i] /\ FirstDay[i] <= 1 + 31 * (i - 1)
    BY <1>2, <2>1
  <2>5. 1 + 28 * i <= FirstDay[i + 1] /\ FirstDay[i + 1] <= 1 + 31 * i
    BY <2>2, <2>3, <2>4
  <2> QED BY <2>5
<1> HIDE DEF G
<1>3. 0..83 \subseteq G
  BY <1>1, <1>2, Steps
<1>4. ASSUME NEW m \in Months
      PROVE  1 + 28 * (m - 1) <= FirstDay[m] /\ FirstDay[m] <= 1 + 31 * (m - 1)
  <2>1. m - 1 \in 0..83 /\ m - 1 + 1 = m
    BY DEF Months
  <2> QED BY <1>3, <2>1 DEF G
<1> QED BY <1>4

\* A later month begins after the end of the month.
LEMMA Later ==
  ASSUME NEW m \in 1..83, NEW k \in (m + 1)..84
  PROVE  FirstDay[m + 1] <= FirstDay[k]
<1> DEFINE G == {i \in 0..(83 - m) : FirstDay[m + 1] <= FirstDay[m + 1 + i]}
<1>1. 0 \in G /\ G \in SUBSET Nat
  <2>1. FirstDay[m + 1] \in Nat
    BY FirstDays DEF Months
  <2> QED BY <2>1
<1>2. ASSUME NEW i \in 1..(83 - m), i - 1 \in G PROVE i \in G
  <2> DEFINE j == m + i
  <2>1. j \in 1..83 /\ m + 1 + (i - 1) = j /\ m + 1 + i = j + 1 /\ j \in Int
    OBVIOUS
  <2>2. FirstDay[m + 1] <= FirstDay[j]
    BY <1>2, <2>1
  <2>3. FirstDay[m + 1] \in Nat /\ FirstDay[j] \in Nat /\ FirstDay[j + 1] = FirstDay[j] + MonthLength(j)
    <3> HIDE DEF j
    <3> QED BY <2>1, FirstDays DEF Months
  <2>4. MonthLength(j) \in 28..31
    BY <2>1, MonthLengths
  <2>5. FirstDay[m + 1] <= FirstDay[j + 1]
    BY <2>2, <2>3, <2>4
  <2> QED BY <2>1, <2>5
<1> HIDE DEF G
<1>3. 0..(83 - m) \subseteq G
  BY <1>1, <1>2, Steps
<1>4. k - m - 1 \in 0..(83 - m) /\ m + 1 + (k - m - 1) = k
  OBVIOUS
<1> QED BY <1>3, <1>4 DEF G

\* The month of a day is the one it lies in.
LEMMA MonthIs ==
  ASSUME NEW m \in 1..83, NEW d \in Int, FirstDay[m] <= d, d < FirstDay[m + 1]
  PROVE  MonthOf(d) = m
<1>1. FirstDay \in [Months -> Nat] /\ m \in Months /\ m + 1 \in Months
  BY FirstDays DEF Months
<1>2. d < FirstDay[m] + MonthLength(m)
  BY FirstDays
<1>3. ASSUME NEW k \in Months, FirstDay[k] <= d, d < FirstDay[k] + MonthLength(k)
      PROVE  k = m
  <2>1. CASE k < m
    <3>1. k \in 1..83 /\ m \in (k + 1)..84
      BY <2>1 DEF Months
    <3>2. FirstDay[k + 1] <= FirstDay[m] /\ FirstDay[k + 1] = FirstDay[k] + MonthLength(k)
      BY <3>1, Later, FirstDays
    <3>3. FirstDay[k + 1] \in Nat /\ FirstDay[m] \in Nat
      BY <1>1, <3>1 DEF Months
    <3> QED BY <1>3, <3>2, <3>3
  <2>2. CASE k > m
    <3>1. k \in (m + 1)..84
      BY <2>2 DEF Months
    <3>2. FirstDay[m + 1] <= FirstDay[k]
      BY <3>1, Later
    <3> QED BY <1>1, <1>3, <3>2
  <2> QED BY <2>1, <2>2 DEF Months
<1>4. m \in ((d - 1) \div 31 + 1)..84 /\ ((d - 1) \div 31 + 1)..84 \subseteq Months
  <2>1. 1 + 28 * (m - 1) <= FirstDay[m] /\ FirstDay[m + 1] <= 1 + 31 * m
    BY <1>1, Growth
  <2>2. 1 <= d /\ d - 1 < 31 * m
    BY <1>1, <2>1 DEF Months
  <2>3. (d - 1) \div 31 \in Nat /\ (d - 1) \div 31 < m
    BY <1>1, <2>2 DEF Months
  <2> QED BY <1>1, <2>3 DEF Months
<1> DEFINE S == ((d - 1) \div 31 + 1)..84
<1>5. MonthOf(d) = CHOOSE k \in S : FirstDay[k] <= d /\ d < FirstDay[k] + MonthLength(k)
  BY DEF MonthOf
<1>6. m \in S /\ \A k \in S : k \in Months
  BY <1>4
<1> HIDE DEF S
<1> QED BY <1>2, <1>3, <1>5, <1>6

\* The days of the first six years, and no payout is later.
Near(d) == d \in Nat /\ 1 <= d /\ d <= 28 * 72

\* Every one of them lies in a month.
LEMMA MonthOfDay ==
  ASSUME NEW d, Near(d)
  PROVE  /\ MonthOf(d) \in 1..72
         /\ FirstDay[MonthOf(d)] <= d /\ d < FirstDay[MonthOf(d) + 1]
<1>1. FirstDay \in [Months -> Nat] /\ FirstDay[1] = 1 /\ Months = 1..84
  BY FirstDays DEF Months
<1>1a. d \in Nat /\ 1 <= d /\ d <= 28 * 72
  BY DEF Near
<1> DEFINE K == {m \in Months : d < FirstDay[m]}
<1>2. K \in SUBSET Nat
  BY <1>1
<1>3. 84 \in K
  <2>1. 84 \in Months /\ 84 \in Nat
    BY <1>1
  <2>2. 1 + 28 * (84 - 1) <= FirstDay[84] /\ FirstDay[84] \in Nat
    BY <1>1, <2>1, Growth
  <2>3. d < FirstDay[84]
    BY <1>1a, <2>2
  <2> QED BY <2>1, <2>3
<1>4. PICK k \in K : \A m \in K : k <= m
  <2> HIDE DEF K
  <2> QED BY <1>2, <1>3, Least
<1> DEFINE m == k - 1
<1>4a. k \in Nat /\ k \in Months /\ d < FirstDay[k]
  BY <1>2
<1>5. m \in 1..83 /\ m \in Months /\ m + 1 = k /\ d < FirstDay[m + 1]
  <2>1. k # 1
    BY <1>1, <1>1a, <1>4a
  <2>2. k \in 2..84
    BY <1>1, <1>4a, <2>1
  <2>3. m \in 1..83 /\ m + 1 = k
    BY <2>2
  <2> QED BY <1>1, <1>4a, <2>3
<1>6. m \notin K
  <2>1. k \in Int /\ ~(k <= k - 1)
    BY <1>4a
  <2> HIDE DEF K
  <2> QED BY <1>4, <2>1
<1>7. FirstDay[m] <= d /\ FirstDay[m] \in Nat
  BY <1>1, <1>1a, <1>5, <1>6
<1> HIDE DEF m
<1>8. 1 + 28 * (m - 1) <= FirstDay[m]
  BY <1>5, Growth
<1>9. m \in 1..72
  BY <1>1a, <1>5, <1>7, <1>8
<1>10. MonthOf(d) = m
  BY <1>1a, <1>5, <1>7, MonthIs
<1> QED BY <1>5, <1>7, <1>9, <1>10

\* A month later is as many days later as the month has.
LEMMA MonthLater ==
  ASSUME NEW d, Near(d)
  PROVE  AddMonths(d, 1) = d + MonthLength(MonthOf(d)) /\ AddMonths(d, 1) \in (d + 28)..(d + 31)
<1> DEFINE m == MonthOf(d)
<1>1. m \in 1..72
  BY MonthOfDay
<1>2. AddMonths(d, 1) = FirstDay[m + 1] + (d - FirstDay[m])
  BY DEF AddMonths
<1>3. d \in Nat
  BY DEF Near
<1> HIDE DEF m
<1>4. FirstDay[m] \in Nat /\ FirstDay[m + 1] = FirstDay[m] + MonthLength(m) /\ MonthLength(m) \in 28..31
  BY <1>1, FirstDays, MonthLengths DEF Months
<1>5. AddMonths(d, 1) = d + MonthLength(m) /\ AddMonths(d, 1) \in (d + 28)..(d + 31)
  BY <1>2, <1>3, <1>4
<1> QED BY <1>5 DEF m

-----------------------------------------------------------------------------
(* The dates of the rounds                                                 *)

\* The operators on dates as functions of the frequency and the start: what a step
\* leaves these two is left what they give.
PeriodsOf(f, d, n) ==
  CASE f = "WEEKLY" -> AddDays(d, 7 * n)
    [] f = "BI_WEEKLY" -> AddDays(d, 14 * n)
    [] f = "MONTHLY" -> AddMonths(d, n)
ShortestOf(f) == CASE f = "WEEKLY" -> 7
                   [] f = "BI_WEEKLY" -> 14
                   [] f = "MONTHLY" -> 28
DatesOf(f, s, n) ==
  LET date[i \in 0..n] == IF i = 0 THEN s ELSE PeriodsOf(f, date[i - 1], 1)
  IN date

\* What Schedule computes in terms of them.
LEMMA Terms ==
  /\ CalculateAllPayoutDates = [r \in Rounds |-> DatesOf(frequency, start, N)[r]]
  /\ \A r : CalculatePayoutDateForRound(r) = DatesOf(frequency, start, r)[r]
  /\ \A d, n : AddPeriods(d, n) = PeriodsOf(frequency, d, n)
  /\ Shortest = ShortestOf(frequency)
<1>1. CalculateAllPayoutDates = [r \in Rounds |-> DatesOf(frequency, start, N)[r]]
  BY DEF CalculateAllPayoutDates, DatesOf, PeriodsOf, AddFrequencyPeriod, AddPeriods
<1>2. \A r : CalculatePayoutDateForRound(r) = DatesOf(frequency, start, r)[r]
  BY DEF CalculatePayoutDateForRound, DatesOf, PeriodsOf, AddFrequencyPeriod, AddPeriods
<1>3. \A d, n : AddPeriods(d, n) = PeriodsOf(frequency, d, n)
  BY DEF AddPeriods, PeriodsOf
<1>4. Shortest = ShortestOf(frequency)
  BY DEF Shortest, ShortestOf
<1> QED BY <1>1, <1>2, <1>3, <1>4

\* One period further.
LEMMA PeriodLater ==
  ASSUME NEW f \in Frequencies, NEW d, Near(d)
  PROVE  /\ PeriodsOf(f, d, 1) \in Nat
         /\ PeriodsOf(f, d, 1) >= d + ShortestOf(f) /\ PeriodsOf(f, d, 1) <= d + 31
<1>1. d \in Nat
  BY DEF Near
<1>2. CASE f = "WEEKLY"
  BY <1>1, <1>2 DEF PeriodsOf, ShortestOf, AddDays
<1>3. CASE f = "BI_WEEKLY"
  BY <1>1, <1>3 DEF PeriodsOf, ShortestOf, AddDays
<1>4. CASE f = "MONTHLY"
  <2>1. PeriodsOf(f, d, 1) = AddMonths(d, 1) /\ ShortestOf(f) = 28
    BY <1>4 DEF PeriodsOf, ShortestOf
  <2>2. AddMonths(d, 1) \in (d + 28)..(d + 31)
    BY MonthLater
  <2> QED BY <1>1, <2>1, <2>2
<1> QED BY <1>2, <1>3, <1>4 DEF Frequencies

\* The frequencies and starts of a circle, and the rounds one can have.
Fits(f, s, n) == f \in Frequencies /\ s \in 1..365 /\ n \in 0..50

\* A function of the dates 0..n.
Counted(f, s, n, date) ==
  date[0] = s /\ \A i \in 1..n : date[i] = PeriodsOf(f, date[i - 1], 1)

\* Each of them is a month at most after the one before, so none is out of sight.
LEMMA Bounded ==
  ASSUME NEW f, NEW s, NEW n, NEW date, Fits(f, s, n), Counted(f, s, n, date)
  PROVE  \A i \in 0..n : Near(date[i]) /\ date[i] <= s + 31 * i
<1> DEFINE G == {i \in 0..n : Near(date[i]) /\ date[i] <= s + 31 * i}
<1>0. n \in Nat /\ n <= 50 /\ s \in Nat /\ 1 <= s /\ s <= 365
  BY DEF Fits
<1>1. 0 \in G /\ G \in SUBSET Nat
  BY <1>0 DEF Counted, Near
<1>2. ASSUME NEW i \in 1..n, i - 1 \in G PROVE i \in G
  <2>1. Near(date[i - 1]) /\ date[i - 1] <= s + 31 * (i - 1)
    BY <1>2
  <2>2. date[i] = PeriodsOf(f, date[i - 1], 1)
    BY DEF Counted
  <2> DEFINE d == date[i - 1]
             e == date[i]
  <2>3. e \in Nat /\ e >= d + ShortestOf(f) /\ e <= d + 31
    BY <2>1, <2>2, PeriodLater DEF Fits
  <2>4. d \in Nat /\ 1 <= d /\ d <= s + 31 * (i - 1)
    BY <2>1 DEF Near
  <2>5. ShortestOf(f) \in {7, 14, 28}
    BY DEF Fits, Frequencies, ShortestOf
  <2> HIDE DEF d, e
  <2>6. i \in Nat /\ i <= 50
    BY <1>0
  <2>7. e \in Nat /\ 1 <= e /\ e <= s + 31 * i /\ e <= 28 * 72
    BY <1>0, <2>3, <2>4, <2>5, <2>6
  <2>8. Near(date[i]) /\ date[i] <= s + 31 * i
    BY <2>7 DEF Near, e
  <2> QED BY <2>8
<1> HIDE DEF G
<1>3. 0..n \subseteq G
  BY <1>0, <1>1, <1>2, Steps
<1> QED BY <1>3 DEF G

\* The loop over the rounds is well defined.
LEMMA Loop ==
  ASSUME NEW f, NEW s, NEW n, Fits(f, s, n)
  PROVE  Counted(f, s, n, DatesOf(f, s, n))
<1> DEFINE a == [p \in Nat \X Nat |-> IF PeriodsOf(f, p[1], 1) \in Nat THEN PeriodsOf(f, p[1], 1) ELSE 0]
           Loops(h) == [i \in 0..n |-> IF i = 0 THEN s ELSE PeriodsOf(f, h[i - 1], 1)]
<1>0. n \in Nat /\ n <= 50 /\ s \in Nat /\ 1 <= s /\ s <= 365 /\ f \in Frequencies
  BY DEF Fits
<1>1. a \in [Nat \X Nat -> Nat]
  OBVIOUS
<1>2. \A i, j \in Nat : Near(i) => a[<<i, j>>] = PeriodsOf(f, i, 1)
  BY <1>0, PeriodLater
<1> HIDE DEF a
<1>3. PICK g \in [0..n -> Nat] : g[0] = s /\ \A i \in 1..n : g[i] = a[<<g[i - 1], i>>]
  BY <1>0, <1>1, Recursion, ZenonT(40)
<1> DEFINE G == {i \in 0..n : /\ Near(g[i]) /\ g[i] <= s + 31 * i
                              /\ i # 0 => g[i] = PeriodsOf(f, g[i - 1], 1)}
<1>4. 0 \in G /\ G \in SUBSET Nat
  BY <1>0, <1>3 DEF Near
<1>5. ASSUME NEW i \in 1..n, i - 1 \in G PROVE i \in G
  <2> DEFINE d == g[i - 1]
             e == g[i]
  <2>1. Near(d) /\ d <= s + 31 * (i - 1) /\ i - 1 \in 0..n /\ i \in Nat /\ i <= 50
    BY <1>0, <1>5
  <2>2. d \in Nat /\ 1 <= d
    BY <2>1 DEF Near
  <2>3. e = PeriodsOf(f, d, 1)
    BY <1>2, <1>3, <2>1, <2>2
  <2>4. e \in Nat /\ e >= d + ShortestOf(f) /\ e <= d + 31
    BY <1>0, <2>1, <2>3, PeriodLater
  <2>5. ShortestOf(f) \in {7, 14, 28}
    BY <1>0 DEF Frequencies, ShortestOf
  <2> HIDE DEF d, e
  <2>6. e \in Nat /\ 1 <= e /\ e <= s + 31 * i /\ e <= 28 * 72
    BY <1>0, <2>1, <2>2, <2>4, <2>5
  <2>7. Near(g[i]) /\ g[i] <= s + 31 * i /\ g[i] = PeriodsOf(f, g[i - 1], 1)
    BY <2>3, <2>6 DEF Near, d, e
  <2> QED BY <2>7
<1> HIDE DEF G
<1>6. 0..n \subseteq G
  BY <1>0, <1>4, <1>5, Steps
<1>7. \A i \in 1..n : g[i] = PeriodsOf(f, g[i - 1], 1)
  BY <1>6 DEF G
<1>8. g = Loops(g)
  <2>1. ASSUME NEW i \in 0..n
        PROVE  g[i] = IF i = 0 THEN s ELSE PeriodsOf(f, g[i - 1], 1)
    <3>1. CASE i = 0
      BY <1>3, <3>1
    <3>2. CASE i # 0
      <4>1. i \in 1..n
        BY <3>2
      <4> QED BY <1>7, <3>2, <4>1
    <3> QED BY <3>1, <3>2
  <2>2. g = [i \in 0..n |-> g[i]]
    OBVIOUS
  <2> QED BY <2>1, <2>2
<1>9. \E k : k = Loops(k)
  BY <1>8
<1>10. DatesOf(f, s, n) = CHOOSE k : k = Loops(k)
  BY DEF DatesOf
<1>11. DatesOf(f, s, n) = Loops(DatesOf(f, s, n))
  BY <1>9, <1>10
<1> DEFINE F == DatesOf(f, s, n)
<1>12. F = Loops(F)
  BY <1>11
<1> HIDE DEF F
<1>13. \A i \in 0..n : F[i] = IF i = 0 THEN s ELSE PeriodsOf(f, F[i - 1], 1)
  BY <1>12
<1> HIDE DEF Loops
<1>14. F[0] = s /\ \A i \in 1..n : F[i] = PeriodsOf(f, F[i - 1], 1)
  BY <1>0, <1>13
<1> QED BY <1>14 DEF F, Counted

\* The date of round i, and the start for 0.
Date(f, s, i) == DatesOf(f, s, i)[i]

\* However many rounds the loop goes through, the dates are the same.
LEMMA SameDates ==
  ASSUME NEW f, NEW s, NEW n, Fits(f, s, n)
  PROVE  \A i \in 0..n : DatesOf(f, s, n)[i] = Date(f, s, i)
<1> SUFFICES ASSUME NEW i \in 0..n PROVE DatesOf(f, s, n)[i] = Date(f, s, i)
  OBVIOUS
<1>1. Fits(f, s, i) /\ i \in Nat
  BY DEF Fits
<1> DEFINE g == DatesOf(f, s, n)
           h == DatesOf(f, s, i)
<1>2. Counted(f, s, n, g) /\ Counted(f, s, i, h)
  BY <1>1, Loop
<1> HIDE DEF g, h
<1> DEFINE G == {k \in 0..i : g[k] = h[k]}
<1>3. 0 \in G /\ G \in SUBSET Nat
  BY <1>1, <1>2 DEF Counted
<1>4. ASSUME NEW k \in 1..i, k - 1 \in G PROVE k \in G
  <2>1. k \in 1..n /\ g[k - 1] = h[k - 1]
    BY <1>4 DEF Fits
  <2>2. g[k] = PeriodsOf(f, g[k - 1], 1) /\ h[k] = PeriodsOf(f, h[k - 1], 1)
    BY <1>2, <2>1 DEF Counted
  <2> QED BY <2>1, <2>2
<1> HIDE DEF G
<1>5. 0..i \subseteq G
  BY <1>1, <1>3, <1>4, Steps
<1>6. i \in G
  BY <1>1, <1>5
<1> QED BY <1>6 DEF G, g, h, Date

\* What is known of the dates.
LEMMA Dates ==
  ASSUME NEW f, NEW s, NEW n, Fits(f, s, n)
  PROVE  /\ Date(f, s, 0) = s
         /\ \A i \in 0..n : Near(Date(f, s, i)) /\ Date(f, s, i) <= s + 31 * i
         /\ \A i \in 1..n : Date(f, s, i) = PeriodsOf(f, Date(f, s, i - 1), 1)
<1> DEFINE g == DatesOf(f, s, n)
<1>0. n \in Nat
  BY DEF Fits
<1>1. Counted(f, s, n, g)
  BY Loop
<1>2. \A i \in 0..n : Near(g[i]) /\ g[i] <= s + 31 * i
  BY <1>1, Bounded
<1>3. \A i \in 0..n : g[i] = Date(f, s, i)
  BY SameDates
<1> HIDE DEF g
<1>4. ASSUME NEW i \in 1..n PROVE Date(f, s, i) = PeriodsOf(f, Date(f, s, i - 1), 1)
  <2>1. i \in 0..n /\ i - 1 \in 0..n
    BY <1>0
  <2> QED BY <1>1, <1>3, <2>1 DEF Counted
<1> QED BY <1>0, <1>1, <1>2, <1>3, <1>4 DEF Counted

-----------------------------------------------------------------------------
(* Dates counted one after the other and in one go                         *)

\* A later round has a date that is later by a period at least.
LEMMA Spaced ==
  ASSUME NEW f, NEW s, NEW n, Fits(f, s, n)
  PROVE  /\ \A i \in 1..n : Date(f, s, i) >= Date(f, s, i - 1) + ShortestOf(f)
         /\ \A i \in 0..n : \A k \in i..n : Date(f, s, k) >= Date(f, s, i)
<1>0. n \in Nat /\ f \in Frequencies
  BY DEF Fits
<1>0a. ShortestOf(f) \in {7, 14, 28}
  BY <1>0 DEF Frequencies, ShortestOf
<1> DEFINE D(i) == Date(f, s, i)
<1>1. \A i \in 0..n : Near(D(i)) /\ D(i) \in Nat
  BY Dates DEF Near
<1>2. \A i \in 1..n : D(i) = PeriodsOf(f, D(i - 1), 1)
  BY Dates
<1> HIDE DEF D
<1>3. ASSUME NEW i \in 1..n PROVE D(i) >= D(i - 1) + ShortestOf(f)
  <2>1. i - 1 \in 0..n
    BY <1>0
  <2> QED BY <1>0, <1>1, <1>2, <2>1, PeriodLater
<1>4. ASSUME NEW i \in 0..n, NEW k \in i..n PROVE D(k) >= D(i)
  <2> DEFINE G == {j \in 0..(n - i) : D(i + j) >= D(i)}
  <2>0. n - i \in Nat /\ i \in Nat
    BY <1>0
  <2>1. 0 \in G /\ G \in SUBSET Nat
    BY <1>1, <2>0
  <2>2. ASSUME NEW j \in 1..(n - i), j - 1 \in G PROVE j \in G
    <3> DEFINE m == i + j
    <3>1. m \in 1..n /\ m \in 0..n /\ m - 1 \in 0..n /\ i + (j - 1) = m - 1 /\ j \in 0..(n - i)
      BY <1>0, <2>0
    <3>2. D(m - 1) >= D(i)
      BY <2>2, <3>1
    <3>3. D(m) >= D(m - 1) + ShortestOf(f)
      BY <1>3, <3>1
    <3>4. D(m) \in Nat /\ D(m - 1) \in Nat /\ D(i) \in Nat
      BY <1>1, <3>1
    <3>5. D(m) >= D(i)
      BY <1>0a, <3>2, <3>3, <3>4
    <3> QED BY <3>1, <3>5
  <2> HIDE DEF G
  <2>3. 0..(n - i) \subseteq G
    BY <2>0, <2>1, <2>2, Steps
  <2>4. k - i \in 0..(n - i) /\ i + (k - i) = k
    BY <1>0, <2>0
  <2> QED BY <2>3, <2>4 DEF G
<1>5. /\ \A i \in 1..n : D(i) >= D(i - 1) + ShortestOf(f)
      /\ \A i \in 0..n : \A k \in i..n : D(k) >= D(i)
  BY <1>3, <1>4
<1> QED BY <1>5 DEF D

\* The payouts of a circle that pays by the week, counted in one go.
LEMMA WeeksTogether ==
  ASSUME NEW f \in {"WEEKLY", "BI_WEEKLY"}, NEW s, NEW n, Fits(f, s, n)
  PROVE  Date(f, s, n) = PeriodsOf(f, s, n)
<1>0. n \in Nat /\ s \in Nat
  BY DEF Fits
<1> DEFINE D(i) == Date(f, s, i)
           w == IF f = "WEEKLY" THEN 7 ELSE 14
           G == {i \in 0..n : D(i) = s + w * i}
<1>1. D(0) = s /\ \A i \in 1..n : D(i) = PeriodsOf(f, D(i - 1), 1)
  BY Dates
<1>2. \A d, i \in Nat : PeriodsOf(f, d, i) = d + w * i
  BY DEF PeriodsOf, AddDays
<1>3. w \in {7, 14}
  OBVIOUS
<1> HIDE DEF D, w
<1>4. 0 \in G /\ G \in SUBSET Nat
  BY <1>0, <1>1, <1>3
<1>5. ASSUME NEW i \in 1..n, i - 1 \in G PROVE i \in G
  <2>1. D(i - 1) = s + w * (i - 1) /\ i \in Nat /\ i \in 0..n
    BY <1>0, <1>5
  <2>2. D(i - 1) \in Nat
    BY <1>0, <1>3, <2>1
  <2>3. D(i) = D(i - 1) + w
    BY <1>1, <1>2, <1>3, <2>2
  <2>4. D(i) = s + w * i
    BY <1>0, <1>3, <2>1, <2>3
  <2> QED BY <2>1, <2>4
<1> HIDE DEF G
<1>6. 0..n \subseteq G
  BY <1>0, <1>4, <1>5, Steps
<1>7. D(n) = s + w * n
  BY <1>0, <1>6 DEF G
<1> QED BY <1>0, <1>2, <1>7 DEF D

\* And by the month: until a month is too short the day of the month is the same;
\* then the dates are early in the month after, by what that month had too little.
InMonth(date, m, i, o) ==
  \/ date = FirstDay[m + i] + o /\ o < MonthLength(m + i)
  \/ \E q \in 0..2 : date = FirstDay[m + i + 1] + q /\ o - q \in 28..31

\* A month further it still is.
LEMMA MonthStep ==
  ASSUME NEW m \in 1..14, NEW i \in 1..50, NEW o \in 0..30, NEW d,
         InMonth(d, m, i - 1, o)
  PROVE  InMonth(AddMonths(d, 1), m, i, o)
<1>0. FirstDay \in [Months -> Nat] /\ \A k \in 1..83 : FirstDay[k + 1] = FirstDay[k] + MonthLength(k)
  BY FirstDays
<1> DEFINE k == m + i - 1
<1>1. /\ k \in 1..70 /\ k \in 1..83 /\ k + 1 \in 1..83 /\ k + 2 \in 1..84
      /\ k \in Months /\ k + 1 \in Months /\ k + 2 \in Months
      /\ m + i = k + 1 /\ m + (i - 1) = k
  BY DEF Months
<1> HIDE DEF k
<1>2. /\ FirstDay[k] \in Nat /\ FirstDay[k + 1] \in Nat /\ FirstDay[k + 1 + 1] \in Nat
      /\ FirstDay[k + 1] = FirstDay[k] + MonthLength(k)
      /\ FirstDay[k + 1 + 1] = FirstDay[k + 1] + MonthLength(k + 1)
      /\ MonthLength(k) \in 28..31 /\ MonthLength(k + 1) \in 28..31
  <2>1. k + 1 + 1 = k + 2 /\ k \in Int /\ k + 1 \in Int
    BY <1>1
  <2> QED BY <1>0, <1>1, <2>1, MonthLengths
<1>3. CASE d = FirstDay[k] + o /\ o < MonthLength(k)
  <2>1. MonthOf(d) = k
    <3>1. d \in Int /\ FirstDay[k] <= d /\ d < FirstDay[k + 1]
      BY <1>2, <1>3
    <3> QED BY <1>1, <3>1, MonthIs
  <2>2. AddMonths(d, 1) = FirstDay[k + 1] + o
    <3>1. AddMonths(d, 1) = FirstDay[k + 1] + (d - FirstDay[k])
      BY <2>1 DEF AddMonths
    <3> QED BY <1>2, <1>3, <3>1
  <2>3. CASE o < MonthLength(k + 1)
    BY <1>1, <2>2, <2>3 DEF InMonth
  <2>4. CASE ~(o < MonthLength(k + 1))
    <3> DEFINE q == o - MonthLength(k + 1)
    <3>1. q \in 0..2 /\ o - q \in 28..31 /\ FirstDay[k + 1] + o = FirstDay[k + 1 + 1] + q
      BY <1>2, <2>4
    <3> HIDE DEF q
    <3>2. AddMonths(d, 1) = FirstDay[m + i + 1] + q
      BY <1>1, <2>2, <3>1
    <3> QED BY <3>1, <3>2 DEF InMonth
  <2> QED BY <2>3, <2>4
<1>4. ASSUME NEW q \in 0..2, d = FirstDay[k + 1] + q, o - q \in 28..31
      PROVE  InMonth(AddMonths(d, 1), m, i, o)
  <2>1. MonthOf(d) = k + 1
    <3>1. d \in Int /\ FirstDay[k + 1] <= d /\ d < FirstDay[k + 1 + 1]
      BY <1>2, <1>4
    <3> QED BY <1>1, <3>1, MonthIs
  <2>2. AddMonths(d, 1) = FirstDay[k + 1 + 1] + q
    <3>1. AddMonths(d, 1) = FirstDay[k + 1 + 1] + (d - FirstDay[k + 1])
      BY <2>1 DEF AddMonths
    <3> QED BY <1>2, <1>4, <3>1
  <2>3. AddMonths(d, 1) = FirstDay[m + i + 1] + q
    BY <1>1, <2>2
  <2> QED BY <1>4, <2>3 DEF InMonth
<1>5. \/ d = FirstDay[k] + o /\ o < MonthLength(k)
      \/ \E q \in 0..2 : d = FirstDay[k + 1] + q /\ o - q \in 28..31
  BY <1>1 DEF InMonth
<1> QED BY <1>3, <1>4, <1>5

\* So the payouts of a circle that pays by the month are off what is counted in one
\* go by what two months differ in at most.
LEMMA MonthsTogether ==
  ASSUME NEW s, NEW n, Fits("MONTHLY", s, n), n # 0
  PROVE  Date("MONTHLY", s, n) - PeriodsOf("MONTHLY", s, n) \in -3..3
<1>0. n \in Nat /\ n <= 50 /\ s \in Nat /\ 1 <= s /\ s <= 365 /\ "MONTHLY" \in Frequencies
  BY DEF Fits, Frequencies
<1>1. Near(s)
  BY <1>0 DEF Near
<1> DEFINE m == MonthOf(s)
           o == s - FirstDay[m]
           D(i) == Date("MONTHLY", s, i)
<1>2. m \in 1..72 /\ FirstDay[m] <= s /\ s < FirstDay[m + 1]
  BY <1>1, MonthOfDay
<1>3. PeriodsOf("MONTHLY", s, n) = FirstDay[m + n] + o
  BY DEF PeriodsOf, AddMonths
<1>4. D(0) = s /\ \A i \in 1..n : D(i) = AddMonths(D(i - 1), 1)
  BY Dates DEF PeriodsOf
<1> HIDE DEF m, D
<1>5. FirstDay[m] \in Nat /\ FirstDay[m + 1] = FirstDay[m] + MonthLength(m)
      /\ MonthLength(m) \in 28..31 /\ 1 + 28 * (m - 1) <= FirstDay[m]
  <2>1. m \in Months /\ m \in 1..83 /\ m \in Int
    BY <1>2 DEF Months
  <2> QED BY <2>1, FirstDays, MonthLengths, Growth
<1>6. m \in 1..14 /\ o \in 0..30 /\ s = FirstDay[m] + o /\ o < MonthLength(m)
  BY <1>0, <1>2, <1>5
<1> HIDE DEF o
<1> DEFINE G == {i \in 0..n : InMonth(D(i), m, i, o)}
<1>7. 0 \in G /\ G \in SUBSET Nat
  <2>1. m + 0 = m
    BY <1>6
  <2> QED BY <1>0, <1>4, <1>6, <2>1 DEF InMonth
<1>8. ASSUME NEW i \in 1..n, i - 1 \in G PROVE i \in G
  <2>1. InMonth(D(i - 1), m, i - 1, o) /\ i \in 1..50 /\ i \in 0..n
    BY <1>0, <1>8
  <2>2. InMonth(AddMonths(D(i - 1), 1), m, i, o)
    BY <1>6, <2>1, MonthStep
  <2> QED BY <1>4, <2>1, <2>2
<1> HIDE DEF G
<1>9. 0..n \subseteq G
  BY <1>0, <1>7, <1>8, Steps
<1>10. InMonth(D(n), m, n, o)
  BY <1>0, <1>9 DEF G
<1> DEFINE k == m + n
<1>11. k \in 1..83 /\ k \in Months /\ k \in Int
  BY <1>0, <1>6 DEF Months
<1> HIDE DEF k
<1>12. FirstDay[k] \in Nat /\ FirstDay[k + 1] = FirstDay[k] + MonthLength(k) /\ MonthLength(k) \in 28..31
  BY <1>11, FirstDays, MonthLengths
<1>13. \/ D(n) = FirstDay[k] + o
       \/ \E q \in 0..2 : D(n) = FirstDay[k + 1] + q /\ o - q \in 28..31
  BY <1>10 DEF InMonth, k
<1>14. CASE D(n) = FirstDay[k] + o
  <2>1. D(n) - (FirstDay[k] + o) = 0
    BY <1>6, <1>12, <1>14
  <2> QED BY <1>3, <2>1 DEF k, D
<1>15. ASSUME NEW q \in 0..2, D(n) = FirstDay[k + 1] + q, o - q \in 28..31
       PROVE  D(n) - (FirstDay[k] + o) \in -3..3
  BY <1>6, <1>12, <1>15
<1> QED BY <1>3, <1>13, <1>14, <1>15 DEF k, D

\* A date that is counted from the start in one go is three days off at most.
LEMMA Together ==
  ASSUME NEW f, NEW s, NEW n, Fits(f, s, n), n # 0
  PROVE  PeriodsOf(f, s, n) \in Int /\ Date(f, s, n) - PeriodsOf(f, s, n) \in -3..3
<1>0. f \in Frequencies /\ Near(Date(f, s, n)) /\ n \in Nat /\ s \in Nat
  <2>1. n \in 0..n /\ f \in Frequencies /\ n \in Nat /\ s \in Nat
    BY DEF Fits
  <2>2. \A i \in 0..n : Near(Date(f, s, i))
    BY Dates
  <2> QED BY <2>1, <2>2
<1>1. Date(f, s, n) \in Nat
  BY <1>0 DEF Near
<1>2. CASE f = "MONTHLY"
  <2>1. Date(f, s, n) - PeriodsOf(f, s, n) \in -3..3
    BY <1>2, MonthsTogether
  <2>2. PeriodsOf(f, s, n) \in Int
    <3> DEFINE m == MonthOf(s)
    <3>1. Near(s) /\ s <= 365
      BY <1>0 DEF Fits, Near
    <3>2. m \in 1..72 /\ FirstDay[m] <= s
      BY <3>1, MonthOfDay
    <3>3. PeriodsOf(f, s, n) = FirstDay[m + n] + (s - FirstDay[m])
      BY <1>2 DEF PeriodsOf, AddMonths
    <3> HIDE DEF m
    <3>4. FirstDay[m] \in Nat /\ 1 + 28 * (m - 1) <= FirstDay[m]
      BY <3>2, FirstDays, Growth DEF Months
    <3>5. m + n \in Months
      BY <1>0, <3>1, <3>2, <3>4 DEF Months, Fits
    <3>6. FirstDay[m + n] \in Nat
      BY <3>5, FirstDays
    <3> QED BY <1>0, <3>3, <3>4, <3>6
  <2> QED BY <2>1, <2>2
<1>3. CASE f # "MONTHLY"
  <2>1. Date(f, s, n) = PeriodsOf(f, s, n)
    BY <1>0, <1>3, WeeksTogether DEF Frequencies
  <2> DEFINE d == Date(f, s, n)
  <2>2. d \in Nat
    BY <1>1
  <2> HIDE DEF d
  <2>3. d - d \in -3..3 /\ d \in Int
    BY <2>2
  <2> QED BY <2>1, <2>3 DEF d
<1> QED BY <1>2, <1>3

-----------------------------------------------------------------------------
(* The dates that Schedule computes                                        *)

\* What the constants and the type invariant say of the dates.
LEMMA Fitting ==
  ASSUME TypeOK
  PROVE  /\ N \in Nat /\ 2 <= N /\ N <= 50 /\ start \in 1..365 /\ frequency \in Frequencies
         /\ \A n \in 0..N : Fits(frequency, start, n)
  BY MembersAssumption, StartsAssumption DEF TypeOK, Fits

\* The operators of Schedule give the dates of Date.
LEMMA Meaning ==
  ASSUME TypeOK
  PROVE  /\ CalculateAllPayoutDates = [r \in Rounds |-> Date(frequency, start, r)]
         /\ \A r : CalculatePayoutDateForRound(r) = Date(frequency, start, r)
         /\ \A r \in Members : PayoutSchedule[r].date = Date(frequency, start, r)
         /\ Today = Date(frequency, start, clock)
         /\ \A n : AddPeriods(start, n) = PeriodsOf(frequency, start, n)
         /\ Shortest = ShortestOf(frequency)
<1>0. /\ N \in 0..N /\ 0 \in 0..N /\ clock \in 0..N /\ Rounds = 1..N /\ Members = 1..N
      /\ Fits(frequency, start, N)
  BY Fitting DEF TypeOK, Rounds, Members
<1>1. \A i \in 0..N : DatesOf(frequency, start, N)[i] = Date(frequency, start, i)
  BY <1>0, SameDates
<1>2. CalculateAllPayoutDates = [r \in Rounds |-> Date(frequency, start, r)]
  BY <1>0, <1>1, Terms
<1>3. \A r : CalculatePayoutDateForRound(r) = Date(frequency, start, r)
  BY Terms DEF Date
<1>4. \A r \in Members : PayoutSchedule[r].date = Date(frequency, start, r)
  BY <1>3 DEF PayoutSchedule
<1>5. Today = Date(frequency, start, clock)
  <2>1. CASE clock = 0
    <3>1. Date(frequency, start, 0) = start
      BY <1>0, Dates
    <3> QED BY <2>1, <3>1 DEF Today
  <2>2. CASE clock # 0
    <3>1. clock \in Rounds
      BY <1>0, <2>2
    <3> QED BY <1>2, <2>2, <3>1 DEF Today
  <2> QED BY <2>1, <2>2
<1> QED BY <1>2, <1>3, <1>4, <1>5, Terms

\* The dates of the circle, for its proofs.
LEMMA Calendar ==
  ASSUME TypeOK
  PROVE  \A r \in 0..N :
           /\ Date(frequency, start, r) \in 1..Latest
           /\ \A q \in r..N : Date(frequency, start, q) >= Date(frequency, start, r)
           /\ r # 0 => /\ Date(frequency, start, r) - Date(frequency, start, r - 1) >= Shortest
                       /\ AddPeriods(start, r) \in Int
                       /\ Date(frequency, start, r) - AddPeriods(start, r) \in -3..3
<1> SUFFICES ASSUME NEW r \in 0..N
    PROVE  /\ Date(frequency, start, r) \in 1..Latest
           /\ \A q \in r..N : Date(frequency, start, q) >= Date(frequency, start, r)
           /\ r # 0 => /\ Date(frequency, start, r) - Date(frequency, start, r - 1) >= Shortest
                       /\ AddPeriods(start, r) \in Int
                       /\ Date(frequency, start, r) - AddPeriods(start, r) \in -3..3
  OBVIOUS
<1> DEFINE D(i) == Date(frequency, start, i)
<1>0. N \in Nat /\ Fits(frequency, start, N) /\ Fits(frequency, start, r)
  BY Fitting
<1>1. \A i \in 0..N : Near(D(i))
  BY <1>0, Dates
<1>2. \A i \in 0..N : D(i) \in Nat /\ 1 <= D(i) /\ D(i) <= 28 * 72
  BY <1>1 DEF Near
<1>3. /\ \A i \in 1..N : D(i) >= D(i - 1) + ShortestOf(frequency)
      /\ \A i \in 0..N : \A k \in i..N : D(k) >= D(i)
  BY <1>0, Spaced
<1>4. ShortestOf(frequency) \in {7, 14, 28} /\ Shortest = ShortestOf(frequency)
  BY <1>0, Meaning DEF Fits, Frequencies, ShortestOf
<1>5. Latest \in Nat /\ 28 * 72 <= Latest
  <2>1. 84 \in Months
    BY DEF Months
  <2>2. FirstDay[84] \in Nat /\ 1 + 28 * (84 - 1) <= FirstDay[84]
    BY <2>1, FirstDays, Growth
  <2> QED BY <2>2 DEF Latest
<1>6. r # 0 => /\ AddPeriods(start, r) \in Int
               /\ D(r) - AddPeriods(start, r) \in -3..3
  BY <1>0, Together, Meaning
<1> HIDE DEF D
<1>7. D(r) \in 1..Latest
  BY <1>2, <1>5
<1>8. r # 0 => D(r) - D(r - 1) >= Shortest
  <2>1. ASSUME r # 0 PROVE D(r) - D(r - 1) >= Shortest
    <3>1. r \in 1..N /\ r - 1 \in 0..N
      BY <1>0, <2>1
    <3>2. D(r) \in Nat /\ D(r - 1) \in Nat /\ D(r) >= D(r - 1) + Shortest
      BY <1>2, <1>3, <1>4, <3>1
    <3> QED BY <1>4, <3>2
  <2> QED BY <2>1
<1> QED BY <1>3, <1>6, <1>7, <1>8 DEF D

-----------------------------------------------------------------------------
(* The invariant                                                           *)

\* The greater of two dates.
LEMMA Greater ==
  ASSUME NEW a \in Int, NEW b \in Int
  PROVE  Max({a, b}) = IF a >= b THEN a ELSE b
  BY DEF Max

\* The least of a set of numbers.
LEMMA FirstOf ==
  ASSUME NEW S \in SUBSET Nat, NEW a \in S, \A b \in S : a <= b
  PROVE  Min(S) = a
<1> DEFINE First(x) == \A b \in S : x <= b
<1>1. Min(S) = CHOOSE x \in S : First(x)
  BY DEF Min
<1>2. a \in S /\ First(a)
  OBVIOUS
<1>3. Min(S) \in S /\ First(Min(S))
  <2> HIDE DEF First
  <2> QED BY <1>1, <1>2
<1> DEFINE m == Min(S)
<1>4. m \in Nat /\ m <= a /\ a <= m /\ a \in Nat
  BY <1>2, <1>3
<1> HIDE DEF m
<1>5. m = a
  BY <1>4
<1> QED BY <1>5 DEF m

\* What of PayoutsOnSchedule the steps must keep, the dates given: the clauses on the
\* jobs and on the next recipient.
DatedInv ==
  Started =>
    /\ \A r \in Rounds : jobs[r].state # "none" =>
         \E q \in r..N : jobs[r].date = Date(frequency, start, q)
    /\ scheduled => nextPayout = Date(frequency, start, 1)

\* The rest of it, that payouts are a period apart, is in the calendar.
LEMMA Equivalent ==
  ASSUME TypeOK, 1 \notin received
  PROVE  PayoutsOnSchedule <=> DatedInv
<1> DEFINE D(i) == Date(frequency, start, i)
<1>0. N \in Nat /\ 2 <= N /\ Rounds = 1..N /\ Members = 1..N
  BY Fitting DEF Rounds, Members
<1>1. /\ CalculateAllPayoutDates = [r \in Rounds |-> D(r)]
      /\ \A r \in Members : PayoutSchedule[r].date = D(r)
  BY Meaning
<1>2. \A r \in 1..N : D(r) - D(r - 1) >= Shortest
  <2>1. \A r \in 0..N : r # 0 => D(r) - D(r - 1) >= Shortest
    BY Calendar
  <2> HIDE DEF D
  <2>2. ASSUME NEW r \in 1..N PROVE D(r) - D(r - 1) >= Shortest
    <3>1. r \in 0..N /\ r # 0
      BY <1>0
    <3> QED BY <2>1, <3>1
  <2> QED BY <2>2
<1>3. NextRecipient = 1
  <2> DEFINE S == Members \ received
  <2>1. S \in SUBSET Nat /\ 1 \in S /\ \A b \in S : 1 <= b
    BY <1>0
  <2> HIDE DEF S
  <2>2. Min(S) = 1
    BY <2>1, FirstOf
  <2> QED BY <2>2 DEF NextRecipient, S
<1> HIDE DEF D
<1>4. ASSUME NEW r \in Rounds \ {N}, OnTime(r), OnTime(r + 1)
      PROVE  jobs[r + 1].date - jobs[r].date >= Shortest
  <2>1. r \in Rounds /\ r + 1 \in Rounds /\ r + 1 \in 1..N /\ r + 1 - 1 = r
    BY <1>0
  <2>2. jobs[r].date = D(r) /\ jobs[r + 1].date = D(r + 1)
    BY <1>1, <1>4, <2>1 DEF OnTime
  <2> DEFINE n == r + 1
  <2> HIDE DEF n
  <2>3. n \in 1..N /\ n - 1 = r
    BY <1>0, <2>1 DEF n
  <2>4. D(n) - D(r) >= Shortest
    BY <1>2, <2>3
  <2> QED BY <2>2, <2>4 DEF n
<1>5. ASSUME NEW r \in Rounds
      PROVE  jobs[r].date \in {PayoutSchedule[q].date : q \in r..N}
             <=> \E q \in r..N : jobs[r].date = D(q)
  <2>1. \A q \in r..N : q \in Members
    BY <1>0
  <2>2. \A q \in r..N : PayoutSchedule[q].date = D(q)
    BY <1>1, <2>1
  <2> QED BY <2>2
<1>6. PayoutSchedule[NextRecipient].date = D(1)
  BY <1>0, <1>1, <1>3
<1> QED BY <1>4, <1>5, <1>6 DEF PayoutsOnSchedule, DatedInv, D

\* Everybody who pays is counted.
LEMMA Payable ==
  IsFiniteSet(Payers) /\ Cardinality(Payers) \in Nat
<1>1. IsFiniteSet(1..N)
  BY MembersAssumption, FS_Interval
<1>2. IsFiniteSet(Payers)
  BY <1>1, MembersAssumption, FS_Subset
<1> QED BY <1>2, FS_CardinalityType

\* And counted once.
LEMMA Counts ==
  ASSUME NEW S \in SUBSET Payers
  PROVE  /\ IsFiniteSet(S) /\ Cardinality(S) \in 0..Cardinality(Payers)
         /\ \A m : m \notin S => Cardinality(S \cup {m}) = Cardinality(S) + 1
<1>1. IsFiniteSet(S) /\ Cardinality(S) <= Cardinality(Payers)
  BY Payable, FS_Subset
<1>2. Cardinality(S) \in Nat
  BY <1>1, FS_CardinalityType
<1>3. \A m : m \notin S => Cardinality(S \cup {m}) = Cardinality(S) + 1
  BY <1>1, FS_AddElement
<1> QED BY <1>1, <1>2, <1>3, Payable

\* The deadlines follow from the calendar and from the round the circle is in.
LEMMA Deadlines ==
  ASSUME TypeOK, StatusInv
  PROVE  DeadlineFitsPayout
<1> SUFFICES ASSUME NEW grace \in Graces, Started, round < N, OnTime(round + 1)
    PROVE  /\ jobs[round + 1].date - (ContributionDeadline(grace) + grace) \in -3..3
           /\ grace + 3 < Shortest => ContributionDeadline(grace) > PayoutSchedule[round].date
  BY DEF DeadlineFitsPayout
<1> DEFINE D(i) == Date(frequency, start, i)
           n == round + 1
           far == AddPeriods(start, n)
<1>0. /\ N \in Nat /\ Rounds = 1..N /\ Members = 1..N /\ round \in 1..(N - 1) /\ round \in Members
      /\ n \in 0..N /\ n \in Rounds /\ n # 0 /\ n - 1 = round /\ round \in 0..N /\ grace \in Nat
  BY Fitting, GracesAssumption DEF Rounds, Members, TypeOK, StatusInv
<1>1. jobs[n].date = D(n) /\ PayoutSchedule[round].date = D(round)
  BY <1>0, Meaning DEF OnTime
<1>2. ContributionDeadline(grace) = far - grace
  BY DEF ContributionDeadline, AddDays
<1>3. /\ D(n) - D(n - 1) >= Shortest /\ far \in Int /\ D(n) - far \in -3..3
      /\ D(n) \in 1..Latest /\ D(round) \in 1..Latest
  BY <1>0, Calendar
<1>4. Shortest \in {7, 14, 28}
  BY DEF Shortest, TypeOK, Frequencies
<1> HIDE DEF D, n, far
<1>5. D(n) \in Int /\ D(round) \in Int /\ D(n) - D(round) >= Shortest
  BY <1>0, <1>3
<1>6. jobs[n].date - (ContributionDeadline(grace) + grace) \in -3..3
  <2>1. far - grace + grace = far
    BY <1>0, <1>3
  <2> QED BY <1>1, <1>2, <1>3, <2>1
<1>7. grace + 3 < Shortest => ContributionDeadline(grace) > PayoutSchedule[round].date
  BY <1>0, <1>1, <1>2, <1>3, <1>4, <1>5, SMTT(30)
<1> QED BY <1>6, <1>7 DEF n

\* What TypeOK says of the contributions.
MoneyTypes ==
  /\ total \in Nat /\ carried \in Nat /\ lost \subseteq Payers
  /\ recorded \in [0..N -> SUBSET Payers]
  /\ paying \in [Payers -> [step: {"idle", "record", "add"}, round: 0..N]]
  /\ oldest \in 0..N

\* createCircle leaves a circle without jobs, whose first payout date is one period
\* after the start date that was entered.
LEMMA InitInv == Init => IInv
<1> SUFFICES ASSUME Init PROVE IInv
  OBVIOUS
<1>0. N \in Nat /\ 2 <= N /\ N <= 50 /\ start \in 1..365 /\ frequency \in Frequencies
  BY MembersAssumption, StartsAssumption DEF Init
<1>1. AddPeriods(start, 1) \in 1..Latest
  <2>1. Fits(frequency, start, 1) /\ 1 \in 0..1 /\ 1 \in 1..1
    BY <1>0 DEF Fits
  <2> DEFINE d == AddPeriods(start, 1)
             s == ShortestOf(frequency)
  <2>2. Near(start)
    BY <1>0 DEF Near
  <2>3. d = PeriodsOf(frequency, start, 1)
    BY Terms
  <2>4. d \in Nat /\ d >= start + s /\ d <= start + 31
    BY <1>0, <2>2, <2>3, PeriodLater
  <2>5. s \in {7, 14, 28}
    BY <1>0 DEF ShortestOf, Frequencies
  <2>6. Latest \in Nat /\ 1 + 28 * (84 - 1) <= Latest
    <3>1. 84 \in Months
      BY DEF Months
    <3> QED BY <3>1, FirstDays, Growth DEF Latest
  <2> HIDE DEF d, s
  <2>7. d \in 1..Latest
    BY <1>0, <2>4, <2>5, <2>6
  <2> QED BY <2>7 DEF d
<1>2. Latest \in Nat
  <2>1. 84 \in Months
    BY DEF Months
  <2> QED BY <2>1, FirstDays DEF Latest
<1>3. Cardinality(Payers) \in Nat /\ Cardinality({}) = 0
  BY Payable, FS_EmptySet
<1>4. TypeOK
  <2>1. MoneyTypes
    BY <1>0 DEF Init, MoneyTypes, NotPaying
  <2>2. jobs \in [Rounds -> [date : 0..Latest, state : {"none", "delayed", "completed", "failed"}]]
    BY <1>2 DEF Init
  <2>3. nextPayout \in 1..Latest
    BY <1>1 DEF Init
  <2>4. frequency \in Frequencies /\ start \in Starts /\ clock \in 0..N /\ round \in 0..N
    BY <1>0 DEF Init
  <2>5. /\ status \in {"RECRUITING", "ACTIVE", "COMPLETED"} /\ received \subseteq Members
        /\ scheduled \in BOOLEAN
    BY DEF Init
  <2> QED BY <2>1, <2>2, <2>3, <2>4, <2>5 DEF TypeOK, MoneyTypes
<1>5. StatusInv
  BY DEF Init, StatusInv, Started
<1>6. PayoutsOnSchedule
  BY DEF Init, PayoutsOnSchedule, Started
<1>7. PayingInv
  BY <1>0 DEF Init, PayingInv, NotPaying, Rounds
<1>8. CollectedAgrees
  <2>1. Unadded = {} /\ recorded[round] = {}
    BY <1>0 DEF Init, Unadded, NotPaying
  <2>2. total = 0 /\ carried = 0
    BY DEF Init
  <2> QED BY <1>3, <2>1, <2>2 DEF CollectedAgrees, Collected, MembersContributed
<1> QED BY <1>4, <1>5, <1>6, <1>7, <1>8 DEF IInv

\* The invariant, with the clauses on the dates as the steps keep them.
Kept == TypeOK /\ StatusInv /\ DatedInv /\ PayingInv /\ CollectedAgrees

\* The calendar is left alone.
Still == UNCHANGED <<circleVars, jobVars>>

LEMMA StillKept ==
  ASSUME Kept, Still, MoneyTypes', PayingInv', CollectedAgrees'
  PROVE  Kept'
<1>1. UNCHANGED <<frequency, start, clock, status, round, received, nextPayout, jobs, scheduled>>
  BY DEF Still, circleVars, jobVars
<1>2. StatusInv' /\ DatedInv'
  BY <1>1 DEF Kept, StatusInv, DatedInv, Started
<1>3. TypeOK'
  BY <1>1 DEF Kept, TypeOK, MoneyTypes
<1> QED BY <1>2, <1>3 DEF Kept

\* It is the same invariant.
LEMMA InvKept == IInv <=> Kept
<1>1. TypeOK /\ StatusInv => (PayoutsOnSchedule <=> DatedInv)
  BY Equivalent DEF StatusInv
<1> QED BY <1>1 DEF IInv, Kept

\* The sets that CollectedAgrees counts are finite.
LEMMA Tallied ==
  ASSUME Kept
  PROVE  /\ MoneyTypes /\ round \in 0..N /\ N \in Nat
         /\ recorded[round] \in SUBSET Payers /\ Cardinality(recorded[round]) \in Nat
         /\ Unadded \in SUBSET Payers /\ Cardinality(Unadded) \in Nat
         /\ total + Cardinality(Unadded) = Cardinality(recorded[round]) + carried
         /\ \A m \in Payers : paying[m] \in [step: {"idle", "record", "add"}, round: 0..N]
<1>1. MoneyTypes /\ round \in 0..N /\ N \in Nat
  BY Fitting DEF Kept, TypeOK, MoneyTypes
<1>2. recorded[round] \in SUBSET Payers /\ Unadded \in SUBSET Payers
  BY <1>1 DEF MoneyTypes, Unadded
<1>3. Cardinality(recorded[round]) \in Nat /\ Cardinality(Unadded) \in Nat
  BY <1>2, Counts, Payable
<1>4. total + Cardinality(Unadded) = Cardinality(recorded[round]) + carried
  BY DEF Kept, CollectedAgrees, Collected, MembersContributed
<1>5. \A m \in Payers : paying[m] \in [step: {"idle", "record", "add"}, round: 0..N]
  BY <1>1 DEF MoneyTypes
<1> QED BY <1>1, <1>2, <1>3, <1>4, <1>5

\* The circle is read: nothing is counted yet.
LEMMA ReadStep ==
  ASSUME Kept, NEW m \in Payers, ReadCircle(m)
  PROVE  Kept'
<1>1. PICK c \in oldest..round :
        /\ m \notin recorded[c]
        /\ paying' = [paying EXCEPT ![m] = [step |-> "record", round |-> c]]
  BY DEF ReadCircle
<1>2. Still /\ UNCHANGED <<round, total, recorded, lost, carried, oldest>>
  BY DEF ReadCircle, Still, circleVars
<1>3. MoneyTypes /\ round \in 0..N /\ oldest \in 0..N /\ N \in Nat
  BY Tallied DEF MoneyTypes
<1>4. c \in 0..N /\ c <= round
  BY <1>3
<1>5. /\ paying'[m].step = "record" /\ paying'[m].round = c
      /\ \A q \in Payers \ {m} : paying'[q] = paying[q]
      /\ paying' \in [Payers -> [step: {"idle", "record", "add"}, round: 0..N]]
  BY <1>1, <1>3, <1>4 DEF MoneyTypes
<1>6. MoneyTypes'
  BY <1>2, <1>3, <1>5 DEF MoneyTypes
<1>7. PayingInv'
  BY <1>1, <1>2, <1>4, <1>5 DEF Kept, PayingInv
<1>8. CollectedAgrees'
  <2>1. paying[m].step = "idle"
    BY DEF ReadCircle
  <2>2. Unadded' = Unadded
    BY <1>2, <1>5, <2>1 DEF Unadded
  <2> QED BY <1>2, <2>2 DEF Kept, CollectedAgrees, Collected, MembersContributed
<1> QED BY <1>2, <1>6, <1>7, <1>8, StillKept

\* A contribution that is recorded is not in the total yet, unless its round has passed.
LEMMA CreateStep ==
  ASSUME Kept, NEW m \in Payers, CreateTransaction(m)
  PROVE  Kept'
<1> DEFINE c == paying[m].round
<1>1. /\ paying[m].step = "record"
      /\ recorded' = [recorded EXCEPT ![c] = @ \cup {m}]
      /\ paying' = [paying EXCEPT ![m].step = "add"]
      /\ Still /\ UNCHANGED <<round, total, lost, carried, oldest>>
  BY DEF CreateTransaction, Still, circleVars
<1>2. /\ MoneyTypes /\ round \in 0..N /\ N \in Nat /\ c \in 0..N
      /\ total \in Nat /\ carried \in Nat
  BY Tallied DEF MoneyTypes
<1>3. c <= round /\ m \notin recorded[c]
  BY <1>1 DEF Kept, PayingInv
<1>4. /\ paying'[m] = [step |-> "add", round |-> c]
      /\ \A q \in Payers \ {m} : paying'[q] = paying[q]
      /\ paying' \in [Payers -> [step: {"idle", "record", "add"}, round: 0..N]]
  BY <1>1, <1>2 DEF MoneyTypes
<1>5. /\ recorded'[c] = recorded[c] \cup {m}
      /\ \A r \in (0..N) \ {c} : recorded'[r] = recorded[r]
      /\ recorded' \in [0..N -> SUBSET Payers]
  BY <1>1, <1>2 DEF MoneyTypes
<1> HIDE DEF c
<1>6. MoneyTypes'
  BY <1>1, <1>2, <1>4, <1>5 DEF MoneyTypes
<1>7. PayingInv'
  <2>1. \A r \in Rounds : r > round => recorded'[r] = {}
    <3>1. \A r \in Rounds : r > round => r \in (0..N) \ {c} /\ recorded[r] = {}
      BY <1>2, <1>3 DEF Kept, PayingInv, Rounds
    <3> QED BY <1>5, <3>1
  <2>2. ASSUME NEW q \in Payers
        PROVE  /\ paying'[q].round <= round
               /\ paying'[q].step = "record" => q \notin recorded'[paying'[q].round]
               /\ paying'[q].step = "add" => q \in recorded'[paying'[q].round]
    <3>1. CASE q = m
      BY <1>3, <1>4, <1>5, <3>1
    <3>2. CASE q # m
      <4>1. paying'[q] = paying[q] /\ paying[q].round \in 0..N
        BY <1>4, <3>2, Tallied
      <4>2. q \in recorded'[paying[q].round] <=> q \in recorded[paying[q].round]
        BY <1>5, <3>2, <4>1
      <4> QED BY <4>1, <4>2 DEF Kept, PayingInv
    <3> QED BY <3>1, <3>2
  <2>3. recorded[round] \subseteq recorded'[round]
    BY <1>2, <1>5
  <2>4. \A q \in lost : q \in Payers /\ ~(paying'[q].step = "add" /\ paying'[q].round = round)
    <3>1. ASSUME NEW q \in lost PROVE q \in Payers /\ ~(paying'[q].step = "add" /\ paying'[q].round = round)
      <4>1. q \in Payers /\ q \in recorded[round]
        BY <1>2 DEF Kept, PayingInv, MoneyTypes
      <4>2. CASE q = m
        BY <1>3, <1>4, <4>1, <4>2
      <4>3. CASE q # m
        BY <1>4, <4>1, <4>3 DEF Kept, PayingInv
      <4> QED BY <4>1, <4>2, <4>3
    <3> QED BY <3>1
  <2>5. lost \subseteq recorded[round] /\ oldest <= round
    BY DEF Kept, PayingInv
  <2> QED BY <1>1, <2>1, <2>2, <2>3, <2>4, <2>5 DEF PayingInv
<1>8. CollectedAgrees'
  <2>1. CASE c = round
    <3>1. m \notin lost
      BY <1>3, <2>1 DEF Kept, PayingInv
    <3>2. Unadded' = Unadded \cup {m} /\ m \notin Unadded
      BY <1>1, <1>4, <2>1, <3>1 DEF Unadded
    <3>3. recorded'[round] = recorded[round] \cup {m} /\ m \notin recorded[round]
      BY <1>3, <1>5, <2>1
    <3>4. /\ Cardinality(Unadded') = Cardinality(Unadded) + 1
          /\ Cardinality(recorded'[round]) = Cardinality(recorded[round]) + 1
      BY <3>2, <3>3, Tallied, Counts
    <3> QED BY <1>1, <1>2, <3>4, Tallied DEF CollectedAgrees, Collected, MembersContributed
  <2>2. CASE c # round
    <3>1. Unadded' = Unadded
      BY <1>1, <1>4, <2>2 DEF Unadded
    <3>2. recorded'[round] = recorded[round]
      BY <1>2, <1>5, <2>2
    <3> QED BY <1>1, <3>1, <3>2 DEF Kept, CollectedAgrees, Collected, MembersContributed
  <2> QED BY <2>1, <2>2
<1> QED BY <1>1, <1>6, <1>7, <1>8, StillKept

\* A request that ends leaves the records as they are.
LEMMA EndedStep ==
  ASSUME Kept, NEW m \in Payers, Still, paying' = [paying EXCEPT ![m] = NotPaying],
         total' \in Nat, carried' \in Nat, lost' \subseteq recorded[round],
         lost' \subseteq lost \cup {m}, UNCHANGED <<recorded, oldest>>
  PROVE  /\ MoneyTypes' /\ PayingInv' /\ round' = round
         /\ \A q \in Payers \ {m} : paying'[q] = paying[q]
         /\ paying'[m].step = "idle"
<1>1. round' = round /\ MoneyTypes /\ round \in 0..N /\ N \in Nat /\ recorded[round] \in SUBSET Payers
  BY Tallied DEF Still, circleVars
<1>2. /\ paying'[m].step = "idle" /\ paying'[m].round = 0
      /\ \A q \in Payers \ {m} : paying'[q] = paying[q]
      /\ paying' \in [Payers -> [step: {"idle", "record", "add"}, round: 0..N]]
  BY <1>1 DEF MoneyTypes, NotPaying
<1>3. MoneyTypes'
  BY <1>1, <1>2 DEF MoneyTypes
<1>4. PayingInv'
  <2>1. \A q \in Payers :
          /\ paying'[q].round <= round
          /\ paying'[q].step = "record" => q \notin recorded[paying'[q].round]
          /\ paying'[q].step = "add" => q \in recorded[paying'[q].round]
    BY <1>1, <1>2 DEF Kept, PayingInv
  <2>2. \A q \in lost' : ~(paying'[q].step = "add" /\ paying'[q].round = round)
    <3>1. ASSUME NEW q \in lost' PROVE ~(paying'[q].step = "add" /\ paying'[q].round = round)
      <4>1. CASE q = m
        BY <1>2, <4>1
      <4>2. CASE q # m
        BY <1>1, <1>2, <4>2 DEF Kept, PayingInv, MoneyTypes
      <4> QED BY <4>1, <4>2
    <3> QED BY <3>1
  <2>3. oldest <= round /\ \A r \in Rounds : r > round => recorded[r] = {}
    BY DEF Kept, PayingInv
  <2> QED BY <1>1, <2>1, <2>2, <2>3 DEF PayingInv
<1> QED BY <1>1, <1>2, <1>3, <1>4

\* The total catches up with what was recorded, or carries what a passed round left.
LEMMA IncrementStep ==
  ASSUME Kept, NEW m \in Payers, IncrementTotal(m)
  PROVE  Kept'
<1>1. /\ paying[m].step = "add" /\ total' = total + 1
      /\ paying' = [paying EXCEPT ![m] = NotPaying]
      /\ Still /\ UNCHANGED <<round, recorded, lost, oldest>>
      /\ carried' = IF paying[m].round = round THEN carried ELSE carried + 1
  BY DEF IncrementTotal, Still, circleVars
<1>2. total \in Nat /\ carried \in Nat
  BY Tallied DEF MoneyTypes
<1>3. /\ MoneyTypes' /\ PayingInv'
      /\ \A q \in Payers \ {m} : paying'[q] = paying[q]
      /\ paying'[m].step = "idle"
  <2>1. lost' \subseteq recorded[round] /\ lost' \subseteq lost \cup {m}
    BY <1>1 DEF Kept, PayingInv
  <2>2. total' \in Nat /\ carried' \in Nat
    BY <1>1, <1>2
  <2> QED BY <1>1, <2>1, <2>2, EndedStep
<1>4. CollectedAgrees'
  <2>1. CASE paying[m].round = round
    <3>1. m \notin lost
      BY <1>1, <2>1 DEF Kept, PayingInv
    <3>2. paying[m] = [step |-> "add", round |-> round]
      BY <1>1, <2>1, Tallied
    <3>3. Unadded = Unadded' \cup {m} /\ m \notin Unadded' /\ Unadded' \in SUBSET Payers
      BY <1>1, <1>3, <3>1, <3>2, Tallied DEF Unadded, MoneyTypes
    <3>4. Cardinality(Unadded) = Cardinality(Unadded') + 1 /\ Cardinality(Unadded') \in Nat
      BY <3>3, Counts, Payable
    <3>5. carried' = carried
      BY <1>1, <2>1
    <3> QED BY <1>1, <1>2, <3>4, <3>5, Tallied DEF CollectedAgrees, Collected, MembersContributed
  <2>2. CASE paying[m].round # round
    <3>1. Unadded' = Unadded
      BY <1>1, <1>3, <2>2 DEF Unadded
    <3>2. carried' = carried + 1
      BY <1>1, <2>2
    <3> QED BY <1>1, <1>2, <3>1, <3>2, Tallied DEF CollectedAgrees, Collected, MembersContributed
  <2> QED BY <2>1, <2>2
<1> QED BY <1>1, <1>3, <1>4, StillKept

\* What was recorded and is not in the total now will never be.
LEMMA FailsStep ==
  ASSUME Kept, NEW m \in Payers, ContributionFails(m)
  PROVE  Kept'
<1> DEFINE late == paying[m] = [step |-> "add", round |-> round]
<1>1. /\ lost' = IF late THEN lost \cup {m} ELSE lost
      /\ paying' = [paying EXCEPT ![m] = NotPaying]
      /\ Still /\ UNCHANGED <<round, total, recorded, carried, oldest>>
  BY DEF ContributionFails, Still, circleVars
<1>2. total \in Nat /\ carried \in Nat
  BY Tallied DEF MoneyTypes
<1>3. /\ MoneyTypes' /\ PayingInv'
      /\ \A q \in Payers \ {m} : paying'[q] = paying[q]
      /\ paying'[m].step = "idle"
  <2>1. lost' \subseteq recorded[round] /\ lost' \subseteq lost \cup {m}
    BY <1>1 DEF Kept, PayingInv
  <2>2. total' \in Nat /\ carried' \in Nat
    BY <1>1, <1>2
  <2> QED BY <1>1, <2>1, <2>2, EndedStep
<1>4. CollectedAgrees'
  <2>1. Unadded' = Unadded
    BY <1>1, <1>3 DEF Unadded
  <2> QED BY <1>1, <2>1 DEF Kept, CollectedAgrees, Collected, MembersContributed
<1> QED BY <1>1, <1>3, <1>4, StillKept

\* A round that begins has no contribution yet, and no request that read it.
LEMMA NewRound ==
  ASSUME Kept, round' = round + 1, round' \in 0..N, UNCHANGED <<recorded, paying, oldest>>,
         lost' = {}, total' \in Nat, carried' = total'
  PROVE  MoneyTypes' /\ PayingInv' /\ CollectedAgrees'
<1>1. /\ MoneyTypes /\ round \in 0..N /\ N \in Nat /\ oldest \in 0..N
      /\ \A m \in Payers : paying[m].round \in 0..N /\ paying[m].round <= round
  BY Tallied DEF Kept, PayingInv, MoneyTypes
<1>2. MoneyTypes'
  BY <1>1 DEF MoneyTypes
<1>3. PayingInv'
  <2>1. oldest <= round' /\ \A r \in Rounds : r > round' => r > round
    BY <1>1 DEF Kept, PayingInv, Rounds
  <2>2. \A m \in Payers : paying[m].round <= round'
    BY <1>1
  <2> QED BY <1>1, <2>1, <2>2 DEF Kept, PayingInv
<1>4. CollectedAgrees'
  <2>1. round' \in Rounds /\ round' > round
    BY <1>1 DEF Rounds
  <2>2. recorded'[round'] = {}
    BY <2>1 DEF Kept, PayingInv
  <2>3. Unadded' = {}
    BY <1>1 DEF Unadded
  <2>4. Cardinality({}) = 0
    BY FS_EmptySet
  <2> QED BY <2>2, <2>3, <2>4 DEF CollectedAgrees, Collected, MembersContributed
<1> QED BY <1>2, <1>3, <1>4

\* The start moves the dates, but there is no job yet; what was contributed before is
\* carried into the first round.
LEMMA StartStep ==
  ASSUME Kept, StartCircle
  PROVE  Kept'
<1> USE DEF Kept
<1>0. N \in Nat /\ 2 <= N /\ total \in Nat
  BY Fitting, Tallied DEF MoneyTypes
<1>1. /\ status' = "ACTIVE" /\ round' = 1 /\ start' \in Starts
      /\ carried' = total /\ lost' = {}
      /\ UNCHANGED <<frequency, clock, received, nextPayout, total, recorded, paying,
                     oldest, jobs, scheduled>>
  BY DEF StartCircle, jobVars
<1>2. round = 0 /\ ~scheduled /\ \A r \in Rounds : jobs[r].state = "none"
  BY DEF StartCircle, StatusInv
<1>3. MoneyTypes' /\ PayingInv' /\ CollectedAgrees'
  <2>1. round' = round + 1 /\ round' \in 0..N /\ carried' = total' /\ total' \in Nat
    BY <1>0, <1>1, <1>2
  <2> QED BY <1>1, <2>1, NewRound
<1>4. TypeOK'
  <2>1. round' \in 0..N
    BY <1>0, <1>1
  <2> QED BY <1>1, <1>3, <2>1 DEF TypeOK, MoneyTypes
<1>5. StatusInv' /\ DatedInv'
  BY <1>1, <1>2 DEF StatusInv, DatedInv, Started
<1> QED BY <1>3, <1>4, <1>5

\* A job that is added late is due today, with the date of a round that has passed
\* since its own.
LEMMA ScheduleStep ==
  ASSUME Kept, SchedulePayouts
  PROVE  Kept'
<1> USE DEF Kept
<1> DEFINE D(i) == Date(frequency, start, i)
<1>0. N \in Nat /\ 2 <= N /\ Rounds = 1..N /\ clock \in 0..N /\ Rounds \subseteq 0..N
  BY Fitting DEF Rounds, TypeOK
<1>1. /\ status = "ACTIVE"
      /\ UNCHANGED <<frequency, start, clock, status, round, received, moneyVars, oldest>>
  BY DEF SchedulePayouts
<1>2. /\ CalculateAllPayoutDates = [r \in Rounds |-> D(r)] /\ Today = D(clock)
  BY Meaning
<1>3. \A r \in 0..N : D(r) \in 1..Latest /\ \A q \in r..N : D(q) >= D(r)
  BY Calendar
<1>4. PICK added \in SUBSET {r \in Rounds : jobs[r].state = "none"} :
        jobs' = [r \in Rounds |->
          IF r \in added THEN [date |-> Max({D(clock), D(r)}), state |-> "delayed"] ELSE jobs[r]]
  <2> HIDE DEF D
  <2> QED BY <1>2 DEF SchedulePayouts
<1>5. \/ nextPayout' = D(1) /\ scheduled' = TRUE
      \/ UNCHANGED <<nextPayout, scheduled>>
  <2>1. 1 \in Rounds
    BY <1>0
  <2> HIDE DEF D
  <2> QED BY <1>2, <2>1 DEF SchedulePayouts
<1> HIDE DEF D
<1>6. ASSUME NEW r \in Rounds PROVE \E q \in r..N : Max({D(clock), D(r)}) = D(q)
  <2>1. D(clock) \in Int /\ D(r) \in Int /\ r \in 0..N
    BY <1>0, <1>3
  <2>2. Max({D(clock), D(r)}) = IF D(clock) >= D(r) THEN D(clock) ELSE D(r)
    BY <2>1, Greater
  <2>3. r \in r..N /\ (clock >= r => clock \in r..N)
    BY <1>0
  <2>4. clock <= r => D(r) >= D(clock)
    <3>1. clock <= r => r \in clock..N
      BY <1>0
    <3> QED BY <1>0, <1>3, <3>1
  <2>5. CASE D(clock) >= D(r) /\ clock >= r
    BY <2>2, <2>3, <2>5
  <2>6. CASE D(clock) >= D(r) /\ ~(clock >= r)
    <3>1. D(clock) = D(r)
      BY <1>0, <2>1, <2>4, <2>6
    <3> QED BY <2>2, <2>3, <3>1
  <2>7. CASE ~(D(clock) >= D(r))
    BY <2>2, <2>3, <2>7
  <2> QED BY <2>5, <2>6, <2>7
<1>7. \A r \in Rounds : jobs'[r].state # "none" => \E q \in r..N : jobs'[r].date = D(q)
  <2>1. \A r \in Rounds : jobs[r].state # "none" => \E q \in r..N : jobs[r].date = D(q)
    BY <1>1 DEF DatedInv, Started, D
  <2>2. ASSUME NEW r \in Rounds, jobs'[r].state # "none"
        PROVE  \E q \in r..N : jobs'[r].date = D(q)
    <3>1. CASE r \in added
      <4>1. jobs'[r].date = Max({D(clock), D(r)})
        BY <1>4, <3>1
      <4> QED BY <1>6, <4>1
    <3>2. CASE r \notin added
      <4>1. jobs'[r] = jobs[r]
        BY <1>4, <3>2
      <4> QED BY <2>1, <2>2, <4>1
    <3> QED BY <3>1, <3>2
  <2> QED BY <2>2
<1>8. frequency' = frequency /\ start' = start
  BY <1>1
<1>9. DatedInv'
  <2>1. scheduled' => nextPayout' = D(1)
    BY <1>1, <1>5 DEF DatedInv, Started, D
  <2> QED BY <1>7, <1>8, <2>1 DEF DatedInv, D
<1>10. StatusInv' /\ PayingInv' /\ CollectedAgrees'
  BY <1>1 DEF StatusInv, PayingInv, CollectedAgrees, Collected, MembersContributed, Unadded,
              Started, moneyVars
<1>11. TypeOK'
  <2>1. jobs' \in [Rounds -> [date : 0..Latest, state : {"none", "delayed", "completed", "failed"}]]
    <3>1. \A r \in Rounds : Max({D(clock), D(r)}) \in 0..Latest
      <4>1. ASSUME NEW r \in Rounds PROVE Max({D(clock), D(r)}) \in 0..Latest
        <5>1. PICK q \in r..N : Max({D(clock), D(r)}) = D(q)
          BY <1>6
        <5>2. q \in 0..N
          BY <1>0
        <5> QED BY <1>3, <5>1, <5>2
      <4> QED BY <4>1
    <3>2. \A r \in Rounds : jobs[r] \in [date : 0..Latest, state : {"none", "delayed", "completed", "failed"}]
      BY DEF TypeOK
    <3> QED BY <1>4, <3>1, <3>2
  <2>2. nextPayout' \in 1..Latest /\ scheduled' \in BOOLEAN
    <3>1. 1 \in 0..N
      BY <1>0
    <3> QED BY <1>3, <1>5, <3>1 DEF TypeOK
  <2> QED BY <1>1, <2>1, <2>2 DEF TypeOK, moneyVars
<1> QED BY <1>9, <1>10, <1>11

\* No payout of round 1 goes through, because the circle is in round 1 from its start:
\* its member stays the next recipient, and every round after is counted afresh.
LEMMA PayoutStep ==
  ASSUME Kept, NEW r \in Rounds, RunPayout(r)
  PROVE  Kept'
<1> USE DEF Kept
<1>0. N \in Nat /\ 2 <= N /\ Rounds = 1..N /\ Members = 1..N /\ r \in 1..N
  BY Fitting DEF Rounds, Members
<1>1. /\ jobs[r].state = "delayed"
      /\ UNCHANGED <<frequency, start, clock, nextPayout, recorded, paying, oldest, scheduled>>
  BY DEF RunPayout
<1>2. Started /\ round \in 1..N
  BY <1>1, <1>0 DEF StatusInv, TypeOK, Started
<1>3. PICK s \in {"completed", "failed"} : jobs' = [jobs EXCEPT ![r].state = s]
  BY DEF RunPayout
<1>4. /\ jobs' \in [Rounds -> [date : 0..Latest, state : {"none", "delayed", "completed", "failed"}]]
      /\ \A q \in Rounds : jobs'[q].date = jobs[q].date
      /\ \A q \in Rounds : jobs'[q].state # "none" => jobs[q].state # "none"
  <2> DEFINE S == {"none", "delayed", "completed", "failed"}
  <2>1. jobs \in [Rounds -> [date : 0..Latest, state : S]] /\ s \in S
    BY DEF TypeOK
  <2>2. jobs[r].state # "none"
    BY <1>1
  <2> HIDE DEF S
  <2>3. jobs' \in [Rounds -> [date : 0..Latest, state : S]]
    BY <1>3, <2>1
  <2>4. \A q \in Rounds : jobs'[q].date = jobs[q].date
    BY <1>3, <2>1
  <2>5. \A q \in Rounds : jobs'[q].state # "none" => jobs[q].state # "none"
    BY <1>3, <2>1, <2>2
  <2> QED BY <2>3, <2>4, <2>5 DEF S
<1>5. DatedInv'
  BY <1>1, <1>2, <1>4 DEF DatedInv
<1>6. CASE UNCHANGED <<status, round, received, total, carried, lost>>
  <2>1. PayingInv' /\ CollectedAgrees' /\ TypeOK'
    BY <1>1, <1>4, <1>6 DEF PayingInv, CollectedAgrees, Collected, MembersContributed, Unadded, TypeOK
  <2>2. StatusInv'
    BY <1>2, <1>6 DEF StatusInv, Started
  <2> QED BY <1>5, <2>1, <2>2
<1>7. CASE /\ round < r /\ received' = received \cup {r} /\ AdvanceRound
           /\ status' = IF received' = Members THEN "COMPLETED" ELSE status
  <2>1. round' = round + 1 /\ total' = 0 /\ carried' = 0 /\ lost' = {}
    BY <1>7 DEF AdvanceRound
  <2>2. round' \in 2..N /\ r # 1
    BY <1>0, <1>2, <1>7, <2>1
  <2>3. status' \in {"ACTIVE", "COMPLETED"}
    BY <1>2, <1>7 DEF Started, TypeOK
  <2>4. StatusInv'
    BY <1>7, <2>2, <2>3 DEF StatusInv, Started
  <2>5. MoneyTypes' /\ PayingInv' /\ CollectedAgrees'
    <3>1. round' \in 0..N /\ total' \in Nat /\ carried' = total'
      BY <1>0, <2>1, <2>2
    <3> QED BY <1>1, <2>1, <3>1, NewRound
  <2>6. TypeOK'
    <3>1. round' \in 0..N /\ received' \subseteq Members
      BY <1>0, <1>7, <2>2 DEF TypeOK
    <3> QED BY <1>1, <1>4, <2>3, <2>5, <3>1 DEF TypeOK, MoneyTypes
  <2> QED BY <1>5, <2>4, <2>5, <2>6
<1> QED BY <1>6, <1>7 DEF RunPayout

\* Time moves nothing but the clock, and old copies of the circle go out of use.
LEMMA PassStep ==
  ASSUME Kept, Pass
  PROVE  Kept'
<1> USE DEF Kept
<1>1. /\ clock' = clock + 1 /\ clock < N /\ oldest' = round
      /\ UNCHANGED <<frequency, start, status, round, received, nextPayout, moneyVars, jobs,
                     scheduled>>
  BY DEF Pass, jobVars
<1>2. clock' \in 0..N /\ round \in 0..N /\ N \in Nat
  BY <1>1, Fitting DEF TypeOK
<1>3. TypeOK' /\ StatusInv'
  BY <1>1, <1>2 DEF TypeOK, StatusInv, Started, moneyVars
<1>4. DatedInv'
  BY <1>1 DEF DatedInv, Started
<1>5. PayingInv' /\ CollectedAgrees'
  BY <1>1, <1>2 DEF PayingInv, CollectedAgrees, Collected, MembersContributed, Unadded, moneyVars
<1> QED BY <1>3, <1>4, <1>5

\* Every step keeps the invariant.
LEMMA StepInv == IInv /\ [Next]_vars => IInv'
<1> SUFFICES ASSUME Kept, [Next]_vars PROVE Kept'
  <2>1. IInv <=> Kept
    BY InvKept
  <2>2. IInv' <=> Kept'
    BY InvKept, PTL
  <2> QED BY <2>1, <2>2
<1>1. CASE \E m \in Payers : Contribute(m)
  BY <1>1, ReadStep, CreateStep, IncrementStep, FailsStep DEF Contribute
<1>2. CASE StartCircle
  BY <1>2, StartStep
<1>3. CASE SchedulePayouts
  BY <1>3, ScheduleStep
<1>4. CASE \E r \in Rounds : RunPayout(r)
  BY <1>4, PayoutStep
<1>5. CASE Pass
  BY <1>5, PassStep
<1>6. CASE UNCHANGED vars
  BY <1>6 DEF vars, circleVars, moneyVars, jobVars, Kept, TypeOK, StatusInv, DatedInv,
              PayingInv, CollectedAgrees, Collected, MembersContributed, Unadded, Started
<1> QED BY <1>1, <1>2, <1>3, <1>4, <1>5, <1>6 DEF Next

\* The types and the inductive invariant of the calendar hold in every state the
\* requests of CircleService, the scheduler and the payout jobs lead to.
THEOREM Invariance == Spec => []IInv
  BY InitInv, StepInv, PTL DEF Spec

\* scheduleCirclePayouts gives every payout job a date that getPayoutSchedule shows,
\* its own or that of a later round, a period apart; and nextPayoutDate is the date of
\* the first member, for a circle of any size, start and frequency.
THEOREM OnSchedule == Spec => []PayoutsOnSchedule
<1>1. IInv => PayoutsOnSchedule
  BY DEF IInv
<1> QED BY <1>1, Invariance, PTL

\* calculateContributionDeadline counts the periods from the start in one go and the
\* scheduler one after the other, and yet they are three days apart at most, so that
\* no deadline comes before the payout of the round before.
THEOREM DeadlinesFit == Spec => []DeadlineFitsPayout
<1>1. IInv => DeadlineFitsPayout
  BY Deadlines DEF IInv
<1> QED BY <1>1, Invariance, PTL

\* The total that getCircleDashboard shows and the contributions of the round that it
\* counts differ by no more than what was carried into the round, from before the start
\* or by requests that payouts had overtaken, and what is recorded and was not added.
THEOREM CountsAgree == Spec => []CollectedAgrees
<1>1. IInv => CollectedAgrees
  BY DEF IInv
<1> QED BY <1>1, Invariance, PTL
=============================================================================
