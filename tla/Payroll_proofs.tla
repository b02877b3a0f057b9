---------------------------- MODULE Payroll_proofs ----------------------------
(* Payments and deductions, for any number of months, advances and handlers. *)
EXTENDS Payroll, FiniteSums_proofs

SalaryOK(x) ==
  /\ x.status = "none" => x.times = 0
  /\ x.times > 0 => x.status # "pending" \/ x.reopened
  /\ x.times > 1 => x.reopened

AdvanceOK(x) ==
  /\ x.repaid <= x.amount /\ (x.status = "none" => x.repaid = 0)
  /\ x.status = "none" \/ x.byHand \/ x.restated \/ x.status = RepaidStatus(x.repaid, x.amount)

(* What a handler remembers.                                                 *)
JobType ==
  {Idle}
    \cup [at: {"sum"}, of: Salaries, manual: Nat, open: Nat]
    \cup [at: {"read"}, of: Advances, wish: Wishes, was: AdvanceType]
    \cup [at: {"sync"}, of: Advances, delta: Int]

SalariesInv == salary \in [Salaries -> {x \in SalaryType : SalaryOK(x)}]
AdvancesInv == advance \in [Advances -> {x \in AdvanceType : AdvanceOK(x)}]
JobsInv == job \in [Jobs -> JobType]
TakenInv == taken \in [Salaries -> [Advances -> Nat]]

Deducted(a) == Sum([s \in Salaries |-> taken[s][a]], Salaries)

Inv == SalariesInv /\ AdvancesInv /\ JobsInv /\ TakenInv /\ RepaymentsAreDeductions

-----------------------------------------------------------------------------
(* Small facts.                                                              *)
LEMMA AdvancesFinite ==
  /\ IsFiniteSet(Advances) /\ Advances \in SUBSET Nat
  /\ \A n \in Nat : IsFiniteSet(1 .. n)
<1>1. \A n \in Nat : IsFiniteSet(1 .. n)
  BY FS_Interval
<1> QED BY <1>1, PayrollAssumption DEF Advances

LEMMA FloorType == \A n \in Int : Floor(n) \in Nat /\ Floor(n) >= n
BY DEF Floor

LEMMA LeastType ==
  \A m, n \in Nat : Least(m, n) \in Nat /\ Least(m, n) <= m /\ Least(m, n) <= n
BY DEF Least

LEMMA OpenType ==
  ASSUME AdvancesInv, NEW a \in Advances
  PROVE  /\ Open(a) \in Nat /\ advance[a] \in AdvanceType /\ AdvanceOK(advance[a])
         /\ Open(a) # 0 => /\ Open(a) = advance[a].amount - advance[a].repaid
                           /\ advance[a].status # "none"
<1>1. advance[a] \in AdvanceType /\ AdvanceOK(advance[a])
  BY DEF AdvancesInv
<1>2. advance[a].amount \in Nat /\ advance[a].repaid \in Nat
      /\ advance[a].repaid <= advance[a].amount
  BY <1>1 DEF AdvanceType, AdvanceOK
<1> QED BY <1>1, <1>2 DEF Open, Outstanding

LEMMA OpenBalanceType == ASSUME AdvancesInv PROVE OpenBalance \in Nat
<1>1. \A a \in Advances : [b \in Advances |-> Open(b)][a] \in Nat
  BY OpenType
<1> QED BY <1>1, AdvancesFinite, SumNat DEF OpenBalance

LEMMA CapacityType ==
  ASSUME SalariesInv, NEW s \in Salaries
  PROVE  /\ Capacity(s) \in Nat /\ Capacity(s) <= Floor(Gross - salary[s].manual)
         /\ salary[s].manual \in Nat /\ salary[s].advance \in Nat /\ Gross \in Nat
<1>1. salary[s].manual \in Nat /\ salary[s].advance \in Nat /\ Gross \in Nat
  BY PayrollAssumption DEF SalariesInv, SalaryType
<1> QED BY <1>1, FloorType DEF Capacity

(* Summing up to n, one advance after the other.                             *)
LEMMA SumUpTo ==
  ASSUME NEW f, NEW n \in Nat \ {0}, \A a \in 1 .. n : f[a] \in Nat
  PROVE  /\ Sum(f, 1 .. n) = f[n] + Sum(f, 1 .. n - 1)
         /\ Sum(f, 1 .. n) \in Nat /\ Sum(f, 1 .. n - 1) \in Nat
<1>1. /\ IsFiniteSet(1 .. n) /\ IsFiniteSet(1 .. n - 1)
      /\ (1 .. n) \ {n} = 1 .. n - 1 /\ n \in 1 .. n /\ 1 .. n - 1 \subseteq 1 .. n
  BY AdvancesFinite
<1>2. \A a \in 1 .. n : f[a] \in Int
  OBVIOUS
<1>3. Sum(f, 1 .. n) = f[n] + Sum(f, (1 .. n) \ {n})
  BY <1>1, <1>2, SumRemove
<1>4. \A a \in 1 .. n - 1 : f[a] \in Nat
  BY <1>1
<1>5. Sum(f, 1 .. n) \in Nat /\ Sum(f, 1 .. n - 1) \in Nat
  BY <1>1, <1>4, SumNat
<1> QED BY <1>1, <1>3, <1>5

(* Taking from the oldest first never takes more than there is: with open    *)
(* amounts o, a capacity c and takings t, the takings up to n are the        *)
(* capacity or all that is open, whichever is less.                          *)
LEMMA GreedyTakings ==
  ASSUME NEW N \in Nat, NEW c \in Nat, NEW o, NEW t,
         \A a \in 1 .. N : o[a] \in Nat /\ t[a] = Least(o[a], Floor(c - Sum(o, 1 .. a - 1)))
  PROVE  Sum(t, 1 .. N) <= c
<1> DEFINE Good(n) == Sum(t, 1 .. n) = Least(c, Sum(o, 1 .. n))
           Bad == {n \in 0 .. N : ~Good(n)}
<1>1. ASSUME NEW n \in 1 .. N
      PROVE  /\ Sum(t, 1 .. n) = t[n] + Sum(t, 1 .. n - 1) /\ Sum(o, 1 .. n) = o[n] + Sum(o, 1 .. n - 1)
             /\ o[n] \in Nat /\ Sum(o, 1 .. n - 1) \in Nat /\ Sum(t, 1 .. n - 1) \in Nat
             /\ t[n] = Least(o[n], Floor(c - Sum(o, 1 .. n - 1)))
  <2>1. \A a \in 1 .. n : o[a] \in Nat
    OBVIOUS
  <2>2. \A a \in 1 .. n : a - 1 \in Nat /\ 1 .. a - 1 \subseteq 1 .. n /\ IsFiniteSet(1 .. a - 1)
    BY AdvancesFinite
  <2>3. \A a \in 1 .. n : Sum(o, 1 .. a - 1) \in Nat
    BY <2>1, <2>2, SumNat
  <2>4. \A a \in 1 .. n : t[a] \in Nat
    <3> SUFFICES ASSUME NEW a \in 1 .. n PROVE t[a] \in Nat
      OBVIOUS
    <3>1. c - Sum(o, 1 .. a - 1) \in Int
      BY <2>3
    <3> DEFINE r == Floor(c - Sum(o, 1 .. a - 1))
    <3>2. r \in Nat
      BY <3>1, FloorType
    <3>3. t[a] = Least(o[a], r) /\ o[a] \in Nat
      OBVIOUS
    <3> HIDE DEF r
    <3> QED BY <3>2, <3>3, LeastType
  <2>5. n \in Nat \ {0}
    OBVIOUS
  <2> QED BY <2>1, <2>4, <2>5, SumUpTo
<1>2. Good(0)
  <2>1. 1 .. 0 = {}
    OBVIOUS
  <2> QED BY <2>1, SumEmpty DEF Least
<1>3. ASSUME NEW n \in 1 .. N, Good(n - 1) PROVE Good(n)
  <2> DEFINE T == Sum(t, 1 .. n)
             O == Sum(o, 1 .. n)
             T0 == Sum(t, 1 .. n - 1)
             O0 == Sum(o, 1 .. n - 1)
             x == o[n]
  <2>1. /\ T = t[n] + T0 /\ O = x + O0 /\ x \in Nat /\ O0 \in Nat /\ T0 \in Nat
        /\ t[n] = Least(x, Floor(c - O0)) /\ T0 = Least(c, O0)
    BY <1>1, <1>3
  <2> HIDE DEF T, O, T0, O0, x
  <2>2. T = Least(c, O)
    BY <2>1 DEF Least, Floor
  <2> QED BY <2>2 DEF T, O
<1>4. Bad = {}
  <2> SUFFICES ASSUME Bad # {} PROVE FALSE
    OBVIOUS
  <2>1. Bad \in SUBSET Int /\ IsFiniteSet(Bad)
    <3>1. Bad \in SUBSET (0 .. N) /\ IsFiniteSet(0 .. N)
      BY FS_Interval
    <3> HIDE DEF Bad
    <3>2. IsFiniteSet(Bad)
      BY <3>1, FS_Subset
    <3>3. 0 .. N \subseteq Int
      OBVIOUS
    <3> QED BY <3>1, <3>2, <3>3
  <2> DEFINE n == Min(Bad)
  <2>2. n \in Bad /\ \A k \in Bad : n <= k
    <3> HIDE DEF Bad
    <3> QED BY <2>1, MinIsLeast
  <2> HIDE DEF n, Good
  <2>3. n \in 0 .. N /\ ~Good(n)
    BY <2>2
  <2>4. n # 0
    BY <1>2, <2>3
  <2>5. n - 1 \in 0 .. N /\ ~(n <= n - 1) /\ n \in 1 .. N
    BY <2>3, <2>4
  <2>6. Good(n - 1)
    BY <2>2, <2>5
  <2> QED BY <1>3, <2>3, <2>5, <2>6
<1>5. Good(N)
  <2> HIDE DEF Good
  <2> QED BY <1>4
<1>6. CASE N = 0
  <2>1. 1 .. N = {}
    BY <1>6
  <2> QED BY <2>1, SumEmpty
<1>7. CASE N # 0
  <2>1. Sum(o, 1 .. N) \in Nat
    <3>1. N \in 1 .. N
      BY <1>7
    <3>2. Sum(o, 1 .. N) = o[N] + Sum(o, 1 .. N - 1) /\ o[N] \in Nat /\ Sum(o, 1 .. N - 1) \in Nat
      BY <1>1, <3>1
    <3> QED BY <3>2
  <2> QED BY <1>5, <2>1, LeastType
<1> QED BY <1>6, <1>7

-----------------------------------------------------------------------------
(* A payment.                                                                *)
Takings(s) == [a \in Advances |-> Take(s, a)]

LEMMA TakingsFacts ==
  ASSUME Inv, NEW s \in Salaries
  PROVE  /\ \A a \in Advances : Takings(s)[a] \in Nat /\ Takings(s)[a] <= Open(a)
         /\ Sum(Takings(s), Advances) \in Nat /\ Sum(Takings(s), Advances) <= Capacity(s)
         /\ (\E a \in Advances : taken[s][a] > 0) => Sum(Takings(s), Advances) = 0
         /\ Sum(Takings(s), Advances) = 0 => \A a \in Advances : Takings(s)[a] = 0
<1> DEFINE t == Takings(s)
           c == Capacity(s)
           o == [b \in Advances |-> Open(b)]
<1>1. c \in Nat /\ NAdvances \in Nat
  BY CapacityType, PayrollAssumption DEF Inv
<1>2. \A a \in Advances : o[a] \in Nat /\ o[a] = Open(a)
                          /\ t[a] = Least(o[a], Floor(c - Sum(o, 1 .. a - 1)))
  BY OpenType DEF Inv, Takings, Take
<1>3. (\E a \in Advances : taken[s][a] > 0) => c = 0
  BY DEF Capacity
<1> HIDE DEF t, c, o
<1>4. Sum(t, Advances) <= c
  BY <1>1, <1>2, GreedyTakings DEF Advances
<1>5. ASSUME NEW a \in Advances PROVE t[a] \in Nat /\ t[a] <= o[a]
  <2> DEFINE r == Floor(c - Sum(o, 1 .. a - 1))
  <2>1. a \in Nat /\ 1 .. a - 1 \subseteq Advances /\ a - 1 \in Int
    BY PayrollAssumption DEF Advances
  <2>2. IsFiniteSet(1 .. a - 1)
    BY <2>1, FS_Interval
  <2>3. Sum(o, 1 .. a - 1) \in Nat
    BY <1>2, <2>1, <2>2, SumNat
  <2>4. r \in Nat
    BY <1>1, <2>3, FloorType
  <2>5. t[a] = Least(o[a], r) /\ o[a] \in Nat
    BY <1>2
  <2> HIDE DEF r
  <2> QED BY <2>4, <2>5, LeastType
<1>6. Sum(t, Advances) \in Nat
  BY <1>5, AdvancesFinite, SumNat
<1>7. ASSUME Sum(t, Advances) = 0, NEW a \in Advances PROVE t[a] = 0
  <2>1. IsFiniteSet(Advances \ {a}) /\ \A b \in Advances : t[b] \in Int
    BY <1>5, AdvancesFinite, FS_Subset
  <2>2. IsFiniteSet(Advances) /\ \A b \in Advances : t[b] \in Int
    BY <2>1, AdvancesFinite
  <2>3. Sum(t, Advances) = t[a] + Sum(t, Advances \ {a})
    BY <2>2, SumRemove
  <2>4. Sum(t, Advances \ {a}) \in Nat
    BY <1>5, <2>1, SumNat
  <2> QED BY <1>5, <1>7, <2>3, <2>4
<1> QED BY <1>1, <1>2, <1>3, <1>4, <1>5, <1>6, <1>7 DEF t, c

(* What a payment hands out, and what it takes off advances.                 *)
PaidWithin(s) ==
  salary'[s].payout + Sum([a \in Advances |-> taken'[s][a] - taken[s][a]], Advances)
    <= Floor(Gross - salary[s].manual)

LEMMA PaySalaryStep ==
  ASSUME Inv, NEW s \in Salaries, PaySalary(s)
  PROVE  /\ Inv' /\ PaidWithin(s)
         /\ \A r \in Salaries \ {s} : salary'[r] = salary[r]
<1> DEFINE t == Takings(s)
           T == Sum(t, Advances)
           m == salary[s].manual
           all == salary[s].advance + T
           x == [salary[s] EXCEPT !.status = "paid", !.advance = all, !.deductions = m + all,
                   !.times = @ + 1, !.payout = Floor(Gross - m - all)]
           y(a) == IF t[a] = 0 THEN advance[a]
                   ELSE [advance[a] EXCEPT !.repaid = @ + t[a],
                           !.status = IF t[a] = Open(a) THEN "repaid" ELSE "partially_repaid"]
<1>1. /\ salary[s].status = "pending" /\ salary' = [salary EXCEPT ![s] = x]
      /\ advance' = [a \in Advances |-> y(a)]
      /\ taken' = (IF T = 0 THEN taken ELSE [taken EXCEPT ![s] = t]) /\ job' = job
  BY DEF PaySalary, Payable, Takings
<1>2. /\ \A a \in Advances : t[a] \in Nat /\ t[a] <= Open(a)
      /\ T \in Nat /\ T <= Floor(Gross - m) /\ (T = 0 => \A a \in Advances : t[a] = 0)
      /\ T # 0 => \A a \in Advances : ~(taken[s][a] > 0)
      /\ m \in Nat /\ salary[s].advance \in Nat /\ Gross \in Nat
  <2>1. SalariesInv
    BY DEF Inv
  <2> HIDE DEF t
  <2>2. T \in Nat /\ T <= Capacity(s)
    BY TakingsFacts DEF t
  <2>3. Capacity(s) \in Nat /\ Capacity(s) <= Floor(Gross - m) /\ m \in Nat /\ Gross \in Nat
        /\ Floor(Gross - m) \in Nat
    BY <2>1, CapacityType, FloorType
  <2>4. T <= Floor(Gross - m)
    BY <2>2, <2>3
  <2> QED BY <2>1, <2>2, <2>3, <2>4, TakingsFacts, CapacityType DEF t
<1>3. salary[s] \in SalaryType /\ SalaryOK(salary[s])
  BY DEF Inv, SalariesInv
<1> HIDE DEF t, T
<1>4. x \in SalaryType /\ SalaryOK(x) /\ x.payout = Floor(Gross - m - all)
  <2>1. all \in Nat /\ m + all \in Nat /\ Floor(Gross - m - all) \in Nat
    BY <1>2, FloorType
  <2>2. salary[s].times + 1 \in Nat
    BY <1>3 DEF SalaryType
  <2> HIDE DEF all, m
  <2>3. x \in SalaryType /\ x.status = "paid" /\ x.times = salary[s].times + 1
        /\ x.reopened = salary[s].reopened /\ x.payout = Floor(Gross - m - all)
    BY <1>3, <2>1, <2>2 DEF SalaryType
  <2> HIDE DEF x
  <2>4. SalaryOK(x)
    <3>1. salary[s].times \in Nat /\ (salary[s].times > 0 => salary[s].reopened)
      BY <1>1, <1>3 DEF SalaryType, SalaryOK
    <3> QED BY <2>3, <3>1 DEF SalaryOK
  <2> QED BY <2>3, <2>4
<1>5. \A a \in Advances :
        /\ y(a) \in AdvanceType /\ AdvanceOK(y(a)) /\ y(a).byHand = advance[a].byHand
        /\ y(a).repaid = advance[a].repaid + t[a]
  <2> SUFFICES ASSUME NEW a \in Advances
      PROVE  /\ y(a) \in AdvanceType /\ AdvanceOK(y(a)) /\ y(a).byHand = advance[a].byHand
             /\ y(a).repaid = advance[a].repaid + t[a]
    OBVIOUS
  <2>1. /\ advance[a] \in AdvanceType /\ AdvanceOK(advance[a]) /\ Open(a) \in Nat
        /\ Open(a) # 0 => Open(a) = advance[a].amount - advance[a].repaid /\ advance[a].status # "none"
    BY OpenType DEF Inv
  <2>2. advance[a].repaid \in Nat /\ advance[a].amount \in Nat
    BY <2>1 DEF AdvanceType, AdvanceStatuses
  <2>3. CASE t[a] = 0
    BY <2>1, <2>2, <2>3
  <2>4. CASE t[a] # 0
    <3> DEFINE rep == advance[a].repaid + t[a]
               st == IF t[a] = Open(a) THEN "repaid" ELSE "partially_repaid"
               z == [advance[a] EXCEPT !.repaid = rep, !.status = st]
    <3>1. y(a) = z
      BY <2>4
    <3>2. /\ t[a] \in Nat /\ t[a] <= Open(a) /\ Open(a) = advance[a].amount - advance[a].repaid
          /\ t[a] > 0
      BY <1>2, <2>1, <2>4
    <3>3. rep \in Nat /\ rep > 0 /\ rep <= advance[a].amount
          /\ (t[a] = Open(a) <=> rep >= advance[a].amount)
      BY <2>2, <3>2
    <3>4. st = RepaidStatus(rep, advance[a].amount) /\ st \in {"repaid", "partially_repaid"}
      <4> HIDE DEF rep
      <4> QED BY <3>3 DEF RepaidStatus
    <3> HIDE DEF rep, st, y
    <3>5. /\ z \in AdvanceType /\ z.repaid = rep /\ z.status = st /\ z.amount = advance[a].amount
          /\ z.byHand = advance[a].byHand
      BY <2>1, <3>3, <3>4 DEF AdvanceType, AdvanceStatuses
    <3> HIDE DEF z
    <3>6. AdvanceOK(z)
      BY <3>3, <3>4, <3>5 DEF AdvanceOK
    <3> QED BY <3>1, <3>5, <3>6 DEF rep
  <2> QED BY <2>3, <2>4
<1> HIDE DEF x, y
<1>6. SalariesInv' /\ \A r \in Salaries \ {s} : salary'[r] = salary[r]
  BY <1>1, <1>4 DEF Inv, SalariesInv
<1>7. AdvancesInv'
  BY <1>1, <1>5 DEF AdvancesInv
<1>8. TakenInv'
  <2>1. CASE T = 0
    BY <1>1, <2>1 DEF Inv, TakenInv
  <2>2. CASE T # 0
    <3>1. t \in [Advances -> Nat]
      <4>1. t = [a \in Advances |-> t[a]]
        BY DEF t, Takings
      <4> QED BY <1>2, <4>1
    <3> QED BY <1>1, <2>2, <3>1 DEF Inv, TakenInv
  <2> QED BY <2>1, <2>2
<1>9. ASSUME T # 0, NEW a \in Advances
      PROVE  /\ taken[s][a] = 0 /\ taken'[s][a] = t[a]
             /\ \A r \in Salaries \ {s} : taken'[r][a] = taken[r][a]
  <2>1. taken \in [Salaries -> [Advances -> Nat]]
    BY DEF Inv, TakenInv
  <2>2. taken[s][a] \in Nat /\ ~(taken[s][a] > 0)
    BY <1>2, <1>9, <2>1
  <2>3. taken' = [taken EXCEPT ![s] = t]
    BY <1>1, <1>9
  <2> QED BY <2>1, <2>2, <2>3
<1>10. RepaymentsAreDeductions'
  <2> SUFFICES ASSUME NEW a \in Advances, ~advance'[a].byHand
               PROVE  advance'[a].repaid = Sum([r \in Salaries |-> taken'[r][a]], Salaries)
    BY DEF RepaymentsAreDeductions
  <2>1. advance'[a].repaid = advance[a].repaid + t[a] /\ ~advance[a].byHand
    BY <1>1, <1>5
  <2>2. advance[a].repaid = Sum([r \in Salaries |-> taken[r][a]], Salaries)
    BY <2>1 DEF Inv, RepaymentsAreDeductions
  <2>3. advance[a].repaid \in Nat
    BY DEF Inv, AdvancesInv, AdvanceType
  <2>4. CASE T = 0
    <3>1. t[a] = 0 /\ taken' = taken
      BY <1>1, <1>2, <2>4
    <3> QED BY <2>1, <2>2, <2>3, <3>1
  <2>5. CASE T # 0
    <3> DEFINE f == [r \in Salaries |-> taken[r][a]]
               g == [r \in Salaries |-> taken'[r][a]]
    <3>1. f[s] = 0 /\ g[s] = t[a] /\ t[a] \in Nat
      BY <1>2, <1>9, <2>5
    <3>2. \A r \in Salaries \ {s} : f[r] = g[r] /\ f[r] \in Int
      BY <1>9, <2>5 DEF Inv, TakenInv
    <3>3. IsFiniteSet(Salaries)
      BY PayrollAssumption
    <3> HIDE DEF f, g
    <3>4. f[s] \in Int /\ g[s] \in Int
      BY <3>1
    <3>5. Sum(g, Salaries) = Sum(f, Salaries) + g[s] - f[s]
      BY <3>2, <3>3, <3>4, SumChange
    <3> QED BY <2>1, <2>2, <2>3, <3>1, <3>5 DEF f, g
  <2> QED BY <2>4, <2>5
<1>11. PaidWithin(s)
  <2> DEFINE d == [a \in Advances |-> taken'[s][a] - taken[s][a]]
             P == Floor(Gross - m - all)
  <2>1. salary'[s].payout = P
    BY <1>1, <1>4 DEF Inv, SalariesInv
  <2>2. Sum(d, Advances) = T
    <3>1. CASE T = 0
      <4>1. \A a \in Advances : d[a] = t[a] /\ d[a] \in Int
        BY <1>1, <1>2, <3>1 DEF Inv, TakenInv
      <4> HIDE DEF d
      <4>2. IsFiniteSet(Advances)
        BY AdvancesFinite
      <4>3. Sum(d, Advances) = Sum(t, Advances)
        BY <4>1, <4>2, SumSame
      <4> QED BY <4>3 DEF T
    <3>2. CASE T # 0
      <4>1. \A a \in Advances : d[a] = t[a] /\ d[a] \in Int
        BY <1>2, <1>9, <3>2
      <4> HIDE DEF d
      <4>2. IsFiniteSet(Advances)
        BY AdvancesFinite
      <4>3. Sum(d, Advances) = Sum(t, Advances)
        BY <4>1, <4>2, SumSame
      <4> QED BY <4>3 DEF T
    <3> QED BY <3>1, <3>2
  <2>3. P + T <= Floor(Gross - m)
    <3>1. all \in Nat /\ all >= T
      BY <1>2
    <3> HIDE DEF all, m
    <3> QED BY <1>2, <3>1 DEF Floor
  <2> HIDE DEF d
  <2> QED BY <2>1, <2>2, <2>3 DEF PaidWithin, d
<1>12. JobsInv'
  BY <1>1 DEF Inv, JobsInv
<1> QED BY <1>6, <1>7, <1>8, <1>10, <1>11, <1>12 DEF Inv

-----------------------------------------------------------------------------
(* The other steps: one salary, one advance or one handler changes.          *)
LEMMA OneSalaryChanges ==
  ASSUME SalariesInv, NEW s \in Salaries, NEW x \in SalaryType, SalaryOK(x),
         salary' = [salary EXCEPT ![s] = x]
  PROVE  SalariesInv'
BY DEF SalariesInv

LEMMA OneAdvanceChanges ==
  ASSUME Inv, NEW a \in Advances, NEW x \in AdvanceType, AdvanceOK(x),
         x.byHand \/ (x.repaid = advance[a].repaid /\ x.byHand = advance[a].byHand),
         advance' = [advance EXCEPT ![a] = x], taken' = taken
  PROVE  AdvancesInv' /\ RepaymentsAreDeductions'
BY DEF Inv, AdvancesInv, RepaymentsAreDeductions

LEMMA OneJobChanges ==
  ASSUME JobsInv, NEW j \in Jobs, NEW x \in JobType, job' = [job EXCEPT ![j] = x]
  PROVE  JobsInv'
BY DEF JobsInv

LEMMA JobAt ==
  ASSUME JobsInv, NEW j \in Jobs
  PROVE  /\ Idle \in JobType
         /\ job[j].at = "sum" => job[j].of \in Salaries /\ job[j].manual \in Nat /\ job[j].open \in Nat
         /\ job[j].at = "read" =>
              job[j].of \in Advances /\ job[j].wish \in Wishes /\ job[j].was \in AdvanceType
         /\ job[j].at = "sync" => job[j].of \in Advances /\ job[j].delta \in Int
<1>1. job[j] \in JobType
  BY DEF JobsInv
<1> QED BY <1>1 DEF JobType, Idle

LEMMA Untouched ==
  ASSUME Inv
  PROVE  /\ SalariesInv /\ AdvancesInv /\ JobsInv /\ TakenInv /\ RepaymentsAreDeductions
         /\ salary' = salary => SalariesInv'
         /\ advance' = advance => AdvancesInv'
         /\ job' = job => JobsInv'
         /\ taken' = taken => TakenInv'
         /\ advance' = advance /\ taken' = taken => RepaymentsAreDeductions'
BY DEF Inv, SalariesInv, AdvancesInv, JobsInv, TakenInv, RepaymentsAreDeductions

LEMMA OutstandingIsInt == ASSUME NEW x \in AdvanceType PROVE Outstanding(x) \in Int
BY DEF Outstanding, AdvanceType

(* The handlers.                                                             *)
LEMMA SyncLaterStep ==
  ASSUME JobsInv, NEW j \in Jobs, NEW a \in Advances, NEW delta \in Int, SyncLater(j, a, delta)
  PROVE  JobsInv'
<1> DEFINE x == [at |-> "sync", of |-> a, delta |-> delta]
<1>1. x \in JobType /\ job' = [job EXCEPT ![j] = x]
  BY DEF JobType, SyncLater
<1> HIDE DEF x
<1> QED BY <1>1, OneJobChanges

LEMMA SalaryHandlersStep ==
  ASSUME Inv, NEW j \in Jobs,
         \/ \E s \in Salaries, m \in Entered : SumAdvances(j, s, m)
         \/ CreateSalary(j) \/ SyncSalary(j) \/ Stop(j)
  PROVE  Inv' /\ \A s \in Salaries : salary'[s].times = salary[s].times
<1>1. ASSUME NEW s \in Salaries, NEW m \in Entered, SumAdvances(j, s, m)
      PROVE  Inv' /\ salary' = salary
  <2> DEFINE x == [at |-> "sum", of |-> s, manual |-> m, open |-> OpenBalance]
  <2>1. job' = [job EXCEPT ![j] = x] /\ UNCHANGED <<salary, advance, taken>>
    BY <1>1 DEF SumAdvances
  <2>2. OpenBalance \in Nat /\ m \in Nat
    BY OpenBalanceType, PayrollAssumption DEF Inv
  <2>3. x \in JobType
    BY <2>2 DEF JobType
  <2> HIDE DEF x
  <2> QED BY <2>1, <2>3, Untouched, OneJobChanges DEF Inv
<1>2. CASE CreateSalary(j)
  <2> DEFINE s == job[j].of
             m == job[j].manual
             merged == Least(job[j].open, Floor(Gross - m))
             x == [salary[s] EXCEPT !.status = "pending", !.manual = m, !.advance = merged,
                     !.deductions = m + merged]
  <2>1. /\ salary' = (IF salary[s].status # "none" THEN salary ELSE [salary EXCEPT ![s] = x])
        /\ job' = [job EXCEPT ![j] = Idle] /\ UNCHANGED <<advance, taken>>
        /\ s \in Salaries /\ m \in Nat /\ job[j].open \in Nat /\ Idle \in JobType
    BY <1>2, JobAt DEF CreateSalary, Inv
  <2>2. Gross - m \in Int
    BY <2>1, PayrollAssumption
  <2>3. Floor(Gross - m) \in Nat
    BY <2>2, FloorType
  <2>4. merged \in Nat /\ m + merged \in Nat
    BY <2>1, <2>3, LeastType
  <2>5. salary[s] \in SalaryType /\ SalaryOK(salary[s])
    BY <2>1 DEF Inv, SalariesInv
  <2> HIDE DEF merged, m, s
  <2>6. x \in SalaryType /\ x.status = "pending" /\ x.times = salary[s].times
        /\ x.reopened = salary[s].reopened
    BY <2>1, <2>4, <2>5 DEF SalaryType
  <2> HIDE DEF x
  <2>7. CASE salary[s].status = "none"
    <3>1. SalaryOK(x)
      BY <2>5, <2>6, <2>7 DEF SalaryOK
    <3>2. SalariesInv' /\ \A r \in Salaries : salary'[r].times = salary[r].times
      BY <2>1, <2>6, <2>7, <3>1, Untouched, OneSalaryChanges DEF SalariesInv
    <3> QED BY <2>1, <3>2, Untouched, OneJobChanges DEF Inv
  <2>8. CASE salary[s].status # "none"
    BY <2>1, <2>8, Untouched, OneJobChanges DEF Inv
  <2> QED BY <2>7, <2>8
<1>3. CASE SyncSalary(j)
  <2> DEFINE s == Month[job[j].of]
             n == Floor(salary[s].deductions + job[j].delta)
             x == [salary[s] EXCEPT !.deductions = n]
  <2>1. /\ salary' = (IF Present(s) /\ salary[s].status = "pending"
                      THEN [salary EXCEPT ![s] = x] ELSE salary)
        /\ job' = [job EXCEPT ![j] = Idle] /\ UNCHANGED <<advance, taken>>
        /\ s \in Salaries /\ job[j].delta \in Int /\ Idle \in JobType
    <3>1. Idle \in JobType
      BY DEF JobType
    <3>2. job[j].at = "sync"
      BY <1>3 DEF SyncSalary
    <3>3. job[j].of \in Advances /\ job[j].delta \in Int
      BY <3>2, JobAt DEF Inv
    <3>4. s \in Salaries
      BY <3>3, PayrollAssumption
    <3> QED BY <1>3, <3>1, <3>3, <3>4 DEF SyncSalary
  <2>2. salary[s] \in SalaryType /\ SalaryOK(salary[s])
    BY <2>1 DEF Inv, SalariesInv
  <2>3. salary[s].deductions + job[j].delta \in Int
    BY <2>1, <2>2 DEF SalaryType
  <2>4. n \in Nat
    BY <2>3, FloorType
  <2> HIDE DEF n, s
  <2>5. x \in SalaryType /\ SalaryOK(x) /\ x.times = salary[s].times
    BY <2>2, <2>4 DEF SalaryType, SalaryOK
  <2> HIDE DEF x
  <2>6. CASE salary' = [salary EXCEPT ![s] = x]
    <3>1. SalariesInv' /\ \A r \in Salaries : salary'[r].times = salary[r].times
      BY <2>1, <2>5, <2>6, Untouched, OneSalaryChanges DEF SalariesInv
    <3> QED BY <2>1, <3>1, Untouched, OneJobChanges DEF Inv
  <2>7. CASE salary' = salary
    BY <2>1, <2>7, Untouched, OneJobChanges DEF Inv
  <2> QED BY <2>1, <2>6, <2>7
<1>4. CASE Stop(j)
  <2>1. job' = [job EXCEPT ![j] = Idle] /\ UNCHANGED <<salary, advance, taken>> /\ Idle \in JobType
    BY <1>4 DEF Stop, JobType
  <2> QED BY <2>1, Untouched, OneJobChanges DEF Inv
<1> QED BY <1>1, <1>2, <1>3, <1>4

LEMMA AdvanceHandlersStep ==
  ASSUME Inv, NEW j \in Jobs,
         \/ \E a \in Advances, n \in Amounts : CreateAdvance(j, a, n)
         \/ \E a \in Advances, w \in Wishes : ReadAdvance(j, a, w)
         \/ UpdateAdvance(j) \/ DeleteAdvance(j)
  PROVE  Inv' /\ salary' = salary
<1>1. ASSUME NEW a \in Advances, NEW n \in Amounts, CreateAdvance(j, a, n) PROVE Inv' /\ salary' = salary
  <2> DEFINE x == [advance[a] EXCEPT !.status = "pending", !.amount = n]
  <2>1. /\ advance[a].status = "none" /\ advance' = [advance EXCEPT ![a] = x]
        /\ SyncLater(j, a, n) /\ UNCHANGED <<salary, taken>>
    BY <1>1 DEF CreateAdvance
  <2>2. n \in Nat /\ n > 0 /\ n \in Int
    BY PayrollAssumption
  <2>3. advance[a] \in AdvanceType /\ AdvanceOK(advance[a])
    BY OpenType DEF Inv
  <2>4. /\ x \in AdvanceType /\ x.status = "pending" /\ x.amount = n
        /\ x.repaid = advance[a].repaid /\ x.byHand = advance[a].byHand
    BY <2>2, <2>3 DEF AdvanceType, AdvanceStatuses
  <2> HIDE DEF x
  <2>5. AdvanceOK(x)
    BY <2>1, <2>2, <2>3, <2>4 DEF AdvanceOK, RepaidStatus
  <2>6. AdvancesInv' /\ RepaymentsAreDeductions'
    BY <2>1, <2>4, <2>5, OneAdvanceChanges
  <2>7. JobsInv'
    BY <2>1, <2>2, Untouched, SyncLaterStep
  <2> QED BY <2>1, <2>6, <2>7, Untouched DEF Inv
<1>2. ASSUME NEW a \in Advances, NEW w \in Wishes, ReadAdvance(j, a, w) PROVE Inv' /\ salary' = salary
  <2> DEFINE x == [at |-> "read", of |-> a, wish |-> w, was |-> advance[a]]
  <2>1. job' = [job EXCEPT ![j] = x] /\ UNCHANGED <<salary, advance, taken>>
    BY <1>2 DEF ReadAdvance
  <2>2. x \in JobType
    <3>1. advance[a] \in AdvanceType
      BY OpenType DEF Inv
    <3> QED BY <3>1 DEF JobType
  <2> HIDE DEF x
  <2> QED BY <2>1, <2>2, Untouched, OneJobChanges DEF Inv
<1>3. CASE UpdateAdvance(j)
  <2> DEFINE a == job[j].of
             w == job[j].wish
             was == job[j].was
             x == Changed(advance[a], was, w)
             valid == ~advance[a].deleted /\ x.repaid <= x.amount
             delta == Outstanding(x) - Outstanding(was)
  <2>1. /\ a \in Advances /\ w \in Wishes /\ w.do # "delete" /\ was \in AdvanceType /\ Idle \in JobType
        /\ advance' = (IF valid THEN [advance EXCEPT ![a] = x] ELSE advance)
        /\ IF valid THEN SyncLater(j, a, delta) ELSE job' = [job EXCEPT ![j] = Idle]
        /\ UNCHANGED <<salary, taken>>
    BY <1>3, JobAt DEF UpdateAdvance, Inv
  <2>2. advance[a] \in AdvanceType /\ AdvanceOK(advance[a])
    BY <2>1, OpenType DEF Inv
  <2>3. /\ w.do \in {"amount", "repay", "status"}
        /\ w.do # "status" => w.value \in Nat /\ (w.do = "amount" => w.value > 0)
        /\ w.do = "status" => w.status \in AdvanceStatuses
    <3>1. /\ w.do \in {"amount", "repay", "status", "delete"}
          /\ w.do \in {"amount", "repay"} => w.value \in Amounts \cup {0}
          /\ w.do = "amount" => w.value \in Amounts
          /\ w.do = "status" => w.status \in Settable
      BY <2>1 DEF Wishes
    <3>2. \A n \in Amounts \cup {0} : n \in Nat /\ (n \in Amounts => n > 0)
      BY PayrollAssumption
    <3>3. Settable \subseteq AdvanceStatuses
      BY PayrollAssumption DEF AdvanceStatuses
    <3> HIDE DEF w
    <3> QED BY <2>1, <3>1, <3>2, <3>3
  <2> HIDE DEF a, w, was
  <2>4. /\ x \in AdvanceType /\ (x.repaid <= x.amount => AdvanceOK(x))
        /\ x.byHand \/ (x.repaid = advance[a].repaid /\ x.byHand = advance[a].byHand)
    <3>1. CASE w.do = "amount" /\ AmountEditable(advance[a])
      <4> DEFINE y == [advance[a] EXCEPT !.amount = w.value]
      <4>1. x = y
        BY <3>1 DEF Changed, Kept
      <4>2. y \in AdvanceType /\ y.amount = w.value /\ y.repaid = advance[a].repaid
            /\ y.byHand = advance[a].byHand /\ y.status = advance[a].status
        BY <2>2, <2>3, <3>1 DEF AdvanceType, AdvanceStatuses
      <4> HIDE DEF y
      <4>3. AdvanceOK(y)
        BY <2>3, <3>1, <4>2 DEF AdvanceOK, AmountEditable, RepaidStatus
      <4> QED BY <4>1, <4>2, <4>3
    <3>2. CASE w.do = "amount" /\ ~AmountEditable(advance[a])
      <4>1. x = advance[a]
        BY <3>2 DEF Changed, Kept
      <4> QED BY <2>2, <4>1
    <3>3. CASE w.do = "repay"
      <4> DEFINE st == RepaidStatus(w.value, was.amount)
                 y == [advance[a] EXCEPT !.repaid = w.value, !.byHand = TRUE, !.status = st]
      <4>1. x = y
        BY <3>3 DEF Changed
      <4>2. st \in {"repaid", "partially_repaid", "pending"}
        BY DEF RepaidStatus
      <4> HIDE DEF st
      <4>3. y \in AdvanceType /\ y.byHand /\ y.status = st /\ y.amount = advance[a].amount
        BY <2>2, <2>3, <3>3, <4>2 DEF AdvanceType, AdvanceStatuses
      <4> HIDE DEF y
      <4>4. y.repaid <= y.amount => AdvanceOK(y)
        BY <4>2, <4>3 DEF AdvanceOK
      <4> QED BY <4>1, <4>3, <4>4
    <3>4. CASE w.do = "status"
      <4> DEFINE y == [advance[a] EXCEPT !.status = w.status, !.restated = TRUE]
      <4>1. x = y
        BY <3>4 DEF Changed, Kept
      <4>2. y \in AdvanceType /\ y.restated /\ y.repaid = advance[a].repaid
            /\ y.amount = advance[a].amount /\ y.byHand = advance[a].byHand
            /\ y.status = w.status
        BY <2>2, <2>3, <3>4 DEF AdvanceType, AdvanceStatuses
      <4> HIDE DEF y
      <4>3. y.status # "none"
        BY <2>3, <3>4, <4>2 DEF AdvanceStatuses
      <4>4. y.repaid <= y.amount => AdvanceOK(y)
        BY <4>2, <4>3 DEF AdvanceOK
      <4> QED BY <4>1, <4>2, <4>4
    <3> QED BY <2>3, <3>1, <3>2, <3>3, <3>4
  <2>5. delta \in Int
    <3>1. Outstanding(x) \in Int /\ Outstanding(was) \in Int
      BY <2>1, <2>4, OutstandingIsInt
    <3> QED BY <3>1
  <2> HIDE DEF x, delta
  <2>6. CASE valid
    <3>1. JobsInv'
      BY <2>1, <2>5, <2>6, Untouched, SyncLaterStep
    <3>2. AdvancesInv' /\ RepaymentsAreDeductions'
      BY <2>1, <2>4, <2>6, OneAdvanceChanges
    <3> QED BY <2>1, <3>1, <3>2, Untouched DEF Inv
  <2>7. CASE ~valid
    <3>1. advance' = advance /\ job' = [job EXCEPT ![j] = Idle]
      BY <2>1, <2>7
    <3> QED BY <2>1, <3>1, Untouched, OneJobChanges DEF Inv
  <2> QED BY <2>6, <2>7
<1>4. CASE DeleteAdvance(j)
  <2> DEFINE a == job[j].of
             x == [advance[a] EXCEPT !.deleted = TRUE]
             delta == -Outstanding(job[j].was)
  <2>1. /\ a \in Advances /\ job[j].was \in AdvanceType /\ Idle \in JobType
        /\ advance' = [advance EXCEPT ![a] = x]
        /\ job' = [job EXCEPT ![j] = Idle] \/ SyncLater(j, a, delta)
        /\ UNCHANGED <<salary, taken>>
    BY <1>4, JobAt DEF DeleteAdvance, Inv
  <2>2. advance[a] \in AdvanceType /\ AdvanceOK(advance[a])
    BY <2>1, OpenType DEF Inv
  <2>3. delta \in Int
    <3>1. Outstanding(job[j].was) \in Int
      BY <2>1, OutstandingIsInt
    <3> QED BY <3>1
  <2> HIDE DEF a, delta
  <2>4. x \in AdvanceType /\ AdvanceOK(x) /\ x.repaid = advance[a].repaid
        /\ x.byHand = advance[a].byHand
    BY <2>2 DEF AdvanceType, AdvanceOK
  <2> HIDE DEF x
  <2>5. AdvancesInv' /\ RepaymentsAreDeductions'
    BY <2>1, <2>4, OneAdvanceChanges
  <2>6. JobsInv'
    BY <2>1, <2>3, Untouched, OneJobChanges, SyncLaterStep
  <2> QED BY <2>1, <2>5, <2>6, Untouched DEF Inv
<1> QED BY <1>1, <1>2, <1>3, <1>4

LEMMA EditsStep ==
  ASSUME Inv, NEW s \in Salaries,
         \/ \E d \in Entered, st \in {"pending", "paid", "cancelled"} : EditSalary(s, d, st)
         \/ DeleteSalary(s)
  PROVE  Inv' /\ \A r \in Salaries : salary'[r].times = salary[r].times
<1>1. salary[s] \in SalaryType /\ SalaryOK(salary[s])
  BY DEF Inv, SalariesInv
<1>2. ASSUME NEW x \in SalaryType, SalaryOK(x), x.times = salary[s].times,
             salary' = [salary EXCEPT ![s] = x], UNCHANGED <<advance, taken, job>>
      PROVE  Inv' /\ \A r \in Salaries : salary'[r].times = salary[r].times
  <2>1. SalariesInv'
    BY <1>2, Untouched, OneSalaryChanges
  <2>2. \A r \in Salaries : salary'[r].times = salary[r].times
    BY <1>2 DEF Inv, SalariesInv
  <2> QED BY <1>2, <2>1, <2>2, Untouched DEF Inv
<1>3. ASSUME NEW d \in Entered, NEW st \in {"pending", "paid", "cancelled"}, EditSalary(s, d, st)
      PROVE  Inv' /\ \A r \in Salaries : salary'[r].times = salary[r].times
  <2> DEFINE reopened == salary[s].reopened \/ (salary[s].status # "pending" /\ st = "pending")
             x == [salary[s] EXCEPT !.deductions = d, !.status = st, !.reopened = reopened]
  <2>1. salary' = [salary EXCEPT ![s] = x] /\ UNCHANGED <<advance, taken, job>>
        /\ salary[s].status # "none"
    BY <1>3 DEF EditSalary, Present
  <2>2. d \in Nat /\ reopened \in BOOLEAN
    BY <1>1, PayrollAssumption DEF SalaryType
  <2>3. (salary[s].reopened => reopened)
        /\ (st = "pending" /\ salary[s].status # "pending" => reopened)
    OBVIOUS
  <2> HIDE DEF reopened
  <2>4. x \in SalaryType /\ x.times = salary[s].times /\ x.status = st /\ x.reopened = reopened
    BY <1>1, <2>2 DEF SalaryType
  <2> HIDE DEF x
  <2>5. SalaryOK(x)
    <3>1. salary[s].times \in Nat
      BY <1>1 DEF SalaryType
    <3> QED BY <1>1, <2>3, <2>4, <3>1 DEF SalaryOK
  <2> QED BY <1>2, <2>1, <2>4, <2>5
<1>4. CASE DeleteSalary(s)
  <2> DEFINE x == [salary[s] EXCEPT !.deleted = TRUE]
  <2>1. salary' = [salary EXCEPT ![s] = x] /\ UNCHANGED <<advance, taken, job>>
    BY <1>4 DEF DeleteSalary
  <2>2. x \in SalaryType /\ SalaryOK(x) /\ x.times = salary[s].times
    BY <1>1 DEF SalaryType, SalaryOK
  <2> HIDE DEF x
  <2> QED BY <1>2, <2>1, <2>2
<1> QED BY <1>3, <1>4

-----------------------------------------------------------------------------
PaymentsWithin ==
  \A s \in Salaries : salary'[s].times # salary[s].times => PaidWithin(s)

LEMMA Step == Inv /\ [Next]_vars => Inv' /\ PaymentsWithin
<1> SUFFICES ASSUME Inv, [Next]_vars PROVE Inv' /\ PaymentsWithin
  OBVIOUS
<1>1. ASSUME NEW s \in Salaries, PaySalary(s) PROVE Inv' /\ PaymentsWithin
  BY <1>1, PaySalaryStep DEF PaymentsWithin
<1>2. ASSUME NEW s \in Salaries,
             \/ \E d \in Entered, st \in {"pending", "paid", "cancelled"} : EditSalary(s, d, st)
             \/ DeleteSalary(s)
      PROVE  Inv' /\ PaymentsWithin
  BY <1>2, EditsStep DEF PaymentsWithin
<1>3. ASSUME NEW j \in Jobs,
             \/ \E a \in Advances, n \in Amounts : CreateAdvance(j, a, n)
             \/ \E a \in Advances, w \in Wishes : ReadAdvance(j, a, w)
             \/ UpdateAdvance(j) \/ DeleteAdvance(j)
      PROVE  Inv' /\ PaymentsWithin
  BY <1>3, AdvanceHandlersStep DEF PaymentsWithin
<1>4. ASSUME NEW j \in Jobs,
             \/ \E s \in Salaries, m \in Entered : SumAdvances(j, s, m)
             \/ CreateSalary(j) \/ SyncSalary(j) \/ Stop(j)
      PROVE  Inv' /\ PaymentsWithin
  BY <1>4, SalaryHandlersStep DEF PaymentsWithin
<1>5. CASE UNCHANGED vars
  <2>1. UNCHANGED <<salary, advance, taken, job>>
    BY <1>5 DEF vars
  <2>2. Inv'
    BY <2>1, Untouched DEF Inv
  <2> QED BY <2>1, <2>2 DEF PaymentsWithin
<1> QED BY <1>1, <1>2, <1>3, <1>4, <1>5 DEF Next

LEMMA InitInv == Init => Inv
<1> SUFFICES ASSUME Init PROVE Inv
  OBVIOUS
<1>1. SalariesInv /\ AdvancesInv /\ JobsInv /\ TakenInv
  BY DEF Init, SalariesInv, SalaryType, SalaryOK, AdvancesInv, AdvanceType, AdvanceOK, JobsInv,
         JobType, TakenInv
<1>2. RepaymentsAreDeductions
  <2> SUFFICES ASSUME NEW a \in Advances
               PROVE  advance[a].repaid = Sum([s \in Salaries |-> taken[s][a]], Salaries)
    BY DEF RepaymentsAreDeductions
  <2> DEFINE f == [s \in Salaries |-> taken[s][a]]
  <2>1. \A s \in Salaries : f[s] = 0
    BY DEF Init
  <2>2. \A s \in Salaries : f[s] \in Int
    BY <2>1
  <2>3. IsFiniteSet(Salaries) /\ {} \in SUBSET Salaries
    BY PayrollAssumption
  <2> HIDE DEF f
  <2>4. Sum(f, Salaries) = Sum(f, {})
    BY <2>1, <2>2, <2>3, SumSupport
  <2>5. advance[a].repaid = 0
    BY DEF Init
  <2> QED BY <2>4, <2>5, SumEmpty DEF f
<1> QED BY <1>1, <1>2 DEF Inv

(* The inductive invariant of payments and deductions.                       *)
THEOREM PayrollInvariant == Spec => []Inv
<1>1. Inv /\ [Next]_vars => Inv'
  BY Step
<1> QED BY InitInv, <1>1, PTL DEF Spec

(* Salaries, advances, deductions and handlers keep their types: no amount   *)
(* ever becomes negative.                                                    *)
THEOREM PayrollTypes == Spec => []PayrollTypeOK
<1>1. Inv => PayrollTypeOK
  <2> SUFFICES ASSUME Inv PROVE PayrollTypeOK
    OBVIOUS
  <2>1. salary \in [Salaries -> SalaryType] /\ advance \in [Advances -> AdvanceType]
    BY DEF Inv, SalariesInv, AdvancesInv
  <2>2. \A j \in Jobs : job[j].at \in {"idle", "sum", "read", "sync"}
    BY DEF Inv, JobsInv, JobType, Idle
  <2> QED BY <2>1, <2>2 DEF PayrollTypeOK, Inv, TakenInv
<1> QED BY PayrollInvariant, <1>1, PTL

(* What is written off an advance came off salaries, unless somebody entered *)
(* a repayment (paySalary, updateAdvance).                                   *)
THEOREM WrittenOffIsDeducted == Spec => []RepaymentsAreDeductions
<1>1. Inv => RepaymentsAreDeductions
  BY DEF Inv
<1> QED BY PayrollInvariant, <1>1, PTL

(* The status of an advance follows what is repaid of it (updateAdvance,     *)
(* paySalary).                                                               *)
THEOREM StatusFollowsRepayment == Spec => []AdvanceStatusIsTrue
<1>1. Inv => AdvanceStatusIsTrue
  BY DEF Inv, AdvancesInv, AdvanceOK, AdvanceStatusIsTrue
<1> QED BY PayrollInvariant, <1>1, PTL

(* A salary is paid once, unless an edit made it pending again (paySalary).  *)
THEOREM PaysOnce == Spec => []PaidOnce
<1>1. Inv => PaidOnce
  BY DEF Inv, SalariesInv, SalaryOK, PaidOnce
<1> QED BY PayrollInvariant, <1>1, PTL

(* A payment hands out and takes off advances no more than the salary,       *)
(* although it takes from several advances, the oldest first (paySalary).    *)
THEOREM PaysWithinTheSalary == Spec => NeverMoreThanTheSalary
<1>1. Inv /\ [Next]_vars => [PaymentsWithin]_vars
  BY Step
<1> QED BY PayrollInvariant, <1>1, PTL DEF Spec, NeverMoreThanTheSalary, PaymentsWithin, PaidWithin
=============================================================================
