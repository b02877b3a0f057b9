--------------------------- MODULE Transfers_proofs ---------------------------
(* The safety properties of vouchers, cashbox, transfers and settlements,    *)
(* for any number of vouchers, handlers, amounts and transfers.              *)
EXTENDS Transfers, FiniteSums_proofs

(* What a handler remembers.                                                 *)
JobType ==
  {Idle}
    \cup [at: {"read"}, of: Vouchers, was: {"draft", "confirmed", "cancelled"},
          to: {"same", "confirmed", "cancelled"}, amount: Amounts \cup {0}]
    \cup [at: {"settle"}, of: Vouchers, amount: Amounts]
    \cup [at: {"sum"}, net: Int, count: Int]

TypeInv == MoneyTypeOK /\ job \in [Jobs \cup Approvals -> JobType]

(* A draft has no entry, a confirmed voucher one that stands, a cancelled    *)
(* voucher none that stands, unless a write on an old reading came between.  *)
VoucherOK(x, old) ==
  /\ x.status = "none" => x = Blank /\ ~old
  /\ x.status # "none" => x.amount \in Amounts
  /\ x.reversed => x.entry # 0
  /\ ~old => /\ x.status = "draft" => x.entry = 0
             /\ x.status = "confirmed" => x.entry # 0 /\ ~x.reversed
             /\ x.status = "cancelled" => x.entry = 0 \/ x.reversed

VoucherInv == \A v \in Vouchers : VoucherOK(voucher[v], v \in outdated)

(* What a handler of a voucher has checked, as far as it still holds.        *)
JobOK(j) ==
  LET v == job[j].of IN
  /\ job[j].at \in {"read", "settle"} => voucher[v].status # "none"
  /\ job[j].at = "read" =>
       /\ job[j].to # "same" => Allowed(job[j].was, job[j].to)
       /\ job[j].was # "draft" => voucher[v].status # "draft"
       /\ voucher[v].settlement /\ job[j].was = "draft" => job[j].to # "confirmed"

(* A reconciliation that missed no entry has the right sum.                  *)
SumOK(j) ==
  job[j].at = "sum" =>
    job[j].count <= EntryCount /\ (job[j].count = EntryCount => job[j].net = Entries)

JobInv == \A j \in Jobs \cup Approvals : JobOK(j) /\ SumOK(j)

(* A transfer that is pending has paid nothing, one that is cancelled has    *)
(* its vouchers cancelled.                                                   *)
TransferOK(t) ==
  LET x == transfer[t] IN
  /\ \A v \in {x.collected, x.payout} \ {NoVoucher} :
       /\ voucher[v].status # "none"
       /\ x.status = "CANCELLED" /\ ~x.bypassed /\ v \notin outdated =>
            voucher[v].status = "cancelled"
  /\ x.status \in {"none", "PENDING"} /\ ~x.bypassed => x.payout = NoVoucher

TransferInv == \A t \in Transfers : TransferOK(t)

Inv == TypeInv /\ VoucherInv /\ JobInv /\ TransferInv /\ BalanceIsTrue

-----------------------------------------------------------------------------
(* Small facts.                                                              *)
LEMMA UnitType == Unit \in Amounts
<1>1. PICK a \in Amounts : TRUE
  BY VouchersAssumption
<1> DEFINE S == {b \in Amounts : b <= a}
<1>2. S \in SUBSET Int /\ IsFiniteSet(S) /\ S # {}
  <2>1. Amounts \subseteq Nat /\ a \in Nat /\ a \in S
    BY VouchersAssumption
  <2>2. S \in SUBSET Nat /\ \A b \in S : b <= a
    BY <2>1
  <2>3. IsFiniteSet(S)
    <3> HIDE DEF S
    <3> QED BY <2>1, <2>2, FS_BoundedSetOfNaturals
  <2> QED BY <2>1, <2>2, <2>3
<1>3. Min(S) \in S /\ \A y \in S : Min(S) <= y
  BY <1>2, MinIsLeast
<1>4. ASSUME NEW b \in Amounts PROVE Min(S) <= b
  <2>1. b \in Nat /\ a \in Nat /\ a \in S /\ Min(S) \in Nat /\ Min(S) <= a
    BY <1>2, <1>3, VouchersAssumption
  <2>2. CASE b <= a
    BY <1>3, <2>2
  <2>3. CASE ~(b <= a)
    BY <2>1, <2>3
  <2> QED BY <2>2, <2>3
<1> QED BY <1>3, <1>4 DEF Unit

LEMMA VouchersFinite == IsFiniteSet(Vouchers) /\ Vouchers \in SUBSET (Nat \ {0})
<1>1. IsFiniteSet(Vouchers)
  BY VouchersAssumption, FS_Interval DEF Vouchers
<1> QED BY <1>1, VouchersAssumption DEF Vouchers

LEMMA NextIsFresh ==
  ASSUME Fresh # {} PROVE NextVoucher \in Vouchers /\ voucher[NextVoucher].status = "none"
<1>1. Fresh \in SUBSET Int /\ IsFiniteSet(Fresh)
  <2>1. Fresh \in SUBSET Vouchers BY DEF Fresh
  <2>2. IsFiniteSet(Fresh) BY <2>1, VouchersFinite, FS_Subset
  <2> QED BY <2>1, <2>2, VouchersFinite
<1>2. NextVoucher \in Fresh
  BY <1>1, MinIsLeast DEF NextVoucher
<1> QED BY <1>2 DEF Fresh

LEMMA AmountType ==
  /\ 0 \notin Amounts
  /\ \A a \in Amounts \cup {0} : a \in Nat /\ a \in Int /\ (a > 0 <=> a # 0)
BY VouchersAssumption

LEMMA StandingType ==
  ASSUME NEW x \in VoucherType PROVE Standing(x) \in Int
<1>1. x.entry \in Int
  BY AmountType DEF VoucherType
<1>2. 1 * x.entry \in Int /\ (-1) * x.entry \in Int
  BY <1>1
<1>3. Sign(x) = 1 \/ Sign(x) = -1
  BY DEF Sign
<1> QED BY <1>2, <1>3 DEF Standing

LEMMA EntriesType == ASSUME VouchersTypeOK PROVE Entries \in Int
<1>1. \A v \in Vouchers : [w \in Vouchers |-> Standing(voucher[w])][v] \in Int
  BY StandingType DEF VouchersTypeOK
<1> QED BY <1>1, VouchersFinite, SumInt DEF Entries

LEMMA EntryCountType == EntryCount \in Int
<1>1. /\ Written \in SUBSET Vouchers
      /\ {v \in Written : voucher[v].reversed} \in SUBSET Vouchers
  BY DEF Written
<1>2. IsFiniteSet(Written) /\ IsFiniteSet({v \in Written : voucher[v].reversed})
  BY <1>1, VouchersFinite, FS_Subset
<1> QED BY <1>2, FS_CardinalityType DEF EntryCount

-----------------------------------------------------------------------------
(* What every step keeps of a voucher.                                       *)
KeptBy(x, y) ==
  /\ x.status # "none" =>
       /\ y.status # "none" /\ (x.status # "draft" => y.status # "draft")
       /\ y.kind = x.kind /\ y.settlement = x.settlement
  /\ x.entry # 0 => y.entry = x.entry /\ y.kind = x.kind
  /\ x.reversed => y.reversed

VouchersKept ==
  /\ \A v \in Vouchers : KeptBy(voucher[v], voucher'[v])
  /\ outdated \subseteq outdated'
  /\ \A v \in Vouchers \ outdated' :
       voucher[v].status = "cancelled" => voucher'[v].status = "cancelled"

(* What Confirm and Cancel make of a voucher.                                *)
LEMMA ConfirmFacts ==
  ASSUME NEW x \in VoucherType, x.amount \in Amounts
  PROVE  /\ Confirm(x) \in VoucherType
         /\ Confirm(x).status = "confirmed" /\ Confirm(x).amount = x.amount
         /\ Confirm(x).kind = x.kind /\ Confirm(x).settlement = x.settlement
         /\ Confirm(x).mate = x.mate /\ Confirm(x).reversed = x.reversed
         /\ Confirm(x).entry = IF x.entry = 0 THEN x.amount ELSE x.entry
         /\ Confirm(x).entry # 0
<1>1. x.entry \in Amounts \cup {0} /\ 0 \notin Amounts
  BY VouchersAssumption DEF VoucherType
<1> QED BY <1>1 DEF VoucherType, Confirm

LEMMA CancelFacts ==
  ASSUME NEW x \in VoucherType
  PROVE  /\ Cancel(x) \in VoucherType
         /\ Cancel(x).status = "cancelled" /\ Cancel(x).amount = x.amount
         /\ Cancel(x).kind = x.kind /\ Cancel(x).settlement = x.settlement
         /\ Cancel(x).mate = x.mate /\ Cancel(x).entry = x.entry
         /\ Cancel(x).reversed = (x.entry # 0)
<1>1. (x.entry > 0) = (x.entry # 0)
  BY AmountType DEF VoucherType
<1>2. Cancel(x) = [x EXCEPT !.status = "cancelled", !.reversed = (x.entry # 0)]
  BY <1>1 DEF Cancel
<1> QED BY <1>2 DEF VoucherType

LEMMA NewFacts ==
  ASSUME NEW kind \in {"receipt", "payment"}, NEW amount \in Amounts
  PROVE  LET x == New(kind, amount) IN
         /\ x \in VoucherType
         /\ x.kind = kind /\ x.status = "confirmed" /\ x.amount = amount /\ x.entry = amount
         /\ ~x.reversed /\ ~x.settlement /\ x.mate = NoVoucher
<1> DEFINE x == [Blank EXCEPT !.kind = kind, !.amount = amount]
<1>1. /\ x \in VoucherType /\ x.amount \in Amounts
      /\ x.kind = kind /\ x.amount = amount /\ x.entry = 0
      /\ ~x.reversed /\ ~x.settlement /\ x.mate = NoVoucher
  BY DEF Blank, VoucherType
<1> HIDE DEF x
<1> QED BY <1>1, ConfirmFacts DEF New, x

(* The sum of the entries moves by what single vouchers move.                *)
LEMMA EntriesChange ==
  ASSUME VouchersTypeOK, NEW R \in SUBSET Vouchers, NEW d,
         \A v \in R : d[v] \in Int /\ Standing(voucher'[v]) = Standing(voucher[v]) + d[v],
         \A v \in Vouchers \ R : Standing(voucher'[v]) = Standing(voucher[v])
  PROVE  Entries' = Entries + Sum(d, R)
<1> DEFINE f == [v \in Vouchers |-> Standing(voucher[v])]
           g == [v \in Vouchers |-> Standing(voucher'[v])]
<1>1. \A v \in Vouchers : f[v] \in Int
  BY StandingType DEF VouchersTypeOK
<1>2. \A v \in R : d[v] \in Int /\ g[v] = f[v] + d[v]
  OBVIOUS
<1>3. \A v \in Vouchers \ R : g[v] = f[v]
  OBVIOUS
<1>4. Entries = Sum(f, Vouchers) /\ Entries' = Sum(g, Vouchers)
  BY DEF Entries
<1>5. IsFiniteSet(Vouchers)
  BY VouchersFinite
<1> HIDE DEF f, g
<1>6. Sum(g, Vouchers) = Sum(f, Vouchers) + Sum(d, R)
  BY <1>1, <1>2, <1>3, <1>5, SumShift
<1> QED BY <1>4, <1>6

LEMMA EntriesSame ==
  ASSUME VouchersTypeOK,
         \A v \in Vouchers : Standing(voucher'[v]) = Standing(voucher[v])
  PROVE  Entries' = Entries
<1>1. Entries' = Entries + Sum([v \in {} |-> 0], {})
  BY EntriesChange
<1> QED BY <1>1, SumEmpty, EntriesType

(* Entries are only added, so their number tells two readings apart.         *)
LEMMA CountTells ==
  ASSUME VouchersTypeOK, VouchersTypeOK', VouchersKept
  PROVE  /\ EntryCount <= EntryCount' /\ (EntryCount' = EntryCount => Entries' = Entries)
         /\ EntryCount \in Int /\ EntryCount' \in Int
<1> DEFINE W == Written
           X == {v \in Written : voucher[v].reversed}
           A == Written'
           B == {v \in Written : voucher[v].reversed}'
<1>1. \A v \in Vouchers : /\ v \in W <=> voucher[v].entry # 0
                          /\ v \in A <=> voucher'[v].entry # 0
                          /\ v \in X <=> v \in W /\ voucher[v].reversed
                          /\ v \in B <=> v \in A /\ voucher'[v].reversed
  BY AmountType DEF VouchersTypeOK, VoucherType, Written
<1>2. W \subseteq Vouchers /\ X \subseteq Vouchers /\ A \subseteq Vouchers /\ B \subseteq Vouchers
  BY DEF Written
<1>3. EntryCount = Cardinality(W) + Cardinality(X) /\ EntryCount' = Cardinality(A) + Cardinality(B)
  BY DEF EntryCount
<1> HIDE DEF W, X, A, B
<1>4. W \in SUBSET A /\ X \in SUBSET B
  BY <1>1, <1>2, AmountType DEF VouchersKept, KeptBy, VouchersTypeOK, VoucherType
<1>5. IsFiniteSet(A) /\ IsFiniteSet(B) /\ IsFiniteSet(W) /\ IsFiniteSet(X)
  BY <1>2, VouchersFinite, FS_Subset
<1>6. /\ Cardinality(W) <= Cardinality(A) /\ Cardinality(X) <= Cardinality(B)
      /\ Cardinality(A) = Cardinality(W) => A = W
      /\ Cardinality(B) = Cardinality(X) => B = X
  BY <1>4, <1>5, FS_Subset
<1>7. /\ Cardinality(W) \in Nat /\ Cardinality(X) \in Nat
      /\ Cardinality(A) \in Nat /\ Cardinality(B) \in Nat
  BY <1>5, FS_CardinalityType
<1>8. ASSUME EntryCount' = EntryCount, NEW v \in Vouchers
      PROVE  Standing(voucher'[v]) = Standing(voucher[v])
  <2>1. A = W /\ B = X
    BY <1>3, <1>6, <1>7, <1>8
  <2>2. CASE voucher[v].entry = 0
    <3>1. voucher'[v].entry = 0
      BY <1>1, <2>1, <2>2
    <3> QED BY <2>2, <3>1 DEF Standing
  <2>3. CASE voucher[v].entry # 0
    <3>1. voucher'[v].entry = voucher[v].entry /\ voucher'[v].kind = voucher[v].kind
      BY <2>3 DEF VouchersKept, KeptBy
    <3>2. voucher'[v].reversed <=> voucher[v].reversed
      BY <1>1, <2>1, <2>3, <3>1
    <3> QED BY <3>1, <3>2 DEF Standing, Sign
  <2> QED BY <2>2, <2>3
<1>9. ASSUME EntryCount' = EntryCount PROVE Entries' = Entries
  BY <1>8, <1>9, EntriesSame
<1> QED BY <1>3, <1>6, <1>7, <1>9

-----------------------------------------------------------------------------
(* What every step makes of the vouchers and the balance.                    *)
BothSides ==
  \A v \in Vouchers :
    voucher[v].settlement =>
      ((\E w \in Vouchers : voucher'[w].mate = v /\ voucher[w].mate # v)
         <=> (voucher[v].status = "draft" /\ voucher'[v].status = "confirmed"))

VoucherStep ==
  /\ voucher' \in [Vouchers -> VoucherType]
  /\ VoucherInv' /\ VouchersKept /\ BalanceIsTrue' /\ BothSides

LEMMA NoVoucherMoves ==
  ASSUME Inv, voucher' = voucher, UNCHANGED <<balance, outdated, drift>> PROVE VoucherStep
<1>1. voucher \in [Vouchers -> VoucherType]
  BY DEF Inv, TypeInv, MoneyTypeOK, VouchersTypeOK
<1>2. VoucherInv'
  BY DEF Inv, VoucherInv
<1>3. Entries' = Entries
  BY DEF Entries
<1>4. BalanceIsTrue'
  BY <1>3 DEF Inv, BalanceIsTrue
<1>5. VouchersKept
  BY DEF VouchersKept, KeptBy
<1>6. BothSides
  BY DEF BothSides
<1> QED BY <1>1, <1>2, <1>4, <1>5, <1>6 DEF VoucherStep

LEMMA OneVoucherMoves ==
  ASSUME Inv, NEW v \in Vouchers, NEW y \in VoucherType,
         voucher' = [voucher EXCEPT ![v] = y], KeptBy(voucher[v], y),
         outdated \subseteq outdated', outdated' \subseteq outdated \cup {v},
         VoucherOK(y, v \in outdated'),
         v \notin outdated' /\ voucher[v].status = "cancelled" => y.status = "cancelled",
         y.mate = voucher[v].mate,
         ~(voucher[v].settlement /\ voucher[v].status = "draft" /\ y.status = "confirmed"),
         ~drift' => ~drift /\ balance' = balance + (Standing(y) - Standing(voucher[v]))
  PROVE  VoucherStep
<1>1. VouchersTypeOK /\ voucher \in [Vouchers -> VoucherType]
  BY DEF Inv, TypeInv, MoneyTypeOK, VouchersTypeOK
<1>2. voucher' \in [Vouchers -> VoucherType] /\ voucher'[v] = y
      /\ \A w \in Vouchers \ {v} : voucher'[w] = voucher[w]
  BY <1>1
<1>3. VoucherInv'
  <2> SUFFICES ASSUME NEW w \in Vouchers PROVE VoucherOK(voucher'[w], w \in outdated')
    BY DEF VoucherInv
  <2>1. CASE w = v
    BY <1>2, <2>1
  <2>2. CASE w # v
    <3>1. voucher'[w] = voucher[w] /\ (w \in outdated' <=> w \in outdated)
      BY <1>2, <2>2
    <3> QED BY <3>1 DEF Inv, VoucherInv, VoucherOK
  <2> QED BY <2>1, <2>2
<1>4. VouchersKept
  <2>1. ASSUME NEW w \in Vouchers PROVE KeptBy(voucher[w], voucher'[w])
    <3>1. CASE w = v BY <3>1, <1>2
    <3>2. CASE w # v BY <3>2, <1>2 DEF KeptBy
    <3> QED BY <3>1, <3>2
  <2> QED BY <1>2, <2>1 DEF VouchersKept
<1>5. BalanceIsTrue'
  <2> SUFFICES ASSUME ~drift' PROVE balance' = Entries'
    BY DEF BalanceIsTrue
  <2> DEFINE d == [w \in {v} |-> Standing(y) - Standing(voucher[v])]
  <2>1. Standing(y) \in Int /\ Standing(voucher[v]) \in Int
    BY <1>1, StandingType
  <2>2. d[v] \in Int /\ Standing(voucher'[v]) = Standing(voucher[v]) + d[v]
    BY <1>2, <2>1
  <2>3. \A w \in Vouchers \ {v} : Standing(voucher'[w]) = Standing(voucher[w])
    BY <1>2
  <2>4. {v} \in SUBSET Vouchers /\ d[v] = Standing(y) - Standing(voucher[v])
    OBVIOUS
  <2> HIDE DEF d
  <2>5. Entries' = Entries + Sum(d, {v})
    BY <1>1, <2>2, <2>3, <2>4, EntriesChange
  <2>6. Sum(d, {v}) = d[v]
    BY <2>2, SumOne
  <2> QED BY <2>4, <2>5, <2>6 DEF Inv, BalanceIsTrue
<1>6. BothSides
  BY <1>2, AmountType, VouchersFinite DEF BothSides
<1> QED BY <1>2, <1>3, <1>4, <1>5, <1>6 DEF VoucherStep

(* Handlers and transfers that do not change keep what is known of them.     *)
LEMMA JobsKept ==
  ASSUME Inv, TypeInv', VouchersKept, NEW j \in Jobs \cup Approvals,
         job'[j] = job[j] \/ job'[j] = Idle
  PROVE  (JobOK(j) /\ SumOK(j))'
<1>1. CASE job'[j] = Idle
  BY <1>1 DEF Idle, JobOK, SumOK
<1>2. CASE job'[j] = job[j]
  <2>1. job[j] \in JobType
    BY DEF Inv, TypeInv
  <2>2. JobOK(j) /\ SumOK(j)
    BY DEF Inv, JobInv
  <2>3. job[j].at \in {"read", "settle"} => job[j].of \in Vouchers
    BY <2>1 DEF JobType, Idle
  <2>4. JobOK(j)'
    <3>1. job[j].at \in {"read", "settle"} => KeptBy(voucher[job[j].of], voucher'[job[j].of])
      BY <2>3 DEF VouchersKept
    <3> QED BY <1>2, <2>2, <3>1 DEF JobOK, KeptBy
  <2>5. SumOK(j)'
    <3>1. EntryCount <= EntryCount' /\ (EntryCount' = EntryCount => Entries' = Entries)
      BY CountTells DEF Inv, TypeInv, MoneyTypeOK
    <3>2. EntryCount \in Int /\ EntryCount' \in Int
      BY CountTells DEF Inv, TypeInv, MoneyTypeOK
    <3>3. job[j].at = "sum" => job[j].count \in Int
      BY <2>1 DEF JobType, Idle
    <3> QED BY <1>2, <2>2, <3>1, <3>2, <3>3 DEF SumOK
  <2> QED BY <2>4, <2>5
<1> QED BY <1>1, <1>2

LEMMA TransfersKept ==
  ASSUME Inv, VouchersKept, NEW t \in Transfers, transfer'[t] = transfer[t]
  PROVE  TransferOK(t)'
<1>1. TransferOK(t) /\ transfer[t] \in TransferType
  BY DEF Inv, TransferInv, TypeInv, MoneyTypeOK
<1>2. {transfer[t].collected, transfer[t].payout} \ {NoVoucher} \subseteq Vouchers
  BY <1>1 DEF TransferType
<1> QED BY <1>1, <1>2 DEF TransferOK, VouchersKept, KeptBy

-----------------------------------------------------------------------------
(* The steps that write vouchers.                                            *)
LEMMA NewVoucherMoves ==
  ASSUME Inv, Fresh # {}, NEW y \in VoucherType, VoucherOK(y, FALSE), y.mate = NoVoucher,
         voucher' = [voucher EXCEPT ![NextVoucher] = y], UNCHANGED <<outdated, drift>>,
         balance' = balance + Standing(y)
  PROVE  VoucherStep
<1> DEFINE v == NextVoucher
<1>1. v \in Vouchers /\ voucher[v].status = "none"
  BY NextIsFresh
<1>2. voucher[v] = Blank /\ v \notin outdated
  BY <1>1 DEF Inv, VoucherInv, VoucherOK
<1> HIDE DEF v
<1>3. Standing(voucher[v]) = 0 /\ voucher[v].mate = NoVoucher /\ voucher[v].status # "draft"
      /\ voucher[v].status # "cancelled" /\ KeptBy(voucher[v], y)
  BY <1>2 DEF Standing, Blank, KeptBy
<1>4. VoucherOK(y, v \in outdated')
  BY <1>2 DEF VoucherOK
<1>5. Standing(y) \in Int
  BY StandingType
<1>6. balance' = balance + (Standing(y) - Standing(voucher[v]))
  BY <1>3, <1>5
<1>7. voucher' = [voucher EXCEPT ![v] = y]
  BY DEF v
<1> QED BY <1>1, <1>3, <1>4, <1>6, <1>7, OneVoucherMoves

(* Twice the same sum: what Confirm adds to the balance, and the entry.      *)
LEMMA NewStanding ==
  ASSUME NEW kind \in {"receipt", "payment"}, NEW amount \in Amounts
  PROVE  /\ Standing(New(kind, amount)) = Sign(New(kind, amount)) * amount
         /\ VoucherOK(New(kind, amount), FALSE)
<1>1. LET x == New(kind, amount) IN
      x.status = "confirmed" /\ x.amount = amount /\ x.entry = amount /\ ~x.reversed
  BY NewFacts
<1>2. amount > 0 /\ amount # 0
  BY AmountType
<1> QED BY <1>1, <1>2 DEF Standing, VoucherOK

LEMMA CreateVoucherStep ==
  ASSUME Inv, NEW kind \in {"receipt", "payment"}, NEW amount \in Amounts, NEW c \in BOOLEAN,
         CreateVoucher(kind, amount, c)
  PROVE  VoucherStep
<1> DEFINE x == [Blank EXCEPT !.kind = kind, !.amount = amount, !.status = "draft"]
<1>1. /\ x \in VoucherType /\ x.kind = kind /\ x.amount = amount /\ x.status = "draft"
      /\ x.entry = 0 /\ ~x.reversed /\ ~x.settlement /\ x.mate = NoVoucher
  BY DEF Blank, VoucherType
<1>2. /\ Fresh # {} /\ UNCHANGED <<outdated, drift>>
      /\ voucher' = [voucher EXCEPT ![NextVoucher] = IF c THEN Confirm(x) ELSE x]
      /\ balance' = balance + IF c THEN ConfirmDelta(x) ELSE 0
  BY DEF CreateVoucher, Move
<1> HIDE DEF x
<1>3. CASE c
  <2> DEFINE y == Confirm(x)
  <2>1. /\ y \in VoucherType /\ y.status = "confirmed" /\ y.amount = amount /\ y.kind = kind
        /\ y.entry = amount /\ ~y.reversed /\ y.mate = NoVoucher
    BY <1>1, ConfirmFacts
  <2> HIDE DEF y
  <2>2. VoucherOK(y, FALSE)
    BY <2>1, AmountType DEF VoucherOK
  <2>3. Standing(y) = ConfirmDelta(x)
    BY <1>1, <2>1, AmountType DEF Standing, ConfirmDelta, Sign
  <2>4. voucher' = [voucher EXCEPT ![NextVoucher] = y] /\ balance' = balance + Standing(y)
    BY <1>2, <1>3, <2>3 DEF y
  <2> QED BY <1>2, <2>1, <2>2, <2>4, NewVoucherMoves
<1>4. CASE ~c
  <2>1. VoucherOK(x, FALSE) /\ Standing(x) = 0
    BY <1>1 DEF VoucherOK, Standing
  <2> QED BY <1>1, <1>2, <1>4, <2>1, NewVoucherMoves
<1> QED BY <1>3, <1>4

LEMMA IssueStep ==
  ASSUME Inv, NEW kind \in {"receipt", "payment"}, Issue(kind)
  PROVE  VoucherStep
<1> DEFINE y == New(kind, Unit)
<1>1. Fresh # {} /\ UNCHANGED <<outdated, drift>>
      /\ voucher' = [voucher EXCEPT ![NextVoucher] = y] /\ Move(Standing(y))
  BY DEF Issue
<1>2. y \in VoucherType /\ y.mate = NoVoucher /\ VoucherOK(y, FALSE)
  BY UnitType, NewFacts, NewStanding
<1> HIDE DEF y
<1>3. balance' = balance + Standing(y)
  BY <1>1 DEF Move
<1> QED BY <1>1, <1>2, <1>3, NewVoucherMoves

LEMMA AskSettlementStep ==
  ASSUME Inv, NEW amount \in Amounts, AskSettlement(amount)
  PROVE  VoucherStep
<1> DEFINE y == [Blank EXCEPT !.kind = "payment", !.amount = amount, !.status = "draft",
                              !.settlement = TRUE]
<1>1. /\ y \in VoucherType /\ y.amount = amount /\ y.status = "draft"
      /\ y.entry = 0 /\ ~y.reversed /\ y.mate = NoVoucher
  BY DEF Blank, VoucherType
<1>2. Fresh # {} /\ UNCHANGED <<outdated, drift>>
      /\ voucher' = [voucher EXCEPT ![NextVoucher] = y] /\ balance' = balance
  BY DEF AskSettlement
<1> HIDE DEF y
<1>3. VoucherOK(y, FALSE) /\ Standing(y) = 0
  BY <1>1 DEF VoucherOK, Standing
<1>4. balance \in Int
  BY DEF Inv, TypeInv, MoneyTypeOK, VouchersTypeOK
<1>5. balance' = balance + Standing(y)
  BY <1>2, <1>3, <1>4
<1> QED BY <1>1, <1>2, <1>3, <1>5, NewVoucherMoves

LEMMA WriteVoucherStep ==
  ASSUME Inv, NEW j \in Jobs, WriteVoucher(j)
  PROVE  VoucherStep
<1> DEFINE v == job[j].of
           was == job[j].was
           to == IF job[j].to = "same" THEN voucher[v].status ELSE job[j].to
           x == [voucher[v] EXCEPT !.status = to,
                   !.amount = IF job[j].amount = 0 THEN @ ELSE job[j].amount]
           y == IF Confirms(was, to) THEN Confirm(x) ELSE IF Reverses(was, to) THEN Cancel(x) ELSE x
           delta == IF Confirms(was, to) THEN ConfirmDelta(x)
                    ELSE IF Reverses(was, to) THEN CancelDelta(x) ELSE 0
           old == v \in outdated'
<1>1. /\ voucher' = [voucher EXCEPT ![v] = y] /\ balance' = balance + delta
      /\ outdated' = (IF voucher[v].status = was THEN outdated ELSE outdated \cup {v})
      /\ drift' = (drift \/ v \in outdated')
  BY DEF WriteVoucher, Move
<1>2. /\ v \in Vouchers /\ was \in {"draft", "confirmed", "cancelled"}
      /\ job[j].to \in {"same", "confirmed", "cancelled"} /\ job[j].amount \in Amounts \cup {0}
  <2>1. job[j] \in JobType /\ job[j].at = "read"
    BY DEF Inv, TypeInv, WriteVoucher
  <2> QED BY <2>1 DEF JobType, Idle
<1>3. /\ voucher[v].status # "none" /\ (was # "draft" => voucher[v].status # "draft")
      /\ job[j].to # "same" => Allowed(was, job[j].to)
      /\ voucher[v].settlement /\ was = "draft" => job[j].to # "confirmed"
  BY DEF Inv, JobInv, JobOK, WriteVoucher
<1>4. voucher[v] \in VoucherType /\ VoucherOK(voucher[v], v \in outdated)
  BY <1>2 DEF Inv, TypeInv, MoneyTypeOK, VouchersTypeOK, VoucherInv
<1>5. voucher[v].amount \in Amounts
  BY <1>3, <1>4 DEF VoucherOK
<1>6. to \in {"draft", "confirmed", "cancelled"} /\ (voucher[v].status # "draft" => to # "draft")
  BY <1>2, <1>3, <1>4 DEF VoucherType
<1>7. /\ x \in VoucherType /\ x.amount \in Amounts /\ x.status = to
      /\ x.kind = voucher[v].kind /\ x.settlement = voucher[v].settlement
      /\ x.mate = voucher[v].mate /\ x.entry = voucher[v].entry /\ x.reversed = voucher[v].reversed
  BY <1>2, <1>4, <1>5, <1>6 DEF VoucherType
<1>8. ~old => v \notin outdated /\ voucher[v].status = was
  BY <1>1
<1>9. ~old => /\ Confirms(was, to) => was = "draft"
              /\ was = "cancelled" => to = "cancelled"
              /\ was = "confirmed" => to \in {"confirmed", "cancelled"}
  BY <1>2, <1>3, <1>6, <1>8 DEF Confirms, Allowed
<1>10. ~(voucher[v].settlement /\ voucher[v].status = "draft" /\ to = "confirmed")
  BY <1>2, <1>3
<1> HIDE DEF x, to, was, v
<1>11. /\ y \in VoucherType /\ y.status = to /\ y.amount = x.amount /\ y.kind = x.kind
       /\ y.settlement = x.settlement /\ y.mate = x.mate
       /\ Confirms(was, to) => /\ y.entry = (IF x.entry = 0 THEN x.amount ELSE x.entry)
                               /\ y.reversed = x.reversed /\ y.entry # 0
       /\ ~Confirms(was, to) => y.entry = x.entry
       /\ ~Confirms(was, to) /\ Reverses(was, to) => y.reversed = (x.entry # 0)
       /\ ~Confirms(was, to) /\ ~Reverses(was, to) => y.reversed = x.reversed
  <2>1. CASE Confirms(was, to)
    BY <1>7, <2>1, ConfirmFacts DEF Confirms
  <2>2. CASE ~Confirms(was, to) /\ Reverses(was, to)
    BY <1>7, <2>2, CancelFacts DEF Reverses
  <2>3. CASE ~Confirms(was, to) /\ ~Reverses(was, to)
    BY <1>7, <2>3
  <2> QED BY <2>1, <2>2, <2>3
<1> HIDE DEF y
<1>12. KeptBy(voucher[v], y)
  BY <1>4, <1>6, <1>7, <1>11 DEF KeptBy, VoucherOK
<1>13. VoucherOK(y, old)
  <2>1. y.status # "none" /\ y.amount \in Amounts /\ (y.reversed => y.entry # 0)
    BY <1>4, <1>6, <1>7, <1>11 DEF VoucherOK
  <2>2. ASSUME ~old
        PROVE  /\ y.status = "draft" => y.entry = 0
               /\ y.status = "confirmed" => y.entry # 0 /\ ~y.reversed
               /\ y.status = "cancelled" => y.entry = 0 \/ y.reversed
    <3>1. /\ x.reversed => x.entry # 0
          /\ was = "draft" => x.entry = 0
          /\ was = "confirmed" => x.entry # 0 /\ ~x.reversed
          /\ was = "cancelled" => x.entry = 0 \/ x.reversed
      BY <1>4, <1>7, <1>8, <2>2 DEF VoucherOK
    <3> HIDE DEF old
    <3>2. CASE Confirms(was, to)
      <4>1. was = "draft" /\ to = "confirmed"
        BY <1>9, <2>2, <3>2 DEF Confirms
      <4>2. x.entry = 0 /\ ~x.reversed
        BY <3>1, <4>1
      <4>3. y.status = "confirmed" /\ y.entry # 0 /\ ~y.reversed
        BY <1>11, <3>2, <4>1, <4>2
      <4> QED BY <4>3
    <3>3. CASE ~Confirms(was, to) /\ Reverses(was, to)
      BY <1>11, <3>1, <3>3 DEF Reverses
    <3>4. CASE ~Confirms(was, to) /\ ~Reverses(was, to)
      BY <1>2, <1>6, <1>9, <1>11, <2>2, <3>1, <3>4 DEF Confirms, Reverses
    <3> QED BY <3>2, <3>3, <3>4
  <2> QED BY <2>1, <2>2 DEF VoucherOK
<1>14. ~old /\ voucher[v].status = "cancelled" => y.status = "cancelled"
  BY <1>8, <1>9, <1>11
<1>15. ASSUME ~drift'
       PROVE  ~drift /\ balance' = balance + (Standing(y) - Standing(voucher[v]))
  <2>1. ~old /\ ~drift
    BY <1>1, <1>15
  <2>2. /\ x.reversed => x.entry # 0
        /\ was = "draft" => x.entry = 0
        /\ was = "confirmed" => x.entry # 0 /\ ~x.reversed
    BY <1>4, <1>7, <1>8, <2>1 DEF VoucherOK
  <2>3. Standing(voucher[v]) = Standing(x) /\ Standing(x) \in Int /\ Standing(y) \in Int
    BY <1>7, <1>11, StandingType DEF Standing, Sign
  <2>4. delta = Standing(y) - Standing(x)
    <3> HIDE DEF old
    <3>1. CASE Confirms(was, to)
      <4>1. x.entry = 0 /\ ~x.reversed
        BY <1>9, <2>1, <2>2, <3>1
      <4>2. Standing(x) = 0
        BY <4>1 DEF Standing
      <4>3. y.entry = x.amount /\ ~y.reversed /\ y.kind = x.kind /\ x.amount > 0
        BY <1>7, <1>11, <3>1, <4>1, AmountType
      <4>4. Standing(y) = Sign(x) * x.amount
        BY <4>3 DEF Standing, Sign
      <4>5. delta = Sign(x) * x.amount
        BY <3>1 DEF ConfirmDelta
      <4> HIDE DEF delta
      <4> QED BY <2>3, <4>2, <4>4, <4>5
    <3>2. CASE ~Confirms(was, to) /\ Reverses(was, to)
      <4>1. x.entry # 0 /\ ~x.reversed /\ y.entry = x.entry /\ y.reversed
        BY <1>11, <2>2, <3>2 DEF Reverses
      <4>2. x.entry \in Int /\ x.entry > 0
        BY <1>7, <4>1, AmountType DEF VoucherType
      <4>3. Standing(y) = 0 /\ Standing(x) = Sign(x) * x.entry
        BY <4>1, <4>2 DEF Standing
      <4>4. delta = -Sign(x) * x.entry
        BY <3>2, <4>1 DEF CancelDelta
      <4>5. Sign(x) = 1 \/ Sign(x) = -1
        BY DEF Sign
      <4> HIDE DEF delta
      <4> QED BY <4>2, <4>3, <4>4, <4>5
    <3>3. CASE ~Confirms(was, to) /\ ~Reverses(was, to)
      <4>1. Standing(y) = Standing(x)
        BY <1>11, <3>3 DEF Standing, Sign
      <4>2. delta = 0
        BY <3>3
      <4> HIDE DEF delta
      <4> QED BY <2>3, <4>1, <4>2
    <3> QED BY <3>1, <3>2, <3>3
  <2> HIDE DEF delta
  <2> QED BY <1>1, <2>1, <2>3, <2>4
<1>16. outdated \subseteq outdated' /\ outdated' \subseteq outdated \cup {v}
  BY <1>1
<1> HIDE DEF delta
<1>17. y.mate = voucher[v].mate
       /\ ~(voucher[v].settlement /\ voucher[v].status = "draft" /\ y.status = "confirmed")
  BY <1>7, <1>10, <1>11
<1> QED BY <1>1, <1>2, <1>11, <1>12, <1>13, <1>14, <1>15, <1>16, <1>17, OneVoucherMoves

(* Vouchers cancelled with their rows locked.                                *)
LEMMA CancelLockedStep ==
  ASSUME Inv, NEW vs \in SUBSET Vouchers, \A v \in vs : voucher[v].status # "none",
         CancelLocked(vs)
  PROVE  VoucherStep /\ (\A v \in vs : voucher'[v].status = "cancelled")
<1> DEFINE real == {v \in vs : v # NoVoucher /\ voucher[v].status = "confirmed"}
           d == [v \in Vouchers |-> CancelDelta(voucher[v])]
<1>1. /\ voucher' = [v \in Vouchers |->
            IF v \in real THEN Cancel(voucher[v])
            ELSE IF v \in vs THEN [voucher[v] EXCEPT !.status = "cancelled"] ELSE voucher[v]]
      /\ balance' = balance + Sum(d, real)
      /\ drift' = (drift \/ real \cap outdated # {}) /\ outdated' = outdated
  BY DEF CancelLocked, Move
<1>2. real \in SUBSET vs /\ \A v \in real : d[v] = CancelDelta(voucher[v])
  OBVIOUS
<1>3. \A v \in vs : (v \in real <=> voucher[v].status = "confirmed")
  BY VouchersFinite, AmountType DEF NoVoucher
<1> HIDE DEF real, d
<1>4. ASSUME NEW v \in Vouchers
      PROVE  voucher[v] \in VoucherType /\ VoucherOK(voucher[v], v \in outdated)
  BY DEF Inv, TypeInv, MoneyTypeOK, VouchersTypeOK, VoucherInv
<1>5. ASSUME NEW v \in Vouchers, v \in vs
      PROVE  /\ voucher'[v] \in VoucherType /\ voucher'[v].status = "cancelled"
             /\ voucher'[v].amount = voucher[v].amount /\ voucher'[v].kind = voucher[v].kind
             /\ voucher'[v].settlement = voucher[v].settlement
             /\ voucher'[v].mate = voucher[v].mate /\ voucher'[v].entry = voucher[v].entry
             /\ v \in real => voucher'[v].reversed = (voucher[v].entry # 0)
             /\ v \notin real => voucher'[v].reversed = voucher[v].reversed
  <2>1. CASE v \in real
    BY <1>1, <1>4, <2>1, CancelFacts
  <2>2. CASE v \notin real
    <3>1. voucher'[v] = [voucher[v] EXCEPT !.status = "cancelled"]
      BY <1>1, <1>5, <2>2
    <3> QED BY <1>4, <2>2, <3>1 DEF VoucherType
  <2> QED BY <2>1, <2>2
<1>6. ASSUME NEW v \in Vouchers, v \notin vs PROVE voucher'[v] = voucher[v]
  BY <1>1, <1>2, <1>6
<1>7. voucher' \in [Vouchers -> VoucherType]
  <2>1. \A v \in Vouchers : voucher'[v] \in VoucherType
    BY <1>4, <1>5, <1>6
  <2>2. voucher' = [v \in Vouchers |-> voucher'[v]]
    BY <1>1
  <2> QED BY <2>1, <2>2
<1>8. VoucherInv'
  <2> SUFFICES ASSUME NEW v \in Vouchers PROVE VoucherOK(voucher'[v], v \in outdated)
    BY <1>1 DEF VoucherInv
  <2>1. CASE v \in vs
    <3>1. voucher[v].status \in {"draft", "confirmed", "cancelled"}
      BY <1>4, <2>1 DEF VoucherType
    <3>2. voucher'[v].amount \in Amounts /\ (voucher'[v].reversed => voucher'[v].entry # 0)
      BY <1>4, <1>5, <2>1, <3>1 DEF VoucherOK
    <3>3. v \notin outdated => voucher'[v].entry = 0 \/ voucher'[v].reversed
      BY <1>3, <1>4, <1>5, <2>1, <3>1 DEF VoucherOK
    <3> QED BY <1>5, <2>1, <3>2, <3>3 DEF VoucherOK
  <2>2. CASE v \notin vs
    BY <1>4, <1>6, <2>2
  <2> QED BY <2>1, <2>2
<1>9. VouchersKept
  <2>1. ASSUME NEW v \in Vouchers
        PROVE  /\ KeptBy(voucher[v], voucher'[v])
               /\ voucher[v].status = "cancelled" => voucher'[v].status = "cancelled"
    <3>1. CASE v \in vs
      BY <1>4, <1>5, <3>1 DEF KeptBy, VoucherOK
    <3>2. CASE v \notin vs
      BY <1>6, <3>2 DEF KeptBy
    <3> QED BY <3>1, <3>2
  <2> QED BY <1>1, <2>1 DEF VouchersKept
<1>10. BalanceIsTrue'
  <2> SUFFICES ASSUME ~drift' PROVE balance' = Entries'
    BY DEF BalanceIsTrue
  <2>1. ~drift /\ \A v \in real : v \notin outdated
    BY <1>1
  <2>2. ASSUME NEW v \in real
        PROVE  d[v] \in Int /\ Standing(voucher'[v]) = Standing(voucher[v]) + d[v]
    <3>1. v \in vs /\ v \in Vouchers /\ voucher[v].status = "confirmed" /\ v \notin outdated
      BY <1>2, <1>3, <2>1
    <3>2. voucher[v].entry # 0 /\ ~voucher[v].reversed
      BY <1>4, <3>1 DEF VoucherOK
    <3>3. voucher[v].entry \in Int /\ voucher[v].entry > 0
      BY <1>4, <3>1, <3>2, AmountType DEF VoucherType
    <3>4. d[v] = -Sign(voucher[v]) * voucher[v].entry
      BY <1>2, <3>2 DEF CancelDelta
    <3>5. Standing(voucher'[v]) = 0 /\ Standing(voucher[v]) = Sign(voucher[v]) * voucher[v].entry
      BY <1>5, <3>1, <3>2, <3>3 DEF Standing
    <3>6. Sign(voucher[v]) = 1 \/ Sign(voucher[v]) = -1
      BY DEF Sign
    <3> QED BY <3>3, <3>4, <3>5, <3>6
  <2>3. ASSUME NEW v \in Vouchers \ real
        PROVE  Standing(voucher'[v]) = Standing(voucher[v])
    <3>1. CASE v \in vs
      BY <1>5, <2>3, <3>1 DEF Standing, Sign
    <3>2. CASE v \notin vs
      BY <1>6, <3>2
    <3> QED BY <3>1, <3>2
  <2>4. Entries' = Entries + Sum(d, real)
    <3>1. VouchersTypeOK /\ real \in SUBSET Vouchers
      BY <1>2 DEF Inv, TypeInv, MoneyTypeOK
    <3> QED BY <2>2, <2>3, <3>1, EntriesChange
  <2> QED BY <1>1, <2>1, <2>4 DEF Inv, BalanceIsTrue
<1>11. BothSides
  <2>1. ASSUME NEW v \in Vouchers
        PROVE  /\ voucher'[v].mate = voucher[v].mate
               /\ ~(voucher[v].status = "draft" /\ voucher'[v].status = "confirmed")
    BY <1>5, <1>6
  <2> QED BY <2>1 DEF BothSides
<1> QED BY <1>5, <1>7, <1>8, <1>9, <1>10, <1>11 DEF VoucherStep

(* A settlement is confirmed together with its receipt, or not at all.       *)
LEMMA SettleStep ==
  ASSUME Inv, NEW j \in Approvals, Settle(j)
  PROVE  VoucherStep
<1> DEFINE v == job[j].of
           w == NextVoucher
           r == [New("receipt", job[j].amount) EXCEPT !.mate = v]
           y == Confirm(voucher[v])
<1>1. v \in Vouchers /\ job[j].amount \in Amounts /\ voucher[v].status # "none"
  <2>1. job[j] \in JobType /\ job[j].at = "settle" /\ JobOK(j)
    BY DEF Inv, TypeInv, JobInv, Settle
  <2> QED BY <2>1 DEF JobType, Idle, JobOK
<1>2. CASE ~Settleable(v)
  <2>1. voucher' = voucher /\ UNCHANGED <<balance, outdated, drift>>
    BY <1>2 DEF Settle
  <2> QED BY <2>1, NoVoucherMoves
<1>3. CASE Settleable(v)
  <2>1. /\ Fresh # {} /\ voucher' = [voucher EXCEPT ![v] = y, ![w] = r]
        /\ balance' = balance + (ConfirmDelta(voucher[v]) + ConfirmDelta(r))
        /\ drift' = (drift \/ v \in outdated) /\ outdated' = outdated
    BY <1>3 DEF Settle, Move
  <2>2. voucher[v].status = "draft" /\ voucher[v] \in VoucherType
        /\ VoucherOK(voucher[v], v \in outdated)
    BY <1>1, <1>3 DEF Settleable, Inv, TypeInv, MoneyTypeOK, VouchersTypeOK, VoucherInv
  <2>3. w \in Vouchers /\ w # v /\ voucher[w] = Blank /\ w \notin outdated
    BY <2>1, <2>2, NextIsFresh DEF Inv, VoucherInv, VoucherOK
  <2>4. /\ r \in VoucherType /\ r.kind = "receipt" /\ r.status = "confirmed"
        /\ r.amount \in Amounts /\ r.entry = r.amount /\ ~r.reversed /\ r.mate = v
    <3> DEFINE n == New("receipt", job[j].amount)
    <3>1. /\ n \in VoucherType /\ n.kind = "receipt" /\ n.status = "confirmed"
          /\ n.amount \in Amounts /\ n.entry = n.amount /\ ~n.reversed
      BY <1>1, NewFacts
    <3>2. v \in Vouchers /\ r = [n EXCEPT !.mate = v]
      BY <1>1
    <3> HIDE DEF n, r, v
    <3> QED BY <3>1, <3>2 DEF VoucherType
  <2>5. voucher[v].amount \in Amounts
    BY <2>2 DEF VoucherOK
  <2>6. /\ y \in VoucherType /\ y.status = "confirmed" /\ y.amount = voucher[v].amount
        /\ y.kind = voucher[v].kind /\ y.settlement = voucher[v].settlement
        /\ y.mate = voucher[v].mate /\ y.reversed = voucher[v].reversed /\ y.entry # 0
        /\ y.entry = IF voucher[v].entry = 0 THEN voucher[v].amount ELSE voucher[v].entry
    BY <2>2, <2>5, ConfirmFacts
  <2> HIDE DEF v, w, r, y
  <2>7. /\ voucher \in [Vouchers -> VoucherType] /\ VouchersTypeOK
        /\ \A u \in Vouchers : VoucherOK(voucher[u], u \in outdated)
    BY DEF Inv, TypeInv, MoneyTypeOK, VouchersTypeOK, VoucherInv
  <2>8. /\ voucher' \in [Vouchers -> VoucherType] /\ voucher'[v] = y /\ voucher'[w] = r
        /\ \A u \in Vouchers \ {v, w} : voucher'[u] = voucher[u]
    BY <1>1, <2>1, <2>3, <2>4, <2>6, <2>7
  <2>9. VoucherInv'
    <3> SUFFICES ASSUME NEW u \in Vouchers PROVE VoucherOK(voucher'[u], u \in outdated)
      BY <2>1 DEF VoucherInv
    <3>1. CASE u = v
      BY <2>2, <2>5, <2>6, <2>8, <3>1 DEF VoucherOK
    <3>2. CASE u = w
      BY <2>3, <2>4, <2>8, <3>2, AmountType DEF VoucherOK
    <3>3. CASE u \notin {v, w}
      BY <2>7, <2>8, <3>3
    <3> QED BY <3>1, <3>2, <3>3
  <2>10. VouchersKept
    <3>1. ASSUME NEW u \in Vouchers
          PROVE  /\ KeptBy(voucher[u], voucher'[u])
                 /\ voucher[u].status = "cancelled" => voucher'[u].status = "cancelled"
      <4>1. CASE u = v
        BY <2>2, <2>6, <2>8, <4>1 DEF KeptBy
      <4>2. CASE u = w
        BY <2>3, <2>8, <4>2 DEF KeptBy, Blank
      <4>3. CASE u \notin {v, w}
        BY <2>8, <4>3 DEF KeptBy
      <4> QED BY <4>1, <4>2, <4>3
    <3> QED BY <2>1, <3>1 DEF VouchersKept
  <2>11. BalanceIsTrue'
    <3> SUFFICES ASSUME ~drift' PROVE balance' = Entries'
      BY DEF BalanceIsTrue
    <3> DEFINE d == [u \in {v, w} |-> IF u = v THEN ConfirmDelta(voucher[v]) ELSE ConfirmDelta(r)]
    <3>1. voucher[v].entry = 0 /\ ~voucher[v].reversed /\ ~drift
      BY <2>1, <2>2 DEF VoucherOK
    <3>2. Standing(voucher[v]) = 0 /\ Standing(y) = ConfirmDelta(voucher[v]) /\ Standing(y) \in Int
      <4>1. y.entry = y.amount /\ y.amount > 0 /\ ~y.reversed
        BY <2>5, <2>6, <3>1, AmountType
      <4>2. Standing(y) \in Int
        BY <2>6, StandingType
      <4> QED BY <2>6, <3>1, <4>1, <4>2 DEF Standing, ConfirmDelta, Sign
    <3>3. Standing(voucher[w]) = 0 /\ Standing(r) = ConfirmDelta(r) /\ Standing(r) \in Int
      BY <2>3, <2>4, AmountType, StandingType DEF Standing, ConfirmDelta, Sign, Blank
    <3>4. d[v] = Standing(y) /\ d[w] = Standing(r)
      BY <2>3, <3>2, <3>3
    <3> HIDE DEF d
    <3>5. \A u \in {v, w} : d[u] \in Int /\ Standing(voucher'[u]) = Standing(voucher[u]) + d[u]
      BY <2>8, <3>2, <3>3, <3>4
    <3>6. \A u \in Vouchers \ {v, w} : Standing(voucher'[u]) = Standing(voucher[u])
      BY <2>8
    <3>7. Entries' = Entries + Sum(d, {v, w})
      <4>1. {v, w} \in SUBSET Vouchers
        BY <1>1, <2>3 DEF v
      <4> QED BY <2>7, <3>5, <3>6, <4>1, EntriesChange
    <3>8. Sum(d, {v, w}) = d[v] + d[w]
      BY <2>3, <3>5, SumTwo
    <3> QED BY <2>1, <3>1, <3>2, <3>3, <3>4, <3>7, <3>8 DEF Inv, BalanceIsTrue
  <2>12. BothSides
    <3> SUFFICES ASSUME NEW u \in Vouchers, voucher[u].settlement
        PROVE  (\E z \in Vouchers : voucher'[z].mate = u /\ voucher[z].mate # u)
                 <=> (voucher[u].status = "draft" /\ voucher'[u].status = "confirmed")
      BY DEF BothSides
    <3>1. u # w /\ u # NoVoucher
      BY <2>3, VouchersFinite, AmountType DEF Blank, NoVoucher
    <3>2. voucher[w].mate = NoVoucher
      BY <2>3 DEF Blank
    <3>3. CASE u = v
      <4>1. voucher'[w].mate = u /\ voucher[w].mate # u
        BY <2>4, <2>8, <3>1, <3>2, <3>3
      <4> QED BY <2>2, <2>3, <2>6, <2>8, <3>3, <4>1
    <3>4. CASE u # v
      <4>1. voucher'[u] = voucher[u]
        BY <2>8, <3>1, <3>4
      <4>2. \A z \in Vouchers : voucher'[z].mate = u => voucher[z].mate = u
        BY <2>4, <2>6, <2>8, <3>4
      <4> QED BY <4>1, <4>2
    <3> QED BY <3>3, <3>4
  <2> QED BY <2>8, <2>9, <2>10, <2>11, <2>12 DEF VoucherStep
<1> QED BY <1>2, <1>3

-----------------------------------------------------------------------------
(* All of it together.                                                       *)
PayoutKept ==
  \A t \in Transfers :
    transfer'[t].payout # transfer[t].payout =>
      transfer[t].payout = NoVoucher \/ transfer[t].bypassed

StepOK == Inv' /\ BothSides /\ PayoutKept

LEMMA Assemble ==
  ASSUME Inv, VoucherStep,
         balance' \in -MaxBalance .. MaxBalance, outdated' \subseteq Vouchers,
         drift' \in BOOLEAN, job' \in [Jobs \cup Approvals -> JobType],
         transfer' \in [Transfers -> TransferType],
         \A j \in Jobs \cup Approvals :
           job'[j] = job[j] \/ job'[j] = Idle \/ (JobOK(j) /\ SumOK(j))',
         \A t \in Transfers : transfer'[t] = transfer[t] \/ TransferOK(t)',
         PayoutKept
  PROVE  StepOK
<1>1. TypeInv'
  <2>1. \A j \in Jobs \cup Approvals : job'[j].at \in {"idle", "read", "settle", "sum"}
    BY DEF JobType, Idle
  <2> QED BY <2>1 DEF TypeInv, MoneyTypeOK, VouchersTypeOK, VoucherStep
<1>2. JobInv'
  <2>1. \A j \in Jobs \cup Approvals : (JobOK(j) /\ SumOK(j))'
    BY <1>1, JobsKept DEF VoucherStep
  <2> QED BY <2>1 DEF JobInv
<1>3. TransferInv'
  <2>1. \A t \in Transfers : TransferOK(t)'
    BY TransfersKept DEF VoucherStep
  <2> QED BY <2>1 DEF TransferInv
<1> QED BY <1>1, <1>2, <1>3 DEF StepOK, Inv, VoucherStep

LEMMA Types ==
  ASSUME Inv
  PROVE  /\ voucher \in [Vouchers -> VoucherType] /\ balance \in -MaxBalance .. MaxBalance
         /\ outdated \subseteq Vouchers /\ drift \in BOOLEAN
         /\ job \in [Jobs \cup Approvals -> JobType] /\ transfer \in [Transfers -> TransferType]
         /\ Idle \in JobType
BY DEF Inv, TypeInv, MoneyTypeOK, VouchersTypeOK, JobType

(* The finance screens.                                                      *)
LEMMA FinanceScreensStep ==
  ASSUME Inv, FinanceScreens, UNCHANGED transfer PROVE StepOK
<1>1. \A t \in Transfers : transfer'[t] = transfer[t]
  OBVIOUS
<1>2. PayoutKept
  BY DEF PayoutKept
<1>3. ASSUME NEW kind \in {"receipt", "payment"}, NEW c \in BOOLEAN, CreateVoucher(kind, Unit, c)
      PROVE  StepOK
  <2>1. VoucherStep
    BY <1>3, UnitType, CreateVoucherStep
  <2>2. balance' \in -MaxBalance .. MaxBalance /\ UNCHANGED <<job, outdated, drift>>
    BY <1>3 DEF CreateVoucher, Move
  <2> QED BY <1>1, <1>2, <2>1, <2>2, Types, Assemble
<1>4. ASSUME NEW j \in Jobs, NEW v \in Vouchers, NEW r \in Requests, BeginUpdate(j, v, r.to, r.amount)
      PROVE  StepOK
  <2> DEFINE a == [at |-> "read", of |-> v, was |-> voucher[v].status, to |-> r.to,
                   amount |-> r.amount]
  <2>1. /\ voucher[v].status # "none" /\ (r.to # "same" => Allowed(voucher[v].status, r.to))
        /\ ~(voucher[v].settlement /\ voucher[v].status = "draft" /\ r.to = "confirmed")
        /\ job' = [job EXCEPT ![j] = a] /\ UNCHANGED <<voucher, balance, outdated, drift>>
    BY <1>4 DEF BeginUpdate
  <2>2. r.to \in {"same", "confirmed", "cancelled"} /\ r.amount \in Amounts \cup {0}
    BY DEF Requests
  <2>3. a \in JobType
    <3>1. voucher[v].status \in {"draft", "confirmed", "cancelled"}
      BY <2>1, Types DEF VoucherType
    <3> QED BY <2>2, <3>1 DEF JobType
  <2>4. VoucherStep
    BY <2>1, NoVoucherMoves
  <2>5. a.at = "read" /\ a.of = v /\ a.was = voucher[v].status /\ a.to = r.to
    OBVIOUS
  <2> HIDE DEF a
  <2>6. job' \in [Jobs \cup Approvals -> JobType] /\ job'[j] = a
        /\ \A k \in (Jobs \cup Approvals) \ {j} : job'[k] = job[k]
    BY <2>1, <2>3, Types
  <2>7. JobOK(j)' /\ SumOK(j)'
    <3>1. SumOK(j)'
      BY <2>5, <2>6 DEF SumOK
    <3>2. JobOK(j)'
      BY <2>1, <2>5, <2>6 DEF JobOK
    <3> QED BY <3>1, <3>2
  <2>8. \A k \in Jobs \cup Approvals :
          job'[k] = job[k] \/ job'[k] = Idle \/ (JobOK(k) /\ SumOK(k))'
    BY <2>6, <2>7
  <2> QED BY <1>1, <1>2, <2>1, <2>4, <2>6, <2>8, Types, Assemble
<1>5. ASSUME NEW j \in Jobs, WriteVoucher(j) PROVE StepOK
  <2>1. VoucherStep
    BY <1>5, WriteVoucherStep
  <2>2. balance' \in -MaxBalance .. MaxBalance /\ drift' \in BOOLEAN /\ job' = [job EXCEPT ![j] = Idle]
    BY <1>5 DEF WriteVoucher, Move
  <2>3. job[j].of \in Vouchers
    <3>1. job[j] \in JobType /\ job[j].at = "read"
      BY <1>5, Types DEF WriteVoucher
    <3> QED BY <3>1 DEF JobType, Idle
  <2>4. outdated' \subseteq Vouchers
    BY <1>5, <2>3, Types DEF WriteVoucher
  <2>5. job' \in [Jobs \cup Approvals -> JobType]
        /\ \A k \in Jobs \cup Approvals : job'[k] = job[k] \/ job'[k] = Idle
    BY <2>2, Types
  <2> QED BY <1>1, <1>2, <2>1, <2>2, <2>4, <2>5, Types, Assemble
<1>6. ASSUME NEW j \in Jobs, BeginReconcile(j) PROVE StepOK
  <2> DEFINE a == [at |-> "sum", net |-> Entries, count |-> EntryCount]
  <2>1. job' = [job EXCEPT ![j] = a] /\ UNCHANGED <<voucher, balance, outdated, drift>>
    BY <1>6 DEF BeginReconcile
  <2>2. Entries \in Int /\ EntryCount \in Int
    BY EntriesType, EntryCountType DEF Inv, TypeInv, MoneyTypeOK
  <2>3. a \in JobType
    BY <2>2 DEF JobType
  <2>4. VoucherStep
    BY <2>1, NoVoucherMoves
  <2>5. a.at = "sum" /\ a.net = Entries /\ a.count = EntryCount
    OBVIOUS
  <2> HIDE DEF a
  <2>6. job' \in [Jobs \cup Approvals -> JobType] /\ job'[j] = a
        /\ \A k \in (Jobs \cup Approvals) \ {j} : job'[k] = job[k]
    BY <2>1, <2>3, Types
  <2>7. Entries' = Entries /\ EntryCount' = EntryCount
    BY <2>1 DEF Entries, EntryCount, Written
  <2>8. JobOK(j)' /\ SumOK(j)'
    <3>1. JobOK(j)'
      BY <2>5, <2>6 DEF JobOK
    <3>2. SumOK(j)'
      BY <2>2, <2>5, <2>6, <2>7 DEF SumOK
    <3> QED BY <3>1, <3>2
  <2>9. \A k \in Jobs \cup Approvals :
          job'[k] = job[k] \/ job'[k] = Idle \/ (JobOK(k) /\ SumOK(k))'
    BY <2>6, <2>8
  <2> QED BY <1>1, <1>2, <2>1, <2>4, <2>6, <2>9, Types, Assemble
<1>7. ASSUME NEW j \in Jobs, Reconcile(j) PROVE StepOK
  <2>1. /\ job[j].at = "sum" /\ balance' = job[j].net /\ balance' \in -MaxBalance .. MaxBalance
        /\ drift' = (job[j].count # EntryCount) /\ job' = [job EXCEPT ![j] = Idle]
        /\ UNCHANGED <<voucher, outdated>>
    BY <1>7 DEF Reconcile
  <2>2. voucher' \in [Vouchers -> VoucherType] /\ VoucherInv' /\ VouchersKept /\ BothSides
    BY <2>1, Types DEF Inv, VoucherInv, VouchersKept, KeptBy, BothSides
  <2>3. Entries' = Entries
    BY <2>1 DEF Entries
  <2>4. BalanceIsTrue'
    BY <2>1, <2>3 DEF BalanceIsTrue, Inv, JobInv, SumOK
  <2>5. job' \in [Jobs \cup Approvals -> JobType]
        /\ \A k \in Jobs \cup Approvals : job'[k] = job[k] \/ job'[k] = Idle
    BY <2>1, Types
  <2>6. VoucherStep
    BY <2>2, <2>4 DEF VoucherStep
  <2> QED BY <1>1, <1>2, <2>1, <2>5, <2>6, Types, Assemble
<1>8. ASSUME NEW j \in Jobs \cup Approvals, Stop(j) PROVE StepOK
  <2>1. job' = [job EXCEPT ![j] = Idle] /\ UNCHANGED <<voucher, balance, outdated, drift>>
    BY <1>8 DEF Stop
  <2>2. VoucherStep
    BY <2>1, NoVoucherMoves
  <2>3. job' \in [Jobs \cup Approvals -> JobType]
        /\ \A k \in Jobs \cup Approvals : job'[k] = job[k] \/ job'[k] = Idle
    BY <2>1, Types
  <2> QED BY <1>1, <1>2, <2>1, <2>2, <2>3, Types, Assemble
<1> QED BY <1>3, <1>4, <1>5, <1>6, <1>7, <1>8 DEF FinanceScreens

(* The transfers: one changes, the others are kept.                          *)
LEMMA OneTransferMoves ==
  ASSUME Inv, VoucherStep, NEW t \in Transfers, NEW x \in TransferType,
         transfer' = [transfer EXCEPT ![t] = x], TransferOK(t)',
         x.payout # transfer[t].payout => transfer[t].payout = NoVoucher \/ transfer[t].bypassed,
         balance' \in -MaxBalance .. MaxBalance, drift' \in BOOLEAN, UNCHANGED <<job, outdated>>
  PROVE  StepOK
<1>1. transfer' \in [Transfers -> TransferType] /\ transfer'[t] = x
      /\ \A u \in Transfers \ {t} : transfer'[u] = transfer[u]
  BY Types
<1>2. PayoutKept
  BY <1>1 DEF PayoutKept
<1> QED BY <1>1, <1>2, Types, Assemble

(* A transfer as it is created, before anything is collected.                *)
LEMMA CreatedFacts ==
  ASSUME NEW status \in Statuses, NEW linked \in BOOLEAN, NEW w \in Vouchers \cup {NoVoucher}
  PROVE  LET y == Created(status, linked)
             z == [y EXCEPT !.collected = w]
         IN  /\ y \in TransferType /\ y.collected = NoVoucher /\ y.payout = NoVoucher
             /\ z \in TransferType /\ z.collected = w /\ z.payout = NoVoucher
             /\ z.status = status /\ (z.bypassed <=> status = "CANCELLED")
<1> DEFINE y == Created(status, linked)
           z == [y EXCEPT !.collected = w]
           u == [status |-> status, linked |-> linked, collected |-> NoVoucher,
                 payout |-> NoVoucher, bypassed |-> (status = "CANCELLED")]
<1>1. y = u
  <2> DEFINE b == (status = "CANCELLED")
  <2>1. y = [Unmade EXCEPT !.status = status, !.linked = linked, !.bypassed = b]
    BY DEF Created
  <2> HIDE DEF b
  <2>2. y = [status |-> status, linked |-> linked, collected |-> NoVoucher,
             payout |-> NoVoucher, bypassed |-> b]
    BY <2>1 DEF Unmade
  <2> QED BY <2>2 DEF b
<1>2. z = [status |-> status, linked |-> linked, collected |-> w,
           payout |-> NoVoucher, bypassed |-> (status = "CANCELLED")]
  BY <1>1
<1>3. (status = "CANCELLED") \in BOOLEAN
  OBVIOUS
<1> HIDE DEF y, z
<1>4. y \in TransferType /\ y.collected = NoVoucher /\ y.payout = NoVoucher
  BY <1>1, <1>3 DEF TransferType, Statuses
<1>5. z \in TransferType /\ z.collected = w /\ z.payout = NoVoucher /\ z.status = status
  BY <1>2, <1>3 DEF TransferType, Statuses
<1>6. z.bypassed <=> status = "CANCELLED"
  BY <1>2, Zenon
<1> QED BY <1>4, <1>5, <1>6 DEF y, z

LEMMA TransferScreensStep ==
  ASSUME Inv, TransferScreens PROVE StepOK
<1> SUFFICES ASSUME NEW t \in Transfers, NEW status \in Statuses, NEW linked \in BOOLEAN,
                    \/ CreateLinked(t, status) \/ CreateAndCollect(t, status, linked)
                    \/ CompleteTransfer(t) \/ CancelTransfer(t) \/ DeleteTransfer(t)
                    \/ PutStatus(t)
             PROVE  StepOK
  <2>1. "PENDING" \in Statuses /\ TRUE \in BOOLEAN
    BY DEF Statuses
  <2> QED BY <2>1 DEF TransferScreens
<1> DEFINE x == transfer[t]
<1>1. x \in TransferType /\ TransferOK(t)
  BY Types DEF Inv, TransferInv
<1>2. \A v \in {x.collected, x.payout} \ {NoVoucher} : v \in Vouchers /\ voucher[v].status # "none"
  BY <1>1 DEF TransferOK, TransferType
<1>3. CASE DeleteTransfer(t) \/ PutStatus(t)
  <2> DEFINE y == transfer'[t]
  <2>1. UNCHANGED voucherVars
    BY <1>3 DEF DeleteTransfer, PutStatus
  <2>2. VoucherStep
    BY <2>1, NoVoucherMoves DEF voucherVars
  <2>3. /\ transfer' = [transfer EXCEPT ![t] = y] /\ y \in TransferType
        /\ y.payout = x.payout /\ y.collected = x.collected /\ y.status \in {"PENDING", "CANCELLED"}
        /\ y.bypassed
    <3>1. CASE DeleteTransfer(t)
      <4>1. transfer' = [transfer EXCEPT ![t] = [x EXCEPT !.status = "CANCELLED", !.bypassed = TRUE]]
            /\ x.status # "none"
        BY <3>1 DEF DeleteTransfer, Waiting
      <4> QED BY <1>1, <4>1, Types DEF TransferType, Statuses
    <3>2. CASE PutStatus(t)
      <4>1. transfer' = [transfer EXCEPT ![t] = [x EXCEPT !.status = "PENDING", !.bypassed = TRUE]]
            /\ x.status # "none"
        BY <3>2 DEF PutStatus
      <4> QED BY <1>1, <4>1, Types DEF TransferType, Statuses
    <3> QED BY <1>3, <3>1, <3>2
  <2>4. TransferOK(t)'
    <3>1. voucher' = voucher
      BY <2>1 DEF voucherVars
    <3> QED BY <1>2, <2>3, <3>1 DEF TransferOK
  <2> HIDE DEF y
  <2> QED BY <2>1, <2>2, <2>3, <2>4, Types, OneTransferMoves DEF voucherVars
<1>4. CASE CreateLinked(t, status)
  <2> DEFINE y == Created(status, TRUE)
  <2>1. x.status = "none" /\ transfer' = [transfer EXCEPT ![t] = y] /\ UNCHANGED voucherVars
    BY <1>4 DEF CreateLinked
  <2>2. VoucherStep
    BY <2>1, NoVoucherMoves DEF voucherVars
  <2>3. y \in TransferType /\ y.collected = NoVoucher /\ y.payout = NoVoucher
    <3>1. TRUE \in BOOLEAN /\ NoVoucher \in Vouchers \cup {NoVoucher}
      OBVIOUS
    <3> QED BY <3>1, CreatedFacts
  <2> HIDE DEF y
  <2>4. transfer'[t] = y
    BY <2>1, Types
  <2>5. TransferOK(t)'
    BY <2>3, <2>4 DEF TransferOK
  <2>6. y.payout # x.payout => x.payout = NoVoucher \/ x.bypassed
    BY <1>1, <2>1 DEF TransferOK
  <2> QED BY <2>1, <2>2, <2>3, <2>5, <2>6, Types, OneTransferMoves DEF voucherVars
<1>6. ASSUME NEW kind \in {"receipt", "payment"}, Issue(kind)
      PROVE  /\ VoucherStep /\ NextVoucher \in Vouchers
             /\ voucher'[NextVoucher].status = "confirmed" /\ UNCHANGED <<job, outdated, drift>>
             /\ balance' \in -MaxBalance .. MaxBalance /\ drift' \in BOOLEAN
  <2>1. VoucherStep
    BY <1>6, IssueStep
  <2>2. NextVoucher \in Vouchers
    BY <1>6, NextIsFresh DEF Issue
  <2>3. New(kind, Unit).status = "confirmed"
    BY UnitType, NewFacts
  <2> QED BY <1>6, <2>1, <2>2, <2>3, Types DEF Issue, Move
<1>7. CASE CreateAndCollect(t, status, linked)
  <2> DEFINE w == NextVoucher
             y == [Created(status, linked) EXCEPT !.collected = w]
  <2>1. x.status = "none" /\ Issue("receipt") /\ transfer' = [transfer EXCEPT ![t] = y]
    BY <1>7 DEF CreateAndCollect
  <2>2. /\ VoucherStep /\ w \in Vouchers /\ voucher'[w].status = "confirmed"
        /\ UNCHANGED <<job, outdated, drift>> /\ balance' \in -MaxBalance .. MaxBalance
        /\ drift' \in BOOLEAN
    BY <1>6, <2>1
  <2>3. /\ y \in TransferType /\ y.collected = w /\ y.payout = NoVoucher /\ y.status = status
        /\ (y.bypassed <=> status = "CANCELLED")
    <3>1. w \in Vouchers \cup {NoVoucher}
      BY <2>2
    <3> HIDE DEF w
    <3> QED BY <3>1, CreatedFacts
  <2> HIDE DEF y, w
  <2>4. transfer'[t] = y
    BY <2>1, Types
  <2>5. TransferOK(t)'
    BY <2>2, <2>3, <2>4 DEF TransferOK
  <2>6. y.payout # x.payout => x.payout = NoVoucher \/ x.bypassed
    BY <1>1, <2>1 DEF TransferOK
  <2> QED BY <2>1, <2>2, <2>3, <2>5, <2>6, OneTransferMoves
<1>8. CASE CompleteTransfer(t)
  <2> DEFINE w == NextVoucher
             y == [x EXCEPT !.status = "COMPLETED", !.payout = w]
  <2>1. x.status = "PENDING" /\ Issue("payment") /\ transfer' = [transfer EXCEPT ![t] = y]
    BY <1>1, <1>8 DEF CompleteTransfer, Completable, TransferType, Statuses
  <2>2. /\ VoucherStep /\ w \in Vouchers /\ voucher'[w].status = "confirmed"
        /\ UNCHANGED <<job, outdated, drift>> /\ balance' \in -MaxBalance .. MaxBalance
        /\ drift' \in BOOLEAN
    BY <1>6, <2>1
  <2> HIDE DEF w
  <2>3. y \in TransferType /\ y.collected = x.collected /\ y.payout = w /\ y.status = "COMPLETED"
    BY <1>1, <2>2 DEF TransferType, Statuses
  <2> HIDE DEF y
  <2>4. transfer'[t] = y
    BY <2>1, Types
  <2>5. \A v \in {y.collected, y.payout} \ {NoVoucher} : voucher'[v].status # "none"
    <3>1. \A v \in {x.collected, x.payout} \ {NoVoucher} : voucher'[v].status # "none"
      BY <1>2, <2>2 DEF VoucherStep, VouchersKept, KeptBy
    <3> QED BY <2>2, <2>3, <3>1
  <2>6. TransferOK(t)'
    BY <2>3, <2>4, <2>5 DEF TransferOK
  <2>7. y.payout # x.payout => x.payout = NoVoucher \/ x.bypassed
    BY <1>1, <2>1 DEF TransferOK
  <2> QED BY <2>1, <2>2, <2>3, <2>6, <2>7, OneTransferMoves
<1>5. CASE CancelTransfer(t)
  <2> DEFINE y == [x EXCEPT !.status = "CANCELLED"]
             vs == TakenBack(x)
  <2>1. /\ x.status \notin {"none", "CANCELLED"} /\ CancelLocked(vs)
        /\ transfer' = [transfer EXCEPT ![t] = y]
    BY <1>5 DEF CancelTransfer
  <2>2. y \in TransferType /\ y.collected = x.collected /\ y.payout = x.payout
        /\ y.bypassed = x.bypassed /\ y.status = "CANCELLED"
    BY <1>1 DEF TransferType, Statuses
  <2>3. /\ vs \in SUBSET Vouchers /\ \A v \in vs : voucher[v].status # "none"
        /\ ~x.bypassed => {x.collected, x.payout} \ {NoVoucher} \subseteq vs
    <3>1. vs \subseteq {x.collected, x.payout} \ {NoVoucher}
      BY DEF TakenBack
    <3>2. ~x.bypassed => {x.collected, x.payout} \ {NoVoucher} \subseteq vs
      BY <1>1, <2>1 DEF TakenBack, TransferOK, TransferType, Statuses
    <3> QED BY <1>2, <3>1, <3>2
  <2> HIDE DEF y, vs
  <2>4. VoucherStep /\ \A v \in vs : voucher'[v].status = "cancelled"
    BY <2>1, <2>3, CancelLockedStep
  <2>5. balance' \in -MaxBalance .. MaxBalance /\ drift' \in BOOLEAN /\ UNCHANGED <<job, outdated>>
    BY <2>1 DEF CancelLocked, Move
  <2>6. transfer'[t] = y
    BY <2>1, Types
  <2>7. \A v \in {y.collected, y.payout} \ {NoVoucher} : voucher'[v].status # "none"
    BY <1>2, <2>2, <2>4 DEF VoucherStep, VouchersKept, KeptBy
  <2>8. TransferOK(t)'
    BY <2>2, <2>3, <2>4, <2>6, <2>7 DEF TransferOK
  <2> QED BY <2>1, <2>2, <2>4, <2>5, <2>8, OneTransferMoves
<1> QED BY <1>3, <1>4, <1>5, <1>7, <1>8

(* The portal.                                                               *)
LEMMA PortalStep ==
  ASSUME Inv, Portal PROVE StepOK
<1>1. transfer' = transfer
  BY DEF Portal, AskSettlement, Settle, BeginSettle
<1>2. PayoutKept /\ \A t \in Transfers : transfer'[t] = transfer[t]
  BY <1>1 DEF PayoutKept
<1>3. CASE AskSettlement(Unit)
  <2>1. VoucherStep
    BY <1>3, UnitType, AskSettlementStep
  <2>2. UNCHANGED <<balance, job, outdated, drift, transfer>>
    BY <1>3 DEF AskSettlement
  <2> QED BY <1>2, <2>1, <2>2, Types, Assemble
<1>4. ASSUME NEW j \in Approvals, Settle(j) PROVE StepOK
  <2>1. VoucherStep
    BY <1>4, SettleStep
  <2>2. /\ balance' \in -MaxBalance .. MaxBalance /\ drift' \in BOOLEAN /\ outdated' = outdated
        /\ job' = [job EXCEPT ![j] = Idle]
    BY <1>4, Types DEF Settle, Move
  <2>3. job' \in [Jobs \cup Approvals -> JobType]
        /\ \A k \in Jobs \cup Approvals : job'[k] = job[k] \/ job'[k] = Idle
    BY <2>2, Types
  <2> QED BY <1>1, <1>2, <2>1, <2>2, <2>3, Types, Assemble
<1>5. ASSUME NEW j \in Approvals, NEW v \in Vouchers, BeginSettle(j, v) PROVE StepOK
  <2> DEFINE a == [at |-> "settle", of |-> v, amount |-> voucher[v].amount]
  <2>1. /\ voucher[v].status = "draft" /\ job' = [job EXCEPT ![j] = a]
        /\ UNCHANGED <<voucher, balance, outdated, drift>>
    BY <1>5 DEF BeginSettle
  <2>2. voucher[v].amount \in Amounts
    BY <2>1 DEF Inv, VoucherInv, VoucherOK
  <2>3. a \in JobType /\ a.at = "settle" /\ a.of = v
    BY <2>2 DEF JobType
  <2>4. VoucherStep
    BY <2>1, NoVoucherMoves
  <2> HIDE DEF a
  <2>5. job' \in [Jobs \cup Approvals -> JobType] /\ job'[j] = a
        /\ \A k \in (Jobs \cup Approvals) \ {j} : job'[k] = job[k]
    BY <2>1, <2>3, Types
  <2>6. JobOK(j)' /\ SumOK(j)'
    <3>1. JobOK(j)'
      BY <2>1, <2>3, <2>5 DEF JobOK
    <3>2. SumOK(j)'
      BY <2>3, <2>5 DEF SumOK
    <3> QED BY <3>1, <3>2
  <2>7. \A k \in Jobs \cup Approvals :
          job'[k] = job[k] \/ job'[k] = Idle \/ (JobOK(k) /\ SumOK(k))'
    BY <2>5, <2>6
  <2> QED BY <1>1, <1>2, <2>1, <2>4, <2>5, <2>7, Types, Assemble
<1> QED BY <1>3, <1>4, <1>5 DEF Portal

-----------------------------------------------------------------------------
LEMMA InitInv == Init => Inv
<1> SUFFICES ASSUME Init PROVE Inv
  OBVIOUS
<1>1. /\ voucher = [v \in Vouchers |-> Blank] /\ balance = 0 /\ outdated = {} /\ drift = FALSE
      /\ job = [j \in Jobs \cup Approvals |-> Idle] /\ transfer = [t \in Transfers |-> Unmade]
  BY DEF Init, VouchersInit
<1>2. Blank \in VoucherType /\ Unmade \in TransferType /\ Idle \in JobType
  BY DEF Blank, VoucherType, Unmade, TransferType, JobType
<1>3. 0 \in -MaxBalance .. MaxBalance
  BY VouchersAssumption
<1>4. TypeInv
  BY <1>1, <1>2, <1>3 DEF TypeInv, MoneyTypeOK, VouchersTypeOK, Idle
<1>5. VoucherInv
  BY <1>1 DEF VoucherInv, VoucherOK, Blank
<1>6. JobInv
  BY <1>1 DEF JobInv, JobOK, SumOK, Idle
<1>7. TransferInv
  BY <1>1 DEF TransferInv, TransferOK, Unmade
<1>8. Entries = 0
  <2> DEFINE f == [v \in Vouchers |-> Standing(voucher[v])]
  <2>1. \A v \in Vouchers : f[v] = 0
    BY <1>1 DEF Standing, Blank
  <2>2. IsFiniteSet(Vouchers) /\ {} \in SUBSET Vouchers
    BY VouchersFinite
  <2>3. \A v \in Vouchers : f[v] \in Int
    BY <2>1
  <2>4. Entries = Sum(f, Vouchers)
    BY DEF Entries
  <2> HIDE DEF f
  <2>5. Sum(f, Vouchers) = Sum(f, {})
    BY <2>1, <2>2, <2>3, SumSupport
  <2> QED BY <2>4, <2>5, SumEmpty
<1> QED BY <1>1, <1>4, <1>5, <1>6, <1>7, <1>8 DEF Inv, BalanceIsTrue

LEMMA Step == Inv /\ [Next]_vars => StepOK
<1> SUFFICES ASSUME Inv, [Next]_vars PROVE StepOK
  OBVIOUS
<1>1. CASE FinanceScreens /\ UNCHANGED transfer
  BY <1>1, FinanceScreensStep
<1>2. CASE TransferScreens
  BY <1>2, TransferScreensStep
<1>3. CASE Portal
  BY <1>3, PortalStep
<1>4. CASE UNCHANGED vars
  <2>1. UNCHANGED <<voucher, balance, job, outdated, drift, transfer>>
    BY <1>4 DEF vars, voucherVars
  <2>2. VoucherStep
    BY <2>1, NoVoucherMoves
  <2>3. PayoutKept
    BY <2>1 DEF PayoutKept
  <2> QED BY <2>1, <2>2, <2>3, Types, Assemble
<1> QED BY <1>1, <1>2, <1>3, <1>4 DEF Next

(* The inductive invariant of money and transfers.                           *)
THEOREM MoneyInvariant == Spec => []Inv
<1>1. Inv /\ [Next]_vars => Inv'
  BY Step DEF StepOK
<1> QED BY InitInv, <1>1, PTL DEF Spec

(* Every variable keeps its type: vouchers, cashbox, handlers and transfers. *)
THEOREM MoneyTypes == Spec => []MoneyTypeOK
<1>1. Inv => MoneyTypeOK
  BY DEF Inv, TypeInv
<1> QED BY MoneyInvariant, <1>1, PTL

(* A voucher nobody wrote on an old reading is confirmed exactly when one    *)
(* entry of it stands: updateReceiptVoucher and updatePaymentVoucher,        *)
(* cancelTransfer and the approval of settlements in any order.              *)
THEOREM EntriesFollowStatus == Spec => []StatusFollowsEntries
<1>1. Inv => StatusFollowsEntries
  <2> SUFFICES ASSUME Inv, NEW v \in Vouchers, v \notin outdated
               PROVE  (voucher[v].status = "confirmed") <=> (Standing(voucher[v]) # 0)
    BY DEF StatusFollowsEntries
  <2>1. voucher[v] \in VoucherType /\ VoucherOK(voucher[v], FALSE)
    BY DEF Inv, TypeInv, MoneyTypeOK, VouchersTypeOK, VoucherInv, VoucherOK
  <2>2. voucher[v].entry \in Int /\ (voucher[v].entry > 0 <=> voucher[v].entry # 0)
    BY <2>1, AmountType DEF VoucherType
  <2>3. voucher[v].status \in {"none", "draft", "confirmed", "cancelled"}
    BY <2>1 DEF VoucherType
  <2>4. Sign(voucher[v]) = 1 \/ Sign(voucher[v]) = -1
    BY DEF Sign
  <2>5. Standing(voucher[v]) # 0 <=> voucher[v].entry # 0 /\ ~voucher[v].reversed
    BY <2>2, <2>4 DEF Standing
  <2> QED BY <2>1, <2>3, <2>5 DEF VoucherOK, Blank
<1> QED BY MoneyInvariant, <1>1, PTL

(* The balance of the cashbox is the sum of its entries, reconciliations     *)
(* that ran beside writes and writes on old readings excepted                *)
(* (applyCashboxBalanceDelta, reconcileCashboxBalances).                     *)
THEOREM BalanceStaysTrue == Spec => []BalanceIsTrue
<1>1. Inv => BalanceIsTrue
  BY DEF Inv
<1> QED BY MoneyInvariant, <1>1, PTL

(* cancelTransfer leaves none of the money of the transfer, whatever status  *)
(* that was created with, and nothing that comes later brings it back.       *)
THEOREM CancelledStayCleared == Spec => []CancelledTransfersAreCleared
<1>1. Inv => CancelledTransfersAreCleared
  <2> SUFFICES ASSUME Inv, NEW t \in Transfers, transfer[t].status = "CANCELLED",
                      ~transfer[t].bypassed,
                      NEW v \in {transfer[t].collected, transfer[t].payout} \ ({NoVoucher} \cup outdated)
               PROVE  Standing(voucher[v]) = 0
    BY DEF CancelledTransfersAreCleared
  <2>1. TransferOK(t) /\ transfer[t] \in TransferType
    BY Types DEF Inv, TransferInv
  <2>2. v \in Vouchers /\ v \notin outdated /\ voucher[v].status = "cancelled"
    BY <2>1 DEF TransferOK, TransferType
  <2>3. voucher[v].entry = 0 \/ voucher[v].reversed
    BY <2>2 DEF Inv, VoucherInv, VoucherOK
  <2> QED BY <2>3 DEF Standing
<1> QED BY MoneyInvariant, <1>1, PTL

(* completeTransfer pays a transfer once, unless its status was set directly *)
(* after it had ended.                                                       *)
THEOREM PaysOutOnce == Spec => PaidOutOnce
<1>1. Inv /\ [Next]_vars => [PayoutKept]_vars
  BY Step DEF StepOK
<1>2. PayoutKept => (\A t \in Transfers :
        transfer'[t].payout # transfer[t].payout =>
          \/ transfer[t].payout = NoVoucher
          \/ transfer[t].bypassed)
  BY DEF PayoutKept
<1> QED BY MoneyInvariant, <1>1, <1>2, PTL DEF Spec, PaidOutOnce

(* confirmDraftPaymentVoucher: payment and receipt of a settlement come in   *)
(* one step, however many approvals and finance screens handle it at once.   *)
THEOREM SettlesBothSides == Spec => SettledOnBothSides
<1>1. Inv /\ [Next]_vars => [BothSides]_vars
  BY Step DEF StepOK
<1> QED BY MoneyInvariant, <1>1, PTL DEF Spec, SettledOnBothSides, BothSides
=============================================================================
