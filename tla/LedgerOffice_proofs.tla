------------------------ MODULE LedgerOffice_proofs ------------------------
(* Theorems about the ledger screens of one office, for any numbers of rows, *)
(* receipts, sessions, handlers, operations and deferred actions.  First the *)
(* numbers of the rows and the loop of the undo, then the types of what      *)
(* handlers and undos remember, then the charges of the shipments.           *)
EXTENDS LedgerOffice, FiniteSums_proofs

-----------------------------------------------------------------------------
(* Numbers.                                                                  *)

(* A set of natural numbers that is not empty has a least one.               *)
LEMMA LeastNumber ==
  ASSUME NEW S, S \subseteq Nat, S # {}
  PROVE  \E x \in S : \A y \in S : x <= y
<1> DEFINE R == OpToRel(<, Nat)
<1>1. PICK x \in S : \A y \in S : <<y, x>> \notin R
  BY NatLessThanWellFounded, WFMin
<1>2. \A y \in S : ~(y < x)
  BY <1>1 DEF OpToRel
<1> QED
  BY <1>2

(* The largest number of some rows of a table, or zero.                      *)
LEMMA HighestNumber ==
  ASSUME NEW table, NEW T \in SUBSET Rows, \A q \in T : table[q].no \in Nat
  PROVE  LET m == Max({0} \cup {table[q].no : q \in T})
         IN  m \in Nat /\ \A q \in T : table[q].no <= m
<1> DEFINE N == {table[q].no : q \in T}
           M == {0} \cup N
<1>1. IsFiniteSet(N)
  <2>1. IsFiniteSet(T)
    BY RowsAssumption, FS_Subset
  <2>2. [q \in T |-> table[q].no] \in Surjection(T, N)
    BY DEF Surjection
  <2> QED
    BY <2>1, <2>2, FS_Surjection
<1>2. IsFiniteSet(M) /\ M \subseteq Nat /\ M # {}
  BY <1>1, FS_AddElement
<1>3. M \in SUBSET Int
  BY <1>2
<1> HIDE DEF M
<1>4. Max(M) \in M /\ \A y \in M : y <= Max(M)
  BY <1>2, <1>3, MaxIsGreatest
<1> QED
  BY <1>2, <1>4 DEF M

Tables == [Rows -> RowType \cup {NoRow}]

KeptIn(table, r) == table[r] # NoRow /\ ~table[r].deleted

UniqueIn(table) ==
  \A p, q \in Rows :
    KeptIn(table, p) /\ KeptIn(table, q) /\ p # q /\ table[p].at = table[q].at
      => table[p].no # table[q].no

(* Rows are never removed and keep their receipt.                            *)
Follows(before, after) ==
  \A q \in Rows : before[q] # NoRow =>
    after[q] # NoRow /\ after[q].receipt = before[q].receipt

(* nextRowNoForSession gives a number no kept row of the session has.        *)
LEMMA NextNoIsNew ==
  ASSUME RowsTypeOK, NEW s \in Sessions
  PROVE  NextNo(s) \in Nat /\ \A r \in RowsOf(s) : row[r].no < NextNo(s)
<1>1. RowsOf(s) \in SUBSET Rows /\ \A r \in RowsOf(s) : row[r].no \in Nat
  BY DEF RowsOf, Kept, RowsTypeOK, RowType
<1> DEFINE m == Max({0} \cup {row[r].no : r \in RowsOf(s)})
<1>2. m \in Nat /\ \A r \in RowsOf(s) : row[r].no <= m
  BY <1>1, HighestNumber
<1>3. NextNo(s) = 1 + m
  BY DEF NextNo
<1> HIDE DEF m
<1> QED
  BY <1>1, <1>2, <1>3

(* Rows that arrive under new numbers of their own keep all numbers unique.  *)
LEMMA ArriveKeeps ==
  ASSUME RowsTypeOK, UniqueIn(row), NEW s \in Sessions, NEW rs \in SUBSET Rows,
         \A r \in rs : row[r] # NoRow,
         NEW f, \A r \in rs : f[r] \in Nat /\ NextNo(s) <= f[r],
         \A p, q \in rs : f[p] = f[q] => p = q,
         Arrive(rs, s, f)
  PROVE  row' \in Tables /\ UniqueIn(row') /\ Follows(row, row')
<1>1. \A r \in Rows \ rs : row'[r] = row[r]
  BY DEF Arrive
<1>2. ASSUME NEW r \in rs
      PROVE  /\ row'[r] \in RowType
             /\ row'[r].at = s /\ row'[r].no = f[r]
             /\ row'[r].receipt = row[r].receipt /\ row'[r].deleted = row[r].deleted
  <2>1. row[r] \in RowType /\ row'[r] = [row[r] EXCEPT !.at = s, !.no = f[r]]
    BY DEF Arrive, RowsTypeOK
  <2> QED
    BY <2>1 DEF RowType
<1>3. row' \in Tables
  <2>1. \A r \in Rows : row'[r] \in RowType \cup {NoRow}
    BY <1>1, <1>2 DEF RowsTypeOK
  <2> QED
    BY <2>1 DEF Tables, Arrive
<1>4. NextNo(s) \in Nat /\ \A r \in Rows : Kept(r) /\ row[r].at = s => row[r].no < NextNo(s)
  BY NextNoIsNew DEF RowsOf
<1>5. UniqueIn(row')
  <2> SUFFICES ASSUME NEW p \in Rows, NEW q \in Rows, KeptIn(row', p), KeptIn(row', q),
                      p # q, row'[p].at = row'[q].at
               PROVE  row'[p].no # row'[q].no
    BY DEF UniqueIn
  <2>0. \A r \in Rows : row[r] # NoRow => row[r].no \in Nat
    BY DEF RowsTypeOK, RowType
  <2>1. CASE p \in rs /\ q \in rs
    BY <1>2, <2>1
  <2>2. CASE p \in rs /\ q \notin rs
    <3>1. row'[q] = row[q] /\ row[q].at = s /\ Kept(q)
      BY <1>1, <1>2, <2>2 DEF KeptIn, Kept
    <3> QED
      BY <1>2, <1>4, <2>0, <2>2, <3>1 DEF Kept
  <2>3. CASE p \notin rs /\ q \in rs
    <3>1. row'[p] = row[p] /\ row[p].at = s /\ Kept(p)
      BY <1>1, <1>2, <2>3 DEF KeptIn, Kept
    <3> QED
      BY <1>2, <1>4, <2>0, <2>3, <3>1 DEF Kept
  <2>4. CASE p \notin rs /\ q \notin rs
    BY <1>1, <2>4 DEF UniqueIn, KeptIn
  <2> QED
    BY <2>1, <2>2, <2>3, <2>4
<1>6. Follows(row, row')
  BY <1>1, <1>2, NoRowAssumption DEF Follows
<1> QED
  BY <1>3, <1>5, <1>6

-----------------------------------------------------------------------------
(* The loop of an undo.                                                      *)

Place == [at: Sessions, no: Nat, posted: BOOLEAN]

Dispositions == {"NONE", "EXISTING_POSTED", "REUSED", "CREATED"}

(* A row that existed has the place it was at, and whoever created a         *)
(* shipment has charged it.                                                  *)
EntryType ==
  {e \in [in: {TRUE}, existed: BOOLEAN, before: Place \cup {Unknown},
          after: Place \cup {Unknown}, disposition: Dispositions, funded: BOOLEAN] :
     /\ e.existed => e.before \in Place
     /\ (e.disposition = "CREATED" => e.funded)}

Journals == [Rows -> EntryType \cup {NoEntry}]

(* One row put back, and one that only loses its shipment.                   *)
LEMMA RestoreKeeps ==
  ASSUME NEW t \in Tables, UniqueIn(t), NEW entries \in Journals,
         NEW r \in Members(entries), t[r] # NoRow
  PROVE  /\ Restore(entries, t, r) \in Tables
         /\ UniqueIn(Restore(entries, t, r))
         /\ Follows(t, Restore(entries, t, r))
<1> DEFINE u == Restore(entries, t, r)
           b == entries[r].before
<1>1. r \in Rows /\ entries[r] \in EntryType /\ t[r] \in RowType
  BY DEF Members, Journals, NoEntry, Tables
<1>2. CASE ~entries[r].existed
  <2>1. u = [t EXCEPT ![r] = [t[r] EXCEPT !.posted = FALSE]]
    BY <1>1, <1>2 DEF Restore, Tables
  <2>2. /\ u \in Tables /\ \A q \in Rows \ {r} : u[q] = t[q]
        /\ u[r] \in RowType /\ u[r].at = t[r].at /\ u[r].no = t[r].no
        /\ u[r].receipt = t[r].receipt /\ u[r].deleted = t[r].deleted
    BY <1>1, <2>1 DEF Tables, RowType
  <2> HIDE DEF u
  <2>3. UniqueIn(u)
    BY <1>1, <2>2, NoRowAssumption DEF UniqueIn, KeptIn
  <2>4. Follows(t, u)
    BY <1>1, <2>2, NoRowAssumption DEF Follows
  <2> QED
    BY <2>2, <2>3, <2>4 DEF u
<1>3. CASE entries[r].existed
  <2> DEFINE there == {q \in Rows : /\ t[q] # NoRow /\ ~t[q].deleted /\ t[q].at = b.at}
             taken == \E q \in there \ {r} : t[q].no = b.no
             m == Max({0} \cup {t[q].no : q \in there})
             no == IF taken THEN 1 + m ELSE b.no
  <2>1. b \in Place
    BY <1>1, <1>3 DEF EntryType
  <2>2. there \in SUBSET Rows /\ \A q \in there : t[q].no \in Nat
    BY DEF Tables, RowType
  <2>3. m \in Nat /\ \A q \in there : t[q].no <= m
    BY <2>2, HighestNumber
  <2>4. u = [t EXCEPT ![r] = [t[r] EXCEPT !.at = b.at, !.posted = b.posted, !.no = no]]
    BY <1>1, <1>3 DEF Restore, PutBack, Tables
  <2> HIDE DEF m
  <2>5. no \in Nat /\ \A q \in there \ {r} : t[q].no # no
    BY <2>1, <2>2, <2>3 DEF Place
  <2> HIDE DEF no, u
  <2>6. /\ u \in Tables /\ \A q \in Rows \ {r} : u[q] = t[q]
        /\ u[r] \in RowType /\ u[r].at = b.at /\ u[r].no = no
        /\ u[r].receipt = t[r].receipt /\ u[r].deleted = t[r].deleted
    BY <1>1, <2>1, <2>4, <2>5 DEF Tables, RowType, Place
  <2>7. UniqueIn(u)
    <3> SUFFICES ASSUME NEW p \in Rows, NEW q \in Rows, KeptIn(u, p), KeptIn(u, q),
                        p # q, u[p].at = u[q].at
                 PROVE  u[p].no # u[q].no
      BY DEF UniqueIn
    <3>1. CASE p # r /\ q # r
      BY <2>6, <3>1 DEF UniqueIn, KeptIn
    <3>2. CASE p = r
      <4>1. q \in there \ {r}
        BY <2>6, <3>2 DEF KeptIn
      <4> QED
        BY <2>5, <2>6, <3>2, <4>1
    <3>3. CASE q = r
      <4>1. p \in there \ {r}
        BY <2>6, <3>3 DEF KeptIn
      <4> QED
        BY <2>5, <2>6, <3>3, <4>1
    <3> QED
      BY <3>1, <3>2, <3>3
  <2>8. Follows(t, u)
    BY <1>1, <2>6, NoRowAssumption DEF Follows
  <2> QED
    BY <2>6, <2>7, <2>8 DEF u
<1> QED
  BY <1>2, <1>3

(* The tables after the first n rows of the order.                           *)
IsLoop(entries, order, n, g) ==
  g = [k \in 0 .. n |-> IF k = 0 THEN row ELSE Restore(entries, g[k - 1], order[k])]

LEMMA LoopsExist ==
  ASSUME NEW entries, NEW order, NEW n \in Nat
  PROVE  \E g : IsLoop(entries, order, n, g)
<1> DEFINE S == {k \in Nat : ~ \E g : IsLoop(entries, order, k, g)}
<1> SUFFICES ASSUME S # {} PROVE FALSE
  OBVIOUS
<1>1. PICK k \in S : \A i \in S : k <= i
  <2> S \subseteq Nat
    OBVIOUS
  <2> HIDE DEF S
  <2> QED
    BY LeastNumber
<1>2. k # 0
  <2>1. IsLoop(entries, order, 0, [i \in 0 .. 0 |-> row])
    BY DEF IsLoop
  <2> QED
    BY <2>1
<1>3. k - 1 \in Nat /\ k - 1 \notin S
  BY <1>1, <1>2
<1>4. PICK g : IsLoop(entries, order, k - 1, g)
  BY <1>3
<1> DEFINE h == [i \in 0 .. k |-> IF i = k THEN Restore(entries, g[k - 1], order[k]) ELSE g[i]]
<1>5. IsLoop(entries, order, k, h)
  <2> SUFFICES ASSUME NEW i \in 0 .. k
               PROVE  h[i] = IF i = 0 THEN row ELSE Restore(entries, h[i - 1], order[i])
    BY DEF IsLoop
  <2>1. CASE i = 0
    BY <1>2, <1>3, <1>4, <2>1 DEF IsLoop
  <2>2. CASE i # 0 /\ i # k
    <3>1. g[i] = Restore(entries, g[i - 1], order[i])
      BY <1>3, <1>4, <2>2 DEF IsLoop
    <3>2. h[i] = g[i] /\ h[i - 1] = g[i - 1]
      BY <2>2
    <3> QED
      BY <2>2, <3>1, <3>2
  <2>3. CASE i = k
    BY <1>2, <1>3, <2>3
  <2> QED
    BY <2>1, <2>2, <2>3
<1> QED
  BY <1>1, <1>5

(* Whatever the order, the loop leaves a table with unique numbers.          *)
LEMMA LoopKeeps ==
  ASSUME RowsTypeOK, UniqueIn(row), NEW entries \in Journals,
         \A r \in Members(entries) : row[r] # NoRow,
         NEW order \in Orders(entries)
  PROVE  /\ RowsAfter(entries, order) \in Tables
         /\ UniqueIn(RowsAfter(entries, order))
         /\ Follows(row, RowsAfter(entries, order))
<1> DEFINE n == Len(order)
           g == CHOOSE f : IsLoop(entries, order, n, f)
           Good(t) == t \in Tables /\ UniqueIn(t) /\ Follows(row, t)
<1>1. /\ n \in Nat
      /\ \A k \in 1 .. n : order[k] \in Members(entries)
  <2>1. Members(entries) \in SUBSET Rows
    BY DEF Members
  <2>2. IsFiniteSet(Members(entries))
    BY <2>1, RowsAssumption, FS_Subset
  <2>3. Cardinality(Members(entries)) \in Nat
    BY <2>2, FS_CardinalityType
  <2>4. order \in [1 .. Cardinality(Members(entries)) -> Members(entries)]
    BY DEF Orders, SetToSeqs
  <2> QED
    BY <2>3, <2>4
<1>2. IsLoop(entries, order, n, g)
  BY <1>1, LoopsExist
<1>3. RowsAfter(entries, order) = g[n]
  BY DEF RowsAfter, IsLoop
<1> HIDE DEF g, n
<1>4. /\ g[0] = row
      /\ \A k \in 1 .. n : g[k] = Restore(entries, g[k - 1], order[k])
  <2>1. \A k \in 0 .. n : g[k] = IF k = 0 THEN row ELSE Restore(entries, g[k - 1], order[k])
    BY <1>2 DEF IsLoop
  <2> QED
    BY <1>1, <2>1
<1> DEFINE S == {k \in 0 .. n : ~Good(g[k])}
<1>5. S = {}
  <2> SUFFICES ASSUME S # {} PROVE FALSE
    OBVIOUS
  <2>1. PICK k \in S : \A i \in S : k <= i
    <3> S \subseteq Nat
      BY <1>1
    <3> HIDE DEF S
    <3> QED
      BY LeastNumber
  <2>2. CASE k = 0
    BY <1>4, <2>1, <2>2 DEF RowsTypeOK, Tables, Follows
  <2>3. CASE k # 0
    <3> DEFINE t == g[k - 1]
               r == order[k]
    <3>1. k \in 1 .. n /\ k - 1 \in 0 .. n /\ k - 1 \notin S
      BY <1>1, <2>1, <2>3
    <3>2. Good(t) /\ g[k] = Restore(entries, t, r) /\ r \in Members(entries)
      BY <1>1, <1>4, <3>1
    <3> HIDE DEF t, r
    <3>3. r \in Rows /\ t[r] # NoRow
      BY <3>2 DEF Members, Follows
    <3>4. /\ g[k] \in Tables /\ UniqueIn(g[k]) /\ Follows(t, g[k])
      BY <3>2, <3>3, RestoreKeeps
    <3>5. Follows(row, g[k])
      BY <3>2, <3>4 DEF Follows
    <3> QED
      BY <2>1, <3>4, <3>5
  <2> QED
    BY <2>2, <2>3
<1>6. Good(g[n])
  BY <1>1, <1>5
<1> QED
  BY <1>3, <1>6

-----------------------------------------------------------------------------
(* The rows, action by action.                                               *)

(* What a step does to rows, sessions and locks keeps them well formed.      *)
RowsGoOn ==
  /\ row' \in Tables /\ UniqueIn(row') /\ Follows(row, row')
  /\ session' \in [Sessions -> {"unused", "live", "deleted"}]
  /\ held' \subseteq Rows \cup Receipts

(* Nothing happens to the rows.                                              *)
LEMMA RowsRest ==
  ASSUME RowsTypeOK, UniqueIn(row), UNCHANGED rowVars
  PROVE  RowsGoOn
BY DEF RowsGoOn, rowVars, RowsTypeOK, Tables, Follows, UniqueIn, KeptIn

(* A row that changes neither place nor number nor receipt, and comes back   *)
(* from no deletion, leaves the table as good as it was.                     *)
LEMMA MarkKeeps ==
  ASSUME RowsTypeOK, UniqueIn(row), row' \in Tables,
         \A r \in Rows : row[r] = NoRow => row'[r] = NoRow,
         \A r \in Rows : row[r] # NoRow =>
           /\ row'[r] # NoRow /\ row'[r].at = row[r].at /\ row'[r].no = row[r].no
           /\ row'[r].receipt = row[r].receipt /\ (row[r].deleted => row'[r].deleted)
  PROVE  UniqueIn(row') /\ Follows(row, row')
<1>1. \A r \in Rows : KeptIn(row', r) => KeptIn(row, r)
  BY DEF KeptIn
<1>2. UniqueIn(row')
  BY <1>1 DEF UniqueIn, KeptIn
<1> QED
  BY <1>2 DEF Follows

LEMMA SessionsOfADriver ==
  ASSUME NEW d, NEW s \in SessionFor(d)
  PROVE  s \in Sessions /\ DriverOf[s] = d
BY DEF SessionFor

LEMMA UpdateRowKeeps ==
  ASSUME RowsTypeOK, UniqueIn(row), NEW r \in Rows, NEW d, UpdateRow(r, d)
  PROVE  RowsGoOn
<1>1. PICK s \in SessionFor(d) :
        /\ session' = Ensured(s)
        /\ IF s = row[r].at THEN UNCHANGED row
           ELSE NextNo(s) <= MaxNo /\ Arrive({r}, s, [x \in {r} |-> NextNo(s)])
  BY DEF UpdateRow
<1>2. s \in Sessions /\ row[r] # NoRow /\ held' = held
  BY SessionsOfADriver DEF UpdateRow, Shown, Kept
<1>3. session' \in [Sessions -> {"unused", "live", "deleted"}]
  BY <1>1, <1>2 DEF RowsTypeOK, Ensured
<1>4. row' \in Tables /\ UniqueIn(row') /\ Follows(row, row')
  <2>1. CASE s = row[r].at
    BY <1>1, <2>1 DEF RowsTypeOK, Tables, Follows
  <2>2. CASE s # row[r].at
    <3> DEFINE f == [x \in {r} |-> NextNo(s)]
    <3>1. NextNo(s) \in Nat
      BY <1>2, NextNoIsNew
    <3>2. \A x \in {r} : f[x] \in Nat /\ NextNo(s) <= f[x]
      BY <3>1
    <3>3. Arrive({r}, s, f)
      BY <1>1, <2>2
    <3> HIDE DEF f
    <3> QED
      BY <1>2, <3>2, <3>3, ArriveKeeps
  <2> QED
    BY <2>1, <2>2
<1> QED
  BY <1>2, <1>3, <1>4 DEF RowsGoOn, RowsTypeOK

LEMMA InsertRowKeeps ==
  ASSUME RowsTypeOK, UniqueIn(row), NEW r \in Rows, NEW n \in Receipts, NEW d,
         InsertRow(r, n, d)
  PROVE  RowsGoOn
<1>1. PICK s \in SessionFor(d) :
        /\ session' = Ensured(s)
        /\ row' = [row EXCEPT ![r] = [at |-> s, no |-> NextNo(s), receipt |-> n,
                                      posted |-> FALSE, loaded |-> FALSE, deleted |-> FALSE]]
  BY DEF InsertRow
<1>2. s \in Sessions /\ row[r] = NoRow /\ held' = held
  BY SessionsOfADriver DEF InsertRow
<1>3. session' \in [Sessions -> {"unused", "live", "deleted"}]
  BY <1>1, <1>2 DEF RowsTypeOK, Ensured
<1>4. NextNo(s) \in Nat /\ \A q \in RowsOf(s) : row[q].no < NextNo(s)
  BY <1>2, NextNoIsNew
<1>5. /\ row'[r] \in RowType /\ row'[r].at = s /\ row'[r].no = NextNo(s)
      /\ \A q \in Rows \ {r} : row'[q] = row[q]
  BY <1>1, <1>2, <1>4 DEF RowsTypeOK, RowType
<1>6. row' \in Tables
  BY <1>1, <1>5 DEF RowsTypeOK, Tables
<1>7. UniqueIn(row')
  <2>0. \A q \in Rows : row[q] # NoRow => row[q].no \in Nat
    BY DEF RowsTypeOK, RowType
  <2>1. ASSUME NEW q \in Rows \ {r}, KeptIn(row', q), row'[q].at = s
        PROVE  row'[q].no # NextNo(s)
    <3>1. q \in RowsOf(s)
      BY <1>5, <2>1 DEF RowsOf, Kept, KeptIn
    <3> QED
      BY <1>4, <1>5, <2>0, <2>1, <3>1 DEF KeptIn
  <2> QED
    BY <1>5, <2>1 DEF UniqueIn, KeptIn
<1>8. Follows(row, row')
  BY <1>2, <1>5 DEF Follows
<1> QED
  BY <1>2, <1>3, <1>6, <1>7, <1>8 DEF RowsGoOn, RowsTypeOK

(* The numbers a transfer or a cancellation hands out are new and distinct.  *)
LEMMA NumberingIsNew ==
  ASSUME RowsTypeOK, NEW s \in Sessions, NEW rs \in SUBSET Rows, NEW keep,
         NEW f \in Numberings(rs, s, keep)
  PROVE  /\ \A r \in rs : f[r] \in Nat /\ NextNo(s) <= f[r]
         /\ \A p, q \in rs : f[p] = f[q] => p = q
<1>1. NextNo(s) \in Nat
  BY NextNoIsNew
<1> DEFINE top == NextNo(s) + Cardinality(rs) - 1
<1>2. f \in Injection(rs, NextNo(s) .. top)
  BY DEF Numberings
<1>3. f \in [rs -> NextNo(s) .. top] /\ \A p, q \in rs : f[p] = f[q] => p = q
  BY <1>2 DEF Injection, IsInjective
<1> HIDE DEF top
<1>4. \A r \in rs : f[r] \in NextNo(s) .. top
  BY <1>3
<1>5. \A r \in rs : f[r] \in Int /\ NextNo(s) <= f[r]
  BY <1>4
<1> QED
  BY <1>1, <1>3, <1>5

LEMMA ConfirmTransferKeeps ==
  ASSUME RowsTypeOK, UniqueIn(row), NEW rs \in SUBSET Rows, NEW d, ConfirmTransfer(rs, d)
  PROVE  RowsGoOn
<1>1. PICK s \in SessionFor(d) :
        LET moving == {r \in rs : row[r].at # s} IN
        /\ Transferable(rs, s) /\ session' = Ensured(s)
        /\ \E f \in Numberings(moving, s, FALSE) : Arrive(moving, s, f)
  BY DEF ConfirmTransfer
<1> DEFINE moving == {r \in rs : row[r].at # s}
<1>2. PICK f \in Numberings(moving, s, FALSE) : Arrive(moving, s, f)
  BY <1>1
<1>3. s \in Sessions /\ held' = held /\ moving \in SUBSET Rows
  BY SessionsOfADriver DEF ConfirmTransfer
<1>4. \A r \in moving : row[r] # NoRow
  BY <1>1 DEF Transferable, Shown, Kept
<1> HIDE DEF moving
<1>5. /\ \A r \in moving : f[r] \in Nat /\ NextNo(s) <= f[r]
      /\ \A p, q \in moving : f[p] = f[q] => p = q
  BY <1>3, NumberingIsNew
<1>6. row' \in Tables /\ UniqueIn(row') /\ Follows(row, row')
  BY <1>2, <1>3, <1>4, <1>5, ArriveKeeps
<1>7. session' \in [Sessions -> {"unused", "live", "deleted"}]
  BY <1>1, <1>3 DEF RowsTypeOK, Ensured
<1> QED
  BY <1>3, <1>6, <1>7 DEF RowsGoOn, RowsTypeOK

LEMMA CancelSessionKeeps ==
  ASSUME RowsTypeOK, UniqueIn(row), NEW s \in Sessions, CancelSession(s)
  PROVE  RowsGoOn
<1>1. PICK main \in SessionFor(NoDriver) :
        /\ \E f \in Numberings(RowsOf(s), main, TRUE) : Arrive(RowsOf(s), main, f)
        /\ session' = [Ensured(main) EXCEPT ![s] = "deleted"]
  BY DEF CancelSession
<1>2. PICK f \in Numberings(RowsOf(s), main, TRUE) : Arrive(RowsOf(s), main, f)
  BY <1>1
<1>3. /\ main \in Sessions /\ held' = held /\ RowsOf(s) \in SUBSET Rows
      /\ \A r \in RowsOf(s) : row[r] # NoRow
  BY SessionsOfADriver DEF CancelSession, RowsOf, Kept
<1>4. /\ \A r \in RowsOf(s) : f[r] \in Nat /\ NextNo(main) <= f[r]
      /\ \A p, q \in RowsOf(s) : f[p] = f[q] => p = q
  BY <1>3, NumberingIsNew
<1>5. row' \in Tables /\ UniqueIn(row') /\ Follows(row, row')
  BY <1>2, <1>3, <1>4, ArriveKeeps
<1>6. session' \in [Sessions -> {"unused", "live", "deleted"}]
  BY <1>1, <1>3 DEF RowsTypeOK, Ensured
<1> QED
  BY <1>3, <1>5, <1>6 DEF RowsGoOn, RowsTypeOK

LEMMA ScreensKeep ==
  ASSUME RowsTypeOK, UniqueIn(row), Screens
  PROVE  RowsGoOn
<1>1. CASE \E rs \in SUBSET Rows, d \in Drivers : ConfirmTransfer(rs, d)
  BY <1>1, ConfirmTransferKeeps
<1>2. CASE \E s \in Sessions : CancelSession(s)
  BY <1>2, CancelSessionKeeps
<1>3. ASSUME NEW r \in Rows, DeleteRow(r) PROVE RowsGoOn
  <2>1. row[r] \in RowType /\ row' = [row EXCEPT ![r] = [row[r] EXCEPT !.deleted = TRUE]]
    BY <1>3 DEF DeleteRow, Shown, Kept, RowsTypeOK
  <2>2. /\ row' \in Tables /\ \A q \in Rows \ {r} : row'[q] = row[q]
        /\ row'[r] \in RowType /\ row'[r].at = row[r].at /\ row'[r].no = row[r].no
        /\ row'[r].receipt = row[r].receipt /\ row'[r].deleted = TRUE
    BY <2>1 DEF RowsTypeOK, RowType, Tables
  <2>3. UniqueIn(row') /\ Follows(row, row')
    BY <2>1, <2>2, NoRowAssumption, MarkKeeps
  <2> QED
    BY <1>3, <2>2, <2>3 DEF DeleteRow, RowsGoOn, RowsTypeOK
<1>4. ASSUME NEW n \in Receipts, LoadShipment(n) PROVE RowsGoOn
  <2> DEFINE rs == {r \in Rows : Kept(r) /\ row[r].receipt = n /\ row[r].posted}
  <2>1. row' = [r \in Rows |-> IF r \in rs THEN [row[r] EXCEPT !.loaded = TRUE] ELSE row[r]]
    BY <1>4 DEF LoadShipment
  <2>2. \A r \in rs : row[r] \in RowType
    BY DEF Kept, RowsTypeOK
  <2> HIDE DEF rs
  <2>3. \A r \in Rows :
          \/ r \notin rs /\ row'[r] = row[r]
          \/ /\ r \in rs /\ row'[r] \in RowType
             /\ row'[r].at = row[r].at /\ row'[r].no = row[r].no
             /\ row'[r].receipt = row[r].receipt /\ row'[r].deleted = row[r].deleted
    BY <2>1, <2>2 DEF RowType
  <2>4. row' \in Tables
    BY <2>1, <2>3 DEF RowsTypeOK, Tables
  <2>5. UniqueIn(row') /\ Follows(row, row')
    BY <2>2, <2>3, <2>4, NoRowAssumption, MarkKeeps
  <2> QED
    BY <1>4, <2>4, <2>5 DEF LoadShipment, RowsGoOn, RowsTypeOK
<1> QED
  BY <1>1, <1>2, <1>3, <1>4 DEF Screens

LEMMA MarkRowKeeps ==
  ASSUME RowsTypeOK, UniqueIn(row), NEW j, job[j].row \in Rows, Mark(j)
  PROVE  RowsGoOn
<1> DEFINE r == job[j].row
<1>1. CASE Shown(r)
  <2>1. row[r] \in RowType /\ row' = [row EXCEPT ![r] = [row[r] EXCEPT !.posted = TRUE]]
    BY <1>1 DEF Mark, Shown, Kept, RowsTypeOK
  <2> HIDE DEF r
  <2>2. r \in Rows
    BY DEF r
  <2>3. /\ row' \in Tables /\ \A q \in Rows \ {r} : row'[q] = row[q]
        /\ row'[r] \in RowType /\ row'[r].at = row[r].at /\ row'[r].no = row[r].no
        /\ row'[r].receipt = row[r].receipt /\ row'[r].deleted = row[r].deleted
    BY <2>1, <2>2 DEF RowsTypeOK, RowType, Tables
  <2>4. UniqueIn(row') /\ Follows(row, row')
    BY <2>1, <2>3, NoRowAssumption, MarkKeeps
  <2> QED
    BY <2>3, <2>4 DEF Mark, RowsGoOn, RowsTypeOK
<1>2. CASE ~Shown(r)
  <2>1. UNCHANGED rowVars
    BY <1>2 DEF Mark, rowVars
  <2> QED
    BY <2>1, RowsRest
<1> QED
  BY <1>1, <1>2

-----------------------------------------------------------------------------
(* The types of what handlers, operations and undos remember.                *)

PostSteps == {"look", "fund", "create", "mark", "record", "tag"}

(* A handler that posts a row: only one that names an operation records, and  *)
(* only one that has charged tags.                                           *)
PostJob ==
  {w \in [at: PostSteps, row: Rows, n: Receipts, op: Tags,
          disposition: Dispositions \ {"NONE"}, funded: BOOLEAN] :
     /\ w.at \in {"record", "tag"} => w.op \in Ops
     /\ w.at = "tag" => w.funded
     /\ w.at \in {"look", "fund", "create"} => ~w.funded
     /\ w.disposition = "CREATED" => w.funded}

InsertJob == [at: {"insert"}, n: Receipts, driver: Drivers, op: Tags]
JournalJob == [at: {"journal"}, row: Rows, op: Ops]
JobType == {Idle} \cup InsertJob \cup JournalJob \cup PostJob

OpType == [status: {"NONE", "PROCESSING", "COMPLETED", "UNDONE"}, rows: Journals]

UndoType == {Closed} \cup [at: {"checked"}, rows: Journals]
              \cup [at: {"locked"}, rows: Journals, revive: SUBSET Sessions]

TypeInv ==
  /\ RowsTypeOK /\ UniqueIn(row) /\ DeferredTypeOK
  /\ ship \in [Receipts -> Shipment] /\ job \in [Jobs -> JobType]
  /\ op \in [Ops -> OpType] /\ undo \in [Ops -> UndoType]

(* What the name of its step says of a job.                                  *)
LEMMA JobKinds ==
  ASSUME job \in [Jobs -> JobType], NEW j \in Jobs
  PROVE  /\ job[j].at = "insert" => job[j] \in InsertJob
         /\ job[j].at = "journal" => job[j] \in JournalJob
         /\ job[j].at \in PostSteps => job[j] \in PostJob
BY DEF JobType, Idle, InsertJob, JournalJob, PostJob, PostSteps

(* A job serves the operation it named while that was open, on a row that    *)
(* has the receipt it remembers.                                             *)
JobFollows(was, is) ==
  /\ is.at \in Steps => \/ was.at \in Steps /\ is.op = was.op
                        \/ Named(is.op)
  /\ is.at \in PostSteps =>
       \/ was.at \in PostSteps /\ is.row = was.row /\ is.n = was.n
       \/ row[is.row] # NoRow /\ row[is.row].receipt = is.n

JobsGoOn ==
  job' \in [Jobs -> JobType] /\ \A i \in Jobs : JobFollows(job[i], job'[i])

LEMMA JobsRest ==
  ASSUME job \in [Jobs -> JobType], UNCHANGED job PROVE JobsGoOn
BY DEF JobsGoOn, JobFollows

LEMMA JobReplaced ==
  ASSUME job \in [Jobs -> JobType], NEW j \in Jobs, NEW w \in JobType,
         job' = [job EXCEPT ![j] = w], JobFollows(job[j], w)
  PROVE  JobsGoOn
<1>1. job'[j] = w /\ \A i \in Jobs \ {j} : job'[i] = job[i]
  OBVIOUS
<1>2. \A i \in Jobs \ {j} : JobFollows(job[i], job'[i])
  BY <1>1 DEF JobFollows
<1> QED
  BY <1>1, <1>2 DEF JobsGoOn

LEMMA EndTyped ==
  ASSUME job \in [Jobs -> JobType], NEW j \in Jobs, End(j)
  PROVE  JobsGoOn
<1>1. Idle \in JobType /\ JobFollows(job[j], Idle)
  BY DEF JobType, JobFollows, Idle, Steps, PostSteps
<1> QED
  BY <1>1, JobReplaced DEF End

(* A posting goes on to a step it has the right to.                          *)
LEMMA GoTyped ==
  ASSUME job \in [Jobs -> JobType], NEW j \in Jobs, job[j] \in PostJob,
         NEW step \in PostSteps, Go(j, step),
         step \in {"record", "tag"} => job[j].op \in Ops,
         step = "tag" => job[j].funded,
         step \in {"look", "fund", "create"} => ~job[j].funded
  PROVE  JobsGoOn
<1> DEFINE w == [job[j] EXCEPT !.at = step]
<1>1. job' = [job EXCEPT ![j] = w]
  BY DEF Go
<1>2. w \in PostJob /\ w.op = job[j].op /\ w.row = job[j].row /\ w.n = job[j].n
  BY DEF PostJob
<1>3. job[j].at \in Steps /\ job[j].at \in PostSteps
  BY DEF PostJob, Steps, PostSteps
<1> HIDE DEF w
<1>4. JobFollows(job[j], w) /\ w \in JobType
  BY <1>2, <1>3 DEF JobFollows, JobType
<1> QED
  BY <1>1, <1>4, JobReplaced

LEMMA NotesTyped ==
  ASSUME job \in [Jobs -> JobType], NEW j \in Jobs, job[j] \in PostJob,
         job[j].at \in {"look", "fund", "create"}, NEW step \in {"fund", "mark"},
         NEW disposition \in {"REUSED", "CREATED"}, NEW funded \in BOOLEAN,
         step = "fund" => ~funded, disposition = "CREATED" => funded,
         Notes(j, step, disposition, funded)
  PROVE  JobsGoOn
<1> DEFINE w == Noted(job[j], step, disposition, funded)
<1>1. job' = [job EXCEPT ![j] = w]
  BY DEF Notes
<1>2. w \in PostJob /\ w.op = job[j].op /\ w.row = job[j].row /\ w.n = job[j].n
  <2>1. ~job[j].funded /\ job[j].disposition # "CREATED"
    BY DEF PostJob
  <2> QED
    BY <2>1 DEF Noted, PostJob, PostSteps, Dispositions
<1>3. job[j].at \in Steps /\ job[j].at \in PostSteps
  BY DEF PostJob, Steps, PostSteps
<1> HIDE DEF w
<1>4. JobFollows(job[j], w) /\ w \in JobType
  BY <1>2, <1>3 DEF JobFollows, JobType
<1> QED
  BY <1>1, <1>4, JobReplaced

LEMMA PlaceOfARow ==
  ASSUME RowsTypeOK, NEW r \in Rows, row[r] # NoRow
  PROVE  Where(r) \in Place
BY DEF RowsTypeOK, RowType, Where, Place

LEMMA PostRowTyped ==
  ASSUME TypeInv, NEW j \in Jobs, NEW r \in Rows, NEW o \in Tags, PostRow(j, r, o)
  PROVE  JobsGoOn
<1> DEFINE w == [at |-> IF row[r].posted THEN "record" ELSE "look", row |-> r,
                n |-> row[r].receipt, op |-> o, disposition |-> "EXISTING_POSTED",
                funded |-> FALSE]
<1>1. row[r] \in RowType /\ row[r] # NoRow /\ Named(o)
  BY DEF PostRow, Shown, Kept, TypeInv, RowsTypeOK
<1>2. row[r].posted => o \in Ops
  BY DEF PostRow, Tags
<1>3. w \in PostJob
  BY <1>1, <1>2 DEF PostJob, PostSteps, Dispositions, RowType
<1>4. job' = [job EXCEPT ![j] = w] /\ w.op = o /\ w.row = r /\ w.n = row[r].receipt
  BY DEF PostRow
<1> HIDE DEF w
<1>5. JobFollows(job[j], w) /\ w \in JobType
  BY <1>1, <1>3, <1>4 DEF JobFollows, JobType
<1> QED
  BY <1>4, <1>5, JobReplaced DEF TypeInv

LEMMA RequestsTyped ==
  ASSUME TypeInv, NEW j \in Jobs, Requests(j)
  PROVE  RowsGoOn /\ JobsGoOn /\ UNCHANGED <<ship, op>>
<1>0. job \in [Jobs -> JobType] /\ RowsTypeOK /\ UniqueIn(row)
  BY DEF TypeInv
<1>1. ASSUME NEW n \in Receipts, NEW d \in Drivers, NEW o \in Tags, SaveRow(j, n, d, o)
      PROVE  RowsGoOn /\ JobsGoOn
  <2>0. Named(o)
    BY <1>1 DEF SaveRow
  <2>1. CASE ReceiptIsFree(n)
    <3> DEFINE w == [at |-> "insert", n |-> n, driver |-> d, op |-> o]
    <3>1. job' = [job EXCEPT ![j] = w] /\ UNCHANGED rowVars
      BY <1>1, <2>1 DEF SaveRow
    <3>2. w \in JobType /\ JobFollows(job[j], w)
      BY <2>0 DEF JobType, InsertJob, JobFollows, PostSteps
    <3> HIDE DEF w
    <3>3. JobsGoOn
      BY <1>0, <3>1, <3>2, JobReplaced
    <3> QED
      BY <1>0, <3>1, <3>3, RowsRest
  <2>2. CASE ~ReceiptIsFree(n)
    <3>1. PICK r \in Rows :
            /\ UpdateRow(r, d)
            /\ IF o = NoOp THEN UNCHANGED job
               ELSE job' = [job EXCEPT ![j] = [at |-> "journal", row |-> r, op |-> o]]
      BY <1>1, <2>2 DEF SaveRow
    <3>2. RowsGoOn
      BY <1>0, <3>1, UpdateRowKeeps
    <3>3. CASE o = NoOp
      BY <1>0, <3>1, <3>2, <3>3, JobsRest
    <3>4. CASE o # NoOp
      <4> DEFINE w == [at |-> "journal", row |-> r, op |-> o]
      <4>1. w \in JobType /\ JobFollows(job[j], w) /\ job' = [job EXCEPT ![j] = w]
        BY <2>0, <3>1, <3>4 DEF JobType, JournalJob, Tags, JobFollows, PostSteps
      <4> HIDE DEF w
      <4> QED
        BY <1>0, <3>2, <4>1, JobReplaced
    <3> QED
      BY <3>3, <3>4
  <2> QED
    BY <2>1, <2>2
<1>2. ASSUME NEW r \in Rows, NEW o \in Tags, PostRow(j, r, o)
      PROVE  RowsGoOn /\ JobsGoOn
  BY <1>0, <1>2, PostRowTyped, RowsRest DEF PostRow
<1>3. UNCHANGED <<ship, op>>
  BY DEF Requests, SaveRow, PostRow
<1> QED
  BY <1>1, <1>2, <1>3 DEF Requests

LEMMA ChargedTyped ==
  ASSUME NEW s \in Shipment PROVE Charged(s) \in Shipment
<1>1. s.charges \in [Tags -> Nat] /\ NoOp \in Tags
  BY DEF Shipment, Tags
<1>2. [s.charges EXCEPT ![NoOp] = s.charges[NoOp] + 1] \in [Tags -> Nat]
  BY <1>1
<1>3. Charged(s) = [s EXCEPT !.fin = "POSTED",
                            !.charges = [s.charges EXCEPT ![NoOp] = s.charges[NoOp] + 1]]
  BY DEF Charged, Shipment
<1> QED
  BY <1>2, <1>3 DEF Shipment

LEMMA JournalledTyped ==
  ASSUME RowsTypeOK, NEW r \in Rows, row[r] # NoRow, NEW e \in EntryType \cup {NoEntry}
  PROVE  Journalled(e, r) \in EntryType
<1>1. Where(r) \in Place
  BY PlaceOfARow
<1>2. CASE e \in EntryType
  BY <1>1, <1>2 DEF Journalled, EntryType
<1>3. CASE e = NoEntry
  <2>1. Journalled(e, r) = Entry(FALSE, Unknown, Where(r))
    BY <1>3 DEF Journalled, NoEntry
  <2> QED
    BY <1>1, <2>1 DEF Entry, EntryType, Dispositions
<1> QED
  BY <1>2, <1>3

LEMMA RecordedTyped ==
  ASSUME NEW e \in EntryType \cup {NoEntry}, NEW w \in PostJob
  PROVE  Recorded(e, w) \in EntryType \cup {NoEntry}
<1>1. CASE e \in EntryType
  <2> DEFINE after == IF e.after = Unknown THEN e.after ELSE [e.after EXCEPT !.posted = TRUE]
  <2>1. after \in Place \cup {Unknown}
    BY <1>1 DEF EntryType, Place
  <2>2. Recorded(e, w) = [e EXCEPT !.disposition = w.disposition, !.funded = w.funded,
                                   !.after = after]
    BY <1>1 DEF Recorded, EntryType
  <2> HIDE DEF after
  <2> QED
    BY <1>1, <2>1, <2>2 DEF EntryType, PostJob
<1>2. CASE e = NoEntry
  BY <1>2 DEF Recorded, NoEntry
<1> QED
  BY <1>1, <1>2

(* An operation one of whose entries is replaced.                            *)
Rewritten(o, r, e) == [op EXCEPT ![o].rows[r] = e]

LEMMA EntryReplaced ==
  ASSUME op \in [Ops -> OpType], NEW o \in Ops, NEW r \in Rows,
         NEW e \in EntryType \cup {NoEntry}, op' = Rewritten(o, r, e)
  PROVE  /\ op' \in [Ops -> OpType]
         /\ \A p \in Ops : op'[p].status = op[p].status
         /\ op'[o].rows[r] = e
         /\ \A p \in Ops, q \in Rows : p # o \/ q # r => op'[p].rows[q] = op[p].rows[q]
<1> DEFINE rows == [op[o].rows EXCEPT ![r] = e]
<1>1. op[o] \in OpType /\ op[o].rows \in Journals
  BY DEF OpType
<1>2. rows \in Journals /\ rows[r] = e /\ \A q \in Rows \ {r} : rows[q] = op[o].rows[q]
  BY <1>1 DEF Journals
<1>3. op' = [op EXCEPT ![o] = [op[o] EXCEPT !.rows = rows]]
  BY <1>1 DEF OpType, Rewritten
<1> HIDE DEF rows
<1>4. /\ op'[o] = [op[o] EXCEPT !.rows = rows]
      /\ \A p \in Ops \ {o} : op'[p] = op[p]
  BY <1>3
<1>5. op'[o] \in OpType /\ op'[o].rows = rows /\ op'[o].status = op[o].status
  BY <1>1, <1>2, <1>4 DEF OpType
<1>6. op' \in [Ops -> OpType]
  BY <1>3, <1>4, <1>5
<1>7. \A p \in Ops : op'[p].status = op[p].status
  BY <1>4, <1>5
<1>8. ASSUME NEW p \in Ops, NEW q \in Rows, p # o \/ q # r
      PROVE  op'[p].rows[q] = op[p].rows[q]
  <2>1. CASE p = o
    BY <1>2, <1>5, <1>8, <2>1
  <2>2. CASE p # o
    BY <1>4, <2>2
  <2> QED
    BY <2>1, <2>2
<1> QED
  BY <1>2, <1>5, <1>6, <1>7, <1>8

(* What a step does to operations: an open one stays open, or ends, with no  *)
(* job left.                                                                 *)
OpsGoOn ==
  /\ op' \in [Ops -> OpType]
  /\ \A o \in Ops : op[o].status = "COMPLETED" => op'[o] = op[o]
  /\ \A o \in Ops : op[o].status = "PROCESSING" => op'[o].status = "PROCESSING"
  /\ \A o \in Ops : op[o].status = "UNDONE" => op'[o].status = "UNDONE"

(* An entry is of a row that is there.                                       *)
EntriesOnRows ==
  \A o \in Ops, r \in Rows : op[o].rows[r].in => row[r] # NoRow

(* A job works for an operation that is open.                                *)
JobsOfOpen ==
  \A j \in Jobs : job[j].at \in Steps /\ job[j].op \in Ops =>
                   op[job[j].op].status = "PROCESSING"

(* A job that posts a row has the row's receipt.                             *)
JobsOnRows ==
  \A j \in Jobs : job[j].at \in PostSteps =>
                   row[job[j].row] # NoRow /\ row[job[j].row].receipt = job[j].n

(* An open undo has read what the operation, which is complete, still says.  *)
UndosOfComplete ==
  \A o \in Ops : undo[o] # Closed =>
                  op[o].status = "COMPLETED" /\ undo[o].rows = op[o].rows

OfficeInv ==
  TypeInv /\ JobsOfOpen /\ JobsOnRows /\ EntriesOnRows /\ UndosOfComplete

(* One of the steps of a handler: rows, jobs, shipments and operations stay  *)
(* well formed, and entries are of rows that are there.                      *)
HandlerGoesOn ==
  /\ RowsGoOn /\ JobsGoOn /\ OpsGoOn /\ EntriesOnRows'
  /\ ship' \in [Receipts -> Shipment]

LEMMA OpsRest ==
  ASSUME OfficeInv, RowsGoOn, UNCHANGED op
  PROVE  OpsGoOn /\ EntriesOnRows'
BY DEF OfficeInv, TypeInv, RowsGoOn, OpsGoOn, EntriesOnRows, Follows

LEMMA ContinueTyped ==
  ASSUME OfficeInv, NEW j \in Jobs, Continue(j)
  PROVE  HandlerGoesOn
<1>0. /\ RowsTypeOK /\ UniqueIn(row) /\ job \in [Jobs -> JobType]
      /\ ship \in [Receipts -> Shipment] /\ op \in [Ops -> OpType]
  BY DEF OfficeInv, TypeInv
<1>1. ASSUME NEW r \in Rows, SaveNewRow(j, r) PROVE HandlerGoesOn
  <2>1. job[j] \in InsertJob
    BY <1>0, <1>1, JobKinds DEF SaveNewRow
  <2>2. RowsGoOn
    BY <1>0, <1>1, <2>1, InsertRowKeeps DEF SaveNewRow, InsertJob
  <2>3. JobsGoOn
    <3>1. CASE job[j].op = NoOp
      BY <1>0, <1>1, <3>1, EndTyped DEF SaveNewRow
    <3>2. CASE job[j].op # NoOp
      <4> DEFINE w == [at |-> "journal", row |-> r, op |-> job[j].op]
      <4>1. job' = [job EXCEPT ![j] = w]
        BY <1>1, <3>2 DEF SaveNewRow
      <4>2. w \in JobType /\ JobFollows(job[j], w)
        BY <2>1, <3>2 DEF InsertJob, JournalJob, JobType, JobFollows, PostSteps, Steps, Tags
      <4> HIDE DEF w
      <4> QED
        BY <1>0, <4>1, <4>2, JobReplaced
    <3> QED
      BY <3>1, <3>2
  <2> QED
    BY <1>0, <1>1, <2>2, <2>3, OpsRest DEF SaveNewRow, HandlerGoesOn
<1>2. CASE Journal(j)
  <2> DEFINE r == job[j].row
             o == job[j].op
             e == Journalled(op[o].rows[r], r)
  <2>1. job[j] \in JournalJob
    BY <1>0, <1>2, JobKinds DEF Journal
  <2>2. r \in Rows /\ o \in Ops /\ op[o].status = "PROCESSING"
    BY <2>1 DEF JournalJob, OfficeInv, JobsOfOpen, Steps
  <2>3. RowsGoOn /\ JobsGoOn
    BY <1>0, <1>2, RowsRest, EndTyped DEF Journal
  <2>4. CASE Shown(r)
    <3>1. op' = Rewritten(o, r, e)
      BY <1>2, <2>4 DEF Journal, Rewritten
    <3>2. row[r] # NoRow
      BY <2>4 DEF Shown, Kept
    <3>3. op[o].rows[r] \in EntryType \cup {NoEntry}
      BY <1>0, <2>2 DEF OpType, Journals
    <3>4. e \in EntryType
      BY <1>0, <2>2, <3>2, <3>3, JournalledTyped
    <3> HIDE DEF e, r, o
    <3>5. /\ op' \in [Ops -> OpType]
          /\ \A p \in Ops : op'[p].status = op[p].status
          /\ op'[o].rows[r] = e
          /\ \A p \in Ops, q \in Rows : p # o \/ q # r => op'[p].rows[q] = op[p].rows[q]
      BY <1>0, <2>2, <3>1, <3>4, EntryReplaced
    <3>6. \A p \in Ops \ {o} : op'[p] = op[p]
      BY <1>0, <3>1 DEF Rewritten
    <3>7. OpsGoOn
      BY <2>2, <3>5, <3>6 DEF OpsGoOn
    <3>8. \A q \in Rows : row[q] # NoRow => row'[q] # NoRow
      BY <2>3 DEF RowsGoOn, Follows
    <3>9. EntriesOnRows'
      BY <3>2, <3>5, <3>8 DEF EntriesOnRows, OfficeInv
    <3> QED
      BY <1>0, <1>2, <2>3, <3>7, <3>9 DEF Journal, HandlerGoesOn
  <2>5. CASE ~Shown(r)
    BY <1>0, <1>2, <2>3, <2>5, OpsRest DEF Journal, HandlerGoesOn
  <2> QED
    BY <2>4, <2>5
<1>3. CASE Look(j)
  <2>1. job[j] \in PostJob
    BY <1>0, <1>3, JobKinds DEF Look, PostSteps
  <2>2. RowsGoOn
    BY <1>0, <1>3, RowsRest DEF Look
  <2>3. JobsGoOn
    <3>1. CASE Go(j, "create")
      <4>1. ~job[j].funded
        BY <1>3, <2>1 DEF Look, PostJob
      <4> QED
        BY <1>0, <2>1, <3>1, <4>1, GoTyped DEF PostSteps
    <3>2. CASE End(j)
      BY <1>0, <3>2, EndTyped
    <3>3. ASSUME NEW step \in {"fund", "mark"}, Notes(j, step, "REUSED", FALSE)
          PROVE  JobsGoOn
      BY <1>0, <1>3, <2>1, <3>3, NotesTyped DEF Look
    <3>4. \/ Go(j, "create") \/ End(j)
          \/ \E step \in {"fund", "mark"} : Notes(j, step, "REUSED", FALSE)
      BY <1>3 DEF Look
    <3> QED
      BY <3>1, <3>2, <3>3, <3>4
  <2> QED
    BY <1>0, <1>3, <2>2, <2>3, OpsRest DEF Look, HandlerGoesOn
<1>4. CASE Fund(j)
  <2>1. job[j] \in PostJob
    BY <1>0, <1>4, JobKinds DEF Fund, PostSteps
  <2>2. RowsGoOn
    BY <1>0, <1>4, RowsRest DEF Fund
  <2>3. JobsGoOn
    <3>1. Notes(j, "mark", "REUSED", TRUE) \/ End(j)
      BY <1>4 DEF Fund
    <3> QED
      BY <1>0, <1>4, <2>1, <3>1, NotesTyped, EndTyped DEF Fund
  <2>4. ship' \in [Receipts -> Shipment]
    <3> DEFINE n == job[j].n
    <3>1. n \in Receipts /\ Charged(ship[n]) \in Shipment
      BY <1>0, <2>1, ChargedTyped DEF PostJob
    <3>2. ship' = [ship EXCEPT ![n] = Charged(ship[n])] \/ UNCHANGED ship
      BY <1>4 DEF Fund
    <3> HIDE DEF n
    <3> QED
      BY <1>0, <3>1, <3>2
  <2> QED
    BY <1>4, <2>2, <2>3, <2>4, OpsRest DEF Fund, HandlerGoesOn
<1>5. CASE Create(j)
  <2>1. job[j] \in PostJob
    BY <1>0, <1>5, JobKinds DEF Create, PostSteps
  <2>2. RowsGoOn
    BY <1>0, <1>5, RowsRest DEF Create
  <2>3. JobsGoOn
    <3>1. Notes(j, "mark", "CREATED", TRUE) \/ End(j)
      BY <1>5 DEF Create
    <3> QED
      BY <1>0, <1>5, <2>1, <3>1, NotesTyped, EndTyped DEF Create
  <2>4. ship' \in [Receipts -> Shipment]
    <3> DEFINE n == job[j].n
               live == [ship[n] EXCEPT !.state = "live"]
    <3>1. n \in Receipts
      BY <2>1 DEF PostJob
    <3>2. live \in Shipment
      BY <1>0, <3>1 DEF Shipment
    <3>3. Charged(live) \in Shipment
      BY <3>2, ChargedTyped
    <3>4. ship' = [ship EXCEPT ![n] = Charged(live)] \/ UNCHANGED ship
      BY <1>5 DEF Create
    <3> HIDE DEF n, live
    <3> QED
      BY <1>0, <3>1, <3>3, <3>4
  <2> QED
    BY <1>5, <2>2, <2>3, <2>4, OpsRest DEF Create, HandlerGoesOn
<1>6. CASE Mark(j)
  <2>1. job[j] \in PostJob
    BY <1>0, <1>6, JobKinds DEF Mark, PostSteps
  <2>2. RowsGoOn
    BY <1>0, <1>6, <2>1, MarkRowKeeps DEF PostJob
  <2>3. (Go(j, "record") /\ job[j].op \in Ops) \/ End(j)
    BY <1>6, <2>1 DEF Mark, EndUnless, PostJob, Tags
  <2>4. JobsGoOn
    BY <1>0, <2>1, <2>3, GoTyped, EndTyped DEF PostSteps
  <2> QED
    BY <1>0, <1>6, <2>2, <2>4, OpsRest DEF Mark, HandlerGoesOn
<1>7. CASE Record(j)
  <2> DEFINE r == job[j].row
             o == job[j].op
             e == Recorded(op[o].rows[r], job[j])
  <2>1. job[j] \in PostJob
    BY <1>0, <1>7, JobKinds DEF Record, PostSteps
  <2>2. r \in Rows /\ o \in Ops /\ op[o].status = "PROCESSING"
    BY <1>7, <2>1 DEF Record, PostJob, OfficeInv, JobsOfOpen, Steps
  <2>3. RowsGoOn
    BY <1>0, <1>7, RowsRest DEF Record
  <2>4. (Go(j, "tag") /\ job[j].funded) \/ End(j)
    BY <1>7 DEF Record, EndUnless
  <2>5. JobsGoOn
    BY <1>0, <2>1, <2>2, <2>4, GoTyped, EndTyped DEF PostSteps
  <2>6. op' = Rewritten(o, r, e)
    BY <1>7 DEF Record, Rewritten
  <2>7. op[o].rows[r] \in EntryType \cup {NoEntry}
    BY <1>0, <2>2 DEF OpType, Journals
  <2>8. e \in EntryType \cup {NoEntry} /\ (e.in => op[o].rows[r].in)
    <3>1. e \in EntryType \cup {NoEntry}
      BY <2>1, <2>7, RecordedTyped
    <3> QED
      BY <3>1 DEF Recorded
  <2> HIDE DEF e, r, o
  <2>9. /\ op' \in [Ops -> OpType]
        /\ \A p \in Ops : op'[p].status = op[p].status
        /\ op'[o].rows[r] = e
        /\ \A p \in Ops, q \in Rows : p # o \/ q # r => op'[p].rows[q] = op[p].rows[q]
    BY <1>0, <2>2, <2>6, <2>8, EntryReplaced
  <2>10. \A p \in Ops \ {o} : op'[p] = op[p]
    BY <1>0, <2>6 DEF Rewritten
  <2>11. OpsGoOn
    BY <2>2, <2>9, <2>10 DEF OpsGoOn
  <2>12. \A q \in Rows : row[q] # NoRow => row'[q] # NoRow
    BY <2>3 DEF RowsGoOn, Follows
  <2>13. EntriesOnRows'
    BY <2>2, <2>8, <2>9, <2>12 DEF EntriesOnRows, OfficeInv
  <2> QED
    BY <1>0, <1>7, <2>3, <2>5, <2>11, <2>13 DEF Record, HandlerGoesOn
<1>8. CASE Tag(j)
  <2>1. job[j] \in PostJob
    BY <1>0, <1>8, JobKinds DEF Tag, PostSteps
  <2>2. RowsGoOn /\ JobsGoOn
    BY <1>0, <1>8, RowsRest, EndTyped DEF Tag
  <2>3. ship' \in [Receipts -> Shipment]
    <3> DEFINE n == job[j].n
               c == Tagged(ship[n].charges, job[j].op)
               s == [ship[n] EXCEPT !.charges = c]
    <3>1. n \in Receipts /\ ship[n] \in Shipment /\ ship[n].charges \in [Tags -> Nat]
      BY <1>0, <2>1 DEF PostJob, Shipment
    <3>2. NoOp \in Tags
      BY DEF Tags
    <3>3. c \in [Tags -> Nat]
      BY <3>1, <3>2 DEF Tagged
    <3>4. ship' = [ship EXCEPT ![n] = s]
      BY <1>8 DEF Tag
    <3> HIDE DEF c
    <3>5. s \in Shipment
      BY <3>1, <3>3 DEF Shipment
    <3> HIDE DEF n, s
    <3> QED
      BY <1>0, <3>1, <3>4, <3>5
  <2> QED
    BY <1>8, <2>2, <2>3, OpsRest DEF Tag, HandlerGoesOn
<1>9. CASE Stop(j)
  BY <1>0, <1>9, RowsRest, EndTyped, OpsRest DEF Stop, HandlerGoesOn
<1> QED
  BY <1>1, <1>2, <1>3, <1>4, <1>5, <1>6, <1>7, <1>8, <1>9 DEF Continue

(* A deferred posting is a handler too, one that names no operation.         *)
OpenRequests == [action: Actions, left: SUBSET Rows]

LEMMA RequestKinds ==
  ASSUME DeferredTypeOK, NEW j \in Jobs, Executing(j)
  PROVE  request[j] \in OpenRequests
BY DEF DeferredTypeOK, Executing, OpenRequests

(* What a step of a request may write.                                       *)
LEMMA RequestTyped ==
  ASSUME DeferredTypeOK, NEW j \in Jobs,
         NEW w \in {NoRequest} \cup OpenRequests, request' = [request EXCEPT ![j] = w],
         \/ UNCHANGED deferred
         \/ \E a \in Actions, v \in {"PROCESSING", "ACCEPTED", "CENTRAL_PROCESSING_FAILED"} :
              Decided(a, v)
  PROVE  DeferredTypeOK'
<1>1. request' \in [Jobs -> {NoRequest} \cup OpenRequests]
  BY DEF DeferredTypeOK, OpenRequests
<1>2. deferred' \in [Actions -> {"NONE", "PROCESSING", "ACCEPTED", "CENTRAL_PROCESSING_FAILED"}]
  BY DEF DeferredTypeOK, Decided
<1> QED
  BY <1>1, <1>2 DEF DeferredTypeOK, OpenRequests

LEMMA DeferredTyped ==
  ASSUME OfficeInv, NEW j \in Jobs, Deferred(j)
  PROVE  HandlerGoesOn /\ DeferredTypeOK'
<1>0. /\ RowsTypeOK /\ UniqueIn(row) /\ job \in [Jobs -> JobType] /\ DeferredTypeOK
      /\ ship \in [Receipts -> Shipment] /\ request \in [Jobs -> {NoRequest} \cup OpenRequests]
  BY DEF OfficeInv, TypeInv, DeferredTypeOK, OpenRequests
<1>1. ASSUME RowsGoOn, JobsGoOn, UNCHANGED <<ship, op>> PROVE HandlerGoesOn
  BY <1>0, <1>1, OpsRest DEF HandlerGoesOn
<1>2. ASSUME UNCHANGED <<rowVars, postVars>> PROVE HandlerGoesOn
  BY <1>0, <1>1, <1>2, RowsRest, JobsRest DEF postVars
<1>3. ASSUME Accept(j) \/ Refuse(j) PROVE HandlerGoesOn /\ DeferredTypeOK'
  <2>1. request[j] \in OpenRequests
    BY <1>0, <1>3, RequestKinds DEF Accept, Refuse
  <2>2. request[j].action \in Actions
    BY <2>1 DEF OpenRequests
  <2>3. \/ Decided(request[j].action, "ACCEPTED")
        \/ Decided(request[j].action, "CENTRAL_PROCESSING_FAILED")
    BY <1>3 DEF Accept, Refuse
  <2>4. request' = [request EXCEPT ![j] = NoRequest]
    BY <1>3 DEF Accept, Refuse, Answered
  <2>5. DeferredTypeOK'
    BY <1>0, <2>2, <2>3, <2>4, RequestTyped
  <2> QED
    BY <1>2, <1>3, <2>5 DEF Accept, Refuse
<1>4. ASSUME NEW a \in Actions, Execute(j, a) PROVE HandlerGoesOn /\ DeferredTypeOK'
  <2>1. Request(a, Pending) \in OpenRequests
    BY DEF Request, OpenRequests, Pending
  <2>2. DeferredTypeOK'
    BY <1>0, <1>4, <2>1, RequestTyped DEF Execute
  <2> QED
    BY <1>2, <1>4, <2>2 DEF Execute
<1>5. ASSUME NEW r \in Rows, PostNext(j, r) PROVE HandlerGoesOn /\ DeferredTypeOK'
  <2>1. request[j] \in OpenRequests
    <3>1. Executing(j)
      BY <1>5 DEF PostNext, Executing, NoRequest
    <3> QED
      BY <1>0, <3>1, RequestKinds
  <2>2. [request[j] EXCEPT !.left = @ \ {r}] \in OpenRequests
    BY <2>1 DEF OpenRequests
  <2>3. request' = [request EXCEPT ![j] = [request[j] EXCEPT !.left = @ \ {r}]]
    BY <1>5 DEF PostNext
  <2>4. DeferredTypeOK'
    BY <1>0, <1>5, <2>2, <2>3, RequestTyped DEF PostNext
  <2>5. PostRow(j, r, NoOp) \/ UNCHANGED <<rowVars, postVars>>
    BY <1>5 DEF PostNext
  <2>6. NoOp \in Tags
    BY DEF Tags
  <2>7. JobsGoOn
    BY <1>0, <2>5, <2>6, PostRowTyped, JobsRest DEF OfficeInv, postVars
  <2>8. UNCHANGED <<rowVars, ship, op>>
    BY <2>5 DEF PostRow, postVars
  <2> QED
    BY <1>0, <1>1, <2>4, <2>7, <2>8, RowsRest
<1>6. ASSUME Die(j) PROVE HandlerGoesOn /\ DeferredTypeOK'
  <2>1. DeferredTypeOK'
    BY <1>0, <1>6, RequestTyped DEF Die, Answered
  <2> QED
    BY <1>0, <1>1, <1>6, <2>1, RowsRest, EndTyped DEF Die
<1> QED
  BY <1>3, <1>4, <1>5, <1>6 DEF Deferred

LEMMA AnswersTyped ==
  ASSUME OfficeInv, NEW a \in Actions, Answers(a)
  PROVE  HandlerGoesOn /\ DeferredTypeOK'
<1>1. UNCHANGED <<rowVars, ship, job, op, request>>
  BY DEF Answers, Receive, PersistFailure, postVars
<1>2. RowsGoOn /\ JobsGoOn
  BY <1>1, RowsRest, JobsRest DEF OfficeInv, TypeInv
<1>3. DeferredTypeOK'
  BY <1>1 DEF OfficeInv, TypeInv, Answers, Receive, PersistFailure, Decided, DeferredTypeOK
<1> QED
  BY <1>1, <1>2, <1>3, OpsRest DEF HandlerGoesOn, OfficeInv, TypeInv

(* Handlers leave open undos what they have read.                            *)
LEMMA HandlerKeeps ==
  ASSUME OfficeInv, HandlerGoesOn, DeferredTypeOK', UNCHANGED undo
  PROVE  OfficeInv'
<1>1. TypeInv'
  BY DEF OfficeInv, TypeInv, HandlerGoesOn, RowsGoOn, JobsGoOn, OpsGoOn, RowsTypeOK, Tables
<1>2. JobsOfOpen'
  <2> SUFFICES ASSUME NEW i \in Jobs, job'[i].at \in Steps, job'[i].op \in Ops
               PROVE  op'[job'[i].op].status = "PROCESSING"
    BY DEF JobsOfOpen
  <2>1. \/ job[i].at \in Steps /\ job'[i].op = job[i].op
        \/ Named(job'[i].op)
    BY DEF HandlerGoesOn, JobsGoOn, JobFollows
  <2>2. op[job'[i].op].status = "PROCESSING"
    BY <2>1, PostingAssumption DEF OfficeInv, JobsOfOpen, Named
  <2> QED
    BY <2>2 DEF HandlerGoesOn, OpsGoOn
<1>3. JobsOnRows'
  <2> SUFFICES ASSUME NEW i \in Jobs, job'[i].at \in PostSteps
               PROVE  row'[job'[i].row] # NoRow /\ row'[job'[i].row].receipt = job'[i].n
    BY DEF JobsOnRows
  <2>1. job'[i].row \in Rows
    <3>1. job'[i] \in JobType
      BY DEF HandlerGoesOn, JobsGoOn
    <3> QED
      BY <3>1 DEF JobType, Idle, InsertJob, JournalJob, PostJob, PostSteps
  <2>2. row[job'[i].row] # NoRow /\ row[job'[i].row].receipt = job'[i].n
    BY DEF HandlerGoesOn, JobsGoOn, JobFollows, OfficeInv, JobsOnRows
  <2> QED
    BY <2>1, <2>2 DEF HandlerGoesOn, RowsGoOn, Follows
<1>4. UndosOfComplete'
  BY DEF OfficeInv, UndosOfComplete, HandlerGoesOn, OpsGoOn
<1> QED
  BY <1>1, <1>2, <1>3, <1>4 DEF OfficeInv, HandlerGoesOn

LEMMA ShipmentScreensTyped ==
  ASSUME OfficeInv, ShipmentScreens
  PROVE  HandlerGoesOn
<1>0. /\ RowsTypeOK /\ UniqueIn(row) /\ job \in [Jobs -> JobType]
      /\ ship \in [Receipts -> Shipment]
  BY DEF OfficeInv, TypeInv
<1>1. UNCHANGED <<rowVars, job, op>>
  BY DEF ShipmentScreens, DraftShipment, PostFromLifecycle
<1>2. ASSUME NEW n \in Receipts, DraftShipment(n) PROVE ship' \in [Receipts -> Shipment]
  BY <1>0, <1>2 DEF DraftShipment, Shipment
<1>3. ASSUME NEW n \in Receipts, PostFromLifecycle(n) PROVE ship' \in [Receipts -> Shipment]
  <2>1. ship' = [ship EXCEPT ![n] = Charged(ship[n])] /\ Charged(ship[n]) \in Shipment
    BY <1>0, <1>3, ChargedTyped DEF PostFromLifecycle
  <2> QED
    BY <1>0, <2>1
<1> QED
  BY <1>0, <1>1, <1>2, <1>3, RowsRest, JobsRest, OpsRest DEF ShipmentScreens, HandlerGoesOn

-----------------------------------------------------------------------------
(* The operations and their undos.                                           *)

LEMMA BeginKeeps ==
  ASSUME OfficeInv, NEW o \in Ops, NEW rs \in SUBSET Rows, BeginOperation(o, rs),
         UNCHANGED deferredVars
  PROVE  OfficeInv'
<1> DEFINE rows == [r \in Rows |-> IF r \in rs THEN Entry(TRUE, Where(r), Unknown) ELSE NoEntry]
<1>0. /\ RowsTypeOK /\ UniqueIn(row) /\ job \in [Jobs -> JobType] /\ DeferredTypeOK
      /\ ship \in [Receipts -> Shipment] /\ op \in [Ops -> OpType]
  BY DEF OfficeInv, TypeInv
<1>1. op[o].status = "NONE" /\ \A r \in rs : row[r] # NoRow
  BY DEF BeginOperation, Shown, Kept
<1>2. op' = [op EXCEPT ![o] = [status |-> "PROCESSING", rows |-> rows]]
  BY DEF BeginOperation
<1>3. \A r \in Rows : \/ r \in rs /\ rows[r] \in EntryType
                      \/ r \notin rs /\ rows[r] = NoEntry
  <2>1. \A r \in rs : Where(r) \in Place
    BY <1>0, <1>1, PlaceOfARow
  <2>2. \A r \in rs : Entry(TRUE, Where(r), Unknown) \in EntryType
    BY <2>1 DEF Entry, EntryType, Dispositions
  <2>3. \A r \in Rows : rows[r] = IF r \in rs THEN Entry(TRUE, Where(r), Unknown) ELSE NoEntry
    OBVIOUS
  <2> HIDE DEF rows
  <2> QED
    BY <2>2, <2>3
<1>4. rows \in Journals
  BY <1>3 DEF Journals
<1> HIDE DEF rows
<1>5. /\ op' \in [Ops -> OpType] /\ op'[o].status = "PROCESSING" /\ op'[o].rows = rows
      /\ \A p \in Ops \ {o} : op'[p] = op[p]
  BY <1>0, <1>2, <1>4 DEF OpType
<1>6. OpsGoOn
  BY <1>1, <1>5 DEF OpsGoOn
<1>7. UNCHANGED <<rowVars, ship, job, undo>>
  BY DEF BeginOperation
<1>8. EntriesOnRows'
  <2>1. row' = row
    BY <1>7 DEF rowVars
  <2>2. \A p \in Ops \ {o}, r \in Rows : op'[p].rows[r].in => row'[r] # NoRow
    BY <1>5, <2>1 DEF OfficeInv, EntriesOnRows
  <2>3. \A r \in Rows : op'[o].rows[r].in => row'[r] # NoRow
    BY <1>1, <1>3, <1>5, <2>1 DEF NoEntry
  <2> QED
    BY <2>2, <2>3 DEF EntriesOnRows
<1>9. HandlerGoesOn
  BY <1>0, <1>6, <1>7, <1>8, RowsRest, JobsRest DEF HandlerGoesOn
<1> QED
  BY <1>0, <1>7, <1>9, HandlerKeeps DEF DeferredTypeOK, deferredVars

(* An operation is finished when no job of it is left.                       *)
LEMMA FinalizeKeeps ==
  ASSUME OfficeInv, NEW o \in Ops, Finalize(o), UNCHANGED deferredVars
  PROVE  OfficeInv'
<1>1. op \in [Ops -> OpType] /\ op[o].status = "PROCESSING"
  BY DEF OfficeInv, TypeInv, Finalize
<1>2. UNCHANGED <<row, session, held, ship, job, undo, deferredVars>>
  BY DEF Finalize, rowVars
<1>3. op' = [op EXCEPT ![o] = [op[o] EXCEPT !.status = "COMPLETED"]]
  BY <1>1 DEF Finalize
<1>4. /\ op' \in [Ops -> OpType] /\ op'[o].rows = op[o].rows
      /\ \A p \in Ops \ {o} : op'[p] = op[p]
  BY <1>1, <1>3 DEF OpType
<1>5. TypeInv'
  BY <1>2, <1>4 DEF OfficeInv, TypeInv, RowsTypeOK, UniqueIn, KeptIn, DeferredTypeOK, deferredVars
<1>6. JobsOfOpen'
  BY <1>2, <1>4 DEF OfficeInv, JobsOfOpen, Finalize
<1>7. JobsOnRows'
  BY <1>2 DEF OfficeInv, JobsOnRows
<1>8. EntriesOnRows'
  BY <1>2, <1>4 DEF OfficeInv, EntriesOnRows
<1>9. UndosOfComplete'
  BY <1>1, <1>2, <1>4 DEF OfficeInv, UndosOfComplete
<1> QED
  BY <1>5, <1>6, <1>7, <1>8, <1>9 DEF OfficeInv

LEMMA LocksOfRows ==
  ASSUME OfficeInv, NEW o \in Ops, undo[o] # Closed
  PROVE  /\ undo[o].rows \in Journals /\ undo[o].rows = op[o].rows
         /\ op[o].status = "COMPLETED"
         /\ Members(undo[o].rows) \in SUBSET Rows
         /\ \A r \in Members(undo[o].rows) : row[r] # NoRow
         /\ Locks(undo[o].rows) \subseteq Rows \cup Receipts
<1>1. undo[o].rows \in Journals /\ undo[o].rows = op[o].rows /\ op[o].status = "COMPLETED"
  BY DEF OfficeInv, TypeInv, UndoType, UndosOfComplete
<1>2. /\ Members(undo[o].rows) \in SUBSET Rows
      /\ \A r \in Members(undo[o].rows) : row[r] # NoRow
  BY <1>1 DEF Members, OfficeInv, EntriesOnRows
<1>3. \A r \in Members(undo[o].rows) : row[r].receipt \in Receipts
  BY <1>2 DEF OfficeInv, TypeInv, RowsTypeOK, RowType
<1> QED
  BY <1>1, <1>2, <1>3 DEF Locks

(* Opening an undo, locking it and giving it up touch nothing but locks.     *)
LEMMA UndoOpens ==
  ASSUME OfficeInv, NEW o \in Ops, CheckUndo(o) \/ LockUndo(o) \/ AbandonUndo(o),
         UNCHANGED deferredVars
  PROVE  OfficeInv'
<1>0. /\ op \in [Ops -> OpType] /\ undo \in [Ops -> UndoType]
      /\ held \subseteq Rows \cup Receipts
  BY DEF OfficeInv, TypeInv, RowsTypeOK
<1>1. UNCHANGED <<row, session, ship, job, op, deferredVars>>
  BY DEF CheckUndo, LockUndo, AbandonUndo, postVars, rowVars
<1>2. /\ held' \subseteq Rows \cup Receipts /\ undo' \in [Ops -> UndoType]
      /\ \A p \in Ops \ {o} : undo'[p] = undo[p]
      /\ undo'[o] # Closed => undo'[o].rows = op[o].rows /\ op[o].status = "COMPLETED"
  <2>1. CASE CheckUndo(o)
    BY <1>0, <2>1 DEF CheckUndo, rowVars, UndoType, OpType
  <2>2. CASE LockUndo(o)
    <3>1. undo[o] # Closed
      BY <2>2 DEF LockUndo, Closed
    <3> DEFINE gone == {s \in Origins(undo[o].rows) : session[s] = "deleted"}
    <3>2. /\ undo[o].rows \in Journals /\ undo[o].rows = op[o].rows
          /\ op[o].status = "COMPLETED" /\ Locks(undo[o].rows) \subseteq Rows \cup Receipts
      BY <3>1, LocksOfRows
    <3>3. gone \subseteq Sessions
      <4>1. \A r \in Members(undo[o].rows) :
              undo[o].rows[r].existed => undo[o].rows[r].before.at \in Sessions
        <5> SUFFICES ASSUME NEW r \in Members(undo[o].rows), undo[o].rows[r].existed
                     PROVE  undo[o].rows[r].before.at \in Sessions
          OBVIOUS
        <5>1. undo[o].rows[r] \in EntryType
          BY <3>2 DEF Members, Journals, NoEntry
        <5>2. undo[o].rows[r].before \in Place
          BY <5>1 DEF EntryType
        <5> QED
          BY <5>2 DEF Place
      <4> QED
        BY <4>1 DEF Origins
    <3>4. /\ held' = held \cup Locks(undo[o].rows)
          /\ undo' = [undo EXCEPT ![o] = [at |-> "locked", rows |-> undo[o].rows,
                                          revive |-> gone]]
      BY <2>2 DEF LockUndo
    <3> HIDE DEF gone
    <3> QED
      BY <1>0, <3>2, <3>3, <3>4 DEF UndoType
  <2>3. CASE AbandonUndo(o)
    BY <1>0, <2>3 DEF AbandonUndo, UndoType
  <2> QED
    BY <2>1, <2>2, <2>3
<1>3. TypeInv'
  BY <1>1, <1>2 DEF OfficeInv, TypeInv, RowsTypeOK, UniqueIn, KeptIn, DeferredTypeOK, deferredVars
<1>4. JobsOfOpen' /\ JobsOnRows' /\ EntriesOnRows'
  BY <1>1 DEF OfficeInv, JobsOfOpen, JobsOnRows, EntriesOnRows
<1>5. UndosOfComplete'
  BY <1>1, <1>2 DEF OfficeInv, UndosOfComplete
<1> QED
  BY <1>3, <1>4, <1>5 DEF OfficeInv

(* What an undo does to a shipment it has to do with.                        *)
LEMMA ReversedTyped ==
  ASSUME NEW s \in Shipment, NEW es, NEW o
  PROVE  Reversed(s, es, o) \in Shipment
<1> DEFINE created == \E e \in es : e.disposition = "CREATED"
           c == [t \in Tags |-> IF t = o \/ (created /\ t = NoOp) THEN 0 ELSE s.charges[t]]
           state == IF created THEN "deleted" ELSE s.state
<1>1. c \in [Tags -> Nat] /\ state \in {"none", "live", "deleted"}
  BY DEF Shipment
<1>2. Reversed(s, es, o) = s \/
      Reversed(s, es, o) = [s EXCEPT !.fin = "REVERSED", !.state = state, !.charges = c]
  BY DEF Reversed
<1> HIDE DEF c, state
<1> QED
  BY <1>1, <1>2 DEF Shipment

LEMMA CommitKeeps ==
  ASSUME OfficeInv, NEW o \in Ops, CommitUndo(o), UNCHANGED deferredVars
  PROVE  OfficeInv' /\ Follows(row, row')
<1> DEFINE entries == undo[o].rows
<1>0. /\ RowsTypeOK /\ UniqueIn(row) /\ DeferredTypeOK /\ job \in [Jobs -> JobType]
      /\ ship \in [Receipts -> Shipment] /\ op \in [Ops -> OpType]
      /\ undo \in [Ops -> UndoType]
  BY DEF OfficeInv, TypeInv
<1>1. undo[o] # Closed
  BY DEF CommitUndo, Closed
<1>2. /\ entries \in Journals /\ op[o].status = "COMPLETED"
      /\ \A r \in Members(entries) : row[r] # NoRow
      /\ Locks(entries) \subseteq Rows \cup Receipts
  BY <1>1, LocksOfRows
<1>3. /\ \E order \in Orders(entries) : row' = RowsAfter(entries, order)
      /\ session' = [s \in Sessions |-> IF s \in undo[o].revive THEN "live" ELSE session[s]]
      /\ ship' = [n \in Receipts |-> Reversed(ship[n], EntriesOf(entries, n), o)]
      /\ op' = [op EXCEPT ![o] = [op[o] EXCEPT !.status = "UNDONE"]]
      /\ held' = held \ Locks(entries)
      /\ undo' = [undo EXCEPT ![o] = Closed]
      /\ UNCHANGED <<job, deferredVars>>
  BY <1>0 DEF CommitUndo
<1> HIDE DEF entries
<1>4. row' \in Tables /\ UniqueIn(row') /\ Follows(row, row')
  <2>1. PICK order \in Orders(entries) : row' = RowsAfter(entries, order)
    BY <1>3
  <2> QED
    BY <1>0, <1>2, <2>1, LoopKeeps
<1>5. session' \in [Sessions -> {"unused", "live", "deleted"}]
  BY <1>0, <1>3 DEF RowsTypeOK
<1>6. ship' \in [Receipts -> Shipment]
  BY <1>0, <1>3, ReversedTyped
<1>7. /\ op' \in [Ops -> OpType] /\ op'[o].rows = op[o].rows
      /\ \A p \in Ops \ {o} : op'[p] = op[p]
  BY <1>0, <1>3 DEF OpType
<1>8. TypeInv'
  <2>1. RowsTypeOK'
    BY <1>0, <1>3, <1>4, <1>5 DEF RowsTypeOK, Tables
  <2>2. undo' \in [Ops -> UndoType]
    BY <1>0, <1>3 DEF UndoType
  <2> QED
    BY <1>0, <1>3, <1>4, <1>6, <1>7, <2>1, <2>2 DEF TypeInv, DeferredTypeOK, deferredVars
<1>9. JobsOfOpen'
  <2> SUFFICES ASSUME NEW j \in Jobs, job[j].at \in Steps, job[j].op \in Ops
               PROVE  op'[job[j].op].status = "PROCESSING"
    BY <1>3 DEF JobsOfOpen
  <2>1. op[job[j].op].status = "PROCESSING"
    BY DEF OfficeInv, JobsOfOpen
  <2> QED
    BY <1>2, <1>7, <2>1
<1>10. JobsOnRows'
  <2> SUFFICES ASSUME NEW j \in Jobs, job[j].at \in PostSteps
               PROVE  row'[job[j].row] # NoRow /\ row'[job[j].row].receipt = job[j].n
    BY <1>3 DEF JobsOnRows
  <2>1. job[j].row \in Rows
    BY <1>0, JobKinds DEF PostJob
  <2> QED
    BY <1>4, <2>1 DEF OfficeInv, JobsOnRows, Follows
<1>11. EntriesOnRows'
  BY <1>4, <1>7 DEF OfficeInv, EntriesOnRows, Follows
<1>12. UndosOfComplete'
  BY <1>0, <1>3, <1>7 DEF OfficeInv, UndosOfComplete
<1> QED
  BY <1>4, <1>8, <1>9, <1>10, <1>11, <1>12 DEF OfficeInv

-----------------------------------------------------------------------------
(* The invariant.                                                            *)

LEMMA OfficeInit == Init => OfficeInv
<1> SUFFICES ASSUME Init PROVE OfficeInv
  OBVIOUS
<1>1. RowsTypeOK /\ UniqueIn(row) /\ \A r \in Rows : row[r] = NoRow
  BY DEF Init, RowsInit, RowsTypeOK, UniqueIn, KeptIn
<1>2. ship \in [Receipts -> Shipment]
  BY DEF Init, PostInit, Shipment, NoCharge
<1>3. job \in [Jobs -> JobType] /\ \A j \in Jobs : job[j] = Idle
  BY DEF Init, PostInit, JobType
<1>4. op \in [Ops -> OpType] /\ \A o \in Ops, r \in Rows : op[o].rows[r] = NoEntry
  BY DEF Init, PostInit, OpType, Journals
<1>5. undo \in [Ops -> UndoType] /\ \A o \in Ops : undo[o] = Closed
  BY DEF Init, UndoType
<1>6. DeferredTypeOK
  BY DEF Init, DeferredInit, DeferredTypeOK
<1>7. JobsOfOpen /\ JobsOnRows
  BY <1>3 DEF JobsOfOpen, JobsOnRows, Idle, Steps, PostSteps
<1>8. EntriesOnRows /\ UndosOfComplete
  BY <1>4, <1>5 DEF EntriesOnRows, UndosOfComplete, NoEntry
<1> QED
  BY <1>1, <1>2, <1>3, <1>4, <1>5, <1>6, <1>7, <1>8 DEF OfficeInv, TypeInv

(* The steps of Next, one kind after the other.                              *)
LEMMA StepsOfTheOffice ==
  ASSUME [Next]_vars
  PROVE  \/ Screens /\ UNCHANGED <<ship, job, op, deferredVars, undo>>
         \/ ShipmentScreens /\ UNCHANGED <<row, session, held, job, op, deferredVars, undo>>
         \/ \E j \in Jobs : Requests(j) /\ UNCHANGED <<ship, op, deferredVars, undo>>
         \/ \E j \in Jobs : Continue(j) /\ UNCHANGED <<deferredVars, undo>>
         \/ \E j \in Jobs : Deferred(j) /\ UNCHANGED <<ship, op, undo>>
         \/ \E a \in Actions :
              Answers(a) /\ UNCHANGED <<row, session, held, ship, job, op, request, undo>>
         \/ \E o \in Ops, rs \in SUBSET Rows :
              BeginOperation(o, rs) /\ UNCHANGED <<row, session, ship, job, deferredVars, undo>>
         \/ \E o \in Ops : Finalize(o) /\ UNCHANGED <<row, session, ship, job, deferredVars, undo>>
         \/ \E o \in Ops : (CheckUndo(o) \/ LockUndo(o) \/ AbandonUndo(o))
                          /\ UNCHANGED <<row, session, ship, job, op, deferredVars>>
         \/ \E o \in Ops : CommitUndo(o) /\ UNCHANGED <<job, deferredVars>>
         \/ UNCHANGED <<row, session, held, ship, job, op, deferredVars, undo>>
<1>1. CASE UNCHANGED vars
  BY <1>1 DEF vars, rowVars, postVars
<1>2. CASE Screens /\ UNCHANGED <<postVars, deferredVars, undo>>
  BY <1>2 DEF postVars
<1>3. CASE ShipmentScreens /\ UNCHANGED <<deferredVars, undo>>
  BY <1>3 DEF ShipmentScreens, DraftShipment, PostFromLifecycle, rowVars
<1>4. CASE \E j \in Jobs : (Requests(j) \/ Continue(j)) /\ UNCHANGED <<deferredVars, undo>>
  BY <1>4 DEF Requests, SaveRow, PostRow
<1>5. CASE \E j \in Jobs : Deferred(j) /\ UNCHANGED undo
  BY <1>5 DEF Deferred, Execute, PostNext, PostRow, Accept, Refuse, Die,
               postVars
<1>6. CASE \E o \in Ops : Operations(o) /\ UNCHANGED deferredVars
  BY <1>6 DEF Operations, BeginOperation, Finalize, CheckUndo, LockUndo, AbandonUndo,
              CommitUndo, rowVars, postVars
<1>7. CASE \E a \in Actions : Answers(a) /\ UNCHANGED undo
  BY <1>7 DEF Answers, Receive, PersistFailure, rowVars, postVars
<1> QED
  BY <1>1, <1>2, <1>3, <1>4, <1>5, <1>6, <1>7 DEF Next

LEMMA OfficeStep ==
  ASSUME OfficeInv, [Next]_vars
  PROVE  OfficeInv' /\ Follows(row, row')
<1>0. /\ RowsTypeOK /\ UniqueIn(row) /\ job \in [Jobs -> JobType] /\ DeferredTypeOK
      /\ ship \in [Receipts -> Shipment]
  BY DEF OfficeInv, TypeInv
<1>a. ASSUME HandlerGoesOn, DeferredTypeOK', UNCHANGED undo
      PROVE  OfficeInv' /\ Follows(row, row')
  BY <1>a, HandlerKeeps DEF HandlerGoesOn, RowsGoOn
<1>b. UNCHANGED deferredVars => DeferredTypeOK'
  BY <1>0 DEF DeferredTypeOK, deferredVars
<1>c. UNCHANGED row => Follows(row, row')
  BY DEF Follows
<1>1. CASE Screens /\ UNCHANGED <<ship, job, op, deferredVars, undo>>
  <2>1. RowsGoOn /\ JobsGoOn
    BY <1>0, <1>1, ScreensKeep, JobsRest
  <2>2. HandlerGoesOn
    BY <1>0, <1>1, <2>1, OpsRest DEF HandlerGoesOn
  <2> QED
    BY <1>1, <1>a, <1>b, <2>2
<1>2. CASE ShipmentScreens /\ UNCHANGED <<deferredVars, undo>>
  BY <1>2, <1>a, <1>b, ShipmentScreensTyped
<1>3. CASE \E j \in Jobs : Requests(j) /\ UNCHANGED <<deferredVars, undo>>
  <2>1. RowsGoOn /\ JobsGoOn /\ UNCHANGED <<ship, op>>
    BY <1>3, RequestsTyped DEF OfficeInv
  <2>2. HandlerGoesOn
    BY <1>0, <2>1, OpsRest DEF HandlerGoesOn
  <2> QED
    BY <1>3, <1>a, <1>b, <2>2
<1>4. CASE \E j \in Jobs : Continue(j) /\ UNCHANGED <<deferredVars, undo>>
  BY <1>4, <1>a, <1>b, ContinueTyped
<1>5. CASE \E j \in Jobs : Deferred(j) /\ UNCHANGED undo
  BY <1>5, <1>a, DeferredTyped
<1>6. CASE \E o \in Ops, rs \in SUBSET Rows :
             BeginOperation(o, rs) /\ UNCHANGED <<row, deferredVars>>
  BY <1>6, <1>c, BeginKeeps
<1>7. CASE \E o \in Ops : Finalize(o) /\ UNCHANGED <<row, deferredVars>>
  BY <1>7, <1>c, FinalizeKeeps
<1>8. CASE \E o \in Ops : (CheckUndo(o) \/ LockUndo(o) \/ AbandonUndo(o))
                          /\ UNCHANGED <<row, deferredVars>>
  BY <1>8, <1>c, UndoOpens
<1>9. CASE \E o \in Ops : CommitUndo(o) /\ UNCHANGED <<job, deferredVars>>
  BY <1>9, CommitKeeps
<1>10. CASE UNCHANGED <<row, session, held, ship, job, op, deferredVars, undo>>
  <2>1. RowsGoOn /\ JobsGoOn
    BY <1>0, <1>10, RowsRest, JobsRest DEF rowVars
  <2>2. HandlerGoesOn
    BY <1>0, <1>10, <2>1, OpsRest DEF HandlerGoesOn
  <2> QED
    BY <1>10, <1>a, <1>b, <2>2
<1>11. CASE \E a \in Actions : Answers(a) /\ UNCHANGED undo
  BY <1>11, <1>a, AnswersTyped
<1> QED
  BY <1>1, <1>2, <1>3, <1>4, <1>5, <1>6, <1>7, <1>8, <1>9, <1>10, <1>11, StepsOfTheOffice

(* The invariant holds in every reachable state: rows, jobs, operations and  *)
(* undos are well formed and refer to each other as the handlers assume.     *)
THEOREM OfficeIsInOrder == Spec => []OfficeInv
<1>1. Init => OfficeInv
  BY OfficeInit
<1>2. OfficeInv /\ [Next]_vars => OfficeInv'
  BY OfficeStep
<1> QED
  BY <1>1, <1>2, PTL DEF Spec

(* Every value keeps its type, the number of charges with an operation that  *)
(* is undone included, which no undo makes negative.                         *)
THEOREM OfficeTypes == Spec => []OfficeTypeOK
<1>1. OfficeInv => OfficeTypeOK
  <2> SUFFICES ASSUME OfficeInv PROVE OfficeTypeOK
    OBVIOUS
  <2>1. PostTypeOK
    BY DEF OfficeInv, TypeInv, PostTypeOK, JobType, Idle, InsertJob, JournalJob, PostJob,
           PostSteps, Steps, OpType
  <2>2. \A o \in Ops : undo[o].at \in {"closed", "checked", "locked"}
    BY DEF OfficeInv, TypeInv, UndoType, Closed
  <2> QED
    BY <2>1, <2>2 DEF OfficeInv, TypeInv, OfficeTypeOK
<1> QED
  BY <1>1, OfficeIsInOrder, PTL

(* Two kept rows of one session never share a number, whatever mixture of    *)
(* entry, migration, transfer, cancellation and undo brought them together.  *)
THEOREM NumbersStayUnique == Spec => []RowNumbersAreUnique
<1>1. OfficeInv => RowNumbersAreUnique
  BY DEF OfficeInv, TypeInv, UniqueIn, KeptIn, RowNumbersAreUnique, Kept
<1> QED
  BY <1>1, OfficeIsInOrder, PTL

-----------------------------------------------------------------------------
(* Sessions and loaded rows.                                                 *)

(* A row either stays where it is, or it is not loaded, or an undo that has  *)
(* passed its checks moves it.                                               *)
StaysPut(r) ==
  Kept(r) /\ row[r].loaded => row'[r] = [row[r] EXCEPT !.posted = row'[r].posted]

LEMMA UntouchedStays ==
  ASSUME RowsTypeOK, NEW r \in Rows, row'[r] = row[r] PROVE StaysPut(r)
BY DEF StaysPut, RowsTypeOK, RowType, Kept

LEMMA ArrivalStays ==
  ASSUME RowsTypeOK, NEW s, NEW rs, NEW f, Arrive(rs, s, f),
         \A q \in rs : ~row[q].loaded, NEW r \in Rows
  PROVE  StaysPut(r)
<1>1. r \notin rs => row'[r] = row[r]
  BY DEF Arrive
<1> QED
  BY <1>1, UntouchedStays DEF StaysPut

LEMMA UpdateStays ==
  ASSUME RowsTypeOK, NEW q \in Rows, NEW d, UpdateRow(q, d), NEW r \in Rows
  PROVE  StaysPut(r)
<1>1. ~row[q].loaded /\ (UNCHANGED row \/ \E s, f : Arrive({q}, s, f))
  BY DEF UpdateRow
<1> QED
  BY <1>1, UntouchedStays, ArrivalStays

LEMMA ScreensStay ==
  ASSUME RowsTypeOK, Screens, NEW r \in Rows
  PROVE  StaysPut(r)
<1>1. ASSUME NEW rs \in SUBSET Rows, NEW d \in Drivers, ConfirmTransfer(rs, d)
      PROVE  StaysPut(r)
  <2>1. PICK s \in SessionFor(d) :
          /\ Transferable(rs, s)
          /\ \E f \in Numberings({q \in rs : row[q].at # s}, s, FALSE) :
               Arrive({q \in rs : row[q].at # s}, s, f)
    BY <1>1 DEF ConfirmTransfer
  <2>2. PICK f : Arrive({q \in rs : row[q].at # s}, s, f)
    BY <2>1
  <2>3. \A q \in {p \in rs : row[p].at # s} : ~row[q].loaded
    BY <2>1 DEF Transferable
  <2> QED
    BY <2>2, <2>3, ArrivalStays
<1>2. ASSUME NEW s \in Sessions, CancelSession(s) PROVE StaysPut(r)
  <2>1. PICK to, f : Arrive(RowsOf(s), to, f)
    BY <1>2 DEF CancelSession
  <2>2. \A q \in RowsOf(s) : ~row[q].loaded
    BY <1>2 DEF CancelSession, Cancellable
  <2> QED
    BY <2>1, <2>2, ArrivalStays
<1>3. ASSUME NEW q \in Rows, DeleteRow(q) PROVE StaysPut(r)
  <2>1. ~row[q].loaded /\ (r # q => row'[r] = row[r])
    BY <1>3 DEF DeleteRow, RowsTypeOK
  <2> QED
    BY <2>1, UntouchedStays DEF StaysPut
<1>4. ASSUME NEW n \in Receipts, LoadShipment(n) PROVE StaysPut(r)
  <2>1. row'[r] = row[r] \/ row'[r] = [row[r] EXCEPT !.loaded = TRUE]
    BY <1>4 DEF LoadShipment
  <2>2. ASSUME Kept(r), row[r].loaded PROVE [row[r] EXCEPT !.loaded = TRUE] = row[r]
    <3>1. row[r] \in RowType
      BY <2>2 DEF Kept, RowsTypeOK
    <3> QED
      BY <2>2, <3>1 DEF RowType
  <2>3. row'[r] = row[r] \/ ~(Kept(r) /\ row[r].loaded)
    BY <2>1, <2>2
  <2> QED
    BY <2>3, UntouchedStays DEF StaysPut
<1> QED
  BY <1>1, <1>2, <1>3, <1>4 DEF Screens

LEMMA ContinueStays ==
  ASSUME OfficeInv, NEW j \in Jobs, Continue(j), NEW r \in Rows
  PROVE  StaysPut(r)
<1>0. RowsTypeOK /\ job \in [Jobs -> JobType]
  BY DEF OfficeInv, TypeInv
<1>1. ASSUME NEW q \in Rows, SaveNewRow(j, q) PROVE StaysPut(r)
  <2>1. row[q] = NoRow /\ (r # q => row'[r] = row[r])
    BY <1>0, <1>1 DEF SaveNewRow, InsertRow, RowsTypeOK
  <2> QED
    BY <1>0, <2>1, UntouchedStays DEF StaysPut, Kept
<1>2. CASE Mark(j)
  <2>1. \/ row'[r] = row[r]
        \/ row'[r] = [row[r] EXCEPT !.posted = TRUE]
    BY <1>0, <1>2 DEF Mark, RowsTypeOK
  <2> QED
    BY <1>0, <2>1, UntouchedStays DEF StaysPut, RowsTypeOK, RowType, Kept
<1>3. CASE UNCHANGED row
  BY <1>0, <1>3, UntouchedStays
<1>4. \/ \E q \in Rows : SaveNewRow(j, q) \/ Mark(j) \/ UNCHANGED row
  BY DEF Continue, Journal, Look, Fund, Create, Record, Tag, Stop, rowVars
<1> QED
  BY <1>1, <1>2, <1>3, <1>4

(* A row on a loading manifest stays in its dispatch, under its number and   *)
(* kept, whatever the screens do; only an undo that had passed its checks    *)
(* before the row was loaded may move it.                                    *)
THEOREM LoadedRowsStayPut == Spec => LoadedRowsStay
<1>1. ASSUME OfficeInv, [Next]_vars
      PROVE  [\A r \in Rows : Kept(r) /\ row[r].loaded =>
               \/ row'[r] = [row[r] EXCEPT !.posted = row'[r].posted]
               \/ \E o \in Ops : undo[o].at = "locked"]_vars
  <2> SUFFICES ASSUME NEW r \in Rows, ~ \E o \in Ops : undo[o].at = "locked"
               PROVE  StaysPut(r)
    BY DEF StaysPut
  <2>0. RowsTypeOK
    BY <1>1 DEF OfficeInv, TypeInv
  <2>1. CASE UNCHANGED row
    BY <2>0, <2>1, UntouchedStays
  <2>2. CASE Screens
    BY <2>0, <2>2, ScreensStay
  <2>3. ASSUME NEW j \in Jobs, Requests(j) PROVE StaysPut(r)
    <3>1. UNCHANGED row \/ \E q \in Rows, d \in Drivers : UpdateRow(q, d)
      BY <2>3 DEF Requests, SaveRow, PostRow, rowVars
    <3> QED
      BY <2>0, <2>1, <3>1, UpdateStays
  <2>4. ASSUME NEW j \in Jobs, Continue(j) PROVE StaysPut(r)
    BY <1>1, <2>4, ContinueStays
  <2>5. ASSUME NEW j \in Jobs, Deferred(j) PROVE UNCHANGED row
    BY <2>5 DEF Deferred, Execute, PostNext, PostRow, Accept, Refuse, Die,
               rowVars
  <2>6. ASSUME NEW o \in Ops, CommitUndo(o) PROVE FALSE
    BY <2>6 DEF CommitUndo
  <2> QED
    BY <1>1, <2>1, <2>2, <2>3, <2>4, <2>5, <2>6, StepsOfTheOffice
<1> QED
  BY <1>1, OfficeIsInOrder, PTL DEF Spec, LoadedRowsStay

(* Rows that arrive in a live session leave every row in one, if the others  *)
(* are in one.                                                               *)
LEMMA ArriveAlive ==
  ASSUME RowsTypeOK, NEW s \in Sessions, NEW rs \in SUBSET Rows, NEW f, Arrive(rs, s, f),
         \A r \in rs : row[r] # NoRow, session'[s] = "live",
         \A r \in Rows \ rs : Kept(r) => session'[row[r].at] = "live"
  PROVE  RowsInLiveSessions'
<1> SUFFICES ASSUME NEW r \in Rows, row'[r] # NoRow, ~row'[r].deleted
             PROVE  session'[row'[r].at] = "live"
  BY DEF RowsInLiveSessions, Shown, Kept
<1>1. CASE r \in rs
  <2>1. row[r] \in RowType /\ row'[r] = [row[r] EXCEPT !.at = s, !.no = f[r]]
    BY <1>1 DEF Arrive, RowsTypeOK
  <2>2. row'[r].at = s
    BY <2>1 DEF RowType
  <2> QED
    BY <2>2
<1>2. CASE r \notin rs
  <2>1. row'[r] = row[r]
    BY <1>2 DEF Arrive
  <2> QED
    BY <1>2, <2>1 DEF Kept
<1> QED
  BY <1>1, <1>2

(* Rows whose session is not touched, and that come back from no deletion.   *)
LEMMA RestAlive ==
  ASSUME RowsInLiveSessions, UNCHANGED session,
         \A r \in Rows : row'[r] # NoRow /\ ~row'[r].deleted =>
                           Kept(r) /\ row'[r].at = row[r].at
  PROVE  RowsInLiveSessions'
BY DEF RowsInLiveSessions, Shown, Kept

LEMMA EnsuredIsLive ==
  ASSUME RowsTypeOK, NEW s \in Sessions
  PROVE  /\ Ensured(s)[s] = "live"
         /\ \A t \in Sessions : session[t] = "live" => Ensured(s)[t] = "live"
BY DEF Ensured, RowsTypeOK

LEMMA UpdateAlive ==
  ASSUME RowsTypeOK, RowsInLiveSessions, NEW q \in Rows, NEW d, UpdateRow(q, d)
  PROVE  RowsInLiveSessions'
<1>1. PICK s \in SessionFor(d) :
        /\ session' = Ensured(s)
        /\ IF s = row[q].at THEN UNCHANGED row
           ELSE NextNo(s) <= MaxNo /\ Arrive({q}, s, [x \in {q} |-> NextNo(s)])
  BY DEF UpdateRow
<1>2. s \in Sessions /\ row[q] # NoRow
  BY SessionsOfADriver DEF UpdateRow, Shown, Kept
<1>3. /\ session'[s] = "live"
      /\ \A r \in Rows : Kept(r) => session'[row[r].at] = "live"
  BY <1>1, <1>2, EnsuredIsLive DEF RowsInLiveSessions, Shown, Kept, RowsTypeOK, RowType
<1>4. CASE UNCHANGED row
  BY <1>3, <1>4 DEF RowsInLiveSessions, Shown, Kept
<1>5. CASE Arrive({q}, s, [x \in {q} |-> NextNo(s)])
  BY <1>2, <1>3, <1>5, ArriveAlive
<1> QED
  BY <1>1, <1>4, <1>5

LEMMA ScreensAlive ==
  ASSUME RowsTypeOK, RowsInLiveSessions, Screens
  PROVE  RowsInLiveSessions'
<1>1. ASSUME NEW rs \in SUBSET Rows, NEW d \in Drivers, ConfirmTransfer(rs, d)
      PROVE  RowsInLiveSessions'
  <2> DEFINE moving(s) == {r \in rs : row[r].at # s}
  <2>1. PICK s \in SessionFor(d) :
          /\ Transferable(rs, s) /\ session' = Ensured(s)
          /\ \E f \in Numberings(moving(s), s, FALSE) : Arrive(moving(s), s, f)
    BY <1>1 DEF ConfirmTransfer
  <2>2. PICK f : Arrive(moving(s), s, f)
    BY <2>1
  <2>3. s \in Sessions /\ moving(s) \in SUBSET Rows /\ \A r \in moving(s) : row[r] # NoRow
    BY <2>1, SessionsOfADriver DEF Transferable, Shown, Kept
  <2>4. /\ session'[s] = "live"
        /\ \A r \in Rows : Kept(r) => session'[row[r].at] = "live"
    BY <2>1, <2>3, EnsuredIsLive DEF RowsInLiveSessions, Shown, Kept, RowsTypeOK, RowType
  <2> HIDE DEF moving
  <2> QED
    BY <2>2, <2>3, <2>4, ArriveAlive
<1>2. ASSUME NEW s \in Sessions, CancelSession(s) PROVE RowsInLiveSessions'
  <2>1. PICK to \in SessionFor(NoDriver) :
          /\ \E f \in Numberings(RowsOf(s), to, TRUE) : Arrive(RowsOf(s), to, f)
          /\ session' = [Ensured(to) EXCEPT ![s] = "deleted"]
    BY <1>2 DEF CancelSession
  <2>2. PICK f : Arrive(RowsOf(s), to, f)
    BY <2>1
  <2>3. to \in Sessions /\ to # s
    BY <1>2, SessionsOfADriver DEF CancelSession, Cancellable
  <2>4. RowsOf(s) \in SUBSET Rows /\ \A r \in RowsOf(s) : row[r] # NoRow
    BY DEF RowsOf, Kept
  <2>5. /\ session'[to] = "live"
        /\ \A t \in Sessions \ {s} : session[t] = "live" => session'[t] = "live"
    BY <2>1, <2>3, EnsuredIsLive DEF Ensured, RowsTypeOK
  <2>6. \A r \in Rows \ RowsOf(s) : Kept(r) => session'[row[r].at] = "live"
    BY <2>5 DEF RowsOf, RowsInLiveSessions, Shown, Kept, RowsTypeOK, RowType
  <2> QED
    BY <2>2, <2>3, <2>4, <2>5, <2>6, ArriveAlive
<1>3. ASSUME NEW q \in Rows, DeleteRow(q) PROVE RowsInLiveSessions'
  <2>1. row[q] \in RowType /\ row' = [row EXCEPT ![q] = [row[q] EXCEPT !.deleted = TRUE]]
    BY <1>3 DEF DeleteRow, Shown, Kept, RowsTypeOK
  <2>2. row'[q].deleted /\ \A r \in Rows \ {q} : row'[r] = row[r]
    BY <2>1 DEF RowsTypeOK, RowType
  <2> QED
    BY <1>3, <2>2, RestAlive DEF DeleteRow, Kept
<1>4. ASSUME NEW n \in Receipts, LoadShipment(n) PROVE RowsInLiveSessions'
  <2>1. \A r \in Rows : \/ row'[r] = row[r]
                        \/ Kept(r) /\ row'[r] = [row[r] EXCEPT !.loaded = TRUE]
    BY <1>4 DEF LoadShipment
  <2>2. \A r \in Rows : row[r] # NoRow => row[r] \in RowType
    BY DEF RowsTypeOK
  <2>3. \A r \in Rows : row'[r] # NoRow /\ ~row'[r].deleted => Kept(r) /\ row'[r].at = row[r].at
    BY <2>1, <2>2 DEF Kept, RowType
  <2> QED
    BY <1>4, <2>3, RestAlive DEF LoadShipment
<1> QED
  BY <1>1, <1>2, <1>3, <1>4 DEF Screens

LEMMA ContinueAlive ==
  ASSUME OfficeInv, RowsInLiveSessions, NEW j \in Jobs, Continue(j)
  PROVE  RowsInLiveSessions'
<1>0. RowsTypeOK /\ job \in [Jobs -> JobType]
  BY DEF OfficeInv, TypeInv
<1>1. ASSUME NEW q \in Rows, SaveNewRow(j, q) PROVE RowsInLiveSessions'
  <2>1. PICK s \in SessionFor(job[j].driver) :
          /\ session' = Ensured(s)
          /\ row' = [row EXCEPT ![q] = [at |-> s, no |-> NextNo(s), receipt |-> job[j].n,
                       posted |-> FALSE, loaded |-> FALSE, deleted |-> FALSE]]
    BY <1>1 DEF SaveNewRow, InsertRow
  <2>2. s \in Sessions
    BY SessionsOfADriver
  <2>3. row'[q].at = s /\ \A r \in Rows \ {q} : row'[r] = row[r]
    BY <1>0, <2>1 DEF RowsTypeOK
  <2>4. /\ session'[s] = "live"
        /\ \A r \in Rows : Kept(r) => session'[row[r].at] = "live"
    BY <1>0, <2>1, <2>2, EnsuredIsLive DEF RowsInLiveSessions, Shown, Kept, RowsTypeOK, RowType
  <2> QED
    BY <2>3, <2>4 DEF RowsInLiveSessions, Shown, Kept
<1>2. CASE Mark(j)
  <2>1. \A r \in Rows : \/ row'[r] = row[r]
                        \/ Kept(r) /\ row'[r] = [row[r] EXCEPT !.posted = TRUE]
    BY <1>0, <1>2 DEF Mark, RowsTypeOK, Shown
  <2>2. \A r \in Rows : row[r] # NoRow => row[r] \in RowType
    BY <1>0 DEF RowsTypeOK
  <2>3. \A r \in Rows : row'[r] # NoRow /\ ~row'[r].deleted => Kept(r) /\ row'[r].at = row[r].at
    BY <2>1, <2>2 DEF Kept, RowType
  <2> QED
    BY <1>2, <2>3, RestAlive DEF Mark
<1>3. CASE UNCHANGED <<row, session>>
  BY <1>3 DEF RowsInLiveSessions, Shown, Kept
<1>4. \/ \E q \in Rows : SaveNewRow(j, q)
      \/ Mark(j)
      \/ UNCHANGED <<row, session>>
  BY DEF Continue, Journal, Look, Fund, Create, Record, Tag, Stop, rowVars
<1> QED
  BY <1>1, <1>2, <1>3, <1>4

(* An operation that is undone stays so, and only CommitUndo undoes one.     *)
LEMMA UndoneStays ==
  ASSUME OfficeInv, [Next]_vars
  PROVE  /\ \A o \in Ops : op[o].status = "UNDONE" => op'[o].status = "UNDONE"
         /\ \A o \in Ops : CommitUndo(o) => op'[o].status = "UNDONE"
<1>0. op \in [Ops -> OpType]
  BY DEF OfficeInv, TypeInv
<1> DEFINE Stays == \A o \in Ops : op[o].status = "UNDONE" => op'[o].status = "UNDONE"
<1>1. ASSUME NEW o \in Ops, CommitUndo(o) PROVE Stays /\ op'[o].status = "UNDONE"
  BY <1>0, <1>1 DEF CommitUndo, OpType
<1>2. ASSUME NEW j \in Jobs, Continue(j) PROVE Stays
  BY <1>2, ContinueTyped DEF HandlerGoesOn, OpsGoOn
<1>3. ASSUME NEW o \in Ops, NEW rs \in SUBSET Rows, BeginOperation(o, rs) PROVE Stays
  BY <1>0, <1>3 DEF BeginOperation
<1>4. ASSUME NEW o \in Ops, Finalize(o) PROVE Stays
  BY <1>0, <1>4 DEF Finalize
<1>5. Stays
  BY <1>1, <1>2, <1>3, <1>4, StepsOfTheOffice
<1> QED
  BY <1>1, <1>5

NoneUndone == \A o \in Ops : op[o].status # "UNDONE"

(* As long as no dispatch operation was undone, no kept row is in a session  *)
(* that is deleted or was never opened.  An undo that locked the rows may    *)
(* still put one into a session cancelled since, which was empty.            *)
THEOREM RowsStayInLiveSessions == Spec => [](NoneUndone => RowsInLiveSessions)
<1>1. Init => RowsInLiveSessions
  BY DEF Init, RowsInit, RowsInLiveSessions, Kept
<1>2. OfficeInv /\ (NoneUndone => RowsInLiveSessions) /\ [Next]_vars
        => (NoneUndone => RowsInLiveSessions)'
  <2> SUFFICES ASSUME OfficeInv, NoneUndone => RowsInLiveSessions, [Next]_vars, NoneUndone'
               PROVE  RowsInLiveSessions'
    OBVIOUS
  <2>0. RowsTypeOK
    BY DEF OfficeInv, TypeInv
  <2>1. RowsInLiveSessions /\ ~ \E o \in Ops : CommitUndo(o)
    BY UndoneStays DEF NoneUndone
  <2>2. CASE Screens
    BY <2>0, <2>1, <2>2, ScreensAlive
  <2>3. ASSUME NEW j \in Jobs, Requests(j) PROVE RowsInLiveSessions'
    <3>1. UNCHANGED <<row, session>> \/ \E q \in Rows, d \in Drivers : UpdateRow(q, d)
      BY <2>3 DEF Requests, SaveRow, PostRow, rowVars
    <3> QED
      BY <2>0, <2>1, <3>1, UpdateAlive DEF RowsInLiveSessions, Shown, Kept
  <2>4. ASSUME NEW j \in Jobs, Continue(j) PROVE RowsInLiveSessions'
    BY <2>1, <2>4, ContinueAlive
  <2>5. CASE UNCHANGED <<row, session>>
    BY <2>1, <2>5 DEF RowsInLiveSessions, Shown, Kept
  <2>6. ASSUME NEW j \in Jobs, Deferred(j) PROVE UNCHANGED <<row, session>>
    BY <2>6 DEF Deferred, Execute, PostNext, PostRow, Accept, Refuse, Die,
               rowVars
  <2> QED
    BY <2>1, <2>2, <2>3, <2>4, <2>5, <2>6, StepsOfTheOffice
<1> QED
  BY <1>1, <1>2, OfficeIsInOrder, PTL DEF Spec

-----------------------------------------------------------------------------
(* The charges of the shipments.                                             *)

(* A job that has charged the shipment of its row and not tagged the charge. *)
Claims(j) == job[j].at \in {"mark", "record", "tag"} /\ job[j].funded

(* What such a job claims is there, and nobody else claims it.               *)
ClaimsCount ==
  \A j \in Jobs : Claims(j) =>
    /\ ship[job[j].n].fin = "POSTED" /\ ship[job[j].n].charges = Only(NoOp)
    /\ \A i \in Jobs : Claims(i) /\ job[i].n = job[j].n => i = j

(* A posting an operation would take back is the one charge of the shipment, *)
(* tagged or about to be.                                                    *)
Funded(o, r) ==
  /\ op[o].status \in {"PROCESSING", "COMPLETED"}
  /\ op[o].rows[r].in /\ op[o].rows[r].funded

Backed(o, n) ==
  /\ ship[n].fin = "POSTED"
  /\ \/ ship[n].charges = Only(o)
     \/ \E j \in Jobs : job[j].at = "tag" /\ job[j].op = o /\ job[j].n = n

EntriesCount ==
  \A o \in Ops, r \in Rows : Funded(o, r) => Backed(o, row[r].receipt)

(* No charge before the shipment exists.                                     *)
NoneUnposted == \A n \in Receipts : ship[n].state = "none" => ship[n].fin # "POSTED"

(* A request that executes a deferred action runs jobs without operation.    *)
DeferredNameNone ==
  \A j \in Jobs : Executing(j) =>
     job[j] = Idle \/ (job[j].at \in PostSteps /\ job[j].op = NoOp)

(* A handler that stops between the two statements of markPostedShipment     *)
(* leaves a charge that its operation would not take back.                   *)
ChargeInv ==
  /\ FinancialStatusIsTrue /\ ClaimsCount /\ NoneUnposted
  /\ Torn = FALSE => EntriesCount

LEMMA OnlyDiffer ==
  ASSUME NEW t \in Tags, NEW u \in Tags, Only(t) = Only(u) PROVE t = u
<1>1. Only(t)[t] = 1 /\ Only(u)[t] = IF t = u THEN 1 ELSE 0
  BY DEF Only, NoCharge
<1> QED
  BY <1>1

LEMMA OnlyCharges ==
  ASSUME NEW t \in Tags PROVE Only(t) # NoCharge /\ Only(t) \in [Tags -> Nat]
<1>1. Only(t)[t] = 1 /\ NoCharge[t] = 0
  BY DEF Only, NoCharge
<1> QED
  BY <1>1 DEF Only, NoCharge

(* A charge added to none is the only one.                                   *)
LEMMA ChargedOnce ==
  ASSUME NEW s \in Shipment, s.charges = NoCharge
  PROVE  Charged(s).fin = "POSTED" /\ Charged(s).charges = Only(NoOp)
         /\ Charged(s).state = s.state
<1>1. NoOp \in Tags /\ NoCharge[NoOp] + 1 = 1
  BY DEF Tags, NoCharge
<1>2. Charged(s) = [s EXCEPT !.fin = "POSTED",
                            !.charges = [s.charges EXCEPT ![NoOp] = s.charges[NoOp] + 1]]
  BY DEF Charged, Shipment
<1> QED
  BY <1>1, <1>2 DEF Shipment, Only

(* Where a claim is, it is a posting job's, on a receipt.                    *)
LEMMA ClaimIsPosting ==
  ASSUME OfficeInv, NEW j \in Jobs, Claims(j) \/ job[j].at = "tag"
  PROVE  /\ job[j] \in PostJob /\ job[j].n \in Receipts
         /\ job[j].at = "tag" => Claims(j) /\ job[j].op \in Ops
<1>1. job[j].at \in PostSteps
  BY DEF Claims, PostSteps
<1>2. job[j] \in PostJob
  BY <1>1, JobKinds DEF OfficeInv, TypeInv
<1> QED
  BY <1>2 DEF PostJob, Claims

(* Nobody claims anything new, no tag is dropped, and whatever an entry      *)
(* newly says is backed.                                                     *)
LEMMA ChargesStand ==
  ASSUME OfficeInv, ChargeInv, Follows(row, row'),
         \A n \in Receipts : /\ ship'[n].fin = ship[n].fin
                             /\ ship'[n].charges = ship[n].charges
                             /\ ship'[n].state = "none" => ship[n].state = "none",
         \A i \in Jobs : Claims(i)' => Claims(i) /\ job'[i].n = job[i].n,
         Torn = FALSE => \A i \in Jobs : job[i].at = "tag" => job'[i] = job[i],
         \A o \in Ops, r \in Rows :
            Funded(o, r)' => Funded(o, r) \/ Backed(o, row[r].receipt)'
  PROVE  ChargeInv'
<1>1. FinancialStatusIsTrue' /\ NoneUnposted'
  BY DEF ChargeInv, FinancialStatusIsTrue, NoneUnposted
<1>2. ClaimsCount'
  <2> SUFFICES ASSUME NEW j \in Jobs, Claims(j)'
               PROVE  /\ ship'[job'[j].n].fin = "POSTED"
                      /\ ship'[job'[j].n].charges = Only(NoOp)
                      /\ \A i \in Jobs : Claims(i)' /\ job'[i].n = job'[j].n => i = j
    BY DEF ClaimsCount
  <2>1. Claims(j) /\ job'[j].n = job[j].n /\ job[j].n \in Receipts
    BY ClaimIsPosting
  <2> QED
    BY <2>1 DEF ChargeInv, ClaimsCount
<1>3. ASSUME Torn = FALSE PROVE EntriesCount'
  <2> SUFFICES ASSUME NEW o \in Ops, NEW r \in Rows, Funded(o, r)',
                      ~Backed(o, row[r].receipt)'
               PROVE  FALSE
    BY DEF EntriesCount
  <2>1. Funded(o, r)
    OBVIOUS
  <2>2. row[r] # NoRow /\ row'[r].receipt = row[r].receipt /\ row[r].receipt \in Receipts
    BY <2>1 DEF Funded, OfficeInv, EntriesOnRows, Follows, TypeInv, RowsTypeOK, RowType
  <2>3. Backed(o, row[r].receipt)
    BY <1>3, <2>1 DEF ChargeInv, EntriesCount
  <2> QED
    BY <1>3, <2>2, <2>3 DEF Backed
<1> QED
  BY <1>1, <1>2, <1>3 DEF ChargeInv

(* A shipment that is not posted is charged: by one job, which claims it, or *)
(* by nobody in particular.                                                  *)
LEMMA ChargeAdds ==
  ASSUME OfficeInv, ChargeInv, Follows(row, row'), UNCHANGED op,
         NEW n \in Receipts, ship[n].fin # "POSTED",
         ship'[n].fin = "POSTED", ship'[n].charges = Only(NoOp), ship'[n].state # "none",
         \A m \in Receipts \ {n} : ship'[m] = ship[m],
         \A i \in Jobs : Claims(i)' => job'[i].n = n \/ (Claims(i) /\ job'[i].n = job[i].n),
         \A i, j \in Jobs : Claims(i)' /\ ~Claims(i) /\ Claims(j)' /\ ~Claims(j) => i = j,
         \A i \in Jobs : job[i].at = "tag" => job'[i] = job[i],
         \A i \in Jobs : Claims(i) => job'[i].n = job[i].n
  PROVE  ChargeInv'
<1>0. NoOp \in Tags
  BY DEF Tags
<1>1. FinancialStatusIsTrue'
  BY <1>0 DEF ChargeInv, FinancialStatusIsTrue
<1>2. NoneUnposted'
  BY DEF ChargeInv, NoneUnposted
<1>3. \A i \in Jobs : Claims(i) => job[i].n # n /\ job[i].n \in Receipts
  BY ClaimIsPosting DEF ChargeInv, ClaimsCount
<1>4. ClaimsCount'
  <2> SUFFICES ASSUME NEW j \in Jobs, Claims(j)'
               PROVE  /\ ship'[job'[j].n].fin = "POSTED"
                      /\ ship'[job'[j].n].charges = Only(NoOp)
                      /\ \A i \in Jobs : Claims(i)' /\ job'[i].n = job'[j].n => i = j
    BY DEF ClaimsCount
  <2>1. CASE Claims(j)
    <3>1. job'[j].n = job[j].n /\ job[j].n # n /\ job[j].n \in Receipts
      BY <1>3, <2>1
    <3>2. /\ ship[job[j].n].fin = "POSTED" /\ ship[job[j].n].charges = Only(NoOp)
          /\ \A i \in Jobs : Claims(i) /\ job[i].n = job[j].n => i = j
      BY <2>1 DEF ChargeInv, ClaimsCount
    <3> QED
      BY <3>1, <3>2
  <2>2. CASE ~Claims(j)
    <3>1. job'[j].n = n
      BY <2>2
    <3>2. \A i \in Jobs : Claims(i)' /\ job'[i].n = n => ~Claims(i)
      BY <1>3
    <3> QED
      BY <2>2, <3>1, <3>2
  <2> QED
    BY <2>1, <2>2
<1>5. ASSUME Torn = FALSE PROVE EntriesCount'
  <2> SUFFICES ASSUME NEW o \in Ops, NEW r \in Rows, Funded(o, r)'
               PROVE  Backed(o, row[r].receipt)'
    BY DEF EntriesCount
  <2>1. Funded(o, r)
    BY DEF Funded
  <2>2. row[r] # NoRow /\ row'[r].receipt = row[r].receipt /\ row[r].receipt \in Receipts
    BY <2>1 DEF Funded, OfficeInv, EntriesOnRows, Follows, TypeInv, RowsTypeOK, RowType
  <2>3. Backed(o, row[r].receipt)
    BY <1>5, <2>1 DEF ChargeInv, EntriesCount
  <2>4. row[r].receipt # n
    BY <2>3 DEF Backed
  <2> QED
    BY <2>2, <2>3, <2>4 DEF Backed
<1> QED
  BY <1>1, <1>2, <1>4, <1>5 DEF ChargeInv

(* Before a charge, there is none.                                           *)
LEMMA UnpostedIsUncharged ==
  ASSUME ChargeInv, NEW n \in Receipts, ship[n].fin # "POSTED"
  PROVE  ship[n].charges = NoCharge
BY DEF ChargeInv, FinancialStatusIsTrue

(* Steps that leave shipments and the entries of operations alone, and give  *)
(* no job a claim.                                                           *)
LEMMA OneJobMoves ==
  ASSUME OfficeInv, ChargeInv, Follows(row, row'), UNCHANGED <<ship, op>>, NEW j \in Jobs,
         \A i \in Jobs \ {j} : job'[i] = job[i],
         Claims(j)' => Claims(j) /\ job'[j].n = job[j].n,
         Torn = FALSE => job[j].at # "tag"
  PROVE  ChargeInv'
<1>1. \A i \in Jobs : Claims(i)' => Claims(i) /\ job'[i].n = job[i].n
  BY DEF Claims
<1>2. \A o \in Ops, r \in Rows : Funded(o, r)' => Funded(o, r)
  BY DEF Funded
<1> QED
  BY <1>1, <1>2, ChargesStand

LEMMA NobodyMoves ==
  ASSUME OfficeInv, ChargeInv, Follows(row, row'), UNCHANGED <<ship, job>>,
         \A o \in Ops, r \in Rows : Funded(o, r)' => Funded(o, r)
  PROVE  ChargeInv'
<1>1. \A i \in Jobs : Claims(i)' => Claims(i) /\ job'[i].n = job[i].n
  BY DEF Claims
<1> QED
  BY <1>1, ChargesStand

LEMMA FundCharges ==
  ASSUME OfficeInv, ChargeInv, Follows(row, row'), NEW j \in Jobs, Fund(j) \/ Create(j)
  PROVE  ChargeInv'
<1> DEFINE n == job[j].n
           before == IF job[j].at = "create" THEN [ship[n] EXCEPT !.state = "live"] ELSE ship[n]
<1>0. job \in [Jobs -> JobType] /\ ship \in [Receipts -> Shipment]
  BY DEF OfficeInv, TypeInv
<1>1. job[j] \in PostJob /\ job[j].at \in {"fund", "create"}
  BY <1>0, JobKinds DEF Fund, Create, PostSteps
<1>2. ~Claims(j) /\ job[j].at # "tag" /\ n \in Receipts
  BY <1>1 DEF Claims, PostJob
<1>3. CASE End(j) /\ UNCHANGED ship
  <2>1. job'[j] = Idle /\ \A i \in Jobs \ {j} : job'[i] = job[i]
    BY <1>0, <1>3 DEF End
  <2>2. ~Claims(j)'
    BY <2>1 DEF Claims, Idle
  <2> QED
    BY <1>2, <1>3, <2>1, <2>2, OneJobMoves DEF Fund, Create
<1>4. CASE ~(End(j) /\ UNCHANGED ship)
  <2>1. /\ ship[n].fin # "POSTED" /\ before.state = "live"
        /\ ship' = [ship EXCEPT ![n] = Charged(before)]
        /\ \E disposition \in {"REUSED", "CREATED"} : Notes(j, "mark", disposition, TRUE)
        /\ UNCHANGED op
    <3>1. CASE Fund(j)
      BY <1>1, <1>4, <3>1 DEF Fund, Chargeable
    <3>2. CASE Create(j)
      <4>1. ship[n].state = "none"
        BY <1>4, <3>2 DEF Create
      <4>2. ship[n].fin # "POSTED"
        BY <1>2, <4>1 DEF ChargeInv, NoneUnposted
      <4>3. before = [ship[n] EXCEPT !.state = "live"] /\ before.state = "live"
        BY <1>0, <1>2, <3>2 DEF Create, Shipment
      <4>4. ship' = [ship EXCEPT ![n] = Charged([ship[n] EXCEPT !.state = "live"])]
        BY <3>2, <4>1 DEF Create
      <4> QED
        BY <3>2, <4>1, <4>2, <4>3, <4>4 DEF Create
    <3> QED
      BY <3>1, <3>2
  <2>2. before \in Shipment /\ before.charges = ship[n].charges
    BY <1>0, <1>2 DEF Shipment
  <2>3. before.charges = NoCharge
    BY <1>2, <2>1, <2>2, UnpostedIsUncharged
  <2> HIDE DEF before
  <2>4. /\ ship'[n].fin = "POSTED" /\ ship'[n].charges = Only(NoOp) /\ ship'[n].state = "live"
        /\ \A m \in Receipts \ {n} : ship'[m] = ship[m]
    BY <1>0, <1>2, <2>1, <2>2, <2>3, ChargedOnce
  <2>5. /\ job'[j].n = n
        /\ \A i \in Jobs \ {j} : job'[i] = job[i]
    BY <1>0, <1>1, <2>1 DEF PostJob, Notes, Noted
  <2> HIDE DEF n
  <2>6. \A i \in Jobs \ {j} : Claims(i)' <=> Claims(i)
    BY <2>5 DEF Claims
  <2> QED
    BY <1>2, <2>1, <2>4, <2>5, <2>6, ChargeAdds
<1> QED
  BY <1>3, <1>4

(* The tag moves the one charge from no operation to the job's.              *)
LEMMA TagCharges ==
  ASSUME OfficeInv, ChargeInv, Follows(row, row'), NEW j \in Jobs, Tag(j)
  PROVE  ChargeInv'
<1> DEFINE n == job[j].n
           o == job[j].op
<1>0. job \in [Jobs -> JobType] /\ ship \in [Receipts -> Shipment]
  BY DEF OfficeInv, TypeInv
<1>1. n \in Receipts /\ o \in Ops /\ Claims(j)
  BY ClaimIsPosting DEF Tag
<1>2. /\ ship[n].fin = "POSTED" /\ ship[n].charges = Only(NoOp)
      /\ \A i \in Jobs : Claims(i) /\ job[i].n = n => i = j
  BY <1>1 DEF ChargeInv, ClaimsCount
<1>3. o \in Tags /\ NoOp \in Tags /\ o # NoOp
  BY <1>1, PostingAssumption DEF Tags
<1>4. Tagged(Only(NoOp), o) = Only(o)
  BY <1>3 DEF Tagged, Only, NoCharge
<1>5. ship' = [ship EXCEPT ![n] = [ship[n] EXCEPT !.charges = Only(o)]]
  BY <1>0, <1>1, <1>2, <1>4 DEF Tag, Shipment
<1>6. /\ ship'[n].fin = "POSTED" /\ ship'[n].charges = Only(o) /\ ship'[n].state = ship[n].state
      /\ \A m \in Receipts \ {n} : ship'[m] = ship[m]
  BY <1>0, <1>1, <1>2, <1>5 DEF Shipment
<1>7. /\ job'[j] = Idle /\ \A i \in Jobs \ {j} : job'[i] = job[i]
      /\ UNCHANGED op
  BY <1>0 DEF Tag, End
<1>8. ~Claims(j)' /\ \A i \in Jobs \ {j} : Claims(i)' <=> Claims(i)
  BY <1>7 DEF Claims, Idle
<1> HIDE DEF n, o
<1>9. FinancialStatusIsTrue' /\ NoneUnposted'
  BY <1>2, <1>3, <1>6 DEF ChargeInv, FinancialStatusIsTrue, NoneUnposted
<1>10. ClaimsCount'
  <2> SUFFICES ASSUME NEW i \in Jobs, Claims(i)'
               PROVE  /\ ship'[job'[i].n].fin = "POSTED"
                      /\ ship'[job'[i].n].charges = Only(NoOp)
                      /\ \A k \in Jobs : Claims(k)' /\ job'[k].n = job'[i].n => k = i
    BY DEF ClaimsCount
  <2>1. i # j /\ Claims(i) /\ job'[i] = job[i]
    BY <1>7, <1>8
  <2>2. job[i].n # n /\ job[i].n \in Receipts
    BY <1>2, <2>1, ClaimIsPosting
  <2> QED
    BY <1>6, <1>7, <1>8, <2>1, <2>2 DEF ChargeInv, ClaimsCount
<1>11. ASSUME Torn = FALSE PROVE EntriesCount'
  <2> SUFFICES ASSUME NEW p \in Ops, NEW r \in Rows, Funded(p, r)'
               PROVE  Backed(p, row[r].receipt)'
    BY DEF EntriesCount
  <2>1. Funded(p, r)
    BY <1>7 DEF Funded
  <2>2. row[r] # NoRow /\ row'[r].receipt = row[r].receipt /\ row[r].receipt \in Receipts
    BY <2>1 DEF Funded, OfficeInv, EntriesOnRows, Follows, TypeInv, RowsTypeOK, RowType
  <2>3. Backed(p, row[r].receipt)
    BY <1>11, <2>1 DEF ChargeInv, EntriesCount
  <2>4. CASE row[r].receipt # n
    <3>1. \A i \in Jobs : job[i].n = row[r].receipt => job'[i] = job[i]
      BY <1>7, <2>4 DEF n
    <3> QED
      BY <1>6, <2>2, <2>3, <2>4, <3>1 DEF Backed
  <2>5. CASE row[r].receipt = n
    <3>1. p \in Tags /\ p # NoOp
      BY PostingAssumption DEF Tags
    <3>2. ship[n].charges # Only(p)
      BY <1>2, <1>3, <3>1, OnlyDiffer
    <3>3. PICK i \in Jobs : job[i].at = "tag" /\ job[i].op = p /\ job[i].n = n
      BY <2>3, <2>5, <3>2 DEF Backed
    <3>4. i = j
      BY <1>2, <3>3, ClaimIsPosting
    <3>5. p = o
      BY <3>3, <3>4 DEF o
    <3> QED
      BY <1>6, <2>2, <2>5, <3>5 DEF Backed
  <2> QED
    BY <2>4, <2>5
<1> QED
  BY <1>9, <1>10, <1>11 DEF ChargeInv

(* The journal changes no posting; Record writes the posting of its job.     *)
LEMMA EntryCharges ==
  ASSUME OfficeInv, ChargeInv, Follows(row, row'), UNCHANGED <<row, ship>>,
         NEW j \in Jobs, Journal(j) \/ Record(j)
  PROVE  ChargeInv'
<1> DEFINE r == job[j].row
           o == job[j].op
           e == op[o].rows[r]
<1>0. /\ RowsTypeOK /\ job \in [Jobs -> JobType] /\ op \in [Ops -> OpType]
      /\ ship \in [Receipts -> Shipment]
  BY DEF OfficeInv, TypeInv
<1>1. CASE Journal(j)
  <2>1. job[j] \in JournalJob
    BY <1>0, <1>1, JobKinds DEF Journal
  <2>2. r \in Rows /\ o \in Ops /\ e \in EntryType \cup {NoEntry}
    BY <1>0, <2>1 DEF JournalJob, OpType, Journals
  <2>3. op' = op \/ (op' = Rewritten(o, r, Journalled(e, r)) /\ row[r] # NoRow)
    <3>1. CASE Shown(r)
      BY <1>1, <3>1 DEF Journal, Rewritten, Shown, Kept
    <3>2. CASE ~Shown(r)
      BY <1>1, <3>2 DEF Journal
    <3> QED
      BY <3>1, <3>2
  <2>4. job'[j] = Idle /\ \A i \in Jobs \ {j} : job'[i] = job[i]
    BY <1>0, <1>1 DEF Journal, End
  <2>5. job[j].at = "journal"
    BY <1>1 DEF Journal
  <2>6. ASSUME row[r] # NoRow
        PROVE  Journalled(e, r).funded => e.in /\ e.funded
    <3>1. CASE e \in EntryType
      BY <3>1 DEF Journalled, EntryType
    <3>2. CASE e = NoEntry
      BY <3>2 DEF Journalled, NoEntry, Entry
    <3> QED
      BY <2>2, <3>1, <3>2
  <2>7. row[r] # NoRow => Journalled(e, r) \in EntryType
    BY <1>0, <2>2, JournalledTyped
  <2> DEFINE new == Journalled(e, r)
  <2>8. \A p \in Ops, q \in Rows : Funded(p, q)' => Funded(p, q)
    <3>1. CASE op' = op
      BY <3>1 DEF Funded
    <3>2. CASE op' = Rewritten(o, r, new) /\ row[r] # NoRow
      <4>1. /\ \A p \in Ops : op'[p].status = op[p].status
            /\ op'[o].rows[r] = new
            /\ \A p \in Ops, q \in Rows : p # o \/ q # r => op'[p].rows[q] = op[p].rows[q]
        <5> new \in EntryType
          BY <2>7, <3>2
        <5> HIDE DEF new, o, r
        <5> QED
          BY <1>0, <2>2, <3>2, EntryReplaced
      <4> HIDE DEF new
      <4> QED
        BY <2>6, <3>2, <4>1 DEF Funded, new
    <3> QED
      BY <2>3, <3>1, <3>2
  <2>9. \A i \in Jobs : Claims(i)' => Claims(i) /\ job'[i].n = job[i].n
    BY <2>4, <2>5 DEF Claims, Idle
  <2>10. \A i \in Jobs : job[i].at = "tag" => job'[i] = job[i]
    BY <2>4, <2>5
  <2> QED
    BY <2>8, <2>9, <2>10, ChargesStand
<1>2. CASE Record(j)
  <2>1. job[j] \in PostJob /\ job[j].at = "record"
    BY <1>0, <1>2, JobKinds DEF Record, PostSteps
  <2>2. /\ r \in Rows /\ o \in Ops /\ e \in EntryType \cup {NoEntry}
        /\ row[r] # NoRow /\ row[r].receipt = job[j].n
    BY <1>0, <2>1 DEF PostJob, OpType, Journals, OfficeInv, JobsOnRows, PostSteps
  <2> DEFINE new == Recorded(e, job[j])
  <2>3. op' = Rewritten(o, r, new)
    BY <1>2 DEF Record, Rewritten
  <2>4. new \in EntryType \cup {NoEntry}
    BY <2>1, <2>2, RecordedTyped
  <2>5. new.in /\ new.funded => job[j].funded
    <3>1. CASE e \in EntryType
      BY <3>1 DEF Recorded, EntryType
    <3>2. CASE e = NoEntry
      BY <3>2 DEF Recorded, NoEntry
    <3> QED
      BY <2>2, <3>1, <3>2
  <2>6. /\ \A i \in Jobs \ {j} : job'[i] = job[i]
        /\ IF job[j].funded THEN job'[j] = [job[j] EXCEPT !.at = "tag"] ELSE job'[j] = Idle
    BY <1>0, <1>2 DEF Record, EndUnless, Go, End
  <2>7. job[j].funded => job'[j].at = "tag" /\ job'[j].op = o /\ job'[j].n = job[j].n
    BY <2>1, <2>6 DEF PostJob
  <2>8. \A i \in Jobs : Claims(i)' => Claims(i) /\ job'[i].n = job[i].n
    BY <2>1, <2>6, <2>7 DEF Claims, Idle
  <2>9. \A i \in Jobs : job[i].at = "tag" => job'[i] = job[i]
    BY <2>1, <2>6
  <2>10. job[j].funded => ship[job[j].n].fin = "POSTED"
    BY <2>1 DEF ChargeInv, ClaimsCount, Claims
  <2> HIDE DEF new, o, r
  <2>11. /\ \A p \in Ops : op'[p].status = op[p].status
         /\ op'[o].rows[r] = new
         /\ \A p \in Ops, q \in Rows : p # o \/ q # r => op'[p].rows[q] = op[p].rows[q]
    BY <1>0, <2>2, <2>3, <2>4, EntryReplaced
  <2>12. ASSUME NEW p \in Ops, NEW q \in Rows, Funded(p, q)'
         PROVE  Funded(p, q) \/ Backed(p, row[q].receipt)'
    <3>1. CASE p = o /\ q = r
      <4>1. job[j].funded
        BY <2>5, <2>11, <2>12, <3>1 DEF Funded
      <4> QED
        BY <2>2, <2>7, <2>10, <3>1, <4>1 DEF Backed
    <3>2. CASE p # o \/ q # r
      BY <2>11, <2>12, <3>2 DEF Funded
    <3> QED
      BY <3>1, <3>2
  <2> QED
    BY <2>8, <2>9, <2>12, ChargesStand
<1> QED
  BY <1>1, <1>2

(* A reversed charge was the only one.                                       *)
LEMMA ReversedNone ==
  ASSUME NEW o \in Ops, NEW s \in Shipment, s.charges = Only(o), NEW es
  PROVE  \/ Reversed(s, es, o) = s
         \/ /\ Reversed(s, es, o).fin = "REVERSED"
            /\ Reversed(s, es, o).charges = NoCharge
<1> DEFINE created == \E e \in es : e.disposition = "CREATED"
           c == [t \in Tags |-> IF t = o \/ (created /\ t = NoOp) THEN 0 ELSE s.charges[t]]
           state == IF created THEN "deleted" ELSE s.state
<1>1. c = NoCharge
  BY DEF Only, NoCharge, Tags
<1>2. Reversed(s, es, o) = s \/
      Reversed(s, es, o) = [s EXCEPT !.fin = "REVERSED", !.state = state, !.charges = c]
  BY DEF Reversed
<1> HIDE DEF c, state
<1> QED
  BY <1>1, <1>2 DEF Shipment

(* What an undo reverses are charges with the tag of its operation.          *)
LEMMA CommitCharges ==
  ASSUME OfficeInv, ChargeInv, Follows(row, row'), Torn = FALSE, NEW o \in Ops, CommitUndo(o)
  PROVE  ChargeInv'
<1> DEFINE entries == undo[o].rows
           Es(n) == EntriesOf(entries, n)
           after(n) == Reversed(ship[n], Es(n), o)
<1>0. /\ RowsTypeOK /\ job \in [Jobs -> JobType] /\ op \in [Ops -> OpType]
      /\ ship \in [Receipts -> Shipment]
  BY DEF OfficeInv, TypeInv
<1>1. undo[o] # Closed
  BY DEF CommitUndo, Closed
<1>2. entries \in Journals /\ entries = op[o].rows /\ op[o].status = "COMPLETED"
  BY <1>1, LocksOfRows
<1>3. /\ ship' = [n \in Receipts |-> after(n)]
      /\ op'[o].status = "UNDONE" /\ \A p \in Ops \ {o} : op'[p] = op[p]
      /\ UNCHANGED job
  BY <1>0 DEF CommitUndo, OpType
<1>4. \A j \in Jobs : ~(job[j].at = "tag" /\ job[j].op = o)
  BY <1>2, ClaimIsPosting DEF OfficeInv, JobsOfOpen, Steps
<1>5. ASSUME NEW n \in Receipts, after(n) # ship[n]
      PROVE  ship[n].fin = "POSTED" /\ ship[n].charges = Only(o)
  <2>1. PICK e \in Es(n) : e.disposition = "CREATED" \/ e.funded
    BY <1>5 DEF Reversed
  <2>2. PICK r \in Members(entries) : e = entries[r] /\ row[r].receipt = n
    BY <2>1 DEF EntriesOf
  <2>3. r \in Rows /\ e.in /\ e \in EntryType
    BY <1>2, <2>2 DEF Members, Journals, NoEntry
  <2>4. e.funded
    BY <2>1, <2>3 DEF EntryType
  <2>5. Funded(o, r)
    BY <1>2, <2>2, <2>3, <2>4 DEF Funded
  <2>6. Backed(o, n)
    BY <2>2, <2>3, <2>5 DEF ChargeInv, EntriesCount
  <2> QED
    BY <1>4, <2>6 DEF Backed
<1>6. ASSUME NEW n \in Receipts
      PROVE  \/ ship'[n] = ship[n]
             \/ /\ ship'[n].fin = "REVERSED" /\ ship'[n].charges = NoCharge
                /\ ship[n].charges = Only(o)
  <2>1. ship'[n] = after(n)
    BY <1>3
  <2> HIDE DEF after
  <2>2. CASE after(n) # ship[n]
    BY <1>0, <1>5, <2>1, <2>2, ReversedNone DEF after
  <2> QED
    BY <2>1, <2>2
<1>7. FinancialStatusIsTrue' /\ NoneUnposted'
  BY <1>6 DEF ChargeInv, FinancialStatusIsTrue, NoneUnposted
<1>8. ASSUME NEW t \in Tags, t # o, NEW n \in Receipts, ship[n].charges = Only(t)
      PROVE  ship'[n] = ship[n]
  <2>1. o \in Tags
    BY DEF Tags
  <2> QED
    BY <1>6, <1>8, <2>1, OnlyDiffer
<1>9. ClaimsCount'
  <2> SUFFICES ASSUME NEW j \in Jobs, Claims(j)
               PROVE  /\ ship'[job[j].n].fin = "POSTED"
                      /\ ship'[job[j].n].charges = Only(NoOp)
                      /\ \A i \in Jobs : Claims(i) /\ job[i].n = job[j].n => i = j
    BY <1>3 DEF ClaimsCount, Claims
  <2>1. /\ ship[job[j].n].fin = "POSTED" /\ ship[job[j].n].charges = Only(NoOp)
        /\ \A i \in Jobs : Claims(i) /\ job[i].n = job[j].n => i = j
    BY DEF ChargeInv, ClaimsCount
  <2>2. job[j].n \in Receipts /\ NoOp \in Tags /\ NoOp # o
    BY ClaimIsPosting, PostingAssumption DEF Tags
  <2> QED
    BY <1>8, <2>1, <2>2
<1>10. EntriesCount'
  <2> SUFFICES ASSUME NEW p \in Ops, NEW r \in Rows, Funded(p, r)'
               PROVE  Backed(p, row[r].receipt)'
    BY DEF EntriesCount
  <2>1. p # o /\ Funded(p, r)
    BY <1>3 DEF Funded
  <2>2. row[r] # NoRow /\ row'[r].receipt = row[r].receipt /\ row[r].receipt \in Receipts
    BY <2>1 DEF Funded, OfficeInv, EntriesOnRows, Follows, TypeInv, RowsTypeOK, RowType
  <2>3. Backed(p, row[r].receipt)
    BY <2>1 DEF ChargeInv, EntriesCount
  <2>4. CASE ship[row[r].receipt].charges = Only(p)
    <3>1. p \in Tags
      BY DEF Tags
    <3>2. ship'[row[r].receipt] = ship[row[r].receipt]
      BY <1>8, <2>1, <2>2, <2>4, <3>1
    <3> QED
      BY <2>2, <2>3, <2>4, <3>2 DEF Backed
  <2>5. CASE \E j \in Jobs : job[j].at = "tag" /\ job[j].op = p /\ job[j].n = row[r].receipt
    <3>1. PICK j \in Jobs : job[j].at = "tag" /\ job[j].op = p /\ job[j].n = row[r].receipt
      BY <2>5
    <3>2. ship[row[r].receipt].charges = Only(NoOp) /\ NoOp \in Tags /\ NoOp # o
      BY <3>1, ClaimIsPosting, PostingAssumption DEF ChargeInv, ClaimsCount, Tags
    <3>3. ship'[row[r].receipt] = ship[row[r].receipt]
      BY <1>8, <2>2, <3>2
    <3> QED
      BY <1>3, <2>2, <2>3, <3>1, <3>3 DEF Backed
  <2> QED
    BY <2>3, <2>4, <2>5 DEF Backed
<1> QED
  BY <1>7, <1>9, <1>10 DEF ChargeInv

(* A posting without operation ends or goes on without one.                  *)
LEMMA PostingGoesOn ==
  ASSUME OfficeInv, NEW j \in Jobs, Continue(j), job[j].at \in PostSteps
  PROVE  job'[j] = Idle \/ (job'[j].at \in PostSteps /\ job'[j].op = job[j].op)
<1>0. job \in [Jobs -> JobType] /\ job[j] \in PostJob
  BY JobKinds DEF OfficeInv, TypeInv
<1>1. ASSUME NEW step \in PostSteps,
             \/ Go(j, step)
             \/ \E disposition \in Dispositions, funded \in BOOLEAN :
                  Notes(j, step, disposition, funded)
      PROVE  job'[j].at \in PostSteps /\ job'[j].op = job[j].op
  <2>1. CASE Go(j, step)
    BY <1>0, <2>1 DEF Go, PostJob
  <2>2. ASSUME NEW disposition \in Dispositions, NEW funded \in BOOLEAN,
               Notes(j, step, disposition, funded)
        PROVE  job'[j].at \in PostSteps /\ job'[j].op = job[j].op
    <3>1. job'[j] = Noted(job[j], step, disposition, funded)
      BY <1>0, <2>2 DEF Notes
    <3> QED
      BY <1>0, <3>1 DEF Noted, PostJob
  <2> QED
    BY <1>1, <2>1, <2>2
<1>2. CASE End(j)
  BY <1>0, <1>2 DEF End
<1>3. \/ End(j)
      \/ \E step \in {"create", "record", "tag"} : Go(j, step)
      \/ \E step \in {"fund", "mark"}, disposition \in Dispositions, funded \in BOOLEAN :
           Notes(j, step, disposition, funded)
  <2>1. CASE Look(j)
    BY <2>1 DEF Look, Dispositions
  <2>2. CASE Fund(j)
    BY <2>2 DEF Fund, Dispositions
  <2>3. CASE Create(j)
    BY <2>3 DEF Create, Dispositions
  <2>4. CASE Mark(j)
    BY <2>4 DEF Mark, EndUnless
  <2>5. CASE Record(j)
    BY <2>5 DEF Record, EndUnless
  <2>6. CASE Tag(j) \/ Stop(j)
    BY <2>6 DEF Tag, Stop
  <2>7. ~Journal(j) /\ ~ \E r \in Rows : SaveNewRow(j, r)
    BY DEF Journal, SaveNewRow, PostSteps
  <2> QED
    BY <2>1, <2>2, <2>3, <2>4, <2>5, <2>6, <2>7 DEF Continue
<1> QED
  BY <1>1, <1>2, <1>3 DEF PostSteps

LEMMA ContinueMovesOne ==
  ASSUME OfficeInv, NEW j \in Jobs, Continue(j)
  PROVE  \A i \in Jobs \ {j} : job'[i] = job[i]
<1>0. job \in [Jobs -> JobType]
  BY DEF OfficeInv, TypeInv
<1> QED
  BY <1>0 DEF Continue, SaveNewRow, Journal, Look, Fund, Create, Mark, Record, Tag, Stop,
              EndUnless, Go, End, Notes

(* A deferred action starts a job without operation, or ends one.            *)
LEMMA DeferredMovesOne ==
  ASSUME OfficeInv, DeferredNameNone, NEW j \in Jobs, Deferred(j)
  PROVE  /\ \A i \in Jobs \ {j} : job'[i] = job[i] /\ request'[i] = request[i]
         /\ job[j].at # "tag"
         /\ \/ job'[j] = job[j] /\ (Executing(j) \/ job[j] = Idle)
            \/ job'[j] = Idle
            \/ job'[j].at \in PostSteps /\ job'[j].op = NoOp /\ job'[j].funded = FALSE
<1>0. /\ DeferredTypeOK /\ job \in [Jobs -> JobType]
      /\ request \in [Jobs -> {NoRequest} \cup OpenRequests]
  BY DEF OfficeInv, TypeInv, DeferredTypeOK, OpenRequests
<1>1. \A i \in Jobs \ {j} : request'[i] = request[i]
  BY <1>0 DEF Deferred, Execute, PostNext, Accept, Refuse, Die,
              Answered
<1>2. CASE Executing(j)
  <2>1. job[j] = Idle \/ (job[j].at \in PostSteps /\ job[j].op = NoOp)
    BY <1>2 DEF DeferredNameNone
  <2>2. job[j].at # "tag"
    BY <1>0, <2>1, ClaimIsPosting, PostingAssumption DEF Idle
  <2>3. UNCHANGED job \/ End(j) \/ \E r \in Rows : PostRow(j, r, NoOp)
    BY DEF Deferred, Execute, PostNext, Accept, Refuse, Die,
           postVars
  <2>4. CASE UNCHANGED job
    BY <1>1, <1>2, <2>2, <2>4
  <2>5. CASE End(j)
    BY <1>0, <1>1, <2>2, <2>5 DEF End
  <2>6. ASSUME NEW r \in Rows, PostRow(j, r, NoOp)
        PROVE  /\ \A i \in Jobs \ {j} : job'[i] = job[i]
               /\ job'[j].at \in PostSteps /\ job'[j].op = NoOp /\ job'[j].funded = FALSE
    BY <1>0, <2>6 DEF PostRow, PostSteps
  <2> QED
    BY <1>1, <2>2, <2>3, <2>4, <2>5, <2>6
<1>3. CASE ~Executing(j)
  <2>1. request[j].left = {}
    BY <1>3 DEF Executing, NoRequest
  <2>2. PICK a \in Actions : Execute(j, a)
    BY <1>3, <2>1 DEF Deferred, PostNext, Accept, Refuse, Die
  <2> QED
    BY <1>1, <2>2 DEF Execute, Idle, postVars
<1> QED
  BY <1>2, <1>3

LEMMA DeferredNameNoneStep ==
  ASSUME OfficeInv, DeferredNameNone, [Next]_vars
  PROVE  DeferredNameNone'
<1>0. job \in [Jobs -> JobType]
  BY DEF OfficeInv, TypeInv
<1>1. CASE UNCHANGED <<job, request>>
  BY <1>1 DEF DeferredNameNone, Executing
<1>2. ASSUME NEW j \in Jobs, Requests(j), UNCHANGED deferredVars PROVE DeferredNameNone'
  <2>1. ~Executing(j) /\ \A i \in Jobs \ {j} : job'[i] = job[i]
    BY <1>0, <1>2 DEF Requests, SaveRow, PostRow
  <2> QED
    BY <1>2, <2>1 DEF DeferredNameNone, Executing, deferredVars
<1>3. ASSUME NEW j \in Jobs, Continue(j), UNCHANGED deferredVars PROVE DeferredNameNone'
  <2>1. \A i \in Jobs \ {j} : job'[i] = job[i]
    BY <1>3, ContinueMovesOne
  <2>2. ASSUME Executing(j)
        PROVE  job'[j] = Idle \/ (job'[j].at \in PostSteps /\ job'[j].op = NoOp)
    <3>1. CASE job[j] = Idle
      <4>1. job[j].at = "idle"
        BY <3>1 DEF Idle
      <4> QED
        BY <1>3, <3>1, <4>1
        DEF Continue, SaveNewRow, Journal, Look, Fund, Create, Mark, Record, Tag, Stop
    <3>2. CASE job[j] # Idle
      <4>1. job[j].at \in PostSteps /\ job[j].op = NoOp
        BY <2>2, <3>2 DEF DeferredNameNone
      <4> QED
        BY <1>3, <4>1, PostingGoesOn
    <3> QED
      BY <3>1, <3>2
  <2> QED
    BY <1>3, <2>1, <2>2 DEF DeferredNameNone, Executing, deferredVars
<1>4. ASSUME NEW j \in Jobs, Deferred(j) PROVE DeferredNameNone'
  BY <1>4, DeferredMovesOne DEF DeferredNameNone, Executing
<1> QED
  BY <1>1, <1>2, <1>3, <1>4, StepsOfTheOffice DEF deferredVars

-----------------------------------------------------------------------------
(* The financial status.                                                     *)

(* Nothing was torn, or nothing undone.                                      *)
Sound == Torn = FALSE \/ NoneUndone

LEMMA ChargeStep ==
  ASSUME OfficeInv, DeferredNameNone, ChargeInv, [Next]_vars, Sound'
  PROVE  ChargeInv'
<1>0. /\ RowsTypeOK /\ job \in [Jobs -> JobType] /\ op \in [Ops -> OpType]
      /\ ship \in [Receipts -> Shipment] /\ DeferredTypeOK
  BY DEF OfficeInv, TypeInv
<1>1. Follows(row, row')
  BY OfficeStep
<1>2. ASSUME UNCHANGED <<ship, job, op>> PROVE ChargeInv'
  BY <1>1, <1>2, NobodyMoves DEF Funded
<1>3. CASE ShipmentScreens /\ UNCHANGED <<row, session, held, job, op>>
  <2>1. ASSUME NEW n \in Receipts, DraftShipment(n) PROVE ChargeInv'
    <3>1. \A m \in Receipts : /\ ship'[m].fin = ship[m].fin
                              /\ ship'[m].charges = ship[m].charges
                              /\ ship'[m].state = "none" => ship[m].state = "none"
      BY <1>0, <2>1 DEF DraftShipment, Shipment
    <3>2. /\ \A i \in Jobs : Claims(i)' => Claims(i) /\ job'[i].n = job[i].n
          /\ \A o \in Ops, r \in Rows : Funded(o, r)' => Funded(o, r)
      BY <1>3 DEF Claims, Funded
    <3> QED
      BY <1>1, <1>3, <3>1, <3>2, ChargesStand
  <2>2. ASSUME NEW n \in Receipts, PostFromLifecycle(n) PROVE ChargeInv'
    <3>1. /\ ship[n] \in Shipment /\ ship[n].fin # "POSTED" /\ ship[n].state = "live"
          /\ ship' = [ship EXCEPT ![n] = Charged(ship[n])]
      BY <1>0, <2>2 DEF PostFromLifecycle, Chargeable
    <3>2. ship[n].charges = NoCharge
      BY <3>1, UnpostedIsUncharged
    <3>3. /\ ship'[n].fin = "POSTED" /\ ship'[n].charges = Only(NoOp)
          /\ ship'[n].state # "none" /\ \A m \in Receipts \ {n} : ship'[m] = ship[m]
      BY <1>0, <3>1, <3>2, ChargedOnce
    <3>4. \A i \in Jobs : Claims(i)' <=> Claims(i)
      BY <1>3 DEF Claims
    <3> QED
      BY <1>1, <1>3, <3>1, <3>3, <3>4, ChargeAdds
  <2> QED
    BY <1>3, <2>1, <2>2 DEF ShipmentScreens
<1>4. ASSUME NEW j \in Jobs, Requests(j), UNCHANGED <<ship, op>> PROVE ChargeInv'
  <2>1. job[j] = Idle /\ \A i \in Jobs \ {j} : job'[i] = job[i]
    BY <1>0, <1>4 DEF Requests, SaveRow, PostRow
  <2>2. ~Claims(j)'
    <3>1. \/ job'[j] = Idle \/ job'[j].at \in {"insert", "journal"} \/ job'[j].funded = FALSE
      BY <1>0, <1>4 DEF Requests, SaveRow, PostRow
    <3> QED
      BY <3>1 DEF Claims, Idle
  <2>3. job[j].at # "tag"
    BY <2>1 DEF Idle
  <2> QED
    BY <1>1, <1>4, <2>1, <2>2, <2>3, OneJobMoves
<1>5. ASSUME NEW j \in Jobs, Continue(j) PROVE ChargeInv'
  <2>0. \A i \in Jobs \ {j} : job'[i] = job[i]
    BY <1>5, ContinueMovesOne
  <2>1. ASSUME NEW r \in Rows, SaveNewRow(j, r) PROVE ChargeInv'
    <3>1. job[j].at = "insert" /\ (job'[j] = Idle \/ job'[j].at = "journal")
          /\ UNCHANGED <<ship, op>>
      BY <1>0, <2>1 DEF SaveNewRow, End
    <3>2. ~Claims(j)'
      BY <3>1 DEF Claims, Idle
    <3> QED
      BY <1>1, <2>0, <3>1, <3>2, OneJobMoves
  <2>2. CASE Journal(j) \/ Record(j)
    <3>1. UNCHANGED <<row, ship>>
      BY <2>2 DEF Journal, Record, rowVars
    <3> QED
      BY <1>1, <2>2, <3>1, EntryCharges
  <2>3. CASE Look(j)
    <3>1. job[j].at = "look" /\ job[j] \in PostJob /\ UNCHANGED <<ship, op>>
      BY <1>0, <2>3, JobKinds DEF Look, PostSteps
    <3>2. ~Claims(j)'
      <4>1. ~job[j].funded
        BY <3>1 DEF PostJob
      <4>2. job'[j] = Idle \/ job'[j].funded = job[j].funded \/ job'[j].funded = FALSE
        <5>1. \/ job'[j] = Idle \/ job'[j] = [job[j] EXCEPT !.at = "create"]
              \/ \E step \in {"fund", "mark"} : job'[j] = Noted(job[j], step, "REUSED", FALSE)
          BY <1>0, <2>3 DEF Look, Go, End, Notes
        <5> QED
          BY <3>1, <5>1 DEF Noted, PostJob
      <4> QED
        BY <4>1, <4>2 DEF Claims, Idle
    <3> QED
      BY <1>1, <2>0, <3>1, <3>2, OneJobMoves
  <2>4. CASE Fund(j) \/ Create(j)
    BY <1>1, <2>4, FundCharges
  <2>5. CASE Mark(j)
    <3>1. job[j].at = "mark" /\ job[j] \in PostJob /\ UNCHANGED <<ship, op>>
      BY <1>0, <2>5, JobKinds DEF Mark, PostSteps
    <3>2. job'[j] = Idle \/ job'[j] = [job[j] EXCEPT !.at = "record"]
      BY <1>0, <2>5 DEF Mark, EndUnless, Go, End
    <3>3. Claims(j)' => Claims(j) /\ job'[j].n = job[j].n
      BY <3>1, <3>2 DEF Claims, Idle, PostJob
    <3> QED
      BY <1>1, <2>0, <3>1, <3>3, OneJobMoves
  <2>6. CASE Tag(j)
    BY <1>1, <2>6, TagCharges
  <2>7. CASE Stop(j)
    <3>1. job'[j] = Idle /\ UNCHANGED <<ship, op>> /\ (Torn = FALSE => job[j].at # "tag")
      BY <1>0, <2>7 DEF Stop, End
    <3>2. ~Claims(j)'
      BY <3>1 DEF Claims, Idle
    <3> QED
      BY <1>1, <2>0, <3>1, <3>2, OneJobMoves
  <2> QED
    BY <1>5, <2>1, <2>2, <2>3, <2>4, <2>5, <2>6, <2>7 DEF Continue
<1>6. ASSUME NEW j \in Jobs, Deferred(j), UNCHANGED <<ship, op>>
      PROVE  ChargeInv'
  <2>1. /\ \A i \in Jobs \ {j} : job'[i] = job[i]
        /\ job[j].at # "tag"
        /\ job'[j] = job[j] \/ job'[j] = Idle \/ job'[j].funded = FALSE
    BY <1>6, DeferredMovesOne
  <2>2. Claims(j)' => Claims(j) /\ job'[j].n = job[j].n
    BY <2>1 DEF Claims, Idle
  <2> QED
    BY <1>1, <1>6, <2>1, <2>2, OneJobMoves
<1>7. ASSUME NEW o \in Ops, NEW rs \in SUBSET Rows, BeginOperation(o, rs),
             UNCHANGED <<ship, job>>
      PROVE  ChargeInv'
  <2>1. /\ \A r \in Rows : op'[o].rows[r].in => ~op'[o].rows[r].funded
        /\ \A p \in Ops \ {o} : op'[p] = op[p]
    BY <1>0, <1>7 DEF BeginOperation, Entry, NoEntry
  <2>2. \A p \in Ops, r \in Rows : Funded(p, r)' => Funded(p, r)
    BY <2>1 DEF Funded
  <2> QED
    BY <1>1, <1>7, <2>2, NobodyMoves
<1>8. ASSUME NEW o \in Ops, Finalize(o), UNCHANGED <<ship, job>> PROVE ChargeInv'
  <2>1. /\ op[o].status = "PROCESSING" /\ op'[o].rows = op[o].rows
        /\ \A p \in Ops \ {o} : op'[p] = op[p]
    BY <1>0, <1>8 DEF Finalize, OpType
  <2>2. \A p \in Ops, r \in Rows : Funded(p, r)' => Funded(p, r)
    BY <2>1 DEF Funded
  <2> QED
    BY <1>1, <1>8, <2>2, NobodyMoves
<1>9. ASSUME NEW o \in Ops, CommitUndo(o) PROVE ChargeInv'
  <2>1. Torn = FALSE
    BY <1>9, UndoneStays DEF Sound, NoneUndone
  <2> QED
    BY <1>1, <1>9, <2>1, CommitCharges
<1> QED
  BY <1>2, <1>3, <1>4, <1>5, <1>6, <1>7, <1>8, <1>9, StepsOfTheOffice

(* What financial_status says of a shipment is true of its account, whatever *)
(* mixture of saves, deferred postings, lifecycle postings and undos met on  *)
(* it: as long as no handler stops between charge and tag, or, if one may,   *)
(* as long as nothing is undone.                                             *)
THEOREM StatusIsTrue ==
  Spec => [](Torn = FALSE \/ NoneUndone => FinancialStatusIsTrue)
<1> DEFINE I == DeferredNameNone /\ (Sound => ChargeInv)
<1>1. Init => I
  <2> SUFFICES ASSUME Init PROVE I
    OBVIOUS
  <2>1. /\ \A j \in Jobs : job[j] = Idle
        /\ \A o \in Ops : op[o].status = "NONE"
        /\ \A n \in Receipts : ship[n].fin = "UNPOSTED" /\ ship[n].charges = NoCharge
    BY DEF Init, PostInit
  <2>2. DeferredNameNone
    BY <2>1 DEF DeferredNameNone
  <2>3. FinancialStatusIsTrue /\ NoneUnposted
    BY <2>1 DEF FinancialStatusIsTrue, NoneUnposted
  <2>4. ClaimsCount /\ EntriesCount
    BY <2>1 DEF ClaimsCount, EntriesCount, Claims, Funded, Idle
  <2> QED
    BY <2>2, <2>3, <2>4 DEF ChargeInv
<1>2. OfficeInv /\ I /\ [Next]_vars => I'
  <2> SUFFICES ASSUME OfficeInv, I, [Next]_vars PROVE I'
    OBVIOUS
  <2>1. Sound' => Sound
    BY UndoneStays DEF Sound, NoneUndone
  <2> QED
    BY <2>1, DeferredNameNoneStep, ChargeStep
<1>3. I => (Torn = FALSE \/ NoneUndone => FinancialStatusIsTrue)
  BY DEF ChargeInv, Sound
<1> HIDE DEF I
<1> QED
  BY <1>1, <1>2, <1>3, OfficeIsInOrder, PTL DEF Spec

=============================================================================
