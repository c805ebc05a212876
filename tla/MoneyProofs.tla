------------------------------ MODULE MoneyProofs ------------------------------
(***************************************************************************)
(* Proofs about money: the Stripe books and donation receipts              *)
(* (StripeLedger, DonationReceipts), and volunteers' honoraria             *)
(* (Honoraria).                                                            *)
(*                                                                         *)
(* Two properties bound a sum over rows, the refunds of a charge and the   *)
(* honoraria of a year; the first part proves what they need of sums.      *)
(***************************************************************************)
EXTENDS StripeLedger, Honoraria, FiniteSetTheorems, WellFoundedInduction, TLAPS

----------------------------------------------------------------------------
(* Sums.  MapThenSumSet recurs over the subsets of a set.  That the        *)
(* recursion has one solution is proved by looking at a smallest set for   *)
(* which it would not, and so is that the order of the terms is of no      *)
(* account.                                                                *)

Pick(s) == CHOOSE x \in s : TRUE

\* g adds up f over the subsets of T.
Adds(f, T, g) ==
  g = [s \in SUBSET T |-> IF s = {} THEN 0 ELSE f[Pick(s)] + g[s \ {Pick(s)}]]

Adder(f, T) == CHOOSE g : Adds(f, T, g)
Total(f, T) == Adder(f, T)[T]

\* Of the subsets of a finite set with some property one is smallest.
LEMMA SmallestSubset ==
  ASSUME NEW S, IsFiniteSet(S), NEW F, F \subseteq SUBSET S, F # {}
  PROVE  \E T \in F : \A U \in SUBSET T : U # T => U \notin F
<1>1. PICK T \in F : \A U \in F : <<U, T>> \notin StrictSubsetOrdering(S)
  <2>1. IsWellFoundedOn(StrictSubsetOrdering(S), SUBSET S)
    BY FS_StrictSubsetOrderingWellFounded, FS_FiniteSubsetsOfFinite
  <2> QED BY <2>1, WFMin
<1> QED BY <1>1 DEF StrictSubsetOrdering

\* The element the sums take first is one of theirs.
LEMMA PickIn == \A s : s # {} => Pick(s) \in s
BY DEF Pick

\* The recursion has at most one solution.
LEMMA AdderUnique ==
  ASSUME NEW f, NEW T, IsFiniteSet(T), NEW g, NEW h, Adds(f, T, g), Adds(f, T, h)
  PROVE  g = h
<1> DEFINE Apart == {s \in SUBSET T : g[s] # h[s]}
<1>1. SUFFICES ASSUME Apart # {} PROVE FALSE
  <2>1. g = [s \in SUBSET T |-> g[s]] /\ h = [s \in SUBSET T |-> h[s]]
    BY DEF Adds
  <2> QED BY <2>1
<1>2. PICK s \in Apart : \A u \in SUBSET s : u # s => u \notin Apart
  <2> HIDE DEF Apart
  <2>1. Apart \subseteq SUBSET T BY DEF Apart
  <2> QED BY <1>1, <2>1, SmallestSubset
<1>3. /\ g[s] = IF s = {} THEN 0 ELSE f[Pick(s)] + g[s \ {Pick(s)}]
      /\ h[s] = IF s = {} THEN 0 ELSE f[Pick(s)] + h[s \ {Pick(s)}]
  BY DEF Adds
<1>4. s # {} BY <1>3
<1>5. s \ {Pick(s)} \notin Apart BY <1>2, <1>4, PickIn
<1> QED BY <1>2, <1>3, <1>4, <1>5

\* Its restriction to a subset is the solution there.
LEMMA AdderRestricts ==
  ASSUME NEW f, NEW T, NEW g, Adds(f, T, g), NEW U \in SUBSET T
  PROVE  Adds(f, U, [s \in SUBSET U |-> g[s]])
<1> DEFINE r == [s \in SUBSET U |-> g[s]]
<1>1. ASSUME NEW s \in SUBSET U
      PROVE  r[s] = IF s = {} THEN 0 ELSE f[Pick(s)] + r[s \ {Pick(s)}]
  BY DEF Adds
<1> QED BY <1>1 DEF Adds

\* The recursion has a solution on every finite set.
LEMMA AdderExists ==
  ASSUME NEW f, NEW S, IsFiniteSet(S)
  PROVE  Adds(f, S, Adder(f, S))
<1> DEFINE Without == {T \in SUBSET S : ~\E g : Adds(f, T, g)}
<1>1. SUFFICES Without = {}
  BY DEF Adder
<1>2. SUFFICES ASSUME Without # {} PROVE FALSE
  OBVIOUS
<1>3. PICK T \in Without : \A U \in SUBSET T : U # T => U \notin Without
  <2> HIDE DEF Without
  <2>1. Without \subseteq SUBSET S BY DEF Without
  <2> QED BY <1>2, <2>1, SmallestSubset
<1>4. \A U \in SUBSET T : U # T => Adds(f, U, Adder(f, U)) /\ IsFiniteSet(U)
  BY <1>3, FS_Subset DEF Adder
<1> DEFINE val(s) == IF s = {} THEN 0 ELSE f[Pick(s)] + Total(f, s \ {Pick(s)})
           g == [s \in SUBSET T |-> val(s)]
<1>5. ASSUME NEW U \in SUBSET T, U # T PROVE Total(f, U) = val(U)
  <2>1. Adds(f, U, Adder(f, U)) /\ IsFiniteSet(U) BY <1>4, <1>5
  <2>2. Adder(f, U)[U] = IF U = {} THEN 0 ELSE f[Pick(U)] + Adder(f, U)[U \ {Pick(U)}]
    BY <2>1 DEF Adds
  <2>3. ASSUME U # {} PROVE Adder(f, U)[U \ {Pick(U)}] = Total(f, U \ {Pick(U)})
    <3> DEFINE V == U \ {Pick(U)}
    <3>1. V \in SUBSET U /\ V \in SUBSET T /\ V # T BY <1>5
    <3>2. Adds(f, V, [s \in SUBSET V |-> Adder(f, U)[s]])
      BY <2>1, <3>1, AdderRestricts
    <3>3. Adds(f, V, Adder(f, V)) /\ IsFiniteSet(V) BY <1>4, <3>1
    <3>4. [s \in SUBSET V |-> Adder(f, U)[s]] = Adder(f, V)
      BY <3>2, <3>3, AdderUnique
    <3>5. Adder(f, U)[V] = Adder(f, V)[V] BY <3>4
    <3> QED BY <3>5 DEF Total
  <2> QED BY <2>2, <2>3 DEF Total
<1>6. ASSUME NEW s \in SUBSET T
      PROVE  g[s] = IF s = {} THEN 0 ELSE f[Pick(s)] + g[s \ {Pick(s)}]
  <2>1. CASE s = {} BY <2>1
  <2>2. CASE s # {}
    <3>1. s \ {Pick(s)} \in SUBSET T /\ s \ {Pick(s)} # T BY <2>2, PickIn
    <3>2. Total(f, s \ {Pick(s)}) = val(s \ {Pick(s)}) BY <1>5, <3>1
    <3>3. g[s \ {Pick(s)}] = val(s \ {Pick(s)}) BY <3>1
    <3>4. g[s] = f[Pick(s)] + Total(f, s \ {Pick(s)}) BY <2>2
    <3> QED BY <2>2, <3>2, <3>3, <3>4
  <2> QED BY <2>1, <2>2
<1>7. Adds(f, T, g)
  <2> DEFINE q == [s \in SUBSET T |-> IF s = {} THEN 0 ELSE f[Pick(s)] + g[s \ {Pick(s)}]]
  <2>1. g = q
    <3> HIDE DEF val
    <3>1. \A s \in SUBSET T : g[s] = q[s] BY <1>6
    <3> QED BY <3>1
  <2> HIDE DEF g
  <2> QED BY <2>1 DEF Adds
<1> QED BY <1>3, <1>7

\* Nothing adds up to 0, and a sum is a term and the sum of the others.
LEMMA TotalStep ==
  ASSUME NEW f, NEW T, IsFiniteSet(T)
  PROVE  Total(f, T) = IF T = {} THEN 0 ELSE f[Pick(T)] + Total(f, T \ {Pick(T)})
<1>1. Adds(f, T, Adder(f, T)) BY AdderExists
<1>2. Total(f, T) = IF T = {} THEN 0 ELSE f[Pick(T)] + Adder(f, T)[T \ {Pick(T)}]
  BY <1>1 DEF Adds, Total
<1>3. ASSUME T # {} PROVE Adder(f, T)[T \ {Pick(T)}] = Total(f, T \ {Pick(T)})
  <2> DEFINE V == T \ {Pick(T)}
  <2>1. V \in SUBSET T /\ IsFiniteSet(V) BY FS_Subset
  <2>2. Adds(f, V, [s \in SUBSET V |-> Adder(f, T)[s]])
    BY <1>1, <2>1, AdderRestricts
  <2>3. [s \in SUBSET V |-> Adder(f, T)[s]] = Adder(f, V)
    BY <2>1, <2>2, AdderExists, AdderUnique
  <2>4. Adder(f, T)[V] = Adder(f, V)[V] BY <2>3
  <2> QED BY <2>4 DEF Total
<1> QED BY <1>2, <1>3

\* A sum of natural numbers is one.
LEMMA TotalType ==
  ASSUME NEW f, NEW T, IsFiniteSet(T), \A x \in T : f[x] \in Nat
  PROVE  Total(f, T) \in Nat
<1> DEFINE Bad == {U \in SUBSET T : Total(f, U) \notin Nat}
<1>1. SUFFICES ASSUME Bad # {} PROVE FALSE
  OBVIOUS
<1>2. PICK U \in Bad : \A V \in SUBSET U : V # U => V \notin Bad
  <2> HIDE DEF Bad
  <2>1. Bad \subseteq SUBSET T BY DEF Bad
  <2> QED BY <1>1, <2>1, SmallestSubset
<1>3. IsFiniteSet(U) BY FS_Subset
<1>4. Total(f, U) = IF U = {} THEN 0 ELSE f[Pick(U)] + Total(f, U \ {Pick(U)})
  BY <1>3, TotalStep
<1>5. U # {} BY <1>4
<1>6. f[Pick(U)] \in Nat /\ Total(f, U \ {Pick(U)}) \in Nat
  BY <1>2, <1>5, PickIn
<1> QED BY <1>4, <1>5, <1>6

\* Equal terms have equal sums.
LEMMA TotalSame ==
  ASSUME NEW f, NEW h, NEW T, IsFiniteSet(T), \A x \in T : f[x] = h[x]
  PROVE  Total(f, T) = Total(h, T)
<1> DEFINE Bad == {U \in SUBSET T : Total(f, U) # Total(h, U)}
<1>1. SUFFICES ASSUME Bad # {} PROVE FALSE
  OBVIOUS
<1>2. PICK U \in Bad : \A V \in SUBSET U : V # U => V \notin Bad
  <2> HIDE DEF Bad
  <2>1. Bad \subseteq SUBSET T BY DEF Bad
  <2> QED BY <1>1, <2>1, SmallestSubset
<1>3. IsFiniteSet(U) BY FS_Subset
<1>4. /\ Total(f, U) = IF U = {} THEN 0 ELSE f[Pick(U)] + Total(f, U \ {Pick(U)})
      /\ Total(h, U) = IF U = {} THEN 0 ELSE h[Pick(U)] + Total(h, U \ {Pick(U)})
  BY <1>3, TotalStep
<1>5. U # {} BY <1>4
<1>6. f[Pick(U)] = h[Pick(U)] /\ Total(f, U \ {Pick(U)}) = Total(h, U \ {Pick(U)})
  BY <1>2, <1>5, PickIn
<1> QED BY <1>2, <1>4, <1>5, <1>6

\* Any term can be taken out first.
LEMMA TotalRemove ==
  ASSUME NEW f, NEW T, IsFiniteSet(T), \A y \in T : f[y] \in Nat, NEW x \in T
  PROVE  Total(f, T) = f[x] + Total(f, T \ {x})
<1> DEFINE Bad == {U \in SUBSET T : \E z \in U : Total(f, U) # f[z] + Total(f, U \ {z})}
<1>1. SUFFICES ASSUME Bad # {} PROVE FALSE
  OBVIOUS
<1>2. PICK U \in Bad : \A V \in SUBSET U : V # U => V \notin Bad
  <2> HIDE DEF Bad
  <2>1. Bad \subseteq SUBSET T BY DEF Bad
  <2> QED BY <1>1, <2>1, SmallestSubset
<1>3. PICK z \in U : Total(f, U) # f[z] + Total(f, U \ {z})
  BY <1>2
<1> DEFINE y == Pick(U)
           W == U \ {y, z}
<1>4. y \in U /\ Total(f, U) = f[y] + Total(f, U \ {y})
  BY <1>3, TotalStep, FS_Subset, PickIn
<1>5. y # z BY <1>3, <1>4
<1>6. Total(f, U \ {y}) = f[z] + Total(f, W)
  <2>1. U \ {y} \notin Bad /\ z \in U \ {y} BY <1>2, <1>4, <1>5
  <2>2. (U \ {y}) \ {z} = W OBVIOUS
  <2> HIDE DEF y, W
  <2> QED BY <2>1, <2>2
<1>7. Total(f, U \ {z}) = f[y] + Total(f, W)
  <2>1. U \ {z} \notin Bad /\ y \in U \ {z} BY <1>2, <1>3, <1>4, <1>5
  <2>2. (U \ {z}) \ {y} = W OBVIOUS
  <2> HIDE DEF y, W
  <2> QED BY <2>1, <2>2
<1>8. f[y] \in Nat /\ f[z] \in Nat /\ Total(f, W) \in Nat
  <2>1. IsFiniteSet(W) /\ \A q \in W : f[q] \in Nat BY FS_Subset
  <2> HIDE DEF W
  <2> QED BY <2>1, <1>4, TotalType
<1> HIDE DEF y, W
<1> QED BY <1>3, <1>4, <1>6, <1>7, <1>8

\* A part of a sum of natural numbers is no more than the sum.
LEMMA TotalMonotone ==
  ASSUME NEW f, NEW T, IsFiniteSet(T), \A y \in T : f[y] \in Nat, NEW U \in SUBSET T
  PROVE  Total(f, U) <= Total(f, T)
<1> DEFINE Bad == {V \in SUBSET T : U \subseteq V /\ ~(Total(f, U) <= Total(f, V))}
<1>1. SUFFICES ASSUME Bad # {} PROVE FALSE
  OBVIOUS
<1>2. PICK V \in Bad : \A W \in SUBSET V : W # V => W \notin Bad
  <2> HIDE DEF Bad
  <2>1. Bad \subseteq SUBSET T BY DEF Bad
  <2> QED BY <1>1, <2>1, SmallestSubset
<1>3. Total(f, U) \in Nat /\ Total(f, V) \in Nat /\ IsFiniteSet(V)
  BY <1>2, FS_Subset, TotalType
<1>4. PICK x \in V : x \notin U
  <2>1. ASSUME U = V PROVE FALSE
    <3>1. Total(f, U) = Total(f, V) BY <2>1
    <3>2. ~(Total(f, U) <= Total(f, V)) BY <1>2
    <3> QED BY <3>1, <3>2, <1>3
  <2>2. U \subseteq V BY <1>2
  <2> QED BY <2>1, <2>2
<1>5. Total(f, V) = f[x] + Total(f, V \ {x})
  BY <1>3, TotalRemove
<1>6. Total(f, U) <= Total(f, V \ {x})
  BY <1>2, <1>4
<1>7. Total(f, V \ {x}) \in Nat /\ f[x] \in Nat
  <2>1. IsFiniteSet(V \ {x}) /\ \A y \in V \ {x} : f[y] \in Nat BY <1>3, FS_Subset
  <2> QED BY <2>1, TotalType
<1> QED BY <1>2, <1>3, <1>5, <1>6, <1>7


\* The models' sums, whatever the terms are written as.
LEMMA SumIsTotal ==
  ASSUME NEW f, NEW S
  PROVE  MapThenSumSet(LAMBDA x : f[x], S) = Total(f, S)
BY DEF MapThenSumSet, MapThenFoldSet, Total, Adder, Adds, Pick
----------------------------------------------------------------------------
(* Honoraria.                                                              *)

HonorariumRow == [kind: Kinds, amount: Nat, t4a: BOOLEAN]
PayerRow == [op: {"idle", "create", "edit"}, of: SUBSET Payments, row: HonorariumRow,
             met: BOOLEAN]
HonorariaTypes == honorarium \in [Payments -> HonorariumRow] /\ payer \in [Payers -> PayerRow]

\* Two requests at work together have met, since one of them is an edit.
TogetherMeet == \A q, r \in AtWork : q # r => payer[q].met /\ payer[r].met

\* What a request that met no other will write is what clean() would make of it now.
StillClean ==
  \A r \in AtWork : ~payer[r].met =>
    \E p \in Payments, kind \in {"counted", "apart"}, amount \in Amounts :
      payer[r].of = {p} /\ payer[r].row \in Cleaned(p, kind, amount)

Unflagged == {p \in Counted : ~honorarium[p].t4a}

\* A row is flagged when it or an earlier one reaches the threshold, so those without
\* a flag stay below it together.
YearInBounds == ~raced => Ytd(Counted) < HardBlock /\ Ytd(Unflagged) < T4A

HonorariaInv == HonorariaTypes /\ TogetherMeet /\ StillClean /\ YearInBounds

\* The year's sum as a sum of the rows' amounts.
PaidAmount == [p \in Payments |-> honorarium[p].amount]

\* The sum over the rows of a year adds up their amounts (Honorarium.clean).
LEMMA YtdIsTotal ==
  ASSUME NEW rows \in SUBSET Payments
  PROVE  Ytd(rows) = Total(PaidAmount, rows)
<1> DEFINE Is(g) == g = [s \in SUBSET rows |-> IF s = {} THEN 0
                           ELSE honorarium[Pick(s)].amount + g[s \ {Pick(s)}]]
<1>1. IsFiniteSet(rows) BY HonorariaAssumption, FS_Subset
<1>2. ASSUME NEW g PROVE Is(g) <=> Adds(PaidAmount, rows, g)
  <2>1. ASSUME NEW s \in SUBSET rows, s # {} PROVE PaidAmount[Pick(s)] = honorarium[Pick(s)].amount
    BY <2>1, PickIn DEF PaidAmount
  <2>2. [s \in SUBSET rows |-> IF s = {} THEN 0 ELSE honorarium[Pick(s)].amount + g[s \ {Pick(s)}]]
        = [s \in SUBSET rows |-> IF s = {} THEN 0 ELSE PaidAmount[Pick(s)] + g[s \ {Pick(s)}]]
    BY <2>1
  <2> QED BY <2>2 DEF Adds
<1>3. Ytd(rows) = (CHOOSE g : Is(g))[rows]
  BY DEF Ytd, MapThenSumSet, MapThenFoldSet, Pick
<1>4. Is(Adder(PaidAmount, rows)) BY <1>1, <1>2, AdderExists
<1>5. Is(CHOOSE g : Is(g)) BY <1>4
<1>6. (CHOOSE g : Is(g)) = Adder(PaidAmount, rows)
  <2> HIDE DEF Is
  <2>1. Adds(PaidAmount, rows, CHOOSE g : Is(g)) BY <1>2, <1>5
  <2>2. Adds(PaidAmount, rows, Adder(PaidAmount, rows)) BY <1>2, <1>4
  <2> QED BY <2>1, <2>2, <1>1, AdderUnique
<1> QED BY <1>3, <1>6 DEF Total

YtdSums == \A rows \in SUBSET Payments : Ytd(rows) = Total(PaidAmount, rows)

\* Ytd of clean() is such a sum, before a step ...
LEMMA YtdNow == YtdSums
BY YtdIsTotal DEF YtdSums

\* ... and after it.
LEMMA YtdNext == YtdSums'
BY YtdNow, PTL

\* A cleaned row: its kind and amount are those asked for, and a counted one is below
\* the hard block with the rest of the year, and below the threshold unless flagged.
LEMMA CleanedRow ==
  ASSUME HonorariaTypes, NEW p \in Payments, NEW kind \in {"counted", "apart"},
         NEW amount \in Nat, NEW row \in Cleaned(p, kind, amount)
  PROVE  /\ row \in HonorariumRow /\ row.kind = kind /\ row.amount = amount
         /\ kind = "counted" =>
              /\ ~(Projected(p, amount) >= HardBlock)
              /\ ~row.t4a => ~(Projected(p, amount) >= T4A)
<1>1. honorarium[p].t4a \in BOOLEAN
  BY DEF HonorariaTypes, HonorariumRow
<1> DEFINE flag == honorarium[p].t4a
           over == Projected(p, amount) >= T4A
<1>2. CASE kind = "apart"
  <2>1. row = [kind |-> "apart", amount |-> amount, t4a |-> flag]
    BY <1>2 DEF Cleaned
  <2> HIDE DEF flag
  <2>2. flag \in BOOLEAN BY <1>1 DEF flag
  <2>3. row \in HonorariumRow BY <2>1, <2>2 DEF HonorariumRow, Kinds
  <2> QED BY <1>2, <2>1, <2>3
<1>3. CASE kind = "counted"
  <2>1. /\ ~(Projected(p, amount) >= HardBlock)
        /\ row = [kind |-> "counted", amount |-> amount, t4a |-> flag \/ over]
    BY <1>3 DEF Cleaned
  <2> HIDE DEF flag, over
  <2>2. (flag \/ over) \in BOOLEAN OBVIOUS
  <2>3. row \in HonorariumRow BY <2>1, <2>2 DEF HonorariumRow, Kinds
  <2>4. row.t4a = (flag \/ over) BY <2>1
  <2>5. ~row.t4a => ~over BY <2>4
  <2> QED BY <1>3, <2>1, <2>3, <2>5 DEF over
<1> QED BY <1>2, <1>3

\* A volunteer without honoraria satisfies the invariant.
LEMMA HonorariaInvInit == HonorariaInit => HonorariaInv
<1> SUFFICES ASSUME HonorariaInit PROVE HonorariaInv
  OBVIOUS
<1>1. NoPayment \in HonorariumRow BY DEF NoPayment, HonorariumRow, Kinds
<1>2. NoPayer \in PayerRow BY <1>1 DEF NoPayer, PayerRow
<1>3. HonorariaTypes BY <1>1, <1>2 DEF HonorariaInit, HonorariaTypes
<1>4. AtWork = {} BY DEF HonorariaInit, AtWork, NoPayer
<1>5. Counted = {} /\ Unflagged = {} BY DEF HonorariaInit, Counted, Unflagged, NoPayment
<1>6. Total(PaidAmount, {}) = 0 BY TotalStep, FS_EmptySet
<1>7. Ytd({}) = 0 BY <1>6, YtdNow DEF YtdSums
<1>8. YearInBounds BY <1>5, <1>7, HonorariaAssumption DEF YearInBounds
<1> QED BY <1>3, <1>4, <1>8 DEF HonorariaInv, TogetherMeet, StillClean

\* A request cleans its row: what it met and who met it are noted on both sides.
LEMMA CleaningKeeps ==
  ASSUME HonorariaInv, NEW r \in Payers, NEW op \in {"create", "edit"}, NEW p \in Payments,
         NEW kind \in {"counted", "apart"}, NEW amount \in Amounts,
         NEW row \in Cleaned(p, kind, amount), r \notin AtWork,
         op = "create" => ProfileFree,
         CleanRow(r, op, p, row), UNCHANGED <<honorarium, raced>>
  PROVE  HonorariaInv'
<1>1. row \in HonorariumRow BY CleanedRow, HonorariaAssumption DEF HonorariaInv
<1>2. \A q \in Payers : payer[q] \in PayerRow BY DEF HonorariaInv, HonorariaTypes
<1>3. /\ payer'[r] = [op |-> op, of |-> {p}, row |-> row, met |-> Meets(r, op) # {}]
      /\ \A q \in Payers \ {r} :
           payer'[q] = [payer[q] EXCEPT !.met = @ \/ q \in Meets(r, op)]
  BY DEF CleanRow
<1>4. payer'[r] \in PayerRow
  <2>1. (Meets(r, op) # {}) \in BOOLEAN OBVIOUS
  <2> QED BY <1>1, <1>3, <2>1 DEF PayerRow
<1>5. ASSUME NEW q \in Payers \ {r}
      PROVE  /\ payer'[q] \in PayerRow
             /\ payer'[q].op = payer[q].op /\ payer'[q].of = payer[q].of
             /\ payer'[q].row = payer[q].row
             /\ payer[q].met \/ q \in Meets(r, op) => payer'[q].met
             /\ payer'[q].met => payer[q].met \/ q \in Meets(r, op)
  <2>1. PICK b \in BOOLEAN : b = (payer[q].met \/ q \in Meets(r, op))
    <3> QED BY <1>2 DEF PayerRow
  <2>2. payer'[q] = [payer[q] EXCEPT !.met = b] BY <1>3, <2>1
  <2>3. payer[q] \in PayerRow BY <1>2
  <2>4. /\ payer'[q] \in PayerRow
        /\ payer'[q].op = payer[q].op /\ payer'[q].of = payer[q].of
        /\ payer'[q].row = payer[q].row /\ payer'[q].met = b
    BY <2>2, <2>3 DEF PayerRow
  <2> QED BY <2>1, <2>4
<1>6. HonorariaTypes'
  <2>1. payer' \in [Payers -> PayerRow]
    <3>1. \A q \in Payers : payer'[q] \in PayerRow BY <1>4, <1>5
    <3>2. payer' = [q \in Payers |-> payer'[q]] BY DEF CleanRow
    <3> QED BY <3>1, <3>2
  <2> QED BY <2>1 DEF HonorariaInv, HonorariaTypes, PayerRow, HonorariumRow
<1>7. AtWork' = AtWork \cup {r}
  BY <1>3, <1>5 DEF AtWork
<1>8. ASSUME NEW q \in AtWork PROVE q \in Meets(r, op)
  <2>1. q # r /\ payer[q].op \in {"create", "edit"} BY <1>2, <1>8 DEF AtWork, PayerRow
  <2> QED BY <2>1, <1>8 DEF Meets, ProfileFree
<1>9. \A q \in AtWork : payer'[q].met
  BY <1>5, <1>8 DEF AtWork
<1>10. TogetherMeet'
  <2>1. AtWork # {} => payer'[r].met
    <3>1. SUFFICES ASSUME AtWork # {} PROVE payer'[r].met
      OBVIOUS
    <3>2. (Meets(r, op) # {}) = TRUE BY <1>8, <3>1
    <3>3. payer'[r] = [op |-> op, of |-> {p}, row |-> row, met |-> TRUE] BY <1>3, <3>2
    <3> QED BY <3>3
  <2> QED BY <1>7, <1>9, <2>1 DEF TogetherMeet
<1>11. StillClean'
  <2>1. SUFFICES ASSUME NEW q \in AtWork', ~payer'[q].met
        PROVE \E a \in Payments, k \in {"counted", "apart"}, m \in Amounts :
                payer'[q].of = {a} /\ payer'[q].row \in Cleaned(a, k, m)'
    BY DEF StillClean
  <2>2. q = r BY <1>7, <1>9, <2>1
  <2>3. Cleaned(p, kind, amount)' = Cleaned(p, kind, amount)
    <3>1. Ytd(Counted \ {p})' = Ytd(Counted \ {p})
      <4>1. Counted' = Counted /\ PaidAmount' = PaidAmount BY DEF Counted, PaidAmount
      <4>2. Counted \ {p} \in SUBSET Payments BY DEF Counted
      <4> QED BY <4>1, <4>2, YtdNow, YtdNext DEF YtdSums
    <3> QED BY <3>1 DEF Cleaned, Projected
  <2>4. payer'[r].of = {p} /\ payer'[r].row \in Cleaned(p, kind, amount)' BY <1>3, <2>3
  <2> QED BY <2>2, <2>4
<1>12. YearInBounds'
  <2>1. Counted' = Counted /\ Unflagged' = Unflagged /\ PaidAmount' = PaidAmount
    BY DEF Counted, PaidAmount, Unflagged
  <2>2. Counted \in SUBSET Payments /\ Unflagged \in SUBSET Payments
    BY DEF Counted, Unflagged
  <2>3. Ytd(Counted)' = Ytd(Counted) /\ Ytd(Unflagged)' = Ytd(Unflagged)
    BY <2>1, <2>2, YtdNow, YtdNext DEF YtdSums
  <2> QED BY <2>3 DEF HonorariaInv, YearInBounds
<1> QED BY <1>6, <1>10, <1>11, <1>12 DEF HonorariaInv

\* A row is written.  A request that met no other writes into the year it has added up.
LEMMA WritingKeeps ==
  ASSUME HonorariaInv, NEW r \in Payers, WriteRow(r)
  PROVE  HonorariaInv'
<1>1. /\ \A q \in Payers : payer[q] \in PayerRow
      /\ \A p \in Payments : honorarium[p] \in HonorariumRow
  BY DEF HonorariaInv, HonorariaTypes
<1>2. r \in AtWork /\ payer'[r] = NoPayer /\ \A q \in Payers \ {r} : payer'[q] = payer[q]
  BY DEF WriteRow, HonorariaInv, HonorariaTypes
<1>3. AtWork' = AtWork \ {r}
  BY <1>2 DEF AtWork, NoPayer
<1>4. NoPayer \in PayerRow
  BY DEF NoPayer, NoPayment, PayerRow, HonorariumRow, Kinds
<1>5. HonorariaTypes'
  <2>1. payer' \in [Payers -> PayerRow]
    BY <1>1, <1>4 DEF WriteRow, HonorariaInv, HonorariaTypes
  <2>2. payer[r].row \in HonorariumRow BY <1>1 DEF PayerRow
  <2>3. honorarium' \in [Payments -> HonorariumRow]
    BY <1>1, <2>2 DEF WriteRow
  <2> QED BY <2>1, <2>3 DEF HonorariaTypes, PayerRow, HonorariumRow
<1>6. \A q \in AtWork' : payer'[q] = payer[q] /\ payer[q].met
  BY <1>2, <1>3 DEF HonorariaInv, TogetherMeet, AtWork
<1>7. TogetherMeet' /\ StillClean'
  BY <1>6 DEF TogetherMeet, StillClean
<1>8. YearInBounds'
  <2>1. CASE raced \/ payer[r].met
    BY <2>1 DEF WriteRow, YearInBounds
  <2>2. CASE ~raced /\ ~payer[r].met
    <3>1. PICK p \in Payments, kind \in {"counted", "apart"}, amount \in Amounts :
            payer[r].of = {p} /\ payer[r].row \in Cleaned(p, kind, amount)
      BY <1>2, <2>2 DEF HonorariaInv, StillClean
    <3> DEFINE row == payer[r].row
               F == PaidAmount
               G == PaidAmount'
    <3>2. /\ row \in HonorariumRow /\ row.kind = kind /\ row.amount = amount
          /\ kind = "counted" =>
               /\ ~(Projected(p, amount) >= HardBlock)
               /\ ~row.t4a => ~(Projected(p, amount) >= T4A)
      BY <3>1, CleanedRow, HonorariaAssumption DEF HonorariaInv
    <3>3. /\ honorarium'[p] = row
          /\ \A q \in Payments \ {p} : honorarium'[q] = honorarium[q]
      BY <3>1 DEF WriteRow
    <3>4. /\ \A q \in Payments : F[q] = honorarium[q].amount /\ G[q] = honorarium'[q].amount
          /\ \A q \in Payments : F[q] \in Nat /\ G[q] \in Nat
      BY <1>1, <3>2, <3>3 DEF PaidAmount, HonorariumRow
    <3>5. /\ G[p] = amount /\ amount \in Nat /\ \A q \in Payments \ {p} : G[q] = F[q]
      BY <3>2, <3>3, <3>4, HonorariaAssumption
    <3>6. /\ Counted \in SUBSET Payments /\ Unflagged \in SUBSET Payments
          /\ Counted' \in SUBSET Payments /\ Unflagged' \in SUBSET Payments
          /\ Unflagged' \in SUBSET Counted'
      BY DEF Counted, Unflagged
    <3>7. \A s \in SUBSET Payments : IsFiniteSet(s) /\ IsFiniteSet(s \ {p})
      BY HonorariaAssumption, FS_Subset
    <3>8. /\ Ytd(Counted) = Total(F, Counted) /\ Ytd(Unflagged) = Total(F, Unflagged)
          /\ Ytd(Counted)' = Total(G, Counted') /\ Ytd(Unflagged)' = Total(G, Unflagged')
          /\ Ytd(Counted \ {p}) = Total(F, Counted \ {p})
      BY <3>6, YtdNow, YtdNext DEF YtdSums
    <3>9. Total(F, Counted) < HardBlock /\ Total(F, Unflagged) < T4A
      BY <2>2, <3>8 DEF HonorariaInv, YearInBounds
    <3>10. ASSUME NEW s \in SUBSET Payments
           PROVE  /\ Total(F, s) \in Nat /\ Total(G, s) \in Nat
                  /\ Total(F, s \ {p}) \in Nat /\ Total(F, s \ {p}) <= Total(F, s)
                  /\ Total(G, s \ {p}) = Total(F, s \ {p})
      <4> HIDE DEF F, G
      <4>1. \A q \in s : F[q] \in Nat /\ G[q] \in Nat BY <3>4
      <4>2. \A q \in s \ {p} : F[q] \in Nat /\ G[q] = F[q] BY <3>4, <3>5
      <4>3. s \ {p} \in SUBSET s OBVIOUS
      <4>4. Total(F, s) \in Nat /\ Total(G, s) \in Nat BY <3>7, <4>1, TotalType
      <4>5. Total(F, s \ {p}) \in Nat BY <3>7, <4>2, TotalType
      <4>6. Total(F, s \ {p}) <= Total(F, s) BY <3>7, <4>1, <4>3, TotalMonotone
      <4>7. Total(G, s \ {p}) = Total(F, s \ {p}) BY <3>7, <4>2, TotalSame
      <4> QED BY <4>4, <4>5, <4>6, <4>7
    <3>11. CASE kind = "apart" \/ row.t4a
      <4>1. Unflagged' = Unflagged \ {p}
        <5>1. p \notin Unflagged'
          <6>1. honorarium'[p].kind # "counted" \/ honorarium'[p].t4a
            BY <3>2, <3>3, <3>11
          <6> QED BY <6>1 DEF Unflagged, Counted
        <5>2. ASSUME NEW q \in Payments \ {p} PROVE q \in Unflagged' <=> q \in Unflagged
          BY <3>3 DEF Unflagged, Counted
        <5> QED BY <3>6, <5>1, <5>2
      <4> HIDE DEF F, G
      <4>2. Total(G, Unflagged') = Total(F, Unflagged \ {p}) BY <3>6, <3>10, <4>1
      <4>3. Total(F, Unflagged \ {p}) <= Total(F, Unflagged) BY <3>6, <3>10
      <4>4. Total(G, Unflagged') < T4A
        BY <3>6, <3>9, <3>10, <4>2, <4>3, HonorariaAssumption
      <4>5. Total(G, Counted') < HardBlock
        <5>1. CASE kind = "apart"
          <6>1. Counted' = Counted \ {p}
            <7>1. p \notin Counted' BY <3>2, <3>3, <5>1 DEF Counted
            <7>2. \A q \in Payments \ {p} : q \in Counted' <=> q \in Counted
              BY <3>3 DEF Counted
            <7> QED BY <3>6, <7>1, <7>2
          <6>2. Total(G, Counted') = Total(F, Counted \ {p}) BY <3>6, <3>10, <6>1
          <6> QED BY <6>2, <3>6, <3>9, <3>10, HonorariaAssumption
        <5>2. CASE kind = "counted"
          <6>1. Counted' = Counted \cup {p}
            <7>1. p \in Counted' BY <3>2, <3>3, <5>2 DEF Counted
            <7>2. \A q \in Payments \ {p} : q \in Counted' <=> q \in Counted
              BY <3>3 DEF Counted
            <7> QED BY <3>6, <7>1, <7>2
          <6>2. \A q \in Counted' : G[q] \in Nat BY <3>4, <3>6
          <6>3. Total(G, Counted') = G[p] + Total(G, Counted' \ {p})
            BY <3>6, <3>7, <6>1, <6>2, TotalRemove
          <6>4. Counted' \ {p} = Counted \ {p} BY <6>1
          <6>5. Total(G, Counted') = Projected(p, amount)
            BY <3>5, <3>6, <3>8, <3>10, <6>3, <6>4 DEF Projected
          <6>6. Total(G, Counted') \in Nat BY <3>6, <3>10
          <6> QED BY <3>2, <5>2, <6>5, <6>6, HonorariaAssumption
        <5> QED BY <5>1, <5>2
      <4> QED BY <3>8, <4>4, <4>5 DEF YearInBounds
    <3>12. CASE kind = "counted" /\ ~row.t4a
      <4>1. Counted' = Counted \cup {p}
        <5>1. p \in Counted' BY <3>2, <3>3, <3>12 DEF Counted
        <5>2. \A q \in Payments \ {p} : q \in Counted' <=> q \in Counted
          BY <3>3 DEF Counted
        <5> QED BY <3>6, <5>1, <5>2
      <4> HIDE DEF F, G
      <4>2. \A q \in Counted' : G[q] \in Nat BY <3>4, <3>6
      <4>3. Total(G, Counted') = G[p] + Total(G, Counted' \ {p})
        BY <3>6, <3>7, <4>1, <4>2, TotalRemove
      <4>4. Counted' \ {p} = Counted \ {p} BY <4>1
      <4>5. Total(G, Counted') = Projected(p, amount)
        BY <3>5, <3>6, <3>8, <3>10, <4>3, <4>4 DEF Projected
      <4>6. Total(G, Counted') \in Nat /\ Total(G, Unflagged') \in Nat BY <3>6, <3>10
      <4>7. Total(G, Unflagged') <= Total(G, Counted')
        BY <3>6, <3>7, <4>2, TotalMonotone
      <4>8. Projected(p, amount) < HardBlock /\ Projected(p, amount) < T4A
        BY <3>2, <3>12, <4>5, <4>6, HonorariaAssumption
      <4>9. Total(G, Counted') < HardBlock /\ Total(G, Unflagged') < T4A
        BY <4>5, <4>6, <4>7, <4>8, HonorariaAssumption
      <4> QED BY <3>8, <4>9 DEF YearInBounds
    <3> QED BY <3>11, <3>12
  <2> QED BY <2>1, <2>2
<1> QED BY <1>5, <1>7, <1>8 DEF HonorariaInv

\* A request that fails leaves the year as it was.
LEMMA FailingKeeps ==
  ASSUME HonorariaInv, NEW r \in Payers, WriteFails(r)
  PROVE  HonorariaInv'
<1>1. /\ \A q \in Payers : payer[q] \in PayerRow
      /\ payer'[r] = NoPayer /\ \A q \in Payers \ {r} : payer'[q] = payer[q]
  BY DEF HonorariaInv, HonorariaTypes, WriteFails
<1>2. NoPayer \in PayerRow
  BY DEF NoPayer, NoPayment, PayerRow, HonorariumRow, Kinds
<1>3. HonorariaTypes'
  <2>1. payer' \in [Payers -> PayerRow]
    BY <1>1, <1>2 DEF WriteFails, HonorariaInv, HonorariaTypes
  <2> QED BY <2>1 DEF WriteFails, HonorariaInv, HonorariaTypes, PayerRow, HonorariumRow
<1>4. AtWork' = AtWork \ {r}
  BY <1>1 DEF AtWork, NoPayer
<1>5. TogetherMeet'
  BY <1>1, <1>4 DEF TogetherMeet, HonorariaInv, AtWork
<1>6. /\ Counted' = Counted /\ Unflagged' = Unflagged /\ PaidAmount' = PaidAmount
      /\ Counted \in SUBSET Payments /\ Unflagged \in SUBSET Payments
  BY DEF WriteFails, Counted, Unflagged, PaidAmount
<1>7. \A rows \in SUBSET Payments : Total(PaidAmount, rows)' = Total(PaidAmount, rows)
  BY <1>6
<1>8. \A p \in Payments, kind \in {"counted", "apart"}, amount \in Amounts :
        Cleaned(p, kind, amount)' = Cleaned(p, kind, amount)
  <2> SUFFICES ASSUME NEW p \in Payments, NEW kind \in {"counted", "apart"}, NEW amount \in Amounts
               PROVE  Cleaned(p, kind, amount)' = Cleaned(p, kind, amount)
    OBVIOUS
  <2>1. Ytd(Counted \ {p})' = Ytd(Counted \ {p})
    <3>1. Counted \ {p} \in SUBSET Payments BY <1>6
    <3> QED BY <1>6, <3>1, YtdNow, YtdNext DEF YtdSums
  <2> QED BY <2>1 DEF Cleaned, Projected, WriteFails
<1>9. StillClean'
  <2>1. \A q \in AtWork' : q \in AtWork /\ payer'[q] = payer[q] BY <1>1, <1>4 DEF AtWork
  <2> QED BY <1>8, <2>1 DEF StillClean, HonorariaInv
<1>10. YearInBounds'
  <2>1. Ytd(Counted)' = Ytd(Counted) /\ Ytd(Unflagged)' = Ytd(Unflagged)
    BY <1>6, YtdNow, YtdNext DEF YtdSums
  <2> QED BY <2>1 DEF HonorariaInv, YearInBounds, WriteFails
<1> QED BY <1>3, <1>5, <1>9, <1>10 DEF HonorariaInv

\* Creations, edits, writes and failures preserve the invariant.
LEMMA HonorariaInvStep == HonorariaInv /\ [HonorariaNext]_honorariaVars => HonorariaInv'
<1> SUFFICES ASSUME HonorariaInv, [HonorariaNext]_honorariaVars PROVE HonorariaInv'
  OBVIOUS
<1>1. ASSUME NEW r \in Payers, NEW p \in Payments, NEW a \in Amounts,
             NEW k \in Kinds \ {"absent"}, CreateHonorarium(r, p, a, k)
      PROVE  HonorariaInv'
  <2>1. PICK row \in Cleaned(p, k, a) : CleanRow(r, "create", p, row)
    BY <1>1 DEF CreateHonorarium
  <2>2. k \in {"counted", "apart"} BY DEF Kinds
  <2>3. r \notin AtWork /\ ProfileFree /\ UNCHANGED <<honorarium, raced>>
    BY <1>1 DEF CreateHonorarium
  <2> QED BY <2>1, <2>2, <2>3, CleaningKeeps
<1>2. ASSUME NEW r \in Payers, NEW p \in Payments, NEW a \in Amounts,
             NEW k \in Kinds \ {"absent"}, EditHonorarium(r, p, a, k)
      PROVE  HonorariaInv'
  <2>1. PICK row \in Cleaned(p, k, a) : CleanRow(r, "edit", p, row)
    BY <1>2 DEF EditHonorarium
  <2>2. k \in {"counted", "apart"} BY DEF Kinds
  <2>3. r \notin AtWork /\ UNCHANGED <<honorarium, raced>>
    BY <1>2 DEF EditHonorarium
  <2> QED BY <2>1, <2>2, <2>3, CleaningKeeps
<1>3. CASE UNCHANGED honorariaVars
  <2>1. Counted' = Counted /\ Unflagged' = Unflagged /\ PaidAmount' = PaidAmount /\ AtWork' = AtWork
        /\ Counted \in SUBSET Payments /\ Unflagged \in SUBSET Payments
    BY <1>3 DEF honorariaVars, Counted, Unflagged, PaidAmount, AtWork
  <2>2. Ytd(Counted)' = Ytd(Counted) /\ Ytd(Unflagged)' = Ytd(Unflagged)
    BY <2>1, YtdNow, YtdNext DEF YtdSums
  <2>3. YearInBounds' BY <1>3, <2>2 DEF YearInBounds, HonorariaInv, honorariaVars
  <2>4. \A p \in Payments, kind \in {"counted", "apart"}, amount \in Amounts :
          Cleaned(p, kind, amount)' = Cleaned(p, kind, amount)
    <3> SUFFICES ASSUME NEW p \in Payments, NEW kind \in {"counted", "apart"}, NEW amount \in Amounts
                 PROVE  Cleaned(p, kind, amount)' = Cleaned(p, kind, amount)
      OBVIOUS
    <3>1. Ytd(Counted \ {p})' = Ytd(Counted \ {p})
      <4>1. Counted \ {p} \in SUBSET Payments BY <2>1
      <4> QED BY <2>1, <4>1, YtdNow, YtdNext DEF YtdSums
    <3> QED BY <1>3, <3>1 DEF Cleaned, Projected, honorariaVars
  <2>5. StillClean' BY <1>3, <2>1, <2>4 DEF StillClean, HonorariaInv, honorariaVars
  <2>6. HonorariaTypes' /\ TogetherMeet'
    BY <1>3, <2>1 DEF HonorariaTypes, TogetherMeet, HonorariaInv, honorariaVars, PayerRow, HonorariumRow
  <2> QED BY <2>3, <2>5, <2>6 DEF HonorariaInv
<1> QED BY <1>1, <1>2, <1>3, WritingKeeps, FailingKeeps DEF HonorariaNext

\* The invariant of the honoraria holds in every reachable state
\* (create_honorarium, Honorarium.clean, the form of the back office).
THEOREM HonorariaInvariance == HonorariaSpec => []HonorariaInv
BY HonorariaInvInit, HonorariaInvStep, PTL DEF HonorariaSpec

\* Unless an edit overlaps another write, a volunteer's year stays below the hard
\* block and is flagged for a slip once it reaches the T4A threshold
\* (create_honorarium, Honorarium.clean).
THEOREM YearStaysBelow == HonorariaSpec => []CeilingHolds
<1>1. HonorariaInv => CeilingHolds
  <2> SUFFICES ASSUME HonorariaInv, ~raced PROVE
        /\ Ytd(Counted) < HardBlock
        /\ Ytd(Counted) >= T4A => \E p \in Counted : honorarium[p].t4a
    BY DEF CeilingHolds
  <2>1. Ytd(Counted) < HardBlock /\ Ytd(Unflagged) < T4A
    BY DEF HonorariaInv, YearInBounds
  <2>2. ASSUME \A p \in Counted : ~honorarium[p].t4a PROVE ~(Ytd(Counted) >= T4A)
    <3>1. Unflagged = Counted BY <2>2 DEF Unflagged
    <3>2. Counted \in SUBSET Payments /\ IsFiniteSet(Counted)
      BY HonorariaAssumption, FS_Subset DEF Counted
    <3>3. \A p \in Counted : PaidAmount[p] \in Nat
      BY DEF PaidAmount, Counted, HonorariaInv, HonorariaTypes, HonorariumRow
    <3>4. Ytd(Counted) \in Nat BY <3>2, <3>3, TotalType, YtdNow DEF YtdSums
    <3> QED BY <2>1, <3>1, <3>4, HonorariaAssumption
  <2> QED BY <2>1, <2>2
<1> QED BY <1>1, HonorariaInvariance, PTL
----------------------------------------------------------------------------
(* The books (StripeLedger, DonationReceipts): their inductive invariant.  *)

RefundRow == [status: {"none", "pending", "succeeded", "failed"}, charge: Charges \cup {Nil},
              amount: Nat, call: {"none", "due", "answered", "error"}]
StripeBooks == [charged: SUBSET Charges, void: SUBSET Intents,
                plan: {"active", "paused", "canceled"},
                refunded: [Refunds -> Nat], of: [Refunds -> Charges \cup {Nil}]]
ReceiptRow == [covers: SUBSET Charges, doc: BOOLEAN, sent: BOOLEAN, mails: Nat]

LedgerTypes ==
  /\ intent \in [Intents -> {"none", "pending", "failed", "completed"}]
  /\ event \in [Events -> {"none", "stored", "processed"}]
  /\ handler \in [EventWorkers -> [pc: {"idle", "handle", "hook"}, item: Events \cup {Nil}]]
  /\ plan \in [status: {"none", "active", "paused", "cancelled"}, call: {"none", "due"}]
  /\ refund \in [Refunds -> RefundRow]
  /\ notice \in [Refunds -> {"none", "confirmed", "dashboard"}]
  /\ stripe \in StripeBooks

ReceiptTypes ==
  /\ receipt \in [Charges -> ReceiptRow]
  /\ rworker \in [ReceiptWorkers -> [pc: {"idle", "render", "mail", "mark"},
                                     item: Charges \cup {Nil}]]
  /\ annual \in [pc: {"off", "check", "issue"}, year: Years \cup {Nil}, todo: SUBSET Charges]

\* An event in the inbox happened at Stripe; messages and workers name events of the
\* inbox, and a hook still to run names a donation in the books.
EventsAreTrue ==
  /\ \A e \in eventMessages \cap Events : event[e] # "none"
  /\ \A w \in EventWorkers : handler[w].pc = "idle" => handler[w] = HandlerIdle
  /\ \A w \in EventWorkers : handler[w].pc # "idle" =>
       /\ handler[w].item \in Events
       /\ event[handler[w].item] # "none"
       /\ handler[w].pc = "hook" => handler[w].item[2] \in donation
  /\ \A i \in Intents : event[<<"succeeded", i>>] # "none" =>
       i \in stripe.charged /\ intent[i] # "none"
  /\ \A n \in Renewals : event[<<"paid", n>>] # "none" => n \in stripe.charged

\* A row that was never entered is blank, one that was names its charge; a call is owed
\* for a pending row alone, and an answer to it is true.
RefundRows ==
  \A r \in Refunds :
     /\ refund[r].status = "none" => refund[r] = NoRefund
     /\ refund[r].status # "none" => refund[r].charge \in Charges
     /\ refund[r].call # "none" => refund[r].status = "pending"
     /\ refund[r].call = "answered" =>
          stripe.of[r] = refund[r].charge /\ stripe.refunded[r] = refund[r].amount

\* Messages and workers name issued receipts; before it is issued a receipt is blank.
\* Its document is there once its mail is prepared, and its mail is out before the mark.
ReceiptRows ==
  /\ \A c \in Charges : Issued(c) \/ receipt[c] = NoReceipt
  /\ \A c \in rmessages \cap Charges : Issued(c)
  /\ \A w \in ReceiptWorkers, c \in Charges : rworker[w].item = c /\ rworker[w].pc # "idle" =>
       /\ Issued(c)
       /\ rworker[w].pc \in {"mail", "mark"} => receipt[c].doc
       /\ rworker[w].pc = "mark" => receipt[c].mails > 0

\* The annual run holds eligible donations, and at least one.
AnnualRows ==
  /\ annual.todo \subseteq Eligible \cap donation
  /\ annual.pc # "off" => annual.todo # {}

BooksInv ==
  /\ LedgerTypes /\ ReceiptTypes
  /\ EventsAreTrue /\ RefundRows /\ ReceiptRows /\ AnnualRows
  /\ BooksAgree /\ ProcessedIsRecorded /\ RefundsCovered /\ SucceededIsRefunded /\ SentIsMailed

\* The events the properties name are events of the inbox.
LEMMA EventsOf ==
  /\ \A i \in Intents : <<"succeeded", i>> \in Events
  /\ \A m \in Renewals : <<"paid", m>> \in Events
  /\ <<"deleted", Plan>> \in Events
BY DEF Events

\* Stripe emits: what is new in the inbox is stored, and nothing else changes there.
LEMMA Emitted ==
  ASSUME LedgerTypes, NEW types, NEW obj, Emit(types, obj)
  PROVE  /\ event' \in [Events -> {"none", "stored", "processed"}]
         /\ \A e \in Events : \/ event'[e] = event[e]
                              \/ e[1] \in types /\ e[2] = obj /\ event'[e] = "stored"
         /\ \A e \in Events : event[e] # "none" => event'[e] # "none"
         /\ \A e \in eventMessages' \cap Events : e \in eventMessages \/ event'[e] # "none"
<1> DEFINE new == {e \in Events : e[1] \in types /\ e[2] = obj /\ event[e] = "none"}
<1>1. /\ event' = [e \in Events |-> IF e \in new THEN "stored" ELSE event[e]]
      /\ eventMessages' \in {eventMessages, eventMessages \cup new}
  BY Zenon DEF Emit
<1>2. event \in [Events -> {"none", "stored", "processed"}]
  BY DEF LedgerTypes
<1>3. \A e \in Events : event'[e] = IF e \in new THEN "stored" ELSE event[e]
  BY <1>1
<1> QED BY <1>1, <1>2, <1>3

\* A step without an event emits none.
LEMMA NothingEmitted ==
  LedgerTypes /\ NoEvent => Emit({}, Nil)
<1> SUFFICES ASSUME LedgerTypes, NoEvent PROVE Emit({}, Nil)
  OBVIOUS
<1>1. event = [e \in Events |-> event[e]] BY DEF LedgerTypes
<1>2. event' = event /\ eventMessages' = eventMessages BY DEF NoEvent
<1> QED BY <1>1, <1>2 DEF Emit

\* A change of Stripe's books, with the events it emits, leaves the books here in
\* agreement with them.
LEMMA StripeKeeps ==
  ASSUME BooksInv, NEW types, NEW obj, Emit(types, obj),
         NEW s \in StripeBooks, BooksOf(s), stripe.charged \subseteq s.charged,
         "succeeded" \in types /\ obj \in Intents => obj \in s.charged /\ intent[obj] # "none",
         "paid" \in types /\ obj \in Renewals => obj \in s.charged,
         plan'.status = plan.status
  PROVE  EventsAreTrue' /\ BooksAgree' /\ ProcessedIsRecorded'
<1>1. LedgerTypes /\ EventsAreTrue /\ BooksAgree /\ ProcessedIsRecorded
  BY DEF BooksInv
<1>2. /\ \A e \in Events : \/ event'[e] = event[e]
                           \/ e[1] \in types /\ e[2] = obj /\ event'[e] = "stored"
      /\ \A e \in Events : event[e] # "none" => event'[e] # "none"
      /\ \A e \in eventMessages' \cap Events : e \in eventMessages \/ event'[e] # "none"
  BY <1>1, Emitted
<1>3. /\ stripe' = s
      /\ UNCHANGED <<intent, payment, handler, donation, receipt>>
  BY DEF BooksOf, receiptVars
<1>4. EventsAreTrue'
  <2>1. \A e \in eventMessages' \cap Events : event'[e] # "none"
    BY <1>1, <1>2 DEF EventsAreTrue
  <2>2. ASSUME NEW w \in EventWorkers, handler'[w].pc # "idle"
        PROVE  /\ handler'[w].item \in Events /\ event'[handler'[w].item] # "none"
               /\ handler'[w].pc = "hook" => handler'[w].item[2] \in donation'
    BY <1>1, <1>2, <1>3, <2>2 DEF EventsAreTrue
  <2>3. ASSUME NEW i \in Intents, event'[<<"succeeded", i>>] # "none"
        PROVE  i \in s.charged /\ intent'[i] # "none"
    <3> DEFINE e == <<"succeeded", i>>
    <3>1. e \in Events /\ e[1] = "succeeded" /\ e[2] = i BY EventsOf
    <3>2. CASE event'[e] = event[e] BY <1>1, <1>3, <2>3, <3>2 DEF EventsAreTrue
    <3>3. CASE e[1] \in types /\ e[2] = obj BY <1>3, <3>1, <3>3
    <3> QED BY <1>2, <3>1, <3>2, <3>3
  <2>4. ASSUME NEW m \in Renewals, event'[<<"paid", m>>] # "none" PROVE m \in s.charged
    <3> DEFINE e == <<"paid", m>>
    <3>1. e \in Events /\ e[1] = "paid" /\ e[2] = m BY EventsOf
    <3>2. CASE event'[e] = event[e] BY <1>1, <2>4, <3>2 DEF EventsAreTrue
    <3>3. CASE e[1] \in types /\ e[2] = obj BY <3>1, <3>3
    <3> QED BY <1>2, <3>1, <3>2, <3>3
  <2>5. \A w \in EventWorkers : handler'[w].pc = "idle" => handler'[w] = HandlerIdle
    BY <1>1, <1>3 DEF EventsAreTrue, HandlerIdle
  <2> QED BY <1>3, <2>1, <2>2, <2>3, <2>4, <2>5 DEF EventsAreTrue, HandlerIdle
<1>5. BooksAgree'
  BY <1>1, <1>3 DEF BooksAgree
<1>6. ProcessedIsRecorded'
  <2>1. \A e \in Events : event'[e] = "processed" => event[e] = "processed"
    BY <1>2
  <2> QED BY <1>1, <1>3, <2>1, EventsOf DEF ProcessedIsRecorded
<1> QED BY <1>4, <1>5, <1>6

\* The receipts are as they were, and no donation is gone.
LEMMA ReceiptsKept ==
  ASSUME BooksInv, UNCHANGED receiptVars, donation \subseteq donation'
  PROVE  ReceiptTypes' /\ ReceiptRows' /\ AnnualRows' /\ SentIsMailed'
<1>1. ReceiptTypes' /\ SentIsMailed'
  BY DEF BooksInv, receiptVars, ReceiptTypes, SentIsMailed, ReceiptRow
<1>2. ReceiptRows'
  BY DEF BooksInv, receiptVars, ReceiptRows, Issued, NoReceipt
<1>3. AnnualRows'
  BY DEF BooksInv, receiptVars, AnnualRows
<1> QED BY <1>1, <1>2, <1>3

\* The amounts of the refund rows, and the rows RefundsCovered adds up.
AskedAmount == [r \in Refunds |-> refund[r].amount]
CoverOf(c) == {r \in Refunds : refund[r].charge = c /\ refund[r].status # "failed"}

RefundSums ==
  \A rows \in SUBSET Refunds :
    MapThenSumSet(LAMBDA r : refund[r].amount, rows) = Total(AskedAmount, rows)

\* The sum over the refund rows adds up their amounts.
LEMMA RefundSumsNow == RefundSums
<1> SUFFICES ASSUME NEW rows \in SUBSET Refunds
             PROVE  MapThenSumSet(LAMBDA r : refund[r].amount, rows) = Total(AskedAmount, rows)
  BY DEF RefundSums
<1> DEFINE Is(g) == g = [s \in SUBSET rows |-> IF s = {} THEN 0
                           ELSE refund[Pick(s)].amount + g[s \ {Pick(s)}]]
<1>1. IsFiniteSet(rows) BY LedgerAssumption, FS_Subset
<1>2. ASSUME NEW g PROVE Is(g) <=> Adds(AskedAmount, rows, g)
  <2>1. ASSUME NEW s \in SUBSET rows, s # {} PROVE AskedAmount[Pick(s)] = refund[Pick(s)].amount
    BY <2>1, PickIn DEF AskedAmount
  <2>2. [s \in SUBSET rows |-> IF s = {} THEN 0 ELSE refund[Pick(s)].amount + g[s \ {Pick(s)}]]
        = [s \in SUBSET rows |-> IF s = {} THEN 0 ELSE AskedAmount[Pick(s)] + g[s \ {Pick(s)}]]
    BY <2>1
  <2> QED BY <2>2 DEF Adds
<1>3. MapThenSumSet(LAMBDA r : refund[r].amount, rows) = (CHOOSE g : Is(g))[rows]
  BY DEF MapThenSumSet, MapThenFoldSet, Pick
<1>4. Is(Adder(AskedAmount, rows)) BY <1>1, <1>2, AdderExists
<1>5. Is(CHOOSE g : Is(g)) BY <1>4
<1>6. (CHOOSE g : Is(g)) = Adder(AskedAmount, rows)
  <2> HIDE DEF Is
  <2>1. Adds(AskedAmount, rows, CHOOSE g : Is(g)) BY <1>2, <1>5
  <2>2. Adds(AskedAmount, rows, Adder(AskedAmount, rows)) BY <1>2, <1>4
  <2> QED BY <2>1, <2>2, <1>1, AdderUnique
<1> QED BY <1>3, <1>6 DEF Total

Covered == \A c \in Charges : Total(AskedAmount, CoverOf(c)) <= Amount

\* RefundsCovered in terms of these sums, before a step ...
LEMMA CoveredNow == RefundsCovered <=> Covered
<1>1. \A c \in Charges : CoverOf(c) \in SUBSET Refunds BY DEF CoverOf
<1>2. ASSUME NEW c \in Charges
      PROVE  MapThenSumSet(LAMBDA r : refund[r].amount, CoverOf(c)) = Total(AskedAmount, CoverOf(c))
  BY <1>1, RefundSumsNow DEF RefundSums
<1>3. RefundsCovered <=>
        \A c \in Charges : MapThenSumSet(LAMBDA r : refund[r].amount, CoverOf(c)) <= Amount
  BY DEF RefundsCovered, CoverOf
<1> QED BY <1>2, <1>3 DEF Covered

\* ... and after it.
LEMMA CoveredNext == (RefundsCovered <=> Covered)'
BY CoveredNow, PTL

\* Rows that fail, and rows that stay, leave the sums covered.
LEMMA CoverShrinks ==
  ASSUME BooksInv, AskedAmount' = AskedAmount, \A c \in Charges : CoverOf(c)' \subseteq CoverOf(c)
  PROVE  RefundsCovered'
<1>1. Covered BY CoveredNow DEF BooksInv
<1>2. SUFFICES ASSUME NEW c \in Charges PROVE Total(AskedAmount, CoverOf(c)') <= Amount
  BY CoveredNext DEF Covered
<1>3. IsFiniteSet(CoverOf(c)) /\ IsFiniteSet(CoverOf(c)')
  BY LedgerAssumption, FS_Subset DEF CoverOf
<1>4. \A r \in CoverOf(c) : AskedAmount[r] \in Nat
  BY DEF AskedAmount, CoverOf, BooksInv, LedgerTypes, RefundRow
<1>5. Total(AskedAmount, CoverOf(c)') <= Total(AskedAmount, CoverOf(c))
  <2>1. CoverOf(c)' \in SUBSET CoverOf(c) OBVIOUS
  <2> QED BY <1>3, <1>4, <2>1, TotalMonotone
<1>6. Total(AskedAmount, CoverOf(c)) \in Nat /\ Total(AskedAmount, CoverOf(c)') \in Nat
  <2>1. \A r \in CoverOf(c)' : AskedAmount[r] \in Nat BY <1>4
  <2> QED BY <1>3, <1>4, <2>1, TotalType
<1>7. Total(AskedAmount, CoverOf(c)) <= Amount BY <1>1 DEF Covered
<1> QED BY <1>5, <1>6, <1>7, LedgerAssumption

\* The refunds are as they were, and what Stripe has refunded it keeps.
LEMMA RefundsKept ==
  ASSUME BooksInv, UNCHANGED <<refund, notice>>,
         \A r \in Refunds : stripe.of[r] # Nil =>
           stripe'.of[r] = stripe.of[r] /\ stripe'.refunded[r] = stripe.refunded[r]
  PROVE  RefundRows' /\ SucceededIsRefunded' /\ RefundsCovered'
<1>1. RefundRows /\ SucceededIsRefunded /\ Nil \notin Charges
  BY LedgerAssumption DEF BooksInv
<1>2. RefundRows'
  BY <1>1 DEF RefundRows, NoRefund
<1>3. SucceededIsRefunded'
  BY <1>1 DEF SucceededIsRefunded, RefundRows
<1>4. RefundsCovered'
  <2>1. AskedAmount' = AskedAmount /\ \A c \in Charges : CoverOf(c)' = CoverOf(c)
    BY DEF AskedAmount, CoverOf
  <2> QED BY <2>1, CoverShrinks
<1> QED BY <1>2, <1>3, <1>4

\* Stripe's side alone changes.
LEMMA StripeAlone ==
  ASSUME BooksInv, NEW types, NEW obj, Emit(types, obj),
         NEW s \in StripeBooks, BooksOf(s), stripe.charged \subseteq s.charged,
         "succeeded" \in types /\ obj \in Intents => obj \in s.charged /\ intent[obj] # "none",
         "paid" \in types /\ obj \in Renewals => obj \in s.charged,
         \A r \in Refunds : stripe.of[r] # Nil =>
           s.of[r] = stripe.of[r] /\ s.refunded[r] = stripe.refunded[r],
         plan'.status = plan.status, plan'.call \in {"none", "due"},
         plan' = [plan EXCEPT !.call = plan'.call], UNCHANGED refund
  PROVE  BooksInv'
<1>1. EventsAreTrue' /\ BooksAgree' /\ ProcessedIsRecorded'
  BY StripeKeeps
<1>2. stripe' = s /\ UNCHANGED <<intent, handler, notice, donation, receiptVars>>
  BY DEF BooksOf
<1>3. RefundRows' /\ SucceededIsRefunded' /\ RefundsCovered'
  BY <1>2, RefundsKept
<1>4. ReceiptTypes' /\ ReceiptRows' /\ AnnualRows' /\ SentIsMailed'
  BY <1>2, ReceiptsKept
<1>5. LedgerTypes'
  <2>1. LedgerTypes BY DEF BooksInv
  <2>2. event' \in [Events -> {"none", "stored", "processed"}] BY <2>1, Emitted
  <2>3. plan' \in [status: {"none", "active", "paused", "cancelled"}, call: {"none", "due"}]
    BY <2>1 DEF LedgerTypes
  <2>4. stripe' \in StripeBooks BY <1>2
  <2>5. StripeBooks' = StripeBooks /\ RefundRow' = RefundRow BY DEF StripeBooks, RefundRow
  <2> QED BY <1>2, <2>1, <2>2, <2>3, <2>4, <2>5 DEF LedgerTypes
<1> QED BY <1>1, <1>3, <1>4, <1>5 DEF BooksInv

\* Stripe charges an intent or a renewal and says so.
LEMMA ChargedKeeps ==
  ASSUME BooksInv, NEW i \in Charges, NEW t \in {"succeeded", "paid"},
         t = "succeeded" => i \in Intents /\ intent[i] # "none",
         Emit({t}, i), BooksOf([stripe EXCEPT !.charged = @ \cup {i}]), UNCHANGED <<plan, refund>>
  PROVE  BooksInv'
<1> DEFINE s == [stripe EXCEPT !.charged = @ \cup {i}]
<1>1. plan \in [status: {"none", "active", "paused", "cancelled"}, call: {"none", "due"}]
      /\ stripe \in StripeBooks
  BY DEF BooksInv, LedgerTypes
<1>2. /\ s \in StripeBooks /\ s.charged = stripe.charged \cup {i}
      /\ s.of = stripe.of /\ s.refunded = stripe.refunded
  BY <1>1 DEF StripeBooks
<1>3. plan'.call \in {"none", "due"} /\ plan'.status = plan.status
      /\ plan' = [plan EXCEPT !.call = plan'.call]
  BY <1>1
<1>4. "succeeded" \in {t} /\ i \in Intents => i \in s.charged /\ intent[i] # "none"
  BY <1>2
<1>5. "paid" \in {t} /\ i \in Renewals => i \in s.charged
  BY <1>2
<1> HIDE DEF s
<1>6. BooksOf(s) BY DEF s
<1> QED BY <1>2, <1>3, <1>4, <1>5, <1>6, StripeAlone

\* Nothing is charged.
LEMMA UnchargedKeeps ==
  ASSUME BooksInv, NEW types, NEW obj, Emit(types, obj), types \cap {"succeeded", "paid"} = {},
         NEW s \in StripeBooks, BooksOf(s), s.charged = stripe.charged,
         \A r \in Refunds : stripe.of[r] # Nil =>
           s.of[r] = stripe.of[r] /\ s.refunded[r] = stripe.refunded[r],
         plan'.call \in {"none", "due"},
         plan' = [plan EXCEPT !.call = plan'.call], UNCHANGED refund
  PROVE  BooksInv'
<1>1. plan \in [status: {"none", "active", "paused", "cancelled"}, call: {"none", "due"}]
  BY DEF BooksInv, LedgerTypes
<1>2. plan'.status = plan.status BY <1>1
<1>3. "succeeded" \notin types /\ "paid" \notin types OBVIOUS
<1> QED BY <1>2, <1>3, StripeAlone

\* Charges, renewals and changes of the subscription preserve the invariant.
LEMMA StripeSteps ==
  ASSUME BooksInv,
         \/ \E i \in Intents : Charge(i) \/ Decline(i)
         \/ \E m \in Renewals : Renew(m) \/ RenewalFails(m)
         \/ \E s \in {"active", "paused", "canceled"} : ChangeSubscription(s)
         \/ CancelAtStripe
  PROVE  BooksInv'
<1>1. plan \in [status: {"none", "active", "paused", "cancelled"}, call: {"none", "due"}]
      /\ stripe \in StripeBooks
  BY DEF BooksInv, LedgerTypes
<1>2. UNCHANGED plan => plan'.call \in {"none", "due"} /\ plan' = [plan EXCEPT !.call = plan'.call]
  BY <1>1
<1>3. ASSUME NEW i \in Intents, Charge(i) PROVE BooksInv'
  <2>1. /\ Emit({"succeeded"}, i) /\ BooksOf([stripe EXCEPT !.charged = @ \cup {i}])
        /\ UNCHANGED <<plan, refund>> /\ intent[i] # "none"
    BY <1>3 DEF Charge
  <2>2. i \in Charges BY LedgerAssumption
  <2> QED BY <2>1, <2>2, ChargedKeeps
<1>4. ASSUME NEW i \in Intents, Decline(i) PROVE BooksInv'
  <2>1. Emit({"failed"}, i) /\ BooksOf(stripe) /\ UNCHANGED <<plan, refund>>
    BY <1>4 DEF Decline
  <2>2. {"failed"} \cap {"succeeded", "paid"} = {} OBVIOUS
  <2> QED BY <1>1, <1>2, <2>1, <2>2, UnchargedKeeps
<1>5. ASSUME NEW m \in Renewals, Renew(m) PROVE BooksInv'
  <2>1. /\ Emit({"paid"}, m) /\ BooksOf([stripe EXCEPT !.charged = @ \cup {m}])
        /\ UNCHANGED <<plan, refund>>
    BY <1>5 DEF Renew
  <2>2. m \in Charges BY LedgerAssumption
  <2> QED BY <2>1, <2>2, ChargedKeeps
<1>6. ASSUME NEW m \in Renewals, RenewalFails(m) PROVE BooksInv'
  <2>1. Emit({"unpaid"}, m) /\ BooksOf(stripe) /\ UNCHANGED <<plan, refund>>
    BY <1>6 DEF RenewalFails
  <2>2. {"unpaid"} \cap {"succeeded", "paid"} = {} OBVIOUS
  <2> QED BY <1>1, <1>2, <2>1, <2>2, UnchargedKeeps
<1>7. ASSUME NEW q \in {"active", "paused", "canceled"}, ChangeSubscription(q) PROVE BooksInv'
  <2> DEFINE s == [stripe EXCEPT !.plan = q]
             types == IF q = "canceled" THEN {"canceled", "deleted"} ELSE {q}
  <2>1. Emit(types, Plan) /\ BooksOf(s) /\ UNCHANGED <<plan, refund>>
    BY <1>7 DEF ChangeSubscription
  <2>2. types \cap {"succeeded", "paid"} = {} OBVIOUS
  <2>3. s \in StripeBooks /\ s.charged = stripe.charged /\ s.of = stripe.of
        /\ s.refunded = stripe.refunded
    BY <1>1 DEF StripeBooks
  <2> HIDE DEF s, types
  <2> QED BY <1>2, <2>1, <2>2, <2>3, UnchargedKeeps
<1>8. ASSUME CancelAtStripe PROVE BooksInv'
  <2>1. /\ plan' = [plan EXCEPT !.call = "none"] /\ plan'.call = "none" /\ UNCHANGED refund
    BY <1>1, <1>8 DEF CancelAtStripe
  <2>2. CASE NoEvent /\ BooksOf(stripe)
    <3>1. Emit({}, Nil) BY <2>2, NothingEmitted DEF BooksInv
    <3>2. {} \cap {"succeeded", "paid"} = {} OBVIOUS
    <3> QED BY <1>1, <2>1, <2>2, <3>1, <3>2, UnchargedKeeps
  <2>3. CASE Emit({"deleted"}, Plan) /\ BooksOf([stripe EXCEPT !.plan = "canceled"])
    <3> DEFINE s == [stripe EXCEPT !.plan = "canceled"]
    <3>1. s \in StripeBooks /\ s.charged = stripe.charged /\ s.of = stripe.of
          /\ s.refunded = stripe.refunded
      BY <1>1 DEF StripeBooks
    <3>2. {"deleted"} \cap {"succeeded", "paid"} = {} OBVIOUS
    <3>3. BooksOf(s) BY <2>3
    <3> HIDE DEF s
    <3> QED BY <2>1, <2>3, <3>1, <3>2, <3>3, UnchargedKeeps
  <2> QED BY <1>8, <2>2, <2>3 DEF CancelAtStripe
<1> QED BY <1>3, <1>4, <1>5, <1>6, <1>7, <1>8

\* What a refund at Stripe changes in its books: one refund, once.
LEMMA RefundedAtStripe ==
  ASSUME BooksInv, NEW r \in Refunds, NEW c, NEW amount \in Nat, StripeRefunds(r, c, amount)
  PROVE  \E s \in StripeBooks :
           /\ Emit({"refunded"}, r) /\ BooksOf(s)
           /\ s.charged = stripe.charged /\ s.of[r] = c /\ s.refunded[r] = amount
           /\ \A q \in Refunds : stripe.of[q] # Nil =>
                q # r /\ s.of[q] = stripe.of[q] /\ s.refunded[q] = stripe.refunded[q]
<1> DEFINE s == [stripe EXCEPT !.refunded[r] = amount, !.of[r] = c]
<1>1. stripe \in StripeBooks BY DEF BooksInv, LedgerTypes
<1>2. c \in stripe.charged /\ stripe.of[r] = Nil /\ Emit({"refunded"}, r) /\ BooksOf(s)
  BY DEF StripeRefunds
<1>3. c \in Charges BY <1>1, <1>2 DEF StripeBooks
<1>4. s \in StripeBooks BY <1>1, <1>3 DEF StripeBooks
<1>5. s.charged = stripe.charged /\ s.of[r] = c /\ s.refunded[r] = amount
  BY <1>1 DEF StripeBooks
<1>6. \A q \in Refunds \ {r} : s.of[q] = stripe.of[q] /\ s.refunded[q] = stripe.refunded[q]
  BY <1>1 DEF StripeBooks
<1> HIDE DEF s
<1> QED BY <1>2, <1>4, <1>5, <1>6

\* A refund entered in the dashboard preserves the invariant.
LEMMA DashboardKeeps ==
  ASSUME BooksInv, NEW r \in Refunds, NEW c \in Charges, DashboardRefund(r, c)
  PROVE  BooksInv'
<1>1. PICK amount \in 1 .. Amount : StripeRefunds(r, c, amount)
  BY DEF DashboardRefund
<1>2. amount \in Nat BY LedgerAssumption
<1>3. PICK s \in StripeBooks :
           /\ Emit({"refunded"}, r) /\ BooksOf(s) /\ s.charged = stripe.charged
           /\ \A q \in Refunds : stripe.of[q] # Nil =>
                s.of[q] = stripe.of[q] /\ s.refunded[q] = stripe.refunded[q]
  BY <1>1, <1>2, RefundedAtStripe
<1>4. UNCHANGED <<plan, refund>> BY DEF DashboardRefund
<1>5. plan'.call \in {"none", "due"} /\ plan' = [plan EXCEPT !.call = plan'.call]
  BY <1>4 DEF BooksInv, LedgerTypes
<1>6. {"refunded"} \cap {"succeeded", "paid"} = {} OBVIOUS
<1> QED BY <1>3, <1>4, <1>5, <1>6, UnchargedKeeps

\* One refund row changes, keeping its charge and amount and never coming back from
\* failure; what is recorded or answered for it is true.
LEMMA RowKeeps ==
  ASSUME BooksInv, NEW r \in Refunds, NEW row \in RefundRow,
         refund' = [refund EXCEPT ![r] = row], UNCHANGED notice,
         refund[r].status = "pending", row.charge = refund[r].charge,
         row.amount = refund[r].amount, row.status \in {"pending", "succeeded", "failed"},
         row.call # "none" => row.status = "pending",
         row.call = "answered" \/ row.status = "succeeded" =>
           stripe'.of[r] = row.charge /\ stripe'.refunded[r] = row.amount,
         \A q \in Refunds : stripe.of[q] # Nil =>
           stripe'.of[q] = stripe.of[q] /\ stripe'.refunded[q] = stripe.refunded[q]
  PROVE  /\ refund' \in [Refunds -> RefundRow]
         /\ RefundRows' /\ SucceededIsRefunded' /\ RefundsCovered'
<1>1. refund \in [Refunds -> RefundRow] /\ RefundRows /\ SucceededIsRefunded
  BY DEF BooksInv, LedgerTypes
<1>2. refund'[r] = row /\ \A q \in Refunds \ {r} : refund'[q] = refund[q]
  BY <1>1
<1>3. refund' \in [Refunds -> RefundRow]
  BY <1>1
<1>4. Nil \notin Charges BY LedgerAssumption
<1>5. RefundRows'
  <2>1. SUFFICES ASSUME NEW q \in Refunds
                 PROVE /\ refund'[q].status = "none" => refund'[q] = NoRefund
                       /\ refund'[q].status # "none" => refund'[q].charge \in Charges
                       /\ refund'[q].call # "none" => refund'[q].status = "pending"
                       /\ refund'[q].call = "answered" =>
                            stripe'.of[q] = refund'[q].charge /\ stripe'.refunded[q] = refund'[q].amount
    BY DEF RefundRows, NoRefund
  <2>2. CASE q = r
    BY <1>1, <1>2, <2>2 DEF RefundRows
  <2>3. CASE q # r
    <3>1. refund'[q] = refund[q] BY <1>2, <2>3
    <3>2. refund[q].call = "answered" => stripe.of[q] # Nil
      BY <1>1, <1>4 DEF RefundRows
    <3> QED BY <1>1, <3>1, <3>2 DEF RefundRows
  <2> QED BY <2>2, <2>3
<1>6. SucceededIsRefunded'
  <2>1. SUFFICES ASSUME NEW q \in Refunds
                 PROVE /\ refund'[q].status = "succeeded" =>
                            stripe'.of[q] = refund'[q].charge /\ stripe'.refunded[q] = refund'[q].amount
                       /\ notice[q] = "confirmed" => refund'[q].status = "succeeded"
    BY DEF SucceededIsRefunded
  <2>2. CASE q = r
    <3>1. notice[q] # "confirmed" BY <1>1, <2>2 DEF SucceededIsRefunded
    <3> QED BY <1>2, <2>2, <3>1
  <2>3. CASE q # r
    <3>1. refund'[q] = refund[q] BY <1>2, <2>3
    <3>2. refund[q].status = "succeeded" => stripe.of[q] # Nil
      BY <1>1, <1>4 DEF RefundRows, SucceededIsRefunded
    <3> QED BY <1>1, <3>1, <3>2 DEF SucceededIsRefunded
  <2> QED BY <2>2, <2>3
<1>7. RefundsCovered'
  <2>1. AskedAmount' = AskedAmount BY <1>2 DEF AskedAmount
  <2>2. ASSUME NEW c \in Charges PROVE CoverOf(c)' \subseteq CoverOf(c)
    <3>1. SUFFICES ASSUME NEW q \in Refunds, refund'[q].charge = c, refund'[q].status # "failed"
                   PROVE refund[q].charge = c /\ refund[q].status # "failed"
      BY DEF CoverOf
    <3> QED BY <1>2, <3>1
  <2> QED BY <2>1, <2>2, CoverShrinks
<1> QED BY <1>3, <1>5, <1>6, <1>7

\* The call a refund owes is made, answered or refused (RefundConfirmView.post).
LEMMA RefundAtStripeKeeps ==
  ASSUME BooksInv, NEW r \in Refunds, RefundAtStripe(r)
  PROVE  BooksInv'
<1>1. refund \in [Refunds -> RefundRow] /\ LedgerTypes /\ stripe \in StripeBooks
  BY DEF BooksInv, LedgerTypes
<1>2. refund[r].call = "due" /\ refund[r].status = "pending" /\ UNCHANGED plan
  BY DEF RefundAtStripe, BooksInv, RefundRows
<1>3. ASSUME NEW answer \in {"answered", "error"}, NEW s \in StripeBooks, NEW types, NEW obj,
             types \cap {"succeeded", "paid"} = {},
             Emit(types, obj), BooksOf(s), refund' = [refund EXCEPT ![r].call = answer],
             s.charged = stripe.charged,
             answer = "answered" => s.of[r] = refund[r].charge /\ s.refunded[r] = refund[r].amount,
             \A q \in Refunds : stripe.of[q] # Nil =>
               s.of[q] = stripe.of[q] /\ s.refunded[q] = stripe.refunded[q]
      PROVE  BooksInv'
  <2>1. "succeeded" \notin types /\ "paid" \notin types BY <1>3
  <2>2. EventsAreTrue' /\ BooksAgree' /\ ProcessedIsRecorded'
    BY <1>2, <1>3, <2>1, StripeKeeps
  <2>3. stripe' = s /\ UNCHANGED <<intent, handler, notice, donation, receiptVars>>
    BY <1>3 DEF BooksOf
  <2>4. ReceiptTypes' /\ ReceiptRows' /\ AnnualRows' /\ SentIsMailed'
    BY <2>3, ReceiptsKept
  <2> DEFINE row == [refund[r] EXCEPT !.call = answer]
  <2>5. row \in RefundRow /\ refund' = [refund EXCEPT ![r] = row]
    BY <1>1, <1>3 DEF RefundRow
  <2>6. row.charge = refund[r].charge /\ row.amount = refund[r].amount
        /\ row.status = "pending" /\ row.call = answer
    BY <1>1, <1>2 DEF RefundRow
  <2> HIDE DEF row
  <2>7. /\ refund' \in [Refunds -> RefundRow]
        /\ RefundRows' /\ SucceededIsRefunded' /\ RefundsCovered'
    <3>1. UNCHANGED notice BY <2>3
    <3>2. row.call = "answered" \/ row.status = "succeeded" =>
            stripe'.of[r] = row.charge /\ stripe'.refunded[r] = row.amount
      BY <1>3, <2>3, <2>6
    <3>3. \A q \in Refunds : stripe.of[q] # Nil =>
            stripe'.of[q] = stripe.of[q] /\ stripe'.refunded[q] = stripe.refunded[q]
      BY <1>3, <2>3
    <3>4. row.status \in {"pending", "succeeded", "failed"}
          /\ (row.call # "none" => row.status = "pending")
      BY <2>6
    <3> QED BY <1>2, <2>5, <2>6, <3>1, <3>2, <3>3, <3>4, RowKeeps
  <2>8. event' \in [Events -> {"none", "stored", "processed"}] BY <1>1, <1>3, Emitted
  <2>9. LedgerTypes'
    <3>1. StripeBooks' = StripeBooks /\ RefundRow' = RefundRow BY DEF StripeBooks, RefundRow
    <3> QED BY <1>1, <1>2, <1>3, <2>3, <2>7, <2>8, <3>1 DEF LedgerTypes
  <2> QED BY <2>2, <2>4, <2>7, <2>9 DEF BooksInv
<1>4. CASE StripeRefunds(r, refund[r].charge, refund[r].amount)
           /\ \E answer \in {"answered", "error"} : refund' = [refund EXCEPT ![r].call = answer]
  <2>1. refund[r].amount \in Nat BY <1>1 DEF RefundRow
  <2>2. PICK answer \in {"answered", "error"} : refund' = [refund EXCEPT ![r].call = answer]
    BY <1>4
  <2>3. PICK s \in StripeBooks :
           /\ Emit({"refunded"}, r) /\ BooksOf(s)
           /\ s.charged = stripe.charged /\ s.of[r] = refund[r].charge
           /\ s.refunded[r] = refund[r].amount
           /\ \A q \in Refunds : stripe.of[q] # Nil =>
                q # r /\ s.of[q] = stripe.of[q] /\ s.refunded[q] = stripe.refunded[q]
    BY <1>4, <2>1, RefundedAtStripe
  <2>4. {"refunded"} \cap {"succeeded", "paid"} = {} OBVIOUS
  <2> QED BY <1>3, <2>2, <2>3, <2>4
<1>5. CASE BooksOf(stripe) /\ NoEvent /\ refund' = [refund EXCEPT ![r].call = "error"]
  <2>1. Emit({}, Nil) BY <1>1, <1>5, NothingEmitted
  <2>2. {} \cap {"succeeded", "paid"} = {} OBVIOUS
  <2> QED BY <1>1, <1>3, <1>5, <2>1, <2>2
<1> QED BY <1>4, <1>5 DEF RefundAtStripe

\* The answer of the call is recorded (RefundConfirmView.post).
LEMMA RecordRefundKeeps ==
  ASSUME BooksInv, NEW r \in Refunds, RecordRefund(r)
  PROVE  BooksInv'
<1>1. refund \in [Refunds -> RefundRow] /\ LedgerTypes /\ RefundRows
  BY DEF BooksInv, LedgerTypes
<1>2. /\ refund[r].call \in {"answered", "error"}
      /\ UNCHANGED <<alive, intent, payment, plan, notice, event, eventMessages, handler, stripe,
                     donation, receiptVars>>
  BY DEF RecordRefund, Request, NoEvent
<1> DEFINE row == [refund[r] EXCEPT !.status = StatusAfter(refund[r].call), !.call = "none"]
<1>3. refund' = [refund EXCEPT ![r] = row] /\ row \in RefundRow
  BY <1>1, <1>2 DEF RecordRefund, RefundRow, StatusAfter
<1>4. /\ row.charge = refund[r].charge /\ row.amount = refund[r].amount /\ row.call = "none"
      /\ row.status \in {"succeeded", "failed"}
      /\ row.status = "succeeded" => refund[r].call = "answered"
  BY <1>1, <1>2 DEF RefundRow, StatusAfter
<1>5. refund[r].status = "pending" BY <1>1, <1>2 DEF RefundRows
<1>6. row.status = "succeeded" => stripe.of[r] = row.charge /\ stripe.refunded[r] = row.amount
  BY <1>1, <1>4 DEF RefundRows
<1> HIDE DEF row
<1>7. /\ refund' \in [Refunds -> RefundRow]
      /\ RefundRows' /\ SucceededIsRefunded' /\ RefundsCovered'
  BY <1>2, <1>3, <1>4, <1>5, <1>6, RowKeeps
<1>8. ReceiptTypes' /\ ReceiptRows' /\ AnnualRows' /\ SentIsMailed'
  BY <1>2, ReceiptsKept
<1>9. LedgerTypes'
  <2>1. StripeBooks' = StripeBooks /\ RefundRow' = RefundRow BY DEF StripeBooks, RefundRow
  <2> QED BY <1>1, <1>2, <1>7, <2>1 DEF LedgerTypes
<1>10. EventsAreTrue' /\ BooksAgree' /\ ProcessedIsRecorded'
  BY <1>2 DEF BooksInv, EventsAreTrue, BooksAgree, ProcessedIsRecorded, receiptVars
<1> QED BY <1>7, <1>8, <1>9, <1>10 DEF BooksInv

\* The request dies with its call.
LEMMA RequestCrashKeeps ==
  ASSUME BooksInv, RequestCrash
  PROVE  BooksInv'
<1>1. refund \in [Refunds -> RefundRow] /\ LedgerTypes /\ RefundRows
  BY DEF BooksInv, LedgerTypes
<1>2. UNCHANGED <<alive, intent, payment, notice, event, eventMessages, handler, stripe,
                  donation, receiptVars>>
  BY DEF RequestCrash, Request, NoEvent
<1>3. ReceiptTypes' /\ ReceiptRows' /\ AnnualRows' /\ SentIsMailed'
  BY <1>2, ReceiptsKept
<1>4. plan'.status = plan.status
      /\ plan' \in [status: {"none", "active", "paused", "cancelled"}, call: {"none", "due"}]
  BY <1>1 DEF RequestCrash, LedgerTypes
<1>5. EventsAreTrue' /\ BooksAgree' /\ ProcessedIsRecorded'
  BY <1>2, <1>4 DEF BooksInv, EventsAreTrue, BooksAgree, ProcessedIsRecorded, receiptVars
<1>6. /\ refund' \in [Refunds -> RefundRow]
      /\ RefundRows' /\ SucceededIsRefunded' /\ RefundsCovered'
  <2>1. CASE UNCHANGED refund
    BY <1>1, <1>2, <2>1, RefundsKept DEF RefundRow
  <2>2. ASSUME NEW r \in Refunds, refund[r].call # "none", refund' = [refund EXCEPT ![r].call = "none"]
        PROVE  /\ refund' \in [Refunds -> RefundRow]
               /\ RefundRows' /\ SucceededIsRefunded' /\ RefundsCovered'
    <3> DEFINE row == [refund[r] EXCEPT !.call = "none"]
    <3>1. row \in RefundRow /\ refund' = [refund EXCEPT ![r] = row]
      BY <1>1, <2>2 DEF RefundRow
    <3>2. refund[r].status = "pending" BY <1>1, <2>2 DEF RefundRows
    <3>3. row.charge = refund[r].charge /\ row.amount = refund[r].amount
          /\ row.status = "pending" /\ row.call = "none"
      BY <1>1, <3>2 DEF RefundRow
    <3> HIDE DEF row
    <3> QED BY <1>2, <3>1, <3>2, <3>3, RowKeeps
  <2> QED BY <2>1, <2>2 DEF RequestCrash
<1>7. LedgerTypes'
  <2>1. StripeBooks' = StripeBooks /\ RefundRow' = RefundRow BY DEF StripeBooks, RefundRow
  <2> QED BY <1>1, <1>2, <1>4, <1>6, <2>1 DEF LedgerTypes
<1> QED BY <1>3, <1>5, <1>6, <1>7 DEF BooksInv

\* Payment intents are created and voided.
LEMMA IntentKeeps ==
  ASSUME BooksInv, NEW i \in Intents, CreateIntent(i) \/ CancelIntent(i)
  PROVE  BooksInv'
<1>1. LedgerTypes /\ stripe \in StripeBooks /\ EventsAreTrue /\ BooksAgree
  BY DEF BooksInv, LedgerTypes
<1>2. UNCHANGED <<payment, notice, handler, donation, receiptVars, event, eventMessages, plan, refund>>
  BY DEF CreateIntent, CancelIntent, Request, NoEvent
<1>3. /\ stripe' \in StripeBooks /\ stripe'.charged = stripe.charged
      /\ stripe'.of = stripe.of /\ stripe'.refunded = stripe.refunded
  BY <1>1 DEF CreateIntent, CancelIntent, StripeBooks
<1>4. /\ intent' \in [Intents -> {"none", "pending", "failed", "completed"}]
      /\ \A k \in Intents : /\ intent[k] # "none" => intent'[k] # "none"
                            /\ intent[k] = "completed" <=> intent'[k] = "completed"
  BY <1>1 DEF CreateIntent, CancelIntent, LedgerTypes
<1>5. RefundRows' /\ SucceededIsRefunded' /\ RefundsCovered'
  BY <1>2, <1>3, RefundsKept
<1>6. ReceiptTypes' /\ ReceiptRows' /\ AnnualRows' /\ SentIsMailed'
  BY <1>2, ReceiptsKept
<1>7. LedgerTypes'
  <2>1. StripeBooks' = StripeBooks /\ RefundRow' = RefundRow BY DEF StripeBooks, RefundRow
  <2> QED BY <1>1, <1>2, <1>3, <1>4, <2>1 DEF LedgerTypes
<1>8. EventsAreTrue'
  BY <1>1, <1>2, <1>3, <1>4 DEF EventsAreTrue
<1>9. BooksAgree'
  BY <1>1, <1>2, <1>3, <1>4 DEF BooksAgree, receiptVars
<1>10. ProcessedIsRecorded'
  BY <1>2 DEF BooksInv, ProcessedIsRecorded
<1> QED BY <1>5, <1>6, <1>7, <1>8, <1>9, <1>10 DEF BooksInv

\* A recurring gift is cancelled (RecurringGiftCancelView.post).
LEMMA CancelPlanKeeps ==
  ASSUME BooksInv, CancelPlan
  PROVE  BooksInv'
<1>1. LedgerTypes BY DEF BooksInv
<1>2. /\ UNCHANGED <<payment, notice, handler, donation, receiptVars, event, eventMessages, refund,
                     intent, stripe>>
      /\ plan' = [status |-> "cancelled", call |-> "due"] /\ plan.status # "none"
  BY DEF CancelPlan, Request, NoEvent
<1>3. RefundRows' /\ SucceededIsRefunded' /\ RefundsCovered'
  BY <1>2, RefundsKept
<1>4. ReceiptTypes' /\ ReceiptRows' /\ AnnualRows' /\ SentIsMailed'
  BY <1>2, ReceiptsKept
<1>5. LedgerTypes'
  <2>1. StripeBooks' = StripeBooks /\ RefundRow' = RefundRow BY DEF StripeBooks, RefundRow
  <2> QED BY <1>1, <1>2, <2>1 DEF LedgerTypes
<1>6. EventsAreTrue' /\ BooksAgree'
  BY <1>2 DEF BooksInv, EventsAreTrue, BooksAgree, receiptVars
<1>7. ProcessedIsRecorded'
  BY <1>2 DEF BooksInv, ProcessedIsRecorded
<1> QED BY <1>3, <1>4, <1>5, <1>6, <1>7 DEF BooksInv

\* A refund is entered for no more than what the others of the charge leave.
LEMMA RefundConfirmKeeps ==
  ASSUME BooksInv, NEW r \in Refunds, NEW c \in Charges, RefundConfirm(r, c)
  PROVE  BooksInv'
<1>1. /\ refund \in [Refunds -> RefundRow] /\ LedgerTypes /\ RefundRows /\ SucceededIsRefunded
      /\ Nil \notin Charges
  BY LedgerAssumption DEF BooksInv, LedgerTypes
<1>2. /\ UNCHANGED <<payment, notice, handler, donation, receiptVars, event, eventMessages, plan,
                     intent, stripe>>
      /\ refund[r] = NoRefund /\ stripe.of[r] = Nil
  BY DEF RefundConfirm, Request, NoEvent
<1>3. PICK amount \in 1 .. Amount :
        /\ amount <= Amount - AlreadyRefunded(c)
        /\ refund' = [refund EXCEPT ![r] = [status |-> "pending", charge |-> c,
                                            amount |-> amount, call |-> "due"]]
  BY DEF RefundConfirm
<1> DEFINE row == [status |-> "pending", charge |-> c, amount |-> amount, call |-> "due"]
<1>4. amount \in Nat /\ row \in RefundRow
  BY LedgerAssumption DEF RefundRow
<1>5. /\ row.status = "pending" /\ row.charge = c /\ row.amount = amount /\ row.call = "due"
      /\ refund' = [refund EXCEPT ![r] = row]
  BY <1>3
<1> HIDE DEF row
<1>6. refund'[r] = row /\ \A q \in Refunds \ {r} : refund'[q] = refund[q]
  BY <1>1, <1>5
<1>7. refund' \in [Refunds -> RefundRow]
  BY <1>1, <1>4, <1>5
<1>8. ReceiptTypes' /\ ReceiptRows' /\ AnnualRows' /\ SentIsMailed'
  BY <1>2, ReceiptsKept
<1>9. LedgerTypes'
  <2>1. StripeBooks' = StripeBooks /\ RefundRow' = RefundRow BY DEF StripeBooks, RefundRow
  <2> QED BY <1>1, <1>2, <1>7, <2>1 DEF LedgerTypes
<1>10. EventsAreTrue' /\ BooksAgree' /\ ProcessedIsRecorded'
  BY <1>2 DEF BooksInv, EventsAreTrue, BooksAgree, ProcessedIsRecorded, receiptVars
<1>11. RefundRows'
  <2>1. SUFFICES ASSUME NEW q \in Refunds
                 PROVE /\ refund'[q].status = "none" => refund'[q] = NoRefund
                       /\ refund'[q].status # "none" => refund'[q].charge \in Charges
                       /\ refund'[q].call # "none" => refund'[q].status = "pending"
                       /\ refund'[q].call = "answered" =>
                            stripe'.of[q] = refund'[q].charge /\ stripe'.refunded[q] = refund'[q].amount
    BY DEF RefundRows, NoRefund
  <2>2. CASE q = r BY <1>5, <1>6, <2>2
  <2>3. CASE q # r BY <1>1, <1>2, <1>6, <2>3 DEF RefundRows
  <2> QED BY <2>2, <2>3
<1>12. refund[r].status = "none" /\ refund[r].charge = Nil
  BY <1>2 DEF NoRefund
<1>13. SucceededIsRefunded'
  <2>1. SUFFICES ASSUME NEW q \in Refunds
                 PROVE /\ refund'[q].status = "succeeded" =>
                            stripe'.of[q] = refund'[q].charge /\ stripe'.refunded[q] = refund'[q].amount
                       /\ notice[q] = "confirmed" => refund'[q].status = "succeeded"
    BY <1>2 DEF SucceededIsRefunded
  <2>2. CASE q = r
    <3>1. notice[q] # "confirmed" BY <1>1, <1>12, <2>2 DEF SucceededIsRefunded
    <3> QED BY <1>5, <1>6, <2>2, <3>1
  <2>3. CASE q # r
    <3>1. refund'[q] = refund[q] /\ stripe' = stripe BY <1>2, <1>6, <2>3
    <3> QED BY <1>1, <3>1 DEF SucceededIsRefunded
  <2> QED BY <2>2, <2>3
<1>14. RefundsCovered'
  <2> DEFINE F == AskedAmount
             G == AskedAmount'
  <2>1. SUFFICES ASSUME NEW d \in Charges PROVE Total(G, CoverOf(d)') <= Amount
    BY CoveredNext DEF Covered
  <2>2. Total(F, CoverOf(d)) <= Amount
    BY CoveredNow DEF Covered, BooksInv
  <2>3. /\ CoverOf(d) \in SUBSET Refunds /\ CoverOf(d)' \in SUBSET Refunds
        /\ IsFiniteSet(CoverOf(d)) /\ IsFiniteSet(CoverOf(d)')
    BY LedgerAssumption, FS_Subset DEF CoverOf
  <2>4. /\ \A q \in Refunds : F[q] \in Nat /\ G[q] \in Nat
        /\ \A q \in Refunds \ {r} : G[q] = F[q]
        /\ G[r] = amount
    BY <1>1, <1>5, <1>6, <1>7 DEF AskedAmount, RefundRow
  <2>5. r \notin CoverOf(d)
    BY <1>1, <1>12 DEF CoverOf
  <2>6. CoverOf(d)' = IF d = c THEN CoverOf(d) \cup {r} ELSE CoverOf(d)
    <3>1. r \in CoverOf(d)' <=> d = c BY <1>5, <1>6 DEF CoverOf
    <3>2. \A q \in Refunds \ {r} : q \in CoverOf(d)' <=> q \in CoverOf(d)
      BY <1>6 DEF CoverOf
    <3> QED BY <2>3, <2>5, <3>1, <3>2
  <2> HIDE DEF F, G
  <2>7. Total(G, CoverOf(d)) = Total(F, CoverOf(d)) /\ Total(F, CoverOf(d)) \in Nat
    <3>1. \A q \in CoverOf(d) : G[q] = F[q] /\ F[q] \in Nat BY <2>3, <2>4, <2>5
    <3> QED BY <2>3, <3>1, TotalSame, TotalType
  <2>8. CASE d # c BY <2>2, <2>6, <2>7, <2>8
  <2>9. CASE d = c
    <3>1. CoverOf(d)' = CoverOf(d) \cup {r} BY <2>6, <2>9
    <3>2. CoverOf(d)' \ {r} = CoverOf(d) BY <2>5, <3>1
    <3>3. \A q \in CoverOf(d)' : G[q] \in Nat BY <2>3, <2>4
    <3>4. Total(G, CoverOf(d)') = G[r] + Total(G, CoverOf(d)' \ {r})
      BY <2>3, <3>1, <3>3, TotalRemove
    <3>5. AlreadyRefunded(c) = Total(F, CoverOf(d))
      <4>1. {q \in Refunds : Live(q) /\ refund[q].charge = c} = CoverOf(d)
        <5>1. \A q \in Refunds : refund[q].charge = c =>
                (Live(q) <=> refund[q].status # "failed")
          BY <1>1 DEF Live, RefundRows, NoRefund, RefundRow
        <5> QED BY <2>9, <5>1 DEF CoverOf
      <4>2. MapThenSumSet(LAMBDA q : refund[q].amount, CoverOf(d)) = Total(F, CoverOf(d))
        BY <2>3, RefundSumsNow DEF RefundSums, F
      <4> QED BY <4>1, <4>2 DEF AlreadyRefunded
    <3>6. amount <= Amount - Total(F, CoverOf(d)) BY <1>3, <3>5
    <3>7. Total(G, CoverOf(d)') = amount + Total(F, CoverOf(d))
      BY <2>4, <2>7, <3>2, <3>4
    <3>8. Amount \in Nat BY LedgerAssumption
    <3> QED BY <1>4, <2>7, <3>6, <3>7, <3>8
  <2> QED BY <2>8, <2>9
<1> QED BY <1>8, <1>9, <1>10, <1>11, <1>13, <1>14 DEF BooksInv

\* What a handler makes of the books, for an event that happened.
LEMMA HandledBooks ==
  ASSUME BooksInv, NEW e \in Events, event[e] # "none", NEW b \in Handled(e)
  PROVE  /\ b.intent \in [Intents -> {"none", "pending", "failed", "completed"}]
         /\ \A i \in Intents : intent[i] # "none" => b.intent[i] # "none"
         /\ b.plan \in [status: {"none", "active", "paused", "cancelled"}, call: {"none", "due"}]
         /\ b.plan.status = "none" <=> plan.status = "none"
         /\ plan.status = "cancelled" => b.plan.status = "cancelled"
         /\ payment \subseteq b.payment /\ b.payment \subseteq stripe.charged
         /\ \A i \in Intents : b.intent[i] = "completed" <=> i \in b.payment
         /\ b.donation = b.payment \cap (OneTime \cup Renewals)
         /\ b.donation # donation => e[2] \in b.donation
         /\ e[1] = "succeeded" => e[2] \in b.payment
         /\ e[1] = "paid" /\ plan.status # "none" => e[2] \in b.payment
         /\ e[1] = "deleted" => b.plan.status \in {"none", "cancelled"}
         /\ b.notice \in [Refunds -> {"none", "confirmed", "dashboard"}]
         /\ \A r \in Refunds : b.notice[r] = "confirmed" =>
              notice[r] = "confirmed" \/ refund[r].status = "succeeded"
<1> DEFINE Good(x) ==
         /\ x.intent \in [Intents -> {"none", "pending", "failed", "completed"}]
         /\ \A i \in Intents : intent[i] # "none" => x.intent[i] # "none"
         /\ x.plan \in [status: {"none", "active", "paused", "cancelled"}, call: {"none", "due"}]
         /\ x.plan.status = "none" <=> plan.status = "none"
         /\ plan.status = "cancelled" => x.plan.status = "cancelled"
         /\ payment \subseteq x.payment /\ x.payment \subseteq stripe.charged
         /\ \A i \in Intents : x.intent[i] = "completed" <=> i \in x.payment
         /\ x.donation = x.payment \cap (OneTime \cup Renewals)
         /\ x.donation # donation => e[2] \in x.donation
         /\ x.notice \in [Refunds -> {"none", "confirmed", "dashboard"}]
         /\ \A r \in Refunds : x.notice[r] = "confirmed" =>
              notice[r] = "confirmed" \/ refund[r].status = "succeeded"
<1>1. LedgerTypes /\ BooksAgree /\ EventsAreTrue
  BY DEF BooksInv
<1>2. Good(Books)
  BY <1>1 DEF Books, LedgerTypes, BooksAgree
<1>3. ASSUME NEW x, x = Books
      PROVE  x.payment = payment /\ x.donation = donation /\ x.plan = plan
  BY <1>3 DEF Books
<1>4. ASSUME NEW i \in Intents, e = <<"succeeded", i>>
      PROVE  Good(b) /\ i \in b.payment
  <2>1. i \in stripe.charged /\ intent[i] # "none" BY <1>1, <1>4 DEF EventsAreTrue
  <2>2. Handled(e) = Succeeded(i) BY <1>4 DEF Handled
  <2>3. CASE i \in payment BY <1>2, <1>3, <2>2, <2>3 DEF Succeeded
  <2>4. CASE i \notin payment
    <3>1. b = Completed(i) BY <2>1, <2>2, <2>4 DEF Succeeded
    <3>2. /\ b.intent = [intent EXCEPT ![i] = "completed"] /\ b.payment = payment \cup {i}
          /\ b.donation = donation \cup ({i} \cap OneTime)
          /\ b.plan = plan /\ b.notice = notice
      BY <3>1 DEF Completed, Books
    <3>3. i \notin Renewals BY LedgerAssumption
    <3>4. b.donation = b.payment \cap (OneTime \cup Renewals) BY <1>1, <3>2, <3>3 DEF BooksAgree
    <3>5. b.donation # donation => e[2] \in b.donation BY <1>4, <3>2
    <3> QED BY <1>1, <2>1, <3>2, <3>4, <3>5 DEF LedgerTypes, BooksAgree
  <2> QED BY <2>3, <2>4
<1>5. ASSUME NEW i \in Intents, e = <<"failed", i>> PROVE Good(b)
  <2>1. Handled(e) = Failed(i) BY <1>5 DEF Handled
  <2>2. CASE b = Books BY <1>2, <2>2
  <2>3. CASE b = [Books EXCEPT !.intent[i] = "failed"] /\ MayBecome(intent[i], "failed")
    <3>1. intent[i] # "completed" BY <2>3 DEF MayBecome, IntentTransitions
    <3>2. /\ b.intent = [intent EXCEPT ![i] = "failed"] /\ b.payment = payment
          /\ b.donation = donation /\ b.plan = plan /\ b.notice = notice
      BY <2>3 DEF Books
    <3> QED BY <1>1, <3>1, <3>2 DEF LedgerTypes, BooksAgree
  <2> QED BY <2>1, <2>2, <2>3 DEF Failed
<1>6. ASSUME NEW m \in Renewals, e = <<"paid", m>>
      PROVE  Good(b) /\ (plan.status # "none" => m \in b.payment)
  <2>1. m \in stripe.charged BY <1>1, <1>6 DEF EventsAreTrue
  <2>2. Handled(e) = Paid(m) BY <1>6 DEF Handled
  <2>3. CASE m \in payment \/ plan.status = "none"
    BY <1>2, <1>3, <2>2, <2>3 DEF Paid
  <2>4. CASE ~(m \in payment \/ plan.status = "none")
    <3>1. b = [Books EXCEPT !.payment = @ \cup {m}, !.donation = @ \cup {m}]
      BY <2>2, <2>4 DEF Paid
    <3>2. /\ b.intent = intent /\ b.payment = payment \cup {m}
          /\ b.donation = donation \cup {m} /\ b.plan = plan /\ b.notice = notice
      BY <3>1 DEF Books
    <3>3. m \notin Intents BY LedgerAssumption
    <3>4. b.donation = b.payment \cap (OneTime \cup Renewals) BY <1>1, <3>2, <3>3 DEF BooksAgree
    <3> QED BY <1>1, <1>6, <2>1, <3>2, <3>3, <3>4 DEF LedgerTypes, BooksAgree
  <2> QED BY <2>3, <2>4
<1>7. ASSUME NEW m \in Renewals, e = <<"unpaid", m>> PROVE Good(b)
  <2>1. Handled(e) = Unpaid BY <1>7 DEF Handled
  <2>2. CASE b = Books BY <1>2, <2>2
  <2>3. CASE b = [Books EXCEPT !.plan.status = "paused"] /\ plan.status = "active"
    <3>1. /\ b.intent = intent /\ b.payment = payment /\ b.donation = donation
          /\ b.plan = [plan EXCEPT !.status = "paused"] /\ b.notice = notice
      BY <2>3 DEF Books
    <3> QED BY <1>1, <2>3, <3>1 DEF LedgerTypes, BooksAgree
  <2> QED BY <2>1, <2>2, <2>3 DEF Unpaid
<1>8. ASSUME NEW r \in Refunds, e = <<"refunded", r>> PROVE Good(b)
  <2>1. Handled(e) = RefundedNotice(r) BY <1>8 DEF Handled
  <2>2. CASE b = Books BY <1>2, <2>2
  <2>3. CASE b = [Books EXCEPT !.notice[r] =
                   IF refund[r].status = "succeeded" THEN "confirmed" ELSE "dashboard"]
    <3>1. /\ b.intent = intent /\ b.payment = payment /\ b.donation = donation
          /\ b.plan = plan
          /\ b.notice = [notice EXCEPT ![r] = IF refund[r].status = "succeeded" THEN "confirmed"
                                              ELSE "dashboard"]
      BY <2>3 DEF Books
    <3>2. b.notice \in [Refunds -> {"none", "confirmed", "dashboard"}]
      BY <1>1, <3>1 DEF LedgerTypes
    <3>3. \A q \in Refunds : b.notice[q] = "confirmed" =>
              notice[q] = "confirmed" \/ refund[q].status = "succeeded"
      BY <1>1, <3>1 DEF LedgerTypes
    <3> QED BY <1>1, <3>1, <3>2, <3>3 DEF LedgerTypes, BooksAgree
  <2> QED BY <2>1, <2>2, <2>3 DEF RefundedNotice
<1>9. ASSUME e = <<"deleted", Plan>>
      PROVE  Good(b) /\ b.plan.status \in {"none", "cancelled"}
  <2>1. Handled(e) = Deleted BY <1>9 DEF Handled
  <2>2. CASE plan.status = "none" BY <1>2, <1>3, <2>1, <2>2 DEF Deleted
  <2>3. CASE plan.status # "none"
    <3>1. b = [Books EXCEPT !.plan.status = "cancelled"] BY <2>1, <2>3 DEF Deleted
    <3>2. /\ b.intent = intent /\ b.payment = payment /\ b.donation = donation
          /\ b.plan = [plan EXCEPT !.status = "cancelled"] /\ b.notice = notice
      BY <3>1 DEF Books
    <3> QED BY <1>1, <2>3, <3>2 DEF LedgerTypes, BooksAgree
  <2> QED BY <2>2, <2>3
<1>10. ASSUME NEW t \in {"active", "paused", "canceled"}, e = <<t, Plan>> PROVE Good(b)
  <2>1. Handled(e) = Updated(t) BY <1>10 DEF Handled
  <2>2. CASE b = Books BY <1>2, <2>2
  <2>3. CASE plan.status \notin {"none", "cancelled"} /\ b = [Books EXCEPT !.plan.status = PlanStatus(t)]
    <3>1. /\ b.intent = intent /\ b.payment = payment /\ b.donation = donation
          /\ b.plan = [plan EXCEPT !.status = PlanStatus(t)] /\ b.notice = notice
      BY <2>3 DEF Books
    <3>2. PlanStatus(t) \in {"active", "paused", "cancelled"} BY DEF PlanStatus
    <3> QED BY <1>1, <2>3, <3>1, <3>2 DEF LedgerTypes, BooksAgree
  <2> QED BY <2>1, <2>2, <2>3 DEF Updated
<1> HIDE DEF Good
<1>11. /\ Good(b)
       /\ e[1] = "succeeded" => e[2] \in b.payment
       /\ e[1] = "paid" /\ plan.status # "none" => e[2] \in b.payment
       /\ e[1] = "deleted" => b.plan.status \in {"none", "cancelled"}
  BY <1>4, <1>5, <1>6, <1>7, <1>8, <1>9, <1>10 DEF Events
<1> QED BY <1>11 DEF Good

\* A worker moves on: to an item of the inbox, or to idleness.
LEMMA Becomes ==
  ASSUME LedgerTypes, NEW w \in EventWorkers, NEW pc \in {"idle", "handle", "hook"},
         NEW item \in Events \cup {Nil}, HandlerBecomes(w, pc, item)
  PROVE  /\ handler' \in [EventWorkers -> [pc: {"idle", "handle", "hook"}, item: Events \cup {Nil}]]
         /\ handler'[w].pc = pc /\ handler'[w].item = item
         /\ handler'[w] = [pc |-> pc, item |-> item]
         /\ \A v \in EventWorkers \ {w} : handler'[v] = handler[v]
BY DEF LedgerTypes, HandlerBecomes

\* A handler runs and its event is marked processed, or it raises.
LEMMA HandleKeeps ==
  ASSUME BooksInv, NEW w \in EventWorkers, NEW e \in Events, Handle(w, e)
  PROVE  BooksInv'
<1>1. LedgerTypes /\ EventsAreTrue /\ BooksAgree /\ ProcessedIsRecorded /\ SucceededIsRefunded
  BY DEF BooksInv
<1>2. handler[w].pc = "handle" /\ handler[w].item = e /\ event[e] # "none"
      /\ UNCHANGED <<alive, refund, eventMessages, stripe, receiptVars>>
  BY <1>1 DEF Handle, EventsAreTrue
<1>3. CASE /\ HandlerBecomes(w, "idle", Nil)
           /\ UNCHANGED <<intent, payment, donation, plan, notice, event>>
  <2>1. /\ handler' \in [EventWorkers -> [pc: {"idle", "handle", "hook"}, item: Events \cup {Nil}]]
        /\ handler'[w].pc = "idle" /\ handler'[w] = HandlerIdle
        /\ \A v \in EventWorkers \ {w} : handler'[v] = handler[v]
    BY <1>1, <1>3, Becomes DEF HandlerIdle
  <2>2. LedgerTypes'
    <3>1. StripeBooks' = StripeBooks /\ RefundRow' = RefundRow BY DEF StripeBooks, RefundRow
    <3> QED BY <1>1, <1>2, <1>3, <2>1, <3>1 DEF LedgerTypes
  <2>3. EventsAreTrue'
    BY <1>1, <1>2, <1>3, <2>1 DEF EventsAreTrue, HandlerIdle
  <2>4. BooksAgree' /\ ProcessedIsRecorded'
    BY <1>1, <1>2, <1>3 DEF BooksAgree, ProcessedIsRecorded, receiptVars
  <2>5. RefundRows' /\ SucceededIsRefunded' /\ RefundsCovered'
    BY <1>2, <1>3, RefundsKept
  <2>6. ReceiptTypes' /\ ReceiptRows' /\ AnnualRows' /\ SentIsMailed'
    BY <1>2, <1>3, ReceiptsKept
  <2> QED BY <2>2, <2>3, <2>4, <2>5, <2>6 DEF BooksInv
<1>4. ASSUME NEW b \in Handled(e),
             intent' = b.intent, payment' = b.payment, donation' = b.donation,
             plan' = b.plan, notice' = b.notice,
             event' = [event EXCEPT ![e] = "processed"],
             IF b.donation = donation THEN HandlerBecomes(w, "idle", Nil) ELSE HandlerBecomes(w, "hook", e)
      PROVE  BooksInv'
  <2>1. /\ intent' \in [Intents -> {"none", "pending", "failed", "completed"}]
        /\ \A i \in Intents : intent[i] # "none" => intent'[i] # "none"
        /\ plan' \in [status: {"none", "active", "paused", "cancelled"}, call: {"none", "due"}]
        /\ plan'.status = "none" <=> plan.status = "none"
        /\ plan.status = "cancelled" => plan'.status = "cancelled"
        /\ payment \subseteq payment' /\ payment' \subseteq stripe.charged
        /\ \A i \in Intents : intent'[i] = "completed" <=> i \in payment'
        /\ donation' = payment' \cap (OneTime \cup Renewals)
        /\ donation' # donation => e[2] \in donation'
        /\ e[1] = "succeeded" => e[2] \in payment'
        /\ e[1] = "paid" /\ plan.status # "none" => e[2] \in payment'
        /\ e[1] = "deleted" => plan'.status \in {"none", "cancelled"}
        /\ notice' \in [Refunds -> {"none", "confirmed", "dashboard"}]
        /\ \A r \in Refunds : notice'[r] = "confirmed" =>
             notice[r] = "confirmed" \/ refund[r].status = "succeeded"
    BY <1>2, <1>4, HandledBooks
  <2>2. donation \subseteq donation' BY <1>1, <2>1 DEF BooksAgree
  <2>3. PICK pc \in {"idle", "hook"}, item \in Events \cup {Nil} :
          /\ HandlerBecomes(w, pc, item) /\ (pc = "hook" => item = e /\ e[2] \in donation')
          /\ pc = "idle" => item = Nil
    BY <1>4, <2>1
  <2>4. /\ handler' \in [EventWorkers -> [pc: {"idle", "handle", "hook"}, item: Events \cup {Nil}]]
        /\ handler'[w].pc = pc /\ handler'[w].item = item
        /\ handler'[w] = [pc |-> pc, item |-> item]
        /\ \A v \in EventWorkers \ {w} : handler'[v] = handler[v]
    BY <1>1, <2>3, Becomes
  <2>5. /\ event' \in [Events -> {"none", "stored", "processed"}]
        /\ event'[e] = "processed" /\ \A x \in Events \ {e} : event'[x] = event[x]
    BY <1>1, <1>4 DEF LedgerTypes
  <2>6. LedgerTypes'
    <3>1. StripeBooks' = StripeBooks /\ RefundRow' = RefundRow BY DEF StripeBooks, RefundRow
    <3> QED BY <1>1, <1>2, <2>1, <2>4, <2>5, <3>1 DEF LedgerTypes
  <2>7. EventsAreTrue'
    <3>1. \A x \in Events : event'[x] # "none" <=> event[x] # "none"
      BY <1>2, <2>5
    <3>2. ASSUME NEW v \in EventWorkers, handler'[v].pc # "idle"
          PROVE  /\ handler'[v].item \in Events /\ event'[handler'[v].item] # "none"
                 /\ handler'[v].pc = "hook" => handler'[v].item[2] \in donation'
      <4>1. CASE v = w BY <2>3, <2>4, <2>5, <3>2, <4>1
      <4>2. CASE v # w BY <1>1, <2>2, <2>4, <3>1, <3>2, <4>2 DEF EventsAreTrue
      <4> QED BY <4>1, <4>2
    <3>3. \A v \in EventWorkers : handler'[v].pc = "idle" => handler'[v] = HandlerIdle
      BY <1>1, <2>3, <2>4 DEF EventsAreTrue, HandlerIdle
    <3> QED BY <1>1, <1>2, <2>1, <3>1, <3>2, <3>3, EventsOf DEF EventsAreTrue, HandlerIdle
  <2>8. BooksAgree'
    BY <1>1, <1>2, <2>1, <2>2 DEF BooksAgree, receiptVars
  <2>9. ProcessedIsRecorded'
    <3>1. ASSUME NEW i \in Intents, event'[<<"succeeded", i>>] = "processed" PROVE i \in payment'
      <4>1. CASE e = <<"succeeded", i>> BY <2>1, <4>1
      <4>2. CASE e # <<"succeeded", i>>
        BY <1>1, <2>1, <2>5, <3>1, <4>2, EventsOf DEF ProcessedIsRecorded
      <4> QED BY <4>1, <4>2
    <3>2. ASSUME NEW m \in Renewals, event'[<<"paid", m>>] = "processed", plan'.status # "none"
          PROVE  m \in payment'
      <4>1. CASE e = <<"paid", m>> BY <2>1, <3>2, <4>1
      <4>2. CASE e # <<"paid", m>>
        BY <1>1, <2>1, <2>5, <3>2, <4>2, EventsOf DEF ProcessedIsRecorded
      <4> QED BY <4>1, <4>2
    <3>3. ASSUME event'[<<"deleted", Plan>>] = "processed"
          PROVE  plan'.status \in {"none", "cancelled"}
      <4>1. CASE e = <<"deleted", Plan>> BY <2>1, <4>1
      <4>2. CASE e # <<"deleted", Plan>>
        BY <1>1, <2>1, <2>5, <3>3, <4>2, EventsOf DEF ProcessedIsRecorded
      <4> QED BY <4>1, <4>2
    <3> QED BY <3>1, <3>2, <3>3 DEF ProcessedIsRecorded
  <2>10. RefundRows' BY <1>2 DEF BooksInv, RefundRows, NoRefund
  <2>11. SucceededIsRefunded' BY <1>1, <1>2, <2>1 DEF SucceededIsRefunded
  <2>12. RefundsCovered'
    <3>1. AskedAmount' = AskedAmount /\ \A c \in Charges : CoverOf(c)' = CoverOf(c)
      BY <1>2 DEF AskedAmount, CoverOf
    <3> QED BY <3>1, CoverShrinks
  <2>13. ReceiptTypes' /\ ReceiptRows' /\ AnnualRows' /\ SentIsMailed'
    BY <1>2, <2>2, ReceiptsKept
  <2> QED BY <2>6, <2>7, <2>8, <2>9, <2>10, <2>11, <2>12, <2>13 DEF BooksInv
<1> QED BY <1>3, <1>4 DEF Handle

\* A webhook worker takes an event, or is lost with it.
LEMMA ReceiveKeeps ==
  ASSUME BooksInv, NEW w \in EventWorkers, (\E e \in Events : ReceiveEvent(w, e)) \/ HandlerCrash(w)
  PROVE  BooksInv'
<1>1. LedgerTypes /\ EventsAreTrue
  BY DEF BooksInv
<1>2. UNCHANGED <<intent, payment, plan, refund, notice, event, stripe, donation, receiptVars>>
  BY DEF ReceiveEvent, HandlerCrash
<1>3. /\ \A x \in eventMessages' \cap Events : event[x] # "none"
      /\ \/ UNCHANGED handler
         \/ \E pc \in {"idle", "handle"}, item \in Events \cup {Nil} :
              /\ HandlerBecomes(w, pc, item)
              /\ pc = "handle" => item \in Events /\ event[item] # "none"
              /\ pc = "idle" => item = Nil
  <2>1. ASSUME NEW e \in Events, ReceiveEvent(w, e)
        PROVE  /\ \A x \in eventMessages' \cap Events : event[x] # "none"
               /\ \/ UNCHANGED handler
                  \/ HandlerBecomes(w, "handle", e) /\ event[e] # "none"
    BY <1>1, <2>1 DEF ReceiveEvent, EventsAreTrue
  <2>2. ASSUME HandlerCrash(w)
        PROVE  /\ \A x \in eventMessages' \cap Events : event[x] # "none"
               /\ HandlerBecomes(w, "idle", Nil)
    <3>1. eventMessages' = eventMessages \cup {handler[w].item} /\ HandlerBecomes(w, "idle", Nil)
      BY <2>2 DEF HandlerCrash
    <3>2. handler[w].pc # "idle" => event[handler[w].item] # "none"
      BY <1>1 DEF EventsAreTrue
    <3>3. handler[w].pc # "idle" BY <1>1, <2>2 DEF HandlerCrash, EventsAreTrue
    <3> QED BY <1>1, <3>1, <3>2, <3>3 DEF EventsAreTrue
  <2> QED BY <2>1, <2>2
<1>4. /\ handler' \in [EventWorkers -> [pc: {"idle", "handle", "hook"}, item: Events \cup {Nil}]]
      /\ \A v \in EventWorkers : handler'[v].pc # "idle" =>
           \/ handler'[v] = handler[v]
           \/ /\ handler'[v].pc = "handle" /\ handler'[v].item \in Events
              /\ event[handler'[v].item] # "none"
      /\ \A v \in EventWorkers : handler'[v].pc = "idle" => handler'[v] = HandlerIdle
  <2>1. CASE UNCHANGED handler BY <1>1, <2>1 DEF LedgerTypes, EventsAreTrue
  <2>2. CASE \E pc \in {"idle", "handle"}, item \in Events \cup {Nil} :
              /\ HandlerBecomes(w, pc, item)
              /\ pc = "handle" => item \in Events /\ event[item] # "none"
              /\ pc = "idle" => item = Nil
    <3>1. PICK pc \in {"idle", "handle"}, item \in Events \cup {Nil} :
              /\ HandlerBecomes(w, pc, item)
              /\ pc = "handle" => item \in Events /\ event[item] # "none"
              /\ pc = "idle" => item = Nil
      BY <2>2
    <3>2. /\ handler' \in [EventWorkers -> [pc: {"idle", "handle", "hook"}, item: Events \cup {Nil}]]
          /\ handler'[w].pc = pc /\ handler'[w].item = item
          /\ handler'[w] = [pc |-> pc, item |-> item]
          /\ \A v \in EventWorkers \ {w} : handler'[v] = handler[v]
      BY <1>1, <3>1, Becomes
    <3> QED BY <1>1, <3>1, <3>2 DEF EventsAreTrue, HandlerIdle
  <2> QED BY <1>3, <2>1, <2>2
<1>5. LedgerTypes'
  <2>1. StripeBooks' = StripeBooks /\ RefundRow' = RefundRow BY DEF StripeBooks, RefundRow
  <2> QED BY <1>1, <1>2, <1>4, <2>1 DEF LedgerTypes
<1>6. EventsAreTrue'
  <2>1. ASSUME NEW v \in EventWorkers, handler'[v].pc # "idle"
        PROVE  /\ handler'[v].item \in Events /\ event'[handler'[v].item] # "none"
               /\ handler'[v].pc = "hook" => handler'[v].item[2] \in donation'
    <3>1. CASE handler'[v] = handler[v] BY <1>1, <1>2, <2>1, <3>1 DEF EventsAreTrue
    <3>2. CASE handler'[v].pc = "handle" /\ handler'[v].item \in Events
               /\ event[handler'[v].item] # "none"
      BY <1>2, <3>2
    <3> QED BY <1>4, <2>1, <3>1, <3>2
  <2> QED BY <1>1, <1>2, <1>3, <1>4, <2>1 DEF EventsAreTrue, HandlerIdle
<1>7. BooksAgree' /\ ProcessedIsRecorded'
  BY <1>2 DEF BooksInv, BooksAgree, ProcessedIsRecorded, receiptVars
<1>8. RefundRows' /\ SucceededIsRefunded' /\ RefundsCovered'
  BY <1>2, RefundsKept
<1>9. ReceiptTypes' /\ ReceiptRows' /\ AnnualRows' /\ SentIsMailed'
  BY <1>2, ReceiptsKept
<1> QED BY <1>5, <1>6, <1>7, <1>8, <1>9 DEF BooksInv

\* A run of donations has a first one.
LEMMA AnchorIn ==
  ASSUME NEW todo \in SUBSET Charges, todo # {}
  PROVE  Anchor(todo) \in todo
<1> DEFINE T == {CreatedAt[c] : c \in todo}
           R == OpToRel(<, Nat)
<1>1. T \subseteq Nat /\ T # {} BY ReceiptAssumption
<1>2. IsWellFoundedOn(R, Nat) BY NatLessThanWellFounded
<1>3. PICK x \in T : \A y \in T : ~(<<y, x>> \in R)
  <2> HIDE DEF T, R
  <2> QED BY <1>1, <1>2, WFMin
<1>4. \A y \in T : x <= y
  <2> SUFFICES ASSUME NEW y \in T PROVE x <= y
    OBVIOUS
  <2>1. ~(y < x) BY <1>1, <1>3 DEF OpToRel
  <2> QED BY <1>1, <2>1
<1>5. PICK c \in todo : CreatedAt[c] = x
  OBVIOUS
<1>6. \A d \in todo : CreatedAt[c] <= CreatedAt[d]
  BY <1>4, <1>5
<1> QED BY <1>6 DEF Anchor

\* One field of a receipt changes.
LEMMA CoversEdited ==
  ASSUME NEW x \in ReceiptRow, NEW v \in SUBSET Charges, NEW y, y = [x EXCEPT !.covers = v]
  PROVE  /\ y \in ReceiptRow /\ y.covers = v
         /\ y.doc = x.doc /\ y.sent = x.sent /\ y.mails = x.mails
BY DEF ReceiptRow

\* Or its document is there ...
LEMMA DocEdited ==
  ASSUME NEW x \in ReceiptRow, NEW y, y = [x EXCEPT !.doc = TRUE]
  PROVE  /\ y \in ReceiptRow /\ y.doc
         /\ y.covers = x.covers /\ y.sent = x.sent /\ y.mails = x.mails
BY DEF ReceiptRow

\* ... or its mark ...
LEMMA SentEdited ==
  ASSUME NEW x \in ReceiptRow, NEW y, y = [x EXCEPT !.sent = TRUE]
  PROVE  /\ y \in ReceiptRow /\ y.sent
         /\ y.covers = x.covers /\ y.doc = x.doc /\ y.mails = x.mails
BY DEF ReceiptRow

\* ... or its count of mails changes.
LEMMA MailsEdited ==
  ASSUME NEW x \in ReceiptRow, NEW v \in Nat, NEW y, y = [x EXCEPT !.mails = v]
  PROVE  /\ y \in ReceiptRow /\ y.mails = v
         /\ y.covers = x.covers /\ y.doc = x.doc /\ y.sent = x.sent
BY DEF ReceiptRow

\* A receipt is issued: it covers these donations, and its task may be on its way.
LEMMA IssueKeeps ==
  ASSUME ReceiptTypes, ReceiptRows, SentIsMailed, NEW c \in Charges, NEW covers \in SUBSET Charges,
         covers # {}, ~Issued(c), Issue(c, covers), UNCHANGED rworker
  PROVE  /\ receipt' \in [Charges -> ReceiptRow]
         /\ receipt'[c].covers = covers
         /\ \A d \in Charges \ {c} : receipt'[d] = receipt[d]
         /\ ReceiptRows' /\ SentIsMailed'
<1>1. receipt \in [Charges -> ReceiptRow] BY DEF ReceiptTypes
<1> DEFINE row == NewReceipt(covers)
<1>2. NoReceipt \in ReceiptRow /\ NoReceipt.sent = FALSE
  BY DEF NoReceipt, ReceiptRow
<1>3. row \in ReceiptRow /\ row.covers = covers /\ ~row.sent
  <2>1. row = [NoReceipt EXCEPT !.covers = covers] BY DEF NewReceipt
  <2> HIDE DEF row
  <2> QED BY <1>2, <2>1, CoversEdited
<1>4. receipt' = [receipt EXCEPT ![c] = row] BY DEF Issue
<1> HIDE DEF row
<1>5. receipt'[c] = row /\ \A d \in Charges \ {c} : receipt'[d] = receipt[d]
  BY <1>1, <1>4
<1>6. receipt' \in [Charges -> ReceiptRow] BY <1>1, <1>3, <1>4
<1>7. ReceiptRows'
  <2>1. \A d \in Charges : Issued(d)' <=> d = c \/ Issued(d)
    BY <1>3, <1>5 DEF Issued
  <2>2. \A d \in Charges : Issued(d)' \/ receipt'[d] = NoReceipt
    BY <1>5, <2>1 DEF ReceiptRows
  <2>3. \A d \in rmessages' \cap Charges : Issued(d)'
    BY <2>1 DEF ReceiptRows, Issue
  <2>4. ASSUME NEW w \in ReceiptWorkers, NEW d \in Charges, rworker[w].item = d,
               rworker[w].pc # "idle"
        PROVE  /\ Issued(d)'
               /\ rworker[w].pc \in {"mail", "mark"} => receipt'[d].doc
               /\ rworker[w].pc = "mark" => receipt'[d].mails > 0
    <3>1. Issued(d) BY <2>4 DEF ReceiptRows
    <3>2. d # c BY <3>1
    <3> QED BY <1>5, <2>1, <2>4, <3>1, <3>2 DEF ReceiptRows
  <2> QED BY <2>2, <2>3, <2>4 DEF ReceiptRows, NoReceipt
<1>8. SentIsMailed'
  <2>1. \A d \in Charges \ {c} : receipt'[d].sent => receipt'[d].doc /\ receipt'[d].mails > 0
    BY <1>5 DEF SentIsMailed
  <2>2. ~receipt'[c].sent BY <1>3, <1>5
  <2> QED BY <2>1, <2>2 DEF SentIsMailed
<1> QED BY <1>3, <1>5, <1>6, <1>7, <1>8

\* Only the receipts change.
LEMMA LedgerKept ==
  ASSUME BooksInv, UNCHANGED <<intent, payment, plan, refund, notice, event, stripe, donation>>,
         LedgerTypes /\ EventsAreTrue => EventsAreTrue' /\
           handler' \in [EventWorkers -> [pc: {"idle", "handle", "hook"}, item: Events \cup {Nil}]],
         ReceiptTypes', ReceiptRows', AnnualRows', SentIsMailed',
         \A c \in Charges : receipt'[c].covers \subseteq Eligible \cap donation
  PROVE  BooksInv'
<1>1. EventsAreTrue'
  BY DEF BooksInv
<1>2. BooksAgree' /\ ProcessedIsRecorded'
  BY DEF BooksInv, BooksAgree, ProcessedIsRecorded
<1>3. RefundRows' /\ SucceededIsRefunded' /\ RefundsCovered'
  BY RefundsKept
<1>4. LedgerTypes'
  <2>1. StripeBooks' = StripeBooks /\ RefundRow' = RefundRow BY DEF StripeBooks, RefundRow
  <2> QED BY <2>1 DEF BooksInv, LedgerTypes
<1> QED BY <1>1, <1>2, <1>3, <1>4 DEF BooksInv

\* The hook on a completed donation issues its receipt or finds nothing to do.
LEMMA HookKeeps ==
  ASSUME BooksInv, NEW w \in EventWorkers, NEW e \in Events, RunHook(w, e)
  PROVE  BooksInv'
<1>1. LedgerTypes /\ ReceiptTypes /\ EventsAreTrue /\ BooksAgree /\ ReceiptRows /\ AnnualRows
      /\ SentIsMailed
  BY DEF BooksInv
<1>2. /\ handler[w] = [pc |-> "hook", item |-> e] /\ OnDonationCompleted(e[2])
      /\ HandlerBecomes(w, "idle", Nil)
      /\ UNCHANGED <<alive, donation, intent, payment, plan, refund, notice, event, eventMessages, stripe>>
  BY DEF RunHook
<1>3. e[2] \in donation BY <1>1, <1>2 DEF EventsAreTrue
<1>4. e[2] \in Charges
  BY <1>1, <1>3 DEF BooksAgree, LedgerTypes, StripeBooks
<1>5. /\ handler' \in [EventWorkers -> [pc: {"idle", "handle", "hook"}, item: Events \cup {Nil}]]
      /\ EventsAreTrue'
  <2>1. /\ handler' \in [EventWorkers -> [pc: {"idle", "handle", "hook"}, item: Events \cup {Nil}]]
        /\ handler'[w] = [pc |-> "idle", item |-> Nil] /\ handler'[w].pc = "idle"
        /\ \A v \in EventWorkers \ {w} : handler'[v] = handler[v]
    BY <1>1, <1>2, Becomes
  <2> QED BY <1>1, <1>2, <2>1 DEF EventsAreTrue, HandlerIdle
<1>6. CASE UNCHANGED receiptVars
  <2>1. ReceiptTypes' /\ ReceiptRows' /\ AnnualRows' /\ SentIsMailed'
    BY <1>2, <1>6, ReceiptsKept
  <2>2. \A c \in Charges : receipt'[c].covers \subseteq Eligible \cap donation
    BY <1>1, <1>6 DEF BooksAgree, receiptVars
  <2> QED BY <1>2, <1>5, <2>1, <2>2, LedgerKept
<1>7. CASE /\ e[2] \in Eligible /\ ~Issued(e[2]) /\ Issue(e[2], {e[2]})
           /\ UNCHANGED <<charity, rworker, annual>>
  <2>1. {e[2]} \in SUBSET Charges /\ {e[2]} # {} BY <1>4
  <2>2. /\ receipt' \in [Charges -> ReceiptRow]
        /\ receipt'[e[2]].covers = {e[2]}
        /\ \A d \in Charges \ {e[2]} : receipt'[d] = receipt[d]
        /\ ReceiptRows' /\ SentIsMailed'
    BY <1>1, <1>4, <1>7, <2>1, IssueKeeps
  <2>3. \A c \in Charges : receipt'[c].covers \subseteq Eligible \cap donation
    BY <1>1, <1>3, <1>7, <2>2 DEF BooksAgree
  <2>4. ReceiptTypes'
    <3>1. ReceiptRow' = ReceiptRow BY DEF ReceiptRow
    <3> QED BY <1>1, <1>7, <2>2, <3>1 DEF ReceiptTypes
  <2>5. AnnualRows' BY <1>1, <1>2, <1>7 DEF AnnualRows
  <2> QED BY <1>2, <1>5, <2>2, <2>3, <2>4, <2>5, LedgerKept
<1> QED BY <1>2, <1>6, <1>7 DEF OnDonationCompleted

\* A step of the receipts leaves the ledger alone.
LEMMA ReceiptStep ==
  ASSUME BooksInv, UNCHANGED <<ledgerVars, donation>>,
         ReceiptTypes', ReceiptRows', AnnualRows', SentIsMailed',
         \A c \in Charges : receipt'[c].covers \subseteq Eligible \cap donation
  PROVE  BooksInv'
<1>1. LedgerTypes /\ EventsAreTrue => EventsAreTrue' /\
        handler' \in [EventWorkers -> [pc: {"idle", "handle", "hook"}, item: Events \cup {Nil}]]
  BY DEF ledgerVars, LedgerTypes, EventsAreTrue
<1> QED BY <1>1, LedgerKept DEF ledgerVars

\* The annual run and the switch of the charity settings preserve the invariant.
LEMMA AnnualKeeps ==
  ASSUME BooksInv, UNCHANGED ledgerVars,
         (\E y \in Years : AnnualStart(y)) \/ AnnualCheck \/ AnnualIssue \/ AnnualAborts
           \/ SetCharity
  PROVE  BooksInv'
<1>1. /\ ReceiptTypes /\ ReceiptRows /\ AnnualRows /\ SentIsMailed
      /\ \A c \in Charges : receipt[c].covers \subseteq Eligible \cap donation
      /\ receipt \in [Charges -> ReceiptRow]
  BY DEF BooksInv, BooksAgree, ReceiptTypes
<1>2. UNCHANGED donation /\ UNCHANGED rworker /\ ReceiptRow' = ReceiptRow
  BY DEF AnnualStart, AnnualCheck, AnnualIssue, AnnualAborts, SetCharity, ReceiptRow
<1>3. \A y \in Years : CompletedIn(y) \in SUBSET Charges
  BY ReceiptAssumption DEF CompletedIn
<1>4. /\ annual' \in [pc: {"off", "check", "issue"}, year: Years \cup {Nil}, todo: SUBSET Charges]
      /\ AnnualRows'
  <2>1. NoRun \in [pc: {"off", "check", "issue"}, year: Years \cup {Nil}, todo: SUBSET Charges]
        /\ NoRun.todo = {} /\ NoRun.pc = "off"
    BY DEF NoRun
  <2>2. ASSUME NEW y \in Years, AnnualStart(y)
        PROVE  /\ annual' \in [pc: {"off", "check", "issue"}, year: Years \cup {Nil},
                               todo: SUBSET Charges]
               /\ AnnualRows'
    BY <1>2, <1>3, <2>2 DEF AnnualStart, AnnualRows, CompletedIn
  <2>3. CASE annual' = NoRun
    BY <1>2, <2>1, <2>3 DEF AnnualRows
  <2>4. CASE AnnualCheck /\ annual' = [annual EXCEPT !.pc = "issue"]
    BY <1>1, <1>2, <2>4 DEF AnnualRows, AnnualCheck, ReceiptTypes
  <2>5. CASE SetCharity
    BY <1>1, <2>5 DEF SetCharity, AnnualRows, ReceiptTypes
  <2>6. AnnualCheck => annual' = NoRun \/ annual' = [annual EXCEPT !.pc = "issue"]
    BY DEF AnnualCheck
  <2> QED BY <2>2, <2>3, <2>4, <2>5, <2>6 DEF AnnualIssue, AnnualAborts
<1>5. CASE UNCHANGED <<receipt, rmessages>>
  <2>1. ReceiptTypes' BY <1>1, <1>2, <1>4, <1>5 DEF ReceiptTypes
  <2>2. ReceiptRows' /\ SentIsMailed'
    BY <1>1, <1>2, <1>5 DEF ReceiptRows, SentIsMailed, Issued, NoReceipt
  <2>3. \A c \in Charges : receipt'[c].covers \subseteq Eligible \cap donation
    BY <1>1, <1>5
  <2> QED BY <1>2, <1>4, <2>1, <2>2, <2>3, ReceiptStep
<1>6. CASE AnnualIssue /\ ~Issued(Anchor(annual.todo)) /\ Issue(Anchor(annual.todo), annual.todo)
  <2> DEFINE c == Anchor(annual.todo)
  <2>1. annual.todo \in SUBSET Charges /\ annual.todo # {}
        /\ annual.todo \subseteq Eligible \cap donation
    BY <1>1, <1>6 DEF AnnualIssue, AnnualRows, ReceiptTypes
  <2>2. c \in Charges BY <2>1, AnchorIn
  <2> HIDE DEF c
  <2>3. ~Issued(c) /\ Issue(c, annual.todo) BY <1>6 DEF c
  <2>4. /\ receipt' \in [Charges -> ReceiptRow] /\ receipt'[c].covers = annual.todo
        /\ \A d \in Charges \ {c} : receipt'[d] = receipt[d]
        /\ ReceiptRows' /\ SentIsMailed'
    BY <1>1, <1>2, <2>1, <2>2, <2>3, IssueKeeps
  <2>5. ReceiptTypes' BY <1>1, <1>2, <1>4, <2>4 DEF ReceiptTypes
  <2>6. \A d \in Charges : receipt'[d].covers \subseteq Eligible \cap donation
    BY <1>1, <2>1, <2>4
  <2> QED BY <1>2, <1>4, <2>4, <2>5, <2>6, ReceiptStep
<1>7. AnnualIssue => \/ UNCHANGED <<receipt, rmessages>>
                     \/ ~Issued(Anchor(annual.todo)) /\ Issue(Anchor(annual.todo), annual.todo)
  BY DEF AnnualIssue
<1> QED BY <1>5, <1>6, <1>7 DEF AnnualStart, AnnualCheck, AnnualAborts, SetCharity

\* The task of one receipt: its worker moves to pc, and its row becomes row.
LEMMA TaskKeeps ==
  ASSUME BooksInv, UNCHANGED <<ledgerVars, donation, annual>>,
         NEW w \in ReceiptWorkers, NEW c \in Charges, Issued(c),
         NEW pc \in {"idle", "render", "mail", "mark"}, NEW item \in Charges \cup {Nil},
         rworker' = [rworker EXCEPT ![w] = [pc |-> pc, item |-> item]],
         pc # "idle" => item = c,
         NEW row \in ReceiptRow, receipt' = [receipt EXCEPT ![c] = row],
         row.covers = receipt[c].covers,
         receipt[c].doc => row.doc, row.mails >= receipt[c].mails,
         row.sent => row.doc /\ row.mails > 0,
         pc \in {"mail", "mark"} => row.doc, pc = "mark" => row.mails > 0,
         rmessages' \subseteq rmessages \cup {c}
  PROVE  BooksInv'
<1>1. /\ ReceiptTypes /\ ReceiptRows /\ AnnualRows /\ SentIsMailed
      /\ \A d \in Charges : receipt[d].covers \subseteq Eligible \cap donation
      /\ receipt \in [Charges -> ReceiptRow]
      /\ rworker \in [ReceiptWorkers -> [pc: {"idle", "render", "mail", "mark"},
                                         item: Charges \cup {Nil}]]
      /\ annual \in [pc: {"off", "check", "issue"}, year: Years \cup {Nil}, todo: SUBSET Charges]
  BY DEF BooksInv, BooksAgree, ReceiptTypes
<1>2. /\ receipt'[c] = row /\ \A d \in Charges \ {c} : receipt'[d] = receipt[d]
      /\ receipt' \in [Charges -> ReceiptRow]
  BY <1>1
<1>3. \A d \in Charges : receipt'[d].covers = receipt[d].covers
  BY <1>2
<1>4. /\ rworker'[w].pc = pc /\ rworker'[w].item = item
      /\ \A v \in ReceiptWorkers \ {w} : rworker'[v] = rworker[v]
      /\ rworker' \in [ReceiptWorkers -> [pc: {"idle", "render", "mail", "mark"},
                                          item: Charges \cup {Nil}]]
  BY <1>1
<1>5. ReceiptTypes'
  <2>1. ReceiptRow' = ReceiptRow BY DEF ReceiptRow
  <2> QED BY <1>1, <1>2, <1>4, <2>1 DEF ReceiptTypes
<1>6. ReceiptRows'
  <2>1. \A d \in Charges : Issued(d)' <=> Issued(d) BY <1>3 DEF Issued
  <2>2. \A d \in Charges : Issued(d)' \/ receipt'[d] = NoReceipt
    BY <1>1, <1>2, <2>1 DEF ReceiptRows
  <2>3. \A d \in rmessages' \cap Charges : Issued(d)'
    BY <1>1, <2>1 DEF ReceiptRows
  <2>4. receipt[c].mails \in Nat /\ row.mails \in Nat BY <1>1 DEF ReceiptRow
  <2>5. ASSUME NEW v \in ReceiptWorkers, NEW d \in Charges, rworker'[v].item = d,
               rworker'[v].pc # "idle"
        PROVE  /\ Issued(d)'
               /\ rworker'[v].pc \in {"mail", "mark"} => receipt'[d].doc
               /\ rworker'[v].pc = "mark" => receipt'[d].mails > 0
    <3>1. CASE v = w
      <4>1. d = c BY <1>4, <2>5, <3>1
      <4> QED BY <1>2, <1>4, <2>1, <3>1, <4>1
    <3>2. CASE v # w
      <4>1. rworker'[v] = rworker[v] BY <1>4, <3>2
      <4>2. /\ Issued(d)
            /\ rworker[v].pc \in {"mail", "mark"} => receipt[d].doc
            /\ rworker[v].pc = "mark" => receipt[d].mails > 0
        BY <1>1, <2>5, <4>1 DEF ReceiptRows
      <4>3. CASE d = c
        <5>1. rworker'[v].pc = "mark" => receipt'[d].mails > 0
          BY <1>2, <2>4, <4>1, <4>2, <4>3
        <5>2. rworker'[v].pc \in {"mail", "mark"} => receipt'[d].doc
          BY <1>2, <4>1, <4>2, <4>3
        <5> QED BY <2>1, <4>2, <5>1, <5>2
      <4>4. CASE d # c BY <1>2, <2>1, <4>1, <4>2, <4>4
      <4> QED BY <4>3, <4>4
    <3> QED BY <3>1, <3>2
  <2> QED BY <2>2, <2>3, <2>5 DEF ReceiptRows, NoReceipt
<1>7. SentIsMailed'
  BY <1>1, <1>2 DEF SentIsMailed
<1>8. AnnualRows' BY <1>1 DEF AnnualRows
<1>9. \A d \in Charges : receipt'[d].covers \subseteq Eligible \cap donation
  BY <1>1, <1>3
<1> QED BY <1>5, <1>6, <1>7, <1>8, <1>9, ReceiptStep

\* generate_and_send_receipt renders, mails and marks, or ends early.
LEMMA ReceiptTaskKeeps ==
  ASSUME BooksInv, UNCHANGED ledgerVars, NEW w \in ReceiptWorkers, NEW c \in Charges,
         ReceiveReceipt(w, c) \/ Render(w, c) \/ Mail(w, c) \/ MarkSent(w, c)
           \/ ReceiptTaskEnds(w, c)
  PROVE  BooksInv'
<1>1. /\ ReceiptRows /\ SentIsMailed
      /\ receipt \in [Charges -> ReceiptRow]
      /\ receipt[c] \in ReceiptRow
      /\ rworker \in [ReceiptWorkers -> [pc: {"idle", "render", "mail", "mark"},
                                         item: Charges \cup {Nil}]]
      /\ receipt = [receipt EXCEPT ![c] = receipt[c]]
  BY DEF BooksInv, ReceiptTypes
<1>2. UNCHANGED <<donation, annual>>
  BY DEF ReceiveReceipt, Render, Mail, MarkSent, ReceiptTaskEnds
<1>3. receipt[c].sent => receipt[c].doc /\ receipt[c].mails > 0
  BY <1>1 DEF SentIsMailed
<1>4. receipt[c].mails \in Nat
  BY <1>1 DEF ReceiptRow
<1>5. ASSUME NEW pc \in {"render", "mail", "mark"}, RAt(w, pc, c)
      PROVE  /\ Issued(c)
             /\ pc \in {"mail", "mark"} => receipt[c].doc
             /\ pc = "mark" => receipt[c].mails > 0
  BY <1>1, <1>5 DEF RAt, ReceiptRows
\* A step that leaves the receipt alone: the worker becomes idle or starts.
<1>6. ASSUME UNCHANGED receipt, Issued(c), rmessages' \subseteq rmessages \cup {c},
             NEW pc \in {"idle", "render"}, NEW item \in {Nil, c}, pc # "idle" => item = c,
             rworker' = [rworker EXCEPT ![w] = [pc |-> pc, item |-> item]]
      PROVE  BooksInv'
  <2> DEFINE row == receipt[c]
  <2>1. /\ row \in ReceiptRow /\ receipt' = [receipt EXCEPT ![c] = row]
        /\ row.covers = receipt[c].covers /\ (receipt[c].doc => row.doc)
        /\ row.mails >= receipt[c].mails
        /\ (row.sent => row.doc /\ row.mails > 0)
    BY <1>1, <1>3, <1>4, <1>6
  <2>2. /\ item \in Charges \cup {Nil} /\ pc \in {"idle", "render", "mail", "mark"}
        /\ pc \in {"mail", "mark"} => row.doc
        /\ pc = "mark" => row.mails > 0
    BY <1>6
  <2> HIDE DEF row
  <2> QED BY <1>2, <1>6, <2>1, <2>2, TaskKeeps
<1>7. ASSUME NEW row \in ReceiptRow, receipt' = [receipt EXCEPT ![c] = row], Issued(c),
             UNCHANGED rmessages, NEW pc \in {"idle", "mail", "mark"}, NEW item \in {Nil, c},
             pc # "idle" => item = c,
             rworker' = [rworker EXCEPT ![w] = [pc |-> pc, item |-> item]],
             row.covers = receipt[c].covers, row.doc, row.mails >= receipt[c].mails,
             row.sent \/ pc = "mark" => row.mails > 0
      PROVE  BooksInv'
  <2>1. item \in Charges \cup {Nil} /\ pc \in {"idle", "render", "mail", "mark"}
    BY <1>7
  <2> QED BY <1>2, <1>7, <2>1, TaskKeeps
<1>8. CASE ReceiveReceipt(w, c)
  <2>1. Issued(c) BY <1>1, <1>8 DEF ReceiveReceipt, ReceiptRows
  <2>2. /\ UNCHANGED receipt /\ rmessages' \subseteq rmessages \cup {c}
        /\ rworker' = [rworker EXCEPT ![w] = [pc |-> "render", item |-> c]]
    BY <1>8 DEF ReceiveReceipt, RBecome
  <2> QED BY <1>6, <2>1, <2>2
<1>9. CASE Render(w, c)
  <2>1. Issued(c) /\ UNCHANGED rmessages BY <1>5, <1>9 DEF Render
  <2>2. CASE receipt[c].sent
    <3>1. rworker' = [rworker EXCEPT ![w] = [pc |-> "idle", item |-> Nil]] /\ UNCHANGED receipt
      BY <1>9, <2>2 DEF Render, RIdle
    <3> QED BY <1>6, <2>1, <3>1
  <2>3. CASE ~receipt[c].sent
    <3>1. /\ rworker' = [rworker EXCEPT ![w] = [pc |-> "mail", item |-> c]]
          /\ receipt' = [receipt EXCEPT ![c] = [receipt[c] EXCEPT !.doc = TRUE]]
      BY <1>9, <2>3 DEF Render, RBecome, Rendered
    <3> DEFINE row == [receipt[c] EXCEPT !.doc = TRUE]
    <3>2. row = [receipt[c] EXCEPT !.doc = TRUE] /\ receipt' = [receipt EXCEPT ![c] = row]
      BY <3>1
    <3> HIDE DEF row
    <3>3. /\ row \in ReceiptRow /\ row.doc /\ row.covers = receipt[c].covers
          /\ row.sent = receipt[c].sent /\ row.mails = receipt[c].mails
      BY <1>1, <3>2, DocEdited
    <3>4. row.mails >= receipt[c].mails /\ row.doc /\ ~row.sent BY <1>4, <2>3, <3>3
    <3> QED BY <1>7, <2>1, <3>1, <3>2, <3>3, <3>4
  <2> QED BY <2>2, <2>3
<1>10. CASE Mail(w, c)
  <2>1. Issued(c) /\ receipt[c].doc /\ UNCHANGED rmessages BY <1>5, <1>10 DEF Mail
  <2> DEFINE row == [receipt[c] EXCEPT !.mails = receipt[c].mails + 1]
  <2>2. /\ row = [receipt[c] EXCEPT !.mails = receipt[c].mails + 1]
        /\ receipt' = [receipt EXCEPT ![c] = row]
        /\ rworker' = [rworker EXCEPT ![w] = [pc |-> "mark", item |-> c]]
    BY <1>10 DEF Mail, RBecome
  <2> HIDE DEF row
  <2>3. receipt[c].mails + 1 \in Nat BY <1>4
  <2>4. /\ row \in ReceiptRow /\ row.doc = receipt[c].doc /\ row.covers = receipt[c].covers
        /\ row.sent = receipt[c].sent /\ row.mails = receipt[c].mails + 1
    BY <1>1, <2>2, <2>3, MailsEdited
  <2>5. row.mails >= receipt[c].mails /\ row.mails > 0 /\ row.doc BY <1>4, <2>1, <2>4
  <2> QED BY <1>7, <2>1, <2>2, <2>4, <2>5
<1>11. CASE MarkSent(w, c)
  <2>1. Issued(c) /\ receipt[c].doc /\ receipt[c].mails > 0 /\ UNCHANGED rmessages
    BY <1>5, <1>11 DEF MarkSent
  <2> DEFINE row == [receipt[c] EXCEPT !.sent = TRUE]
  <2>2. /\ row = [receipt[c] EXCEPT !.sent = TRUE] /\ receipt' = [receipt EXCEPT ![c] = row]
        /\ rworker' = [rworker EXCEPT ![w] = [pc |-> "idle", item |-> Nil]]
    BY <1>11 DEF MarkSent, RIdle
  <2> HIDE DEF row
  <2>3. /\ row \in ReceiptRow /\ row.doc = receipt[c].doc /\ row.covers = receipt[c].covers
        /\ row.mails = receipt[c].mails
    BY <1>1, <2>2, SentEdited
  <2>4. row.mails >= receipt[c].mails /\ row.mails > 0 /\ row.doc BY <1>4, <2>1, <2>3
  <2> QED BY <1>7, <2>1, <2>2, <2>3, <2>4
<1>12. CASE ReceiptTaskEnds(w, c)
  <2>1. Issued(c) BY <1>1, <1>12 DEF ReceiptTaskEnds, ReceiptRows
  <2>2. /\ UNCHANGED receipt /\ rmessages' \subseteq rmessages \cup {c}
        /\ rworker' = [rworker EXCEPT ![w] = [pc |-> "idle", item |-> Nil]]
    BY <1>12 DEF ReceiptTaskEnds, RIdle
  <2> QED BY <1>6, <2>1, <2>2
<1> QED BY <1>8, <1>9, <1>10, <1>11, <1>12

\* Empty books satisfy the invariant.
LEMMA BooksInvInit == LedgerInit => BooksInv
<1> SUFFICES ASSUME LedgerInit PROVE BooksInv
  OBVIOUS
<1>1. NoRefund \in RefundRow /\ NoRefund.status = "none" /\ NoRefund.call = "none"
      /\ NoRefund.charge = Nil
  BY DEF NoRefund, RefundRow
<1>2. LedgerTypes
  <2>1. handler \in [EventWorkers -> [pc: {"idle", "handle", "hook"}, item: Events \cup {Nil}]]
    BY DEF LedgerInit, HandlerIdle
  <2>2. plan \in [status: {"none", "active", "paused", "cancelled"}, call: {"none", "due"}]
    BY DEF LedgerInit
  <2>3. stripe \in StripeBooks BY DEF LedgerInit, StripeBooks
  <2>4. refund \in [Refunds -> RefundRow] BY <1>1 DEF LedgerInit
  <2> QED BY <2>1, <2>2, <2>3, <2>4 DEF LedgerInit, LedgerTypes
<1>3. NoReceipt \in ReceiptRow /\ NoReceipt.covers = {} /\ NoReceipt.sent = FALSE
  BY DEF NoReceipt, ReceiptRow
<1>4. /\ receipt = [c \in Charges |-> NoReceipt] /\ rmessages = {}
      /\ rworker = [w \in ReceiptWorkers |-> RIdle] /\ annual = NoRun
  BY DEF LedgerInit, ReceiptInit
<1>5. ReceiptTypes
  BY <1>3, <1>4 DEF ReceiptTypes, RIdle, NoRun
<1>6. EventsAreTrue
  BY EventsOf DEF LedgerInit, EventsAreTrue, HandlerIdle
<1>7. RefundRows
  BY <1>1 DEF LedgerInit, RefundRows
<1>8. ReceiptRows
  BY <1>4 DEF ReceiptRows, RIdle
<1>9. AnnualRows
  BY <1>4 DEF AnnualRows, NoRun
<1>10. BooksAgree
  BY <1>3, <1>4 DEF LedgerInit, BooksAgree
<1>11. ProcessedIsRecorded
  BY EventsOf DEF LedgerInit, ProcessedIsRecorded
<1>12. SucceededIsRefunded
  BY <1>1 DEF LedgerInit, SucceededIsRefunded
<1>13. SentIsMailed
  BY <1>3, <1>4 DEF SentIsMailed
<1>14. RefundsCovered
  <2>1. ASSUME NEW c \in Charges PROVE CoverOf(c) = {}
    BY <1>1, LedgerAssumption DEF LedgerInit, CoverOf
  <2>2. Total(AskedAmount, {}) = 0 BY TotalStep, FS_EmptySet
  <2>3. 0 <= Amount BY LedgerAssumption
  <2>4. Covered BY <2>1, <2>2, <2>3 DEF Covered
  <2> QED BY <2>4, CoveredNow
<1> QED BY <1>2, <1>5, <1>6, <1>7, <1>8, <1>9, <1>10, <1>11, <1>12, <1>13, <1>14 DEF BooksInv

\* Every step of Stripe, of the views, of the webhook task and of the receipts
\* preserves the invariant.
LEMMA BooksInvStep == BooksInv /\ [LedgerNext]_moneyVars => BooksInv'
<1> SUFFICES ASSUME BooksInv, [LedgerNext]_moneyVars PROVE BooksInv'
  OBVIOUS
<1>1. CASE UNCHANGED moneyVars
  <2>1. UNCHANGED <<ledgerVars, donation, receiptVars>> BY <1>1 DEF moneyVars
  <2>2. UNCHANGED receiptVars /\ donation \subseteq donation' /\ UNCHANGED receipt
    BY <2>1 DEF receiptVars
  <2>3. ReceiptTypes' /\ ReceiptRows' /\ AnnualRows' /\ SentIsMailed'
    BY <2>2, ReceiptsKept
  <2> QED BY <2>1, <2>2, <2>3, ReceiptStep DEF BooksInv, BooksAgree
<1>2. CASE ReceiptNext /\ UNCHANGED ledgerVars
  BY <1>2, AnnualKeeps, ReceiptTaskKeeps DEF ReceiptNext
<1>3. CASE \E i \in Intents : Charge(i) \/ Decline(i) \/ CreateIntent(i) \/ CancelIntent(i)
  BY <1>3, StripeSteps, IntentKeeps
<1>4. CASE \E m \in Renewals : Renew(m) \/ RenewalFails(m)
  BY <1>4, StripeSteps
<1>5. CASE \E s \in {"active", "paused", "canceled"} : ChangeSubscription(s)
  BY <1>5, StripeSteps
<1>6. CASE CancelPlan \/ CancelAtStripe \/ RequestCrash
  BY <1>6, StripeSteps, CancelPlanKeeps, RequestCrashKeeps
<1>7. CASE \E r \in Refunds : \/ \E c \in Charges : DashboardRefund(r, c) \/ RefundConfirm(r, c)
                              \/ RefundAtStripe(r) \/ RecordRefund(r)
  BY <1>7, DashboardKeeps, RefundConfirmKeeps, RefundAtStripeKeeps, RecordRefundKeeps
<1>8. CASE \E w \in EventWorkers : \/ HandlerCrash(w)
                                   \/ \E e \in Events : ReceiveEvent(w, e) \/ Handle(w, e) \/ RunHook(w, e)
  BY <1>8, ReceiveKeeps, HandleKeeps, HookKeeps
<1> QED BY <1>1, <1>2, <1>3, <1>4, <1>5, <1>6, <1>7, <1>8 DEF LedgerNext

\* The invariant of the books holds in every reachable state
\* (process_stripe_webhook, RefundConfirmView, generate_and_send_receipt).
THEOREM BooksInvariance == LedgerSpec => []BooksInv
BY BooksInvInit, BooksInvStep, PTL DEF LedgerSpec

\* Payments were charged, completed intents have one, donations are the payments of
\* one-time gifts and of renewals, and receipts cover eligible donations (process_stripe_webhook and its
\* handlers, on_donation_completed, generate_annual_receipts).
THEOREM TablesAgree == LedgerSpec => []BooksAgree
<1>1. BooksInv => BooksAgree BY DEF BooksInv
<1> QED BY <1>1, BooksInvariance, PTL

\* A processed event has left its trace in the books, whatever is handled later
\* (process_stripe_webhook).
THEOREM ProcessedLeavesTrace == LedgerSpec => []ProcessedIsRecorded
<1>1. BooksInv => ProcessedIsRecorded BY DEF BooksInv
<1> QED BY <1>1, BooksInvariance, PTL

\* The refunds pending and succeeded of a charge never exceed it
\* (RefundConfirmView.post).
THEOREM NeverOverRefunded == LedgerSpec => []RefundsCovered
<1>1. BooksInv => RefundsCovered BY DEF BooksInv
<1> QED BY <1>1, BooksInvariance, PTL

\* A refund is recorded or confirmed as succeeded only when Stripe made it, of its
\* amount (RefundConfirmView.post, _handle_charge_refunded).
THEOREM RefundsAreMade == LedgerSpec => []SucceededIsRefunded
<1>1. BooksInv => SucceededIsRefunded BY DEF BooksInv
<1> QED BY <1>1, BooksInvariance, PTL

\* A receipt marked delivered has its document and was handed to the mail transport
\* (generate_and_send_receipt).
THEOREM SentWasMailed == LedgerSpec => []SentIsMailed
<1>1. BooksInv => SentIsMailed BY DEF BooksInv
<1> QED BY <1>1, BooksInvariance, PTL
=============================================================================
