--------------------------- MODULE FinanceProofs ----------------------------
(***************************************************************************)
(* What the arithmetic of Finance guarantees for every price, deposit and  *)
(* percent, and what a sum over a finite set is.                           *)
(***************************************************************************)
EXTENDS Finance, Functions, FiniteSetTheorems, TLAPS

\* A percentage of an amount, rounded, is a natural number no larger than it.
LEMMA PercentBounds ==
  ASSUME NEW n \in Nat, NEW percent \in 0..100
  PROVE  PercentOf(n, percent) \in 0..n
<1>1. /\ n * percent \in Nat
      /\ n * percent <= n * 100
  OBVIOUS
<1>2. QED
  BY <1>1 DEF PercentOf

\* A percent is clamped to 0..100.
LEMMA ClampBounds ==
  ASSUME NEW percent \in Int
  PROVE  ClampPercent(percent) \in 0..100
  BY DEF ClampPercent, Smaller, Larger

\* The clamps of the deposit.
LEMMA DepositClamp ==
  ASSUME NEW raw \in Int
  PROVE  LET d == Smaller(500000, Larger(30000, raw)) IN
         d \in Nat /\ 30000 <= d /\ d <= 500000
  BY SMT DEF Smaller, Larger

\* The deposit is between 30,000 and 500,000 Toman whatever the price, also when
\* the price is lower, and what remains to be paid on site completes the price.
THEOREM DepositBounds ==
  ASSUME NEW price \in Int
  PROVE  /\ DepositAmount(price) \in Nat
         /\ 30000 <= DepositAmount(price) /\ DepositAmount(price) <= 500000
         /\ PayableOnSite(price) \in Nat
         /\ price >= DepositAmount(price) =>
                PayableOnSite(price) + DepositAmount(price) = price
<1> DEFINE p == Larger(0, price)
<1>1. p \in Nat /\ (price >= 0 => p = price)
  BY DEF Larger
<1>2. DepositPercent(p) \in 0..100
  BY <1>1 DEF DepositPercent
<1>3. RawDeposit(price) \in 0..p
  BY <1>1, <1>2, PercentBounds DEF RawDeposit
<1> HIDE DEF p
<1>4. /\ DepositAmount(price) \in Nat
      /\ 30000 <= DepositAmount(price) /\ DepositAmount(price) <= 500000
  <2>1. RawDeposit(price) \in Int
    BY <1>1, <1>3, SMT
  <2>2. QED
    BY <2>1, DepositClamp, SMT DEF DepositAmount
<1>5. PayableOnSite(price) = Larger(0, p - DepositAmount(price))
  BY DEF PayableOnSite, p
<1>6. QED
  BY <1>1, <1>4, <1>5, SMT DEF Larger

\* The deposit of a price is a natural number.
LEMMA DepositType ==
  ASSUME NEW price \in Int
  PROVE  DepositAmount(price) \in Nat
<1>1. Larger(0, price) \in Nat
  BY DEF Larger
<1>2. DepositPercent(Larger(0, price)) \in 0..100
  BY <1>1 DEF DepositPercent
<1>3. RawDeposit(price) \in 0..Larger(0, price)
  BY <1>1, <1>2, PercentBounds DEF RawDeposit
<1>4. RawDeposit(price) \in Int
  BY <1>1, <1>3
<1>5. QED
  BY <1>4, DepositClamp, SMT DEF DepositAmount

\* A new booking is charged a fee, and the rest of its price is due on site.
LEMMA FeeTypes ==
  ASSUME NEW price \in Int
  PROVE  CalculateBookingFee(price) \in Nat /\ PayableOnSite(price) \in Nat
<1>1. CalculateBookingFee(price) \in Nat
  BY SMT DEF CalculateBookingFee
<1>2. PayableOnSite(price) \in Nat
  BY DepositType, SMT DEF PayableOnSite, Larger
<1>3. QED
  BY <1>1, <1>2

\* Credit never exceeds what was asked for, what the wallet holds or what is
\* charged, and the charge splits exactly into credit and gateway payment.
THEOREM ChargeSplits ==
  ASSUME NEW requested \in Int, NEW balance \in Int, NEW charge \in Nat, balance >= 0
  PROVE  LET used == CreditUsed(requested, balance, charge) IN
         /\ used \in 0..charge
         /\ used <= balance
         /\ NetCharge(charge, used) + used = charge
  BY DEF CreditUsed, NetCharge, Smaller, Larger

\* A cancel returns at most the deposit, and refund and penalty share it out:
\* rounding both halves up adds at most one Toman.
THEOREM RefundAndPenalty ==
  ASSUME NEW deposit \in Nat, NEW percent \in 0..100
  PROVE  /\ CalculateRefund(deposit, percent) \in 0..deposit
         /\ CalculatePenalty(deposit, 100 - percent) \in 0..deposit
         /\ CalculateRefund(deposit, percent) + CalculatePenalty(deposit, 100 - percent)
               \in {deposit, deposit + 1}
<1>1. ClampPercent(percent) = percent /\ ClampPercent(100 - percent) = 100 - percent
  BY DEF ClampPercent, Smaller, Larger
<1>2. /\ CalculateRefund(deposit, percent) = PercentOf(deposit, percent)
      /\ CalculatePenalty(deposit, 100 - percent) = PercentOf(deposit, 100 - percent)
  BY <1>1 DEF CalculateRefund, CalculatePenalty
<1>3. 100 - percent \in 0..100
  OBVIOUS
<1>4. PercentOf(deposit, percent) + PercentOf(deposit, 100 - percent) \in {deposit, deposit + 1}
  <2>1. PICK m \in Int : m = deposit * percent
    OBVIOUS
  <2>2. deposit * (100 - percent) = deposit * 100 - m
    BY <2>1
  <2>3. QED
    BY <2>1, <2>2 DEF PercentOf
<1>5. QED
  BY <1>2, <1>3, <1>4, PercentBounds

\* Ledgers: a natural number for every type of adjustment.
Ledgers == [AdjustmentTypes -> Nat]

\* What a ledger comes to is either a refund or a debt, never both, and the two
\* differ by exactly what refunds and penalties on record differ by.
THEOREM RefundOrDebt ==
  ASSUME NEW ledger \in Ledgers
  PROVE  /\ NetRefund(ledger) \in Nat /\ Debt(ledger) \in Nat
         /\ NetRefund(ledger) = 0 \/ Debt(ledger) = 0
         /\ NetRefund(ledger) - Debt(ledger) = ledger["refund"] - TotalPenalties(ledger)
<1>1. /\ ledger["refund"] \in Nat
      /\ ledger["penalty_reschedule"] \in Nat
      /\ ledger["penalty_cancellation"] \in Nat
  BY DEF Ledgers, AdjustmentTypes, PenaltyTypes
<1>2. QED
  BY <1>1 DEF NetRefund, Debt, TotalPenalties

-----------------------------------------------------------------------------
(* Sums over finite sets                                                   *)

\* Every nonempty set of natural numbers has a least one.
LEMMA LeastOf ==
  ASSUME NEW T \in SUBSET Nat, T # {}
  PROVE  \E m \in T : \A k \in T : m <= k
  <1> DEFINE R == {ss \in Nat \X Nat : ss[1] < ss[2]}
  <1>1. IsWellFoundedOn(R, Nat)
    BY NatLessThanWellFounded DEF OpToRel
  <1>2. \E m \in T : \A k \in T : <<k, m>> \notin R
    <2> HIDE DEF R
    <2>1. QED
      BY <1>1, WFMin
  <1>3. \A k, m \in T : k < m => <<k, m>> \in R
    OBVIOUS
  <1>4. \E m \in T : \A k \in T : ~(k < m)
    <2> HIDE DEF R
    <2>1. QED
      BY <1>2, <1>3
  <1>5. QED
    BY <1>4

\* Every nonempty set of subsets of a finite set has a smallest one: none of it
\* is a proper subset.  It is what the inductions below are made of.
LEMMA SmallestOf ==
  ASSUME NEW S, IsFiniteSet(S), NEW T \in SUBSET SUBSET S, T # {}
  PROVE  \E s \in T : \A r \in T : r \subseteq s => r = s
  <1>1. IsWellFoundedOn(StrictSubsetOrdering(S), SUBSET S)
    BY FS_StrictSubsetOrderingWellFounded, FS_FiniteSubsetsOfFinite
  <1>2. \E s \in T : \A r \in T : <<r, s>> \notin StrictSubsetOrdering(S)
    BY <1>1, WFMin
  <1>3. \A r, s \in T : r \subseteq s /\ r # s => <<r, s>> \in StrictSubsetOrdering(S)
    BY DEF StrictSubsetOrdering
  <1>4. QED
    BY <1>2, <1>3

\* How SumFunctionOnSet adds: an element of the set, and the rest.
First(s) == CHOOSE x \in s : TRUE
Rest(s) == s \ {First(s)}
Adds(iter, f, S) == iter = [s \in SUBSET S |-> IF s = {} THEN 0 ELSE f[First(s)] + iter[Rest(s)]]
AddingUp(f, S) == CHOOSE iter : Adds(iter, f, S)

\* A finite set that is not empty holds the element that the sum takes first.
LEMMA FirstOf ==
  ASSUME NEW s, s # {}
  PROVE  First(s) \in s /\ Rest(s) \subseteq s /\ Rest(s) # s
  BY DEF First, Rest

\* What the recursive sum computes at a set is the first value and the rest.
LEMMA AddsAt ==
  ASSUME NEW f, NEW S, NEW g, Adds(g, f, S), NEW s \in SUBSET S
  PROVE  /\ s = {} => g[s] = 0
         /\ s # {} => g[s] = f[First(s)] + g[Rest(s)]
  BY DEF Adds

\* Two such additions agree where both are defined.
LEMMA AddsOnce ==
  ASSUME NEW f, NEW S, IsFiniteSet(S), NEW R \in SUBSET S, NEW g, Adds(g, f, S), NEW h, Adds(h, f, R)
  PROVE  \A s \in SUBSET R : g[s] = h[s]
  <1> DEFINE T == {s \in SUBSET R : g[s] # h[s]}
  <1>1. IsFiniteSet(R) /\ T \in SUBSET SUBSET R
    BY FS_Subset
  <1>2. ASSUME T # {}
        PROVE  FALSE
    <2>1. PICK s \in T : \A r \in T : r \subseteq s => r = s
      <3> HIDE DEF T
      <3>1. QED
        BY <1>1, <1>2, SmallestOf
    <2>2. s \in SUBSET S /\ s \in SUBSET R /\ g[s] # h[s]
      BY <2>1
    <2>3. s # {}
      BY <2>2, AddsAt
    <2>4. Rest(s) \in SUBSET R /\ Rest(s) \notin T
      BY <2>1, <2>3, FirstOf
    <2>5. QED
      BY <2>2, <2>3, <2>4, AddsAt
  <1>3. QED
    BY <1>2

\* There is such an addition for every finite set.
LEMMA AddsExist ==
  ASSUME NEW f, NEW S, IsFiniteSet(S)
  PROVE  Adds(AddingUp(f, S), f, S)
  <1> DEFINE T == {s \in SUBSET S : \A g : ~Adds(g, f, s)}
  <1>1. ASSUME T # {}
        PROVE  FALSE
    <2>0. T \in SUBSET SUBSET S
      OBVIOUS
    <2>1. PICK s \in T : \A r \in T : r \subseteq s => r = s
      <3> HIDE DEF T
      <3>1. QED
        BY <1>1, <2>0, SmallestOf
    <2>2. IsFiniteSet(s)
      BY FS_Subset
    <2>3. \A r \in SUBSET s : r # s => Adds(AddingUp(f, r), f, r)
      BY <2>1 DEF AddingUp
    <2> DEFINE V == [r \in SUBSET s |-> IF r = {} THEN 0 ELSE f[First(r)] + AddingUp(f, Rest(r))[Rest(r)]]
    <2>4. ASSUME NEW r \in SUBSET s, r # {}
          PROVE  V[Rest(r)] = AddingUp(f, Rest(r))[Rest(r)]
      <3>1. Rest(r) \in SUBSET s /\ Rest(r) # s
        BY <2>4, FirstOf
      <3>2. Adds(AddingUp(f, Rest(r)), f, Rest(r))
        BY <2>3, <3>1
      <3>3. CASE Rest(r) = {}
        BY <3>1, <3>2, <3>3, AddsAt
      <3>4. CASE Rest(r) # {}
        <4> DEFINE q == Rest(r)
        <4>1. Rest(q) \in SUBSET q /\ Rest(q) # s /\ Rest(q) \in SUBSET s
          BY <3>1, <3>4, FirstOf
        <4>2. AddingUp(f, q)[q] = f[First(q)] + AddingUp(f, q)[Rest(q)]
          BY <3>2, <3>4, AddsAt
        <4>3. Adds(AddingUp(f, Rest(q)), f, Rest(q))
          BY <2>3, <4>1
        <4>4. IsFiniteSet(q)
          BY <2>2, <3>1, FS_Subset
        <4>5. AddingUp(f, q)[Rest(q)] = AddingUp(f, Rest(q))[Rest(q)]
          BY <3>2, <4>1, <4>3, <4>4, AddsOnce
        <4>6. V[q] = f[First(q)] + AddingUp(f, Rest(q))[Rest(q)]
          BY <3>1, <3>4
        <4>7. QED
          BY <4>2, <4>5, <4>6
      <3>5. QED
        BY <3>3, <3>4
    <2>5. Adds(V, f, s)
      BY <2>4 DEF Adds
    <2>6. QED
      BY <2>1, <2>5
  <1>2. \E g : Adds(g, f, S)
    BY <1>1
  <1>3. QED
    BY <1>2 DEF AddingUp

\* The sum of a function on a set is the one added up by recursion.
LEMMA SumIsAdding ==
  ASSUME NEW f, NEW S
  PROVE  SumFunctionOnSet(f, S) = AddingUp(f, S)[S]
  BY DEF SumFunctionOnSet, FoldFunctionOnSet, MapThenFoldSet, AddingUp, Adds, First, Rest

\* The sum over no indices.
LEMMA SumOfNone == ASSUME NEW f PROVE SumFunctionOnSet(f, {}) = 0
  <1>1. Adds(AddingUp(f, {}), f, {})
    BY FS_EmptySet, AddsExist
  <1>2. {} \in SUBSET {}
    OBVIOUS
  <1>3. AddingUp(f, {})[{}] = 0
    BY <1>1, <1>2, AddsAt
  <1>4. SumFunctionOnSet(f, {}) = AddingUp(f, {})[{}]
    BY SumIsAdding
  <1>5. QED
    BY <1>3, <1>4

\* The sum over the first index and the rest.
LEMMA SumUnfolds ==
  ASSUME NEW f, NEW S, IsFiniteSet(S), S # {}
  PROVE  SumFunctionOnSet(f, S) = f[First(S)] + SumFunctionOnSet(f, Rest(S))
  <1>1. Adds(AddingUp(f, S), f, S)
    BY AddsExist
  <1>2. Rest(S) \in SUBSET S /\ IsFiniteSet(Rest(S))
    BY FirstOf, FS_Subset
  <1>3. AddingUp(f, S)[Rest(S)] = AddingUp(f, Rest(S))[Rest(S)]
    BY <1>1, <1>2, AddsExist, AddsOnce
  <1>4. AddingUp(f, S)[S] = f[First(S)] + AddingUp(f, S)[Rest(S)]
    BY <1>1, AddsAt
  <1>5. QED
    BY <1>3, <1>4, SumIsAdding

\* A sum of integers is an integer.
LEMMA SumType ==
  ASSUME NEW S, IsFiniteSet(S), NEW f, \A x \in S : f[x] \in Int
  PROVE  \A s \in SUBSET S : SumFunctionOnSet(f, s) \in Int
  <1> DEFINE T == {s \in SUBSET S : SumFunctionOnSet(f, s) \notin Int}
  <1>1. T \in SUBSET SUBSET S
    OBVIOUS
  <1>2. ASSUME T # {}
        PROVE  FALSE
    <2>1. PICK s \in T : \A r \in T : r \subseteq s => r = s
      <3> HIDE DEF T
      <3>1. QED
        BY <1>1, <1>2, SmallestOf
    <2>2. s \in SUBSET S /\ IsFiniteSet(s) /\ SumFunctionOnSet(f, s) \notin Int
      BY <2>1, FS_Subset
    <2>3. s # {}
      BY <2>2, SumOfNone
    <2>4. Rest(s) \in SUBSET S /\ Rest(s) \notin T /\ First(s) \in S
      BY <2>1, <2>3, FirstOf
    <2>5. SumFunctionOnSet(f, Rest(s)) \in Int /\ f[First(s)] \in Int
      BY <2>4
    <2>6. QED
      BY <2>2, <2>3, <2>5, SumUnfolds
  <1>3. QED
    BY <1>2

\* A sum of naturals is one.
LEMMA SumOfNats ==
  ASSUME NEW S, IsFiniteSet(S), NEW f, \A x \in S : f[x] \in Nat
  PROVE  \A s \in SUBSET S : SumFunctionOnSet(f, s) \in Nat
  <1> DEFINE T == {s \in SUBSET S : SumFunctionOnSet(f, s) \notin Nat}
  <1>1. T \in SUBSET SUBSET S
    OBVIOUS
  <1>2. ASSUME T # {}
        PROVE  FALSE
    <2>1. PICK s \in T : \A r \in T : r \subseteq s => r = s
      <3> HIDE DEF T
      <3>1. QED
        BY <1>1, <1>2, SmallestOf
    <2>2. s \in SUBSET S /\ IsFiniteSet(s) /\ SumFunctionOnSet(f, s) \notin Nat
      BY <2>1, FS_Subset
    <2>3. s # {}
      BY <2>2, SumOfNone
    <2>4. Rest(s) \in SUBSET S /\ Rest(s) \notin T /\ First(s) \in S
      BY <2>1, <2>3, FirstOf
    <2>5. SumFunctionOnSet(f, Rest(s)) \in Nat /\ f[First(s)] \in Nat
      BY <2>4
    <2>6. QED
      BY <2>2, <2>3, <2>5, SumUnfolds
  <1>3. QED
    BY <1>2

\* The order of adding does not matter: any index can be taken out.
LEMMA SumTakesOut ==
  ASSUME NEW S, IsFiniteSet(S), NEW f, \A x \in S : f[x] \in Int, NEW z \in S
  PROVE  SumFunctionOnSet(f, S) = f[z] + SumFunctionOnSet(f, S \ {z})
  <1> DEFINE Wrong(s, x) == SumFunctionOnSet(f, s) # f[x] + SumFunctionOnSet(f, s \ {x})
             T == {s \in SUBSET S : \E x \in s : Wrong(s, x)}
  <1>1. T \in SUBSET SUBSET S
    OBVIOUS
  <1>2. ASSUME T # {}
        PROVE  FALSE
    <2>1. PICK s \in T : \A r \in T : r \subseteq s => r = s
      <3> HIDE DEF T
      <3>1. QED
        BY <1>1, <1>2, SmallestOf
    <2>2. PICK x \in s : Wrong(s, x)
      BY <2>1
    <2>3. PICK y : y = First(s) /\ y \in s
      BY <2>2, FirstOf
    <2>4. s \in SUBSET S /\ x \in S /\ y \in S /\ IsFiniteSet(s)
      BY <2>1, <2>2, <2>3, FS_Subset
    <2>5. SumFunctionOnSet(f, s) = f[y] + SumFunctionOnSet(f, s \ {y})
      BY <2>2, <2>3, <2>4, SumUnfolds DEF Rest
    <2>6. x # y
      BY <2>2, <2>5
    <2>7. s \ {y} \notin T /\ s \ {x} \notin T
      BY <2>1, <2>2, <2>3
    <2>8. ~Wrong(s \ {y}, x) /\ ~Wrong(s \ {x}, y)
      <3>1. s \ {y} \in SUBSET S /\ x \in s \ {y} /\ s \ {x} \in SUBSET S /\ y \in s \ {x}
        BY <2>2, <2>3, <2>4, <2>6
      <3> HIDE DEF Wrong
      <3>2. QED
        BY <2>7, <3>1
    <2>9. SumFunctionOnSet(f, (s \ {y}) \ {x}) = SumFunctionOnSet(f, (s \ {x}) \ {y})
      <3>1. (s \ {y}) \ {x} = (s \ {x}) \ {y}
        OBVIOUS
      <3>2. QED
        BY <3>1
    <2>10. SumFunctionOnSet(f, (s \ {x}) \ {y}) \in Int /\ f[x] \in Int /\ f[y] \in Int
      BY <2>4, SumType
    <2>11. /\ SumFunctionOnSet(f, s \ {y}) = f[x] + SumFunctionOnSet(f, (s \ {x}) \ {y})
           /\ SumFunctionOnSet(f, s \ {x}) = f[y] + SumFunctionOnSet(f, (s \ {x}) \ {y})
      BY <2>8, <2>9
    <2>12. SumFunctionOnSet(f, s) # f[x] + SumFunctionOnSet(f, s \ {x})
      BY <2>2
    <2> HIDE DEF Wrong, T
    <2>13. QED
      BY <2>5, <2>10, <2>11, <2>12
  <1>3. ~Wrong(S, z)
    BY <1>2
  <1>4. QED
    BY <1>3

\* Sums of functions that agree agree.
LEMMA SumAgrees ==
  ASSUME NEW S, IsFiniteSet(S), NEW f, NEW g, \A x \in S : f[x] = g[x]
  PROVE  SumFunctionOnSet(f, S) = SumFunctionOnSet(g, S)
  <1> DEFINE T == {s \in SUBSET S : SumFunctionOnSet(f, s) # SumFunctionOnSet(g, s)}
  <1>1. T \in SUBSET SUBSET S
    OBVIOUS
  <1>2. ASSUME T # {}
        PROVE  FALSE
    <2>1. PICK s \in T : \A r \in T : r \subseteq s => r = s
      <3> HIDE DEF T
      <3>1. QED
        BY <1>1, <1>2, SmallestOf
    <2>2. s \in SUBSET S /\ IsFiniteSet(s) /\ SumFunctionOnSet(f, s) # SumFunctionOnSet(g, s)
      BY <2>1, FS_Subset
    <2>3. s # {}
      BY <2>2, SumOfNone
    <2>4. Rest(s) \in SUBSET S /\ Rest(s) \notin T /\ First(s) \in S
      BY <2>1, <2>3, FirstOf
    <2>5. SumFunctionOnSet(f, Rest(s)) = SumFunctionOnSet(g, Rest(s)) /\ f[First(s)] = g[First(s)]
      BY <2>4
    <2>6. QED
      BY <2>2, <2>3, <2>5, SumUnfolds
  <1>3. QED
    BY <1>2

\* One index more adds its value.
LEMMA SumWithOneMore ==
  ASSUME NEW S, IsFiniteSet(S), NEW z, z \notin S, NEW f, NEW g, g[z] \in Int,
         \A x \in S : g[x] = f[x] /\ f[x] \in Int
  PROVE  SumFunctionOnSet(g, S \cup {z}) = g[z] + SumFunctionOnSet(f, S)
  <1>1. IsFiniteSet(S \cup {z}) /\ (S \cup {z}) \ {z} = S
    BY FS_AddElement
  <1>2. SumFunctionOnSet(g, S \cup {z}) = g[z] + SumFunctionOnSet(g, (S \cup {z}) \ {z})
    BY <1>1, SumTakesOut
  <1>3. SumFunctionOnSet(g, S) = SumFunctionOnSet(f, S)
    BY SumAgrees
  <1>4. QED
    BY <1>1, <1>2, <1>3
=============================================================================
