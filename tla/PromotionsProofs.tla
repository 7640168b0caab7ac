-------------------------- MODULE PromotionsProofs --------------------------
(***************************************************************************)
(* That the ledger of credit explains every balance, that a reminder is sent *)
(* once in a period, that a code is not given to more customers than its   *)
(* highest limit, and that campaigns one after the other stay within their *)
(* bounds, for any number of codes, bookings, limits, passes and campaigns. *)
(***************************************************************************)
EXTENDS CreditLedger, PlanPeriod, DiscountCodes, FinanceProofs

(* Credit                                                                  *)

\* The changes in flight.
Busy == {w \in Writers : writing[w] # Idle}

\* A wallet is what its changes make of it.
WalletSum(u) ==
    /\ totalEarned[u] = Listed(u, 1) + Unlisted(u, 1)
    /\ totalSpent[u] = Listed(u, -1) + Unlisted(u, -1)
    /\ balance[u] = totalEarned[u] - totalSpent[u]

WalletTypes ==
    /\ balance \in [Users -> Int]
    /\ totalEarned \in [Users -> Nat]
    /\ totalSpent \in [Users -> Nat]
    /\ entries \in [References -> Seq(Changes)]
    /\ writing \in [Writers -> Changes \cup {Idle}]
    /\ lost \in Seq(Changes)

LedgerInv ==
    /\ WalletTypes
    /\ IsFiniteSet(AllTransactions) /\ IsFiniteSet(Busy)
    /\ \A u \in Users : WalletSum(u)

\* A claim under way is one of a referee by a user.
ClaimsInv ==
    \A k \in Claims : claim[k].step # "idle" => claim[k].referee \in Referees /\ claim[k].referrer \in Users

CreditInv == CreditTypeOK /\ LedgerInv /\ ClaimsInv

\* What an award is worth is a natural number.
LEMMA WorthIsNatural ==
  ASSUME NEW c \in Changes, NEW sign \in {1, -1}
  PROVE  Worth(c, sign) \in Nat
  BY DEF Worth, Changes

\* A writer that is idle is at no change.
LEMMA IdleIsNoChange == Idle \notin Changes
  BY CreditAssumption DEF Idle, Changes

\* What is in flight, listed or lost is a change.
LEMMA ChangesEverywhere ==
  ASSUME WalletTypes
  PROVE  /\ \A w \in Writers : writing[w] # Idle => writing[w] \in Changes
         /\ \A f \in References : entries[f] \in Seq(Changes) /\ Len(entries[f]) \in Nat
                                  /\ DOMAIN entries[f] = 1 .. Len(entries[f])
                                  /\ \A i \in DOMAIN entries[f] : entries[f][i] \in Changes
         /\ \A t \in AllTransactions :
               /\ t[1] \in References /\ t[2] \in DOMAIN entries[t[1]] /\ t = <<t[1], t[2]>>
               /\ entries[t[1]][t[2]] \in Changes
         /\ lost \in Seq(Changes) /\ Len(lost) \in Nat /\ DOMAIN lost = 1 .. Len(lost)
         /\ \A i \in DOMAIN lost : lost[i] \in Changes
         /\ IsFiniteSet(DOMAIN lost)
  <1>1. \A f \in References : entries[f] \in Seq(Changes) /\ Len(entries[f]) \in Nat
                              /\ DOMAIN entries[f] = 1 .. Len(entries[f])
                              /\ \A i \in DOMAIN entries[f] : entries[f][i] \in Changes
    BY DEF WalletTypes
  <1>2. \A t \in AllTransactions :
           /\ t[1] \in References /\ t[2] \in DOMAIN entries[t[1]] /\ t = <<t[1], t[2]>>
           /\ entries[t[1]][t[2]] \in Changes
    <2> SUFFICES ASSUME NEW t \in AllTransactions
                 PROVE  /\ t[1] \in References /\ t[2] \in DOMAIN entries[t[1]] /\ t = <<t[1], t[2]>>
                        /\ entries[t[1]][t[2]] \in Changes
      OBVIOUS
    <2>1. PICK f \in References : t \in {<<f, i>> : i \in DOMAIN entries[f]}
      BY DEF AllTransactions
    <2>2. PICK i \in DOMAIN entries[f] : t = <<f, i>>
      BY <2>1
    <2>3. QED
      BY <2>2, <1>1
  <1>3. /\ lost \in Seq(Changes) /\ Len(lost) \in Nat /\ DOMAIN lost = 1 .. Len(lost)
        /\ \A i \in DOMAIN lost : lost[i] \in Changes
    BY DEF WalletTypes
  <1>4. IsFiniteSet(DOMAIN lost)
    BY <1>3, FS_Interval
  <1>5. QED
    BY <1>1, <1>2, <1>3, <1>4 DEF WalletTypes

\* The four sums are sums of natural numbers over finite sets.
LEMMA CreditSums ==
  ASSUME LedgerInv, NEW u \in Users, NEW sign \in {1, -1}
  PROVE  /\ IsFiniteSet(ListTransactions(u)) /\ IsFiniteSet(InFlight(u)) /\ IsFiniteSet(Lost(u))
         /\ \A t \in ListTransactions(u) : Worth(entries[t[1]][t[2]], sign) \in Nat
         /\ \A w \in InFlight(u) : Worth(writing[w], sign) \in Nat
         /\ \A i \in Lost(u) : Worth(lost[i], sign) \in Nat
         /\ Listed(u, sign) \in Nat
         /\ SumFunction([w \in InFlight(u) |-> Worth(writing[w], sign)]) \in Nat
         /\ SumFunction([i \in Lost(u) |-> Worth(lost[i], sign)]) \in Nat
  <1>1. IsFiniteSet(ListTransactions(u)) /\ IsFiniteSet(InFlight(u)) /\ IsFiniteSet(Lost(u))
    <2>1. ListTransactions(u) \in SUBSET AllTransactions /\ InFlight(u) \in SUBSET Busy /\ Lost(u) \in SUBSET (DOMAIN lost)
      BY DEF ListTransactions, InFlight, Lost, Busy
    <2>2. QED
      BY <2>1, FS_Subset, ChangesEverywhere DEF LedgerInv
  <1>2. /\ \A t \in ListTransactions(u) : Worth(entries[t[1]][t[2]], sign) \in Nat
        /\ \A w \in InFlight(u) : Worth(writing[w], sign) \in Nat
        /\ \A i \in Lost(u) : Worth(lost[i], sign) \in Nat
    BY ChangesEverywhere, WorthIsNatural DEF LedgerInv, ListTransactions, InFlight, Lost
  <1>3. Listed(u, sign) \in Nat
    BY <1>1, <1>2, SumOfNats DEF Listed, SumFunction
  <1>4. /\ SumFunction([w \in InFlight(u) |-> Worth(writing[w], sign)]) \in Nat
        /\ SumFunction([i \in Lost(u) |-> Worth(lost[i], sign)]) \in Nat
    BY <1>1, <1>2, SumOfNats DEF SumFunction
  <1>5. QED
    BY <1>1, <1>2, <1>3, <1>4

\* What is not listed yet, or was lost, sums to a natural number.
LEMMA UnlistedType ==
  ASSUME LedgerInv, NEW u \in Users, NEW sign \in {1, -1}
  PROVE  Unlisted(u, sign) \in Nat
  <1>1. PICK m, n : /\ m = SumFunction([w \in InFlight(u) |-> Worth(writing[w], sign)])
                    /\ n = SumFunction([i \in Lost(u) |-> Worth(lost[i], sign)])
    OBVIOUS
  <1>2. Unlisted(u, sign) = m + n
    BY <1>1 DEF Unlisted
  <1>3. m \in Nat /\ n \in Nat
    BY <1>1, CreditSums
  <1>4. QED
    BY <1>2, <1>3

\* One more summand, and one less.
LEMMA OneMore ==
  ASSUME NEW f, NEW g, NEW z, IsFiniteSet(DOMAIN f), z \notin DOMAIN f,
         g = [x \in DOMAIN g |-> g[x]], DOMAIN g = DOMAIN f \cup {z},
         \A x \in DOMAIN f : f[x] \in Int /\ g[x] = f[x], g[z] \in Int
  PROVE  SumFunction(g) = SumFunction(f) + g[z]
  <1>1. SumFunctionOnSet(g, DOMAIN f \cup {z}) = g[z] + SumFunctionOnSet(f, DOMAIN f)
    BY SumWithOneMore
  <1>2. SumFunctionOnSet(f, DOMAIN f) \in Int
    BY SumType
  <1>3. QED
    BY <1>1, <1>2 DEF SumFunction

\* A one-to-one renumbering leaves as many.
LEMMA AsMany ==
  ASSUME NEW f, NEW g, IsFiniteSet(DOMAIN f), DOMAIN g = DOMAIN f, \A x \in DOMAIN f : g[x] = f[x]
  PROVE  SumFunction(g) = SumFunction(f)
  BY SumAgrees DEF SumFunction

\* A change of a wallet and its row in flight keep the ledger.
LEMMA ApplyKeepsLedger ==
  ASSUME LedgerInv, NEW c \in Changes, Apply(c)
  PROVE  LedgerInv'
  <1> USE DEF LedgerInv
  <1>1. c \in [user : Users, amount : Int, reason : Reasons, ref : References] /\ c # Idle
    BY IdleIsNoChange DEF Changes
  <1>2. PICK w \in Writers : writing[w] = Idle /\ writing' = [writing EXCEPT ![w] = c]
    BY DEF Apply
  <1>3. /\ balance' = [balance EXCEPT ![c.user] = @ + c.amount]
        /\ IF c.amount > 0
           THEN totalEarned' = [totalEarned EXCEPT ![c.user] = @ + c.amount] /\ UNCHANGED totalSpent
           ELSE totalSpent' = [totalSpent EXCEPT ![c.user] = @ - c.amount] /\ UNCHANGED totalEarned
        /\ UNCHANGED <<entries, lost>>
    BY DEF Apply
  <1>4. WalletTypes'
    <2>1. balance' \in [Users -> Int] /\ writing' \in [Writers -> Changes \cup {Idle}]
      BY <1>1, <1>2, <1>3 DEF WalletTypes
    <2>2. totalEarned' \in [Users -> Nat] /\ totalSpent' \in [Users -> Nat]
      <3>1. CASE c.amount > 0
        <4>1. \A u \in Users : totalEarned[u] + c.amount \in Nat
          BY <1>1, <3>1 DEF WalletTypes
        <4>2. QED
          BY <1>1, <1>3, <3>1, <4>1 DEF WalletTypes
      <3>2. CASE ~(c.amount > 0)
        <4>1. \A u \in Users : totalSpent[u] - c.amount \in Nat
          BY <1>1, <3>2 DEF WalletTypes
        <4>2. QED
          BY <1>1, <1>3, <3>2, <4>1 DEF WalletTypes
      <3>3. QED
        BY <3>1, <3>2
    <2>3. QED
      BY <1>3, <2>1, <2>2 DEF WalletTypes
  <1>5. writing'[w] = c /\ \A x \in Writers : x # w => writing'[x] = writing[x]
    BY <1>2 DEF WalletTypes
  <1>6. IsFiniteSet(AllTransactions)' /\ IsFiniteSet(Busy)'
    <2>1. Busy' = Busy \cup {w}
      BY <1>1, <1>2, <1>5 DEF Busy
    <2>2. AllTransactions' = AllTransactions
      BY <1>3 DEF AllTransactions
    <2>3. QED
      BY <2>1, <2>2, FS_AddElement
  <1>7. \A sign \in {1, -1} : Worth(c, sign) \in Nat
    BY WorthIsNatural
  <1>8. Worth(c, 1) = (IF c.amount > 0 THEN c.amount ELSE 0) /\ Worth(c, -1) = (IF c.amount > 0 THEN 0 ELSE -c.amount)
    BY <1>1 DEF Worth
  <1>9. ASSUME NEW u \in Users
        PROVE  WalletSum(u)'
    <2>1. \A sign \in {1, -1} : Listed(u, sign)' = Listed(u, sign)
      BY <1>3 DEF Listed, ListTransactions, AllTransactions
    <2>2. \A sign \in {1, -1} : Unlisted(u, sign)' = Unlisted(u, sign) + IF u = c.user THEN Worth(c, sign) ELSE 0
      <3> SUFFICES ASSUME NEW sign \in {1, -1}
                   PROVE  Unlisted(u, sign)' = Unlisted(u, sign) + IF u = c.user THEN Worth(c, sign) ELSE 0
        OBVIOUS
      <3>1. PICK f, g, l :
               /\ f = [x \in InFlight(u) |-> Worth(writing[x], sign)]
               /\ g = [x \in InFlight(u)' |-> Worth(writing'[x], sign)]
               /\ l = SumFunction([i \in Lost(u) |-> Worth(lost[i], sign)])
        OBVIOUS
      <3>2. Unlisted(u, sign) = SumFunction(f) + l /\ Unlisted(u, sign)' = SumFunction(g) + l
        BY <1>3, <3>1 DEF Unlisted, Lost
      <3>3. IsFiniteSet(InFlight(u)) /\ (\A x \in InFlight(u) : Worth(writing[x], sign) \in Nat) /\ SumFunction(f) \in Nat /\ l \in Nat
        BY <3>1, CreditSums
      <3>4. CASE u = c.user
        <4>1. InFlight(u)' = InFlight(u) \cup {w} /\ w \notin InFlight(u)
          BY <1>1, <1>2, <1>5, <3>4 DEF InFlight
        <4>2. \A x \in InFlight(u) : writing'[x] = writing[x]
          BY <1>2, <1>5 DEF InFlight
        <4>3. SumFunction(g) = SumFunction(f) + g[w]
          BY <1>5, <1>7, <3>1, <3>3, <4>1, <4>2, OneMore
        <4>4. g[w] = Worth(c, sign)
          BY <1>5, <3>1, <4>1
        <4>5. QED
          BY <1>7, <3>2, <3>3, <3>4, <4>3, <4>4
      <3>5. CASE u # c.user
        <4>1. InFlight(u)' = InFlight(u)
          BY <1>1, <1>2, <1>5, <3>5 DEF InFlight
        <4>2. \A x \in InFlight(u) : writing'[x] = writing[x]
          BY <1>2, <1>5 DEF InFlight
        <4>3. SumFunction(g) = SumFunction(f)
          BY <3>1, <3>3, <4>1, <4>2, AsMany
        <4>4. QED
          BY <3>2, <3>3, <3>5, <4>3
      <3>6. QED
        BY <3>4, <3>5
    <2>3. \A sign \in {1, -1} : Unlisted(u, sign) \in Nat /\ Listed(u, sign) \in Nat
      BY UnlistedType, CreditSums
    <2>4. /\ totalEarned'[u] = totalEarned[u] + IF u = c.user THEN Worth(c, 1) ELSE 0
          /\ totalSpent'[u] = totalSpent[u] + IF u = c.user THEN Worth(c, -1) ELSE 0
          /\ balance'[u] = balance[u] + IF u = c.user THEN c.amount ELSE 0
          /\ c.amount = Worth(c, 1) - Worth(c, -1)
      BY <1>1, <1>3, <1>8 DEF WalletTypes
    <2>5. totalEarned[u] \in Int /\ totalSpent[u] \in Int /\ balance[u] \in Int
      BY DEF WalletTypes
    <2>6. totalEarned'[u] = Listed(u, 1)' + Unlisted(u, 1)' /\ totalSpent'[u] = Listed(u, -1)' + Unlisted(u, -1)'
      BY <1>7, <2>1, <2>2, <2>3, <2>4, <2>5 DEF WalletSum
    <2>7. balance'[u] = totalEarned'[u] - totalSpent'[u]
      BY <1>7, <2>4, <2>5 DEF WalletSum
    <2>8. QED
      BY <2>6, <2>7 DEF WalletSum
  <1>10. QED
    BY <1>4, <1>6, <1>9

\* A change leaves the sums of those in flight.
LEMMA Lands ==
  ASSUME LedgerInv, NEW w \in Writers, writing[w] # Idle, writing' = [writing EXCEPT ![w] = Idle],
         NEW u \in Users, NEW sign \in {1, -1}
  PROVE  SumFunction([x \in InFlight(u) |-> Worth(writing[x], sign)]) =
            SumFunction([x \in InFlight(u)' |-> Worth(writing'[x], sign)])
               + IF u = writing[w].user THEN Worth(writing[w], sign) ELSE 0
  <1>1. PICK f, g :
           /\ f = [x \in InFlight(u) |-> Worth(writing[x], sign)]
           /\ g = [x \in InFlight(u)' |-> Worth(writing'[x], sign)]
    OBVIOUS
  <1>2. IsFiniteSet(InFlight(u)) /\ (\A x \in InFlight(u) : Worth(writing[x], sign) \in Nat) /\ SumFunction(f) \in Nat
    BY <1>1, CreditSums
  <1>3. writing'[w] = Idle /\ \A x \in Writers : x # w => writing'[x] = writing[x]
    BY DEF LedgerInv, WalletTypes
  <1>4. CASE u = writing[w].user
    <2>1. InFlight(u) = InFlight(u)' \cup {w} /\ w \notin InFlight(u)' /\ InFlight(u)' \in SUBSET InFlight(u)
      BY <1>3, <1>4 DEF InFlight
    <2>2. \A x \in InFlight(u)' : writing'[x] = writing[x]
      BY <1>3, <2>1 DEF InFlight
    <2>3. IsFiniteSet(InFlight(u)')
      BY <1>2, <2>1, FS_Subset
    <2>4. SumFunction(f) = SumFunction(g) + f[w]
      BY <1>1, <1>2, <2>1, <2>2, <2>3, OneMore
    <2>5. QED
      BY <1>1, <1>4, <2>1, <2>4
  <1>5. CASE u # writing[w].user
    <2>1. InFlight(u)' = InFlight(u)
      BY <1>3, <1>5 DEF InFlight
    <2>2. \A x \in InFlight(u) : writing'[x] = writing[x]
      BY <1>3, <2>1 DEF InFlight
    <2>3. SumFunction(g) = SumFunction(f)
      BY <1>1, <1>2, <2>1, <2>2, AsMany
    <2>4. QED
      BY <1>1, <1>2, <1>5, <2>3
  <1>6. QED
    BY <1>4, <1>5
\* The row is written: what was in flight is listed.
LEMMA RecordKeepsLedger ==
  ASSUME LedgerInv, NEW w \in Writers, RecordChange(w)
  PROVE  LedgerInv'
  <1> USE DEF LedgerInv
  <1>1. PICK c \in Changes : c = writing[w] /\ c # Idle
    BY ChangesEverywhere DEF RecordChange
  <1>2. PICK r \in References : r = c.ref
    BY DEF Changes
  <1>3. PICK rows, n, z : rows = entries[r] /\ n = Len(rows) + 1 /\ z = <<r, n>>
    OBVIOUS
  <1>4. rows \in Seq(Changes) /\ DOMAIN rows = 1 .. n - 1 /\ n \in Nat /\ n > 0
    BY <1>2, <1>3, ChangesEverywhere
  <1>5. /\ entries' = [entries EXCEPT ![r] = Append(rows, c)]
        /\ writing' = [writing EXCEPT ![w] = Idle]
        /\ UNCHANGED <<balance, totalEarned, totalSpent, lost>>
    BY <1>1, <1>2, <1>3 DEF RecordChange
  <1>6. /\ entries'[r] = Append(rows, c) /\ DOMAIN entries'[r] = 1 .. n /\ entries'[r][n] = c
        /\ \A i \in 1 .. n - 1 : entries'[r][i] = rows[i]
        /\ \A f \in References : f # r => entries'[f] = entries[f]
    BY <1>1, <1>3, <1>4, <1>5 DEF WalletTypes
  <1>7. WalletTypes'
    BY <1>1, <1>4, <1>5 DEF WalletTypes
  <1>8. /\ AllTransactions' = AllTransactions \cup {z} /\ z \notin AllTransactions
        /\ \A t \in AllTransactions : entries'[t[1]][t[2]] = entries[t[1]][t[2]]
        /\ entries'[z[1]][z[2]] = c
    <2>1. \A f \in References : {<<f, i>> : i \in DOMAIN entries'[f]} = {<<f, i>> : i \in DOMAIN entries[f]} \cup (IF f = r THEN {z} ELSE {})
      <3> SUFFICES ASSUME NEW f \in References
                   PROVE  {<<f, i>> : i \in DOMAIN entries'[f]} = {<<f, i>> : i \in DOMAIN entries[f]} \cup (IF f = r THEN {z} ELSE {})
        OBVIOUS
      <3>1. CASE f = r
        <4>1. DOMAIN entries'[f] = (DOMAIN entries[f]) \cup {n}
          BY <1>3, <1>4, <1>6, <3>1
        <4>2. QED
          BY <1>3, <3>1, <4>1
      <3>2. CASE f # r
        BY <1>6, <3>2
      <3>3. QED
        BY <3>1, <3>2
    <2>2. AllTransactions' = AllTransactions \cup {z}
      BY <2>1 DEF AllTransactions
    <2>3. z \notin AllTransactions
      BY <1>3, <1>4, ChangesEverywhere
    <2>4. \A t \in AllTransactions : entries'[t[1]][t[2]] = entries[t[1]][t[2]]
      <3> SUFFICES ASSUME NEW t \in AllTransactions
                   PROVE  entries'[t[1]][t[2]] = entries[t[1]][t[2]]
        OBVIOUS
      <3>1. t[1] \in References /\ t[2] \in DOMAIN entries[t[1]]
        BY ChangesEverywhere
      <3>2. QED
        BY <1>3, <1>4, <1>6, <3>1
    <2>5. QED
      BY <1>3, <1>6, <2>2, <2>3, <2>4
  <1>9. IsFiniteSet(AllTransactions)' /\ IsFiniteSet(Busy)'
    <2>1. Busy' = Busy \ {w}
      BY <1>1, <1>5 DEF Busy, WalletTypes
    <2>2. QED
      BY <1>8, <2>1, FS_AddElement, FS_RemoveElement
  <1>10. \A sign \in {1, -1} : Worth(c, sign) \in Nat
    BY WorthIsNatural
  <1>11. ASSUME NEW u \in Users, NEW sign \in {1, -1}
         PROVE  Listed(u, sign)' = Listed(u, sign) + IF u = c.user THEN Worth(c, sign) ELSE 0
    <2>1. PICK f, g :
             /\ f = [t \in ListTransactions(u) |-> Worth(entries[t[1]][t[2]], sign)]
             /\ g = [t \in ListTransactions(u)' |-> Worth(entries'[t[1]][t[2]], sign)]
      OBVIOUS
    <2>2. Listed(u, sign) = SumFunction(f) /\ Listed(u, sign)' = SumFunction(g)
      BY <2>1 DEF Listed
    <2>3. IsFiniteSet(ListTransactions(u)) /\ (\A t \in ListTransactions(u) : Worth(entries[t[1]][t[2]], sign) \in Nat) /\ SumFunction(f) \in Nat
      BY <2>1, <2>2, CreditSums
    <2>4. \A t \in ListTransactions(u) : entries'[t[1]][t[2]] = entries[t[1]][t[2]]
      BY <1>8 DEF ListTransactions
    <2>5. CASE u = c.user
      <3>1. ListTransactions(u)' = ListTransactions(u) \cup {z} /\ z \notin ListTransactions(u)
        BY <1>8, <2>5 DEF ListTransactions
      <3>2. g[z] = Worth(c, sign)
        BY <1>8, <2>1, <3>1
      <3>3. SumFunction(g) = SumFunction(f) + g[z]
        BY <1>10, <2>1, <2>3, <2>4, <3>1, <3>2, OneMore
      <3>4. QED
        BY <2>2, <2>5, <3>2, <3>3
    <2>6. CASE u # c.user
      <3>1. ListTransactions(u)' = ListTransactions(u)
        BY <1>8, <2>6 DEF ListTransactions
      <3>2. SumFunction(g) = SumFunction(f)
        BY <2>1, <2>3, <2>4, <3>1, AsMany
      <3>3. QED
        BY <2>2, <2>3, <2>6, <3>2
    <2>7. QED
      BY <2>5, <2>6
  <1>12. ASSUME NEW u \in Users, NEW sign \in {1, -1}
         PROVE  /\ Unlisted(u, sign) = Unlisted(u, sign)' + IF u = c.user THEN Worth(c, sign) ELSE 0
                /\ Unlisted(u, sign)' \in Nat
    <2>1. PICK f, g, l :
             /\ f = SumFunction([x \in InFlight(u) |-> Worth(writing[x], sign)])
             /\ g = SumFunction([x \in InFlight(u)' |-> Worth(writing'[x], sign)])
             /\ l = SumFunction([i \in Lost(u) |-> Worth(lost[i], sign)])
      OBVIOUS
    <2>2. Unlisted(u, sign) = f + l /\ Unlisted(u, sign)' = g + l
      BY <1>5, <2>1 DEF Unlisted, Lost
    <2>3. f = g + IF u = c.user THEN Worth(c, sign) ELSE 0
      BY <1>1, <1>5, <2>1, Lands
    <2>4. l \in Nat /\ f \in Nat
      BY <2>1, CreditSums
    <2>5. g \in Nat
      <3>1. IsFiniteSet(InFlight(u)') /\ \A x \in InFlight(u)' : writing'[x] \in Changes
        <4>1. InFlight(u)' \in SUBSET Busy'
          BY DEF InFlight, Busy
        <4>2. QED
          BY <1>7, <1>9, <4>1, FS_Subset DEF WalletTypes, Busy
      <3>2. QED
        BY <2>1, <3>1, WorthIsNatural, SumOfNats DEF SumFunction
    <2>6. QED
      BY <1>10, <2>2, <2>3, <2>4, <2>5
  <1>13. ASSUME NEW u \in Users
         PROVE  WalletSum(u)'
    <2>1. \A sign \in {1, -1} : Unlisted(u, sign) \in Nat /\ Listed(u, sign) \in Nat
      BY UnlistedType, CreditSums
    <2>2. \A sign \in {1, -1} : Listed(u, sign)' + Unlisted(u, sign)' = Listed(u, sign) + Unlisted(u, sign)
      <3> SUFFICES ASSUME NEW sign \in {1, -1}
                   PROVE  Listed(u, sign)' + Unlisted(u, sign)' = Listed(u, sign) + Unlisted(u, sign)
        OBVIOUS
      <3>1. PICK extra \in Nat : extra = IF u = c.user THEN Worth(c, sign) ELSE 0
        BY <1>10
      <3>2. Listed(u, sign)' = Listed(u, sign) + extra /\ Unlisted(u, sign) = Unlisted(u, sign)' + extra
        BY <1>11, <1>12, <3>1
      <3>3. QED
        BY <1>12, <2>1, <3>2
    <2>3. QED
      BY <1>5, <2>2 DEF WalletSum
  <1>14. QED
    BY <1>7, <1>9, <1>13
\* The row is never written: what was in flight is lost.
LEMMA LoseKeepsLedger ==
  ASSUME LedgerInv, NEW w \in Writers, LoseChange(w)
  PROVE  LedgerInv'
  <1> USE DEF LedgerInv
  <1>1. PICK c \in Changes : c = writing[w] /\ c # Idle
    BY ChangesEverywhere DEF LoseChange
  <1>2. PICK n : n = Len(lost) + 1
    OBVIOUS
  <1>3. n \in Nat /\ n > 0 /\ DOMAIN lost = 1 .. n - 1
    BY <1>2, ChangesEverywhere
  <1>4. /\ lost' = Append(lost, c)
        /\ writing' = [writing EXCEPT ![w] = Idle]
        /\ UNCHANGED <<balance, totalEarned, totalSpent, entries>>
    BY <1>1 DEF LoseChange
  <1>5. WalletTypes'
    BY <1>4 DEF WalletTypes
  <1>6. /\ DOMAIN lost' = (DOMAIN lost) \cup {n} /\ n \notin DOMAIN lost /\ lost'[n] = c
        /\ \A i \in DOMAIN lost : lost'[i] = lost[i]
    BY <1>2, <1>3, <1>4 DEF WalletTypes
  <1>7. IsFiniteSet(AllTransactions)' /\ IsFiniteSet(Busy)'
    <2>1. Busy' = Busy \ {w}
      BY <1>1, <1>4 DEF Busy, WalletTypes
    <2>2. AllTransactions' = AllTransactions
      BY <1>4 DEF AllTransactions
    <2>3. QED
      BY <2>1, <2>2, FS_RemoveElement
  <1>8. ASSUME NEW u \in Users, NEW sign \in {1, -1}
        PROVE  Listed(u, sign)' = Listed(u, sign) /\ Unlisted(u, sign)' = Unlisted(u, sign)
    <2>1. Listed(u, sign)' = Listed(u, sign)
      BY <1>4 DEF Listed, ListTransactions, AllTransactions
    <2>2. PICK f, g, k, l :
             /\ f = SumFunction([x \in InFlight(u) |-> Worth(writing[x], sign)])
             /\ g = SumFunction([x \in InFlight(u)' |-> Worth(writing'[x], sign)])
             /\ k = [i \in Lost(u) |-> Worth(lost[i], sign)]
             /\ l = [i \in Lost(u)' |-> Worth(lost'[i], sign)]
      OBVIOUS
    <2>3. Unlisted(u, sign) = f + SumFunction(k) /\ Unlisted(u, sign)' = g + SumFunction(l)
      BY <2>2 DEF Unlisted
    <2>4. PICK extra \in Nat : extra = IF u = c.user THEN Worth(c, sign) ELSE 0
      BY WorthIsNatural
    <2>5. f = g + extra
      BY <1>1, <1>4, <2>2, <2>4, Lands
    <2>6. f \in Nat /\ SumFunction(k) \in Nat /\ IsFiniteSet(Lost(u)) /\ \A i \in Lost(u) : Worth(lost[i], sign) \in Nat
      BY <2>2, CreditSums
    <2>7. g \in Nat
      <3>1. InFlight(u)' \in SUBSET Busy'
        BY DEF InFlight, Busy
      <3>2. IsFiniteSet(InFlight(u)') /\ \A x \in InFlight(u)' : writing'[x] \in Changes
        BY <1>5, <1>7, <3>1, FS_Subset DEF WalletTypes, Busy
      <3>3. QED
        BY <2>2, <3>2, WorthIsNatural, SumOfNats DEF SumFunction
    <2>8. SumFunction(l) = SumFunction(k) + extra
      <3>1. CASE u = c.user
        <4>1. Lost(u)' = Lost(u) \cup {n} /\ n \notin Lost(u)
          BY <1>6, <3>1 DEF Lost
        <4>2. l[n] = Worth(c, sign)
          BY <1>6, <2>2, <4>1
        <4>3. \A i \in Lost(u) : lost'[i] = lost[i]
          BY <1>6 DEF Lost
        <4>4. SumFunction(l) = SumFunction(k) + l[n]
          BY <2>2, <2>4, <2>6, <3>1, <4>1, <4>2, <4>3, OneMore
        <4>5. QED
          BY <2>4, <3>1, <4>2, <4>4
      <3>2. CASE u # c.user
        <4>1. Lost(u)' = Lost(u)
          BY <1>6, <3>2 DEF Lost
        <4>2. \A i \in Lost(u) : lost'[i] = lost[i]
          BY <1>6 DEF Lost
        <4>3. SumFunction(l) = SumFunction(k)
          BY <2>2, <2>6, <4>1, <4>2, AsMany
        <4>4. QED
          BY <2>4, <2>6, <3>2, <4>3
      <3>3. QED
        BY <3>1, <3>2
    <2>9. QED
      BY <2>1, <2>3, <2>4, <2>5, <2>6, <2>7, <2>8
  <1>9. \A u \in Users : WalletSum(u)'
    BY <1>4, <1>8 DEF WalletSum
  <1>10. QED
    BY <1>5, <1>7, <1>9

\* What touches no wallet keeps the ledger.
LEMMA LedgerStays ==
  ASSUME LedgerInv, UNCHANGED walletVars
  PROVE  LedgerInv'
  <1>1. UNCHANGED <<balance, totalEarned, totalSpent, entries, writing, lost>>
    BY DEF walletVars
  <1>2. AllTransactions' = AllTransactions /\ Busy' = Busy
    BY <1>1 DEF AllTransactions, Busy
  <1>3. ASSUME NEW u \in Users
        PROVE  WalletSum(u)'
    <2>1. \A sign \in {1, -1} : Listed(u, sign)' = Listed(u, sign)
      BY <1>1 DEF Listed, ListTransactions, AllTransactions
    <2>2. \A sign \in {1, -1} : Unlisted(u, sign)' = Unlisted(u, sign)
      BY <1>1 DEF Unlisted, InFlight, Lost
    <2>3. QED
      BY <1>1, <2>1, <2>2 DEF WalletSum, LedgerInv
  <1>4. QED
    BY <1>1, <1>2, <1>3 DEF LedgerInv, WalletTypes

\* What the calls change wallets by.
LEMMA SumsGiven ==
  /\ CompletionCredit \in Int /\ ReviewCredit \in Int /\ RewardAmount \in Int /\ -CancelPenalty \in Int
  /\ -SpendAmount \in Int /\ SpendAmount \in Int /\ -PlanCreditPrice \in Int
  <1>1. /\ CompletionCredit \in Nat /\ ReviewCredit \in Nat /\ RewardAmount \in Nat
        /\ CancelPenalty \in Nat /\ SpendAmount \in Nat /\ PlanCreditPrice \in Nat
    BY CreditAssumption
  <1>2. QED
    BY <1>1

\* Every change of credit is one of the rows there may be.
LEMMA ChangeTypes ==
  ASSUME NEW u \in Users, NEW n \in Int, NEW why \in Reasons, NEW f \in References
  PROVE  Change(u, n, why, f) \in Changes
  BY DEF Change, Changes

\* What a row refers to is a reservation, a referee or nothing.
LEMMA ReferencesInclude == Nobody \in References /\ Bookings \subseteq References /\ Referees \subseteq References
  BY DEF References

\* Rolling credit back keeps the ledger.
LEMMA RollbackKeepsLedger ==
  ASSUME LedgerInv, NEW b \in Bookings, RollbackCredit(b)
  PROVE  LedgerInv'
  <1>1. CASE UNCHANGED walletVars
    BY <1>1, LedgerStays
  <1>2. ASSUME NEW i \in DOMAIN entries[b],
               Apply(Change(entries[b][i].user, -entries[b][i].amount, "refund_rollback", b))
        PROVE  LedgerInv'
    <2>1. PICK r \in Changes : r = entries[b][i]
      BY <1>2, ReferencesInclude, ChangesEverywhere DEF LedgerInv
    <2>2. r.user \in Users /\ -r.amount \in Int
      BY DEF Changes
    <2>3. Change(r.user, -r.amount, "refund_rollback", b) \in Changes
      BY <2>2, ReferencesInclude, ChangeTypes DEF Reasons
    <2>4. QED
      BY <1>2, <2>1, <2>3, ApplyKeepsLedger
  <1>3. QED
    BY <1>1, <1>2 DEF RollbackCredit

\* Every step that moves credit keeps the ledger.
LEMMA CreditMoves ==
  ASSUME CreditInv, CreditNext
  PROVE  LedgerInv'
  <1> USE DEF CreditInv
  <1>1. ASSUME NEW w \in Writers, RecordChange(w) PROVE LedgerInv'
    BY <1>1, RecordKeepsLedger
  <1>2. ASSUME NEW w \in Writers, LoseChange(w) PROVE LedgerInv'
    BY <1>2, LoseKeepsLedger
  <1>3. ASSUME NEW u \in Users, NEW n \in {-SpendAmount, SpendAmount}, AdminAdjust(u, n) PROVE LedgerInv'
    <2>1. n \in Int /\ Change(u, n, "admin_adjustment", Nobody) \in Changes
      BY SumsGiven, ReferencesInclude, ChangeTypes DEF Reasons
    <2>2. QED
      BY <1>3, <2>1, ApplyKeepsLedger DEF AdminAdjust
  <1>4. ASSUME PurchasePlan PROVE LedgerInv'
    <2>1. Change(Stylist, -PlanCreditPrice, "plan_purchase", Nobody) \in Changes
      BY SumsGiven, CreditAssumption, ReferencesInclude, ChangeTypes DEF Reasons
    <2>2. QED
      BY <1>4, <2>1, ApplyKeepsLedger DEF PurchasePlan, ApplyGuarded
  <1>5. ASSUME NEW b \in Bookings, NEW u \in Users, Book(b, u) PROVE LedgerInv'
    <2>1. Change(u, -SpendAmount, "reservation_credit_use", b) \in Changes
      BY SumsGiven, ReferencesInclude, ChangeTypes DEF Reasons
    <2>2. QED
      BY <1>5, <2>1, ApplyKeepsLedger, LedgerStays DEF Book, ApplyGuarded
  <1>6. ASSUME NEW b \in Bookings, ReleaseHold(b) PROVE LedgerInv'
    BY <1>6, RollbackKeepsLedger DEF ReleaseHold
  <1>7. ASSUME NEW b \in Bookings, CheckPenalty(b) PROVE LedgerInv'
    <2>1. Change(Stylist, -CancelPenalty, "consecutive_cancellation_penalty", b) \in Changes
      BY SumsGiven, CreditAssumption, ReferencesInclude, ChangeTypes DEF Reasons
    <2>2. QED
      BY <1>7, <2>1, ApplyKeepsLedger, LedgerStays DEF CheckPenalty
  <1>8. ASSUME NEW b \in Bookings, CreateReview(b) PROVE LedgerInv'
    <2>1. Change(Stylist, ReviewCredit, "five_star_review", b) \in Changes
      BY SumsGiven, CreditAssumption, ReferencesInclude, ChangeTypes DEF Reasons
    <2>2. QED
      BY <1>8, <2>1, ApplyKeepsLedger, LedgerStays DEF CreateReview
  <1>9. ASSUME NEW p \in Passes, NEW b \in Bookings, AwardCompleted(p, b) PROVE LedgerInv'
    <2>1. Change(Stylist, CompletionCredit, "completed_reservation", b) \in Changes
      BY SumsGiven, CreditAssumption, ReferencesInclude, ChangeTypes DEF Reasons
    <2>2. QED
      BY <1>9, <2>1, ApplyKeepsLedger, LedgerStays DEF AwardCompleted
  <1>10. ASSUME NEW k \in Claims, RewardReferrer(k) PROVE LedgerInv'
    <2>1. Change(claim[k].referrer, RewardAmount, "referral", claim[k].referee) \in Changes
      BY <1>10, SumsGiven, ReferencesInclude, ChangeTypes DEF Reasons, ClaimsInv, RewardReferrer
    <2>2. QED
      BY <1>10, <2>1, ApplyKeepsLedger, LedgerStays DEF RewardReferrer
  <1>11. ASSUME UNCHANGED walletVars PROVE LedgerInv'
    BY <1>11, LedgerStays
  <1>12. CASE WalletNext
    BY <1>12, <1>1, <1>2, <1>3, <1>4 DEF WalletNext
  <1>13. CASE BookingNext
    BY <1>13, <1>5, <1>6, <1>7, <1>8, <1>11 DEF BookingNext, CancelBooking, PayHold
  <1>14. CASE PassNext
    BY <1>14, <1>9, <1>11 DEF PassNext, EndPasses, FindDue, CompleteDue, NotifyCompleted, EndPass
  <1>15. CASE ReferralNext
    BY <1>15, <1>10, <1>11 DEF ReferralNext, ReadReferee, CreateReferral, SetReferredBy, CrashClaim
  <1>16. QED
    BY <1>12, <1>13, <1>14, <1>15 DEF CreditNext
-----------------------------------------------------------------------------
(* The rest of the state *)

\* The calls of a reservation keep the types.
LEMMA BookingsKeepTypes ==
  ASSUME CreditInv, LedgerInv', WalletNext \/ BookingNext
  PROVE  CreditTypeOK'
  <1> USE DEF CreditInv
  <1>1. WalletTypes'
    BY DEF LedgerInv
  <1>2. CASE WalletNext
    <2>1. UNCHANGED <<bookingVars, passVars, referralVars>>
      BY <1>2 DEF WalletNext, RecordChange, LoseChange, AdminAdjust, PurchasePlan
    <2>2. QED
      BY <1>1, <2>1 DEF CreditTypeOK, WalletTypes, bookingVars, passVars, referralVars
  <1>3. CASE BookingNext
    <2>1. UNCHANGED <<passVars, referralVars, over, notified>>
      BY <1>3 DEF BookingNext, Book, CancelBooking, PayHold, ReleaseHold, CheckPenalty, CreateReview
    <2>2. /\ resv' \in [Bookings -> ResvStates]
          /\ withCredit' \subseteq Bookings /\ awaiting' \subseteq Bookings
          /\ penalising' \subseteq Bookings /\ reviewed' \subseteq Bookings
      <3> USE DEF CreditTypeOK, ResvStates, Ended
      <3>1. ASSUME NEW b \in Bookings, NEW u \in Users, Book(b, u) PROVE <2>2
        <4>1. resv' = [resv EXCEPT ![b] = "confirmed"] /\ UNCHANGED <<penalising, reviewed>>
              /\ awaiting' \in {awaiting, awaiting \cup {b}} /\ withCredit' \in {withCredit, withCredit \cup {b}}
          BY <3>1 DEF Book
        <4>2. resv' \in [Bookings -> ResvStates]
          BY <4>1
        <4>3. QED
          BY <4>1, <4>2
      <3>2. ASSUME NEW b \in Bookings, NEW u \in Users, CancelBooking(b, u) PROVE <2>2
        BY <3>2 DEF CancelBooking
      <3>3. ASSUME NEW b \in Bookings, PayHold(b) PROVE <2>2
        BY <3>3 DEF PayHold
      <3>4. ASSUME NEW b \in Bookings, ReleaseHold(b) PROVE <2>2
        BY <3>4 DEF ReleaseHold
      <3>5. ASSUME NEW b \in Bookings, CheckPenalty(b) PROVE <2>2
        BY <3>5 DEF CheckPenalty
      <3>6. ASSUME NEW b \in Bookings, CreateReview(b) PROVE <2>2
        BY <3>6 DEF CreateReview
      <3>7. QED
        BY <1>3, <3>1, <3>2, <3>3, <3>4, <3>5, <3>6 DEF BookingNext
    <2>3. QED
      BY <1>1, <2>1, <2>2 DEF CreditTypeOK, WalletTypes, passVars, referralVars
  <1>4. QED
    BY <1>2, <1>3

\* The passes of auto-completion keep the types.
LEMMA PassesKeepTypes ==
  ASSUME CreditInv, LedgerInv', PassNext
  PROVE  CreditTypeOK'
  <1> USE DEF CreditInv
  <1>1. WalletTypes'
    BY DEF LedgerInv
  <1>2. UNCHANGED <<referralVars, withCredit, awaiting, penalising, reviewed>>
    BY DEF PassNext, EndPasses, FindDue, CompleteDue, NotifyCompleted, EndPass, AwardCompleted, bookingVars
  <1>3. /\ resv' \in [Bookings -> ResvStates] /\ over' \subseteq Bookings /\ notified' \subseteq Bookings
        /\ passStep' \in [Passes -> {"idle", "found", "updated"}]
        /\ due' \in [Passes -> SUBSET Bookings] /\ toAward' \in [Passes -> SUBSET Bookings]
    <2> USE DEF CreditTypeOK, bookingVars
    <2>1. ASSUME NEW b \in Bookings, EndPasses(b) PROVE <1>3
      BY <2>1 DEF EndPasses, passVars
    <2>2. ASSUME NEW p \in Passes, FindDue(p) PROVE <1>3
      BY <2>2 DEF FindDue
    <2>3. ASSUME NEW p \in Passes, CompleteDue(p) PROVE <1>3
      BY <2>3 DEF CompleteDue, ResvStates, Ended
    <2>4. ASSUME NEW p \in Passes, NotifyCompleted(p) PROVE <1>3
      BY <2>4 DEF NotifyCompleted
    <2>5. ASSUME NEW p \in Passes, EndPass(p) PROVE <1>3
      BY <2>5 DEF EndPass
    <2>6. ASSUME NEW p \in Passes, NEW b \in Bookings, AwardCompleted(p, b) PROVE <1>3
      BY <2>6 DEF AwardCompleted
    <2>7. QED
      BY <2>1, <2>2, <2>3, <2>4, <2>5, <2>6 DEF PassNext
  <1>4. QED
    BY <1>1, <1>2, <1>3 DEF CreditTypeOK, WalletTypes, referralVars

\* The calls of referrals and campaigns keep the types.
LEMMA ReferralsKeepTypes ==
  ASSUME CreditInv, LedgerInv', ReferralNext
  PROVE  CreditTypeOK'
  <1> USE DEF CreditInv
  <1>1. WalletTypes'
    BY DEF LedgerInv
  <1>2. UNCHANGED <<bookingVars, passVars>>
    BY DEF ReferralNext, ReadReferee, CreateReferral, SetReferredBy, RewardReferrer, CrashClaim
  <1>3. /\ referral' \in [Referees -> Users \cup {Nobody}] /\ referredBy' \in [Referees -> Users \cup {Nobody}]
        /\ claim' \in [Claims -> ClaimStates]
    <2>1. PICK k \in Claims :
             \/ \E e \in Referees, u \in Users : ReadReferee(k, e, u)
             \/ CreateReferral(k) \/ SetReferredBy(k) \/ RewardReferrer(k) \/ CrashClaim(k)
      BY DEF ReferralNext
    <2>2. PICK c \in ClaimStates : c = claim[k]
      BY DEF CreditTypeOK
    <2>3. c \in [step : {"idle", "read", "created", "reward"}, referee : Referees \cup {Nobody},
                 referrer : Users \cup {Nobody}]
      BY DEF ClaimStates
    <2>4. NoClaim \in ClaimStates /\ \A s \in {"created", "reward"} : [c EXCEPT !.step = s] \in ClaimStates
      BY <2>3 DEF NoClaim, ClaimStates
    <2>5. /\ referral \in [Referees -> Users \cup {Nobody}] /\ referredBy \in [Referees -> Users \cup {Nobody}]
          /\ claim \in [Claims -> ClaimStates]
      BY DEF CreditTypeOK
    <2>6. ASSUME NEW e \in Referees, NEW u \in Users, ReadReferee(k, e, u) PROVE <1>3
      <3>1. [step |-> "read", referee |-> e, referrer |-> u] \in ClaimStates
        BY DEF ClaimStates
      <3>2. QED
        BY <2>5, <2>6, <3>1 DEF ReadReferee
    <2>7. CASE CreateReferral(k)
      <3>1. claim' \in {[claim EXCEPT ![k] = [c EXCEPT !.step = "created"]], [claim EXCEPT ![k] = NoClaim]}
            /\ referral' \in {referral, [referral EXCEPT ![c.referee] = c.referrer]} /\ UNCHANGED referredBy
        BY <2>2, <2>5, <2>7 DEF CreateReferral
      <3>2. QED
        BY <2>3, <2>4, <2>5, <3>1
    <2>8. CASE SetReferredBy(k)
      <3>1. claim' = [claim EXCEPT ![k] = [c EXCEPT !.step = "reward"]]
            /\ referredBy' = [referredBy EXCEPT ![c.referee] = c.referrer] /\ UNCHANGED referral
        BY <2>2, <2>5, <2>8 DEF SetReferredBy
      <3>2. QED
        BY <2>3, <2>4, <2>5, <3>1
    <2>9. CASE RewardReferrer(k) \/ CrashClaim(k)
      BY <2>4, <2>5, <2>9 DEF RewardReferrer, CrashClaim
    <2>10. QED
      BY <2>1, <2>6, <2>7, <2>8, <2>9
  <1>4. QED
    BY <1>1, <1>2, <1>3 DEF CreditTypeOK, WalletTypes, bookingVars, passVars

\* A referee whose reward is claimed stays so.
LEMMA ClaimsGoOn ==
  ASSUME CreditInv, CreditNext
  PROVE  ClaimsInv'
  <1> USE DEF CreditInv
  <1>1. CASE UNCHANGED referralVars
    BY <1>1 DEF ClaimsInv, referralVars
  <1>2. CASE ReferralNext
    <2>1. PICK k \in Claims :
             \/ \E e \in Referees, u \in Users : ReadReferee(k, e, u)
             \/ CreateReferral(k) \/ SetReferredBy(k) \/ RewardReferrer(k) \/ CrashClaim(k)
      BY <1>2 DEF ReferralNext
    <2>2. claim \in [Claims -> ClaimStates] /\ claim[k] \in [step : {"idle", "read", "created", "reward"}, referee : Referees \cup {Nobody},
                referrer : Users \cup {Nobody}]
      BY DEF CreditTypeOK, ClaimStates
    <2>3. \A j \in Claims : j # k => claim'[j] = claim[j]
      BY <2>1, <2>2 DEF ReadReferee, CreateReferral, SetReferredBy, RewardReferrer, CrashClaim
    <2>4. claim'[k].step # "idle" => claim'[k].referee \in Referees /\ claim'[k].referrer \in Users
      BY <2>1, <2>2 DEF ReadReferee, CreateReferral, SetReferredBy, RewardReferrer, CrashClaim, NoClaim, ClaimsInv
    <2>5. QED
      BY <2>3, <2>4 DEF ClaimsInv
  <1>3. CASE WalletNext \/ BookingNext \/ PassNext
    <2>1. UNCHANGED referralVars
      BY <1>3 DEF WalletNext, RecordChange, LoseChange, AdminAdjust, PurchasePlan,
            BookingNext, Book, CancelBooking, PayHold, ReleaseHold, CheckPenalty, CreateReview,
            PassNext, EndPasses, FindDue, CompleteDue, NotifyCompleted, EndPass, AwardCompleted
    <2>2. QED
      BY <1>1, <2>1
  <1>4. QED
    BY <1>2, <1>3 DEF CreditNext

-----------------------------------------------------------------------------
(* The beginning *)

\* Credit begins with the invariant.
LEMMA CreditBegins ==
  ASSUME CreditInit
  PROVE  CreditInv
  <1>1. CreditTypeOK
    BY CreditAssumption DEF CreditInit, CreditTypeOK, ResvStates, Ended, ClaimStates, NoClaim
  <1>2. WalletTypes /\ ClaimsInv
    BY <1>1 DEF CreditTypeOK, WalletTypes, ClaimsInv, CreditInit, NoClaim
  <1>3. AllTransactions = {} /\ Busy = {} /\ DOMAIN lost = {}
    BY DEF CreditInit, AllTransactions, Busy
  <1>4. ASSUME NEW u \in Users
        PROVE  WalletSum(u)
    <2>1. ListTransactions(u) = {} /\ InFlight(u) = {} /\ Lost(u) = {}
      BY <1>3 DEF ListTransactions, InFlight, Lost, Busy
    <2>2. \A sign \in {1, -1} : Listed(u, sign) = 0 /\ Unlisted(u, sign) = 0
      <3> SUFFICES ASSUME NEW sign \in {1, -1}
                   PROVE  Listed(u, sign) = 0 /\ Unlisted(u, sign) = 0
        OBVIOUS
      <3>1. \A g : DOMAIN g = {} => SumFunction(g) = 0
        BY SumOfNone DEF SumFunction
      <3>2. PICK f, g, h :
               /\ f = [t \in ListTransactions(u) |-> Worth(entries[t[1]][t[2]], sign)]
               /\ g = [w \in InFlight(u) |-> Worth(writing[w], sign)]
               /\ h = [i \in Lost(u) |-> Worth(lost[i], sign)]
        OBVIOUS
      <3>3. SumFunction(f) = 0 /\ SumFunction(g) = 0 /\ SumFunction(h) = 0
        BY <2>1, <3>1, <3>2
      <3>4. QED
        BY <3>2, <3>3 DEF Listed, Unlisted
    <2>3. balance[u] = 0 /\ totalEarned[u] = 0 /\ totalSpent[u] = 0
      BY DEF CreditInit
    <2>4. QED
      BY <2>2, <2>3 DEF WalletSum
  <1>5. QED
    BY <1>1, <1>2, <1>3, <1>4, FS_EmptySet DEF CreditInv, LedgerInv

\* Every step keeps the invariant of credit.
LEMMA CreditGoesOn ==
  ASSUME CreditInv, [CreditNext]_creditVars
  PROVE  CreditInv'
  <1>1. CASE CreditNext
    <2>1. LedgerInv' /\ ClaimsInv'
      BY <1>1, CreditMoves, ClaimsGoOn
    <2>2. CreditTypeOK'
      BY <1>1, <2>1, BookingsKeepTypes, PassesKeepTypes, ReferralsKeepTypes DEF CreditNext
    <2>3. QED
      BY <2>1, <2>2 DEF CreditInv
  <1>2. CASE UNCHANGED creditVars
    <2>1. UNCHANGED <<walletVars, bookingVars, passVars, referralVars>>
      BY <1>2 DEF creditVars
    <2>2. LedgerInv'
      BY <2>1, LedgerStays DEF CreditInv
    <2>3. CreditTypeOK' /\ ClaimsInv'
      BY <2>1 DEF walletVars, bookingVars, passVars, referralVars, CreditInv, CreditTypeOK, ClaimsInv
    <2>4. QED
      BY <2>2, <2>3 DEF CreditInv
  <1>3. QED
    BY <1>1, <1>2

\* The invariant of credit holds in every state: types, the wallets as the sums of
\* their changes, and the claims of referrals (credit.service.ts).
THEOREM CreditInvariantHolds == CreditSpec => []CreditInv
  BY CreditBegins, CreditGoesOn, PTL DEF CreditSpec

\* The wallet and its history agree up to the rows in flight and those lost by a
\* crash, whatever calls run at once (award, spend and rollback of credit.service.ts).
THEOREM LedgerExplains == CreditSpec => []LedgerExplainsBalance
  <1>1. ASSUME CreditInv
        PROVE  LedgerExplainsBalance
    <2> SUFFICES ASSUME NEW u \in Users, NEW page \in WalletPages(u)
                 PROVE  /\ page.totalEarned = Listed(u, 1) + Unlisted(u, 1)
                        /\ page.totalSpent = Listed(u, -1) + Unlisted(u, -1)
                        /\ page.balance = page.totalEarned - page.totalSpent
      BY DEF LedgerExplainsBalance
    <2>1. page = GetWallet(u)
      BY DEF WalletPages, AdminListUsers
    <2>2. page.balance = balance[u] /\ page.totalEarned = totalEarned[u] /\ page.totalSpent = totalSpent[u]
      BY <2>1 DEF GetWallet
    <2>3. QED
      BY <1>1, <2>2 DEF CreditInv, LedgerInv, WalletSum
  <1>2. QED
    BY <1>1, CreditInvariantHolds, PTL

-----------------------------------------------------------------------------
(* Awards of a completed reservation *)

Award == "completed_reservation"

\* Where the award of a reservation is counted.
Rowed(f) == {i \in DOMAIN entries[f] : entries[f][i].reason = Award}
Dropped(f) == {i \in DOMAIN lost : lost[i].reason = Award /\ lost[i].ref = f}
Flying(f) == {w \in Writers : writing[w] # Idle /\ writing[w].reason = Award /\ writing[w].ref = f}

\* A pass adds no award of a reservation that is not on its list.
LEMMA AwardsCounted ==
  ASSUME LedgerInv, NEW f \in References
  PROVE  /\ IsFiniteSet(Rowed(f)) /\ IsFiniteSet(Dropped(f)) /\ IsFiniteSet(Flying(f))
         /\ CountOf(Award, f) = Cardinality(Rowed(f)) + Cardinality(Dropped(f)) + Cardinality(Flying(f))
         /\ Cardinality(Rowed(f)) \in Nat /\ Cardinality(Dropped(f)) \in Nat /\ Cardinality(Flying(f)) \in Nat
  <1>1. Rowed(f) \in SUBSET (DOMAIN entries[f]) /\ Dropped(f) \in SUBSET (DOMAIN lost) /\ Flying(f) \in SUBSET Busy
    BY DEF Rowed, Dropped, Flying, Busy
  <1>2. IsFiniteSet(DOMAIN entries[f]) /\ IsFiniteSet(DOMAIN lost) /\ IsFiniteSet(Busy)
    <2>1. PICK n \in Nat : DOMAIN entries[f] = 1 .. n
      BY ChangesEverywhere DEF LedgerInv
    <2>2. IsFiniteSet(1 .. n)
      BY FS_Interval
    <2>3. QED
      BY <2>1, <2>2, ChangesEverywhere DEF LedgerInv
  <1>3. IsFiniteSet(Rowed(f)) /\ IsFiniteSet(Dropped(f)) /\ IsFiniteSet(Flying(f))
    BY <1>1, <1>2, FS_Subset
  <1>4. CountOf(Award, f) = Cardinality(Rowed(f)) + Cardinality(Dropped(f)) + Cardinality(Flying(f))
    BY DEF CountOf, Rowed, Dropped, Flying
  <1>5. QED
    BY <1>3, <1>4, FS_CardinalityType

\* A change for something else is no award.
LEMMA OtherChangesAwardNothing ==
  ASSUME LedgerInv, NEW f \in References, NEW c, Apply(c), ~(c.reason = Award /\ c.ref = f)
  PROVE  CountOf(Award, f)' = CountOf(Award, f)
  <1>1. PICK w \in Writers : writing[w] = Idle /\ writing' = [writing EXCEPT ![w] = c]
    BY DEF Apply
  <1>2. UNCHANGED <<entries, lost>>
    BY DEF Apply
  <1>3. writing'[w] = c /\ \A x \in Writers : x # w => writing'[x] = writing[x]
    BY <1>1 DEF LedgerInv, WalletTypes
  <1>4. Flying(f)' = Flying(f)
    BY <1>1, <1>3 DEF Flying
  <1>5. Rowed(f)' = Rowed(f) /\ Dropped(f)' = Dropped(f)
    BY <1>2 DEF Rowed, Dropped
  <1>6. QED
    BY <1>4, <1>5 DEF CountOf, Rowed, Dropped, Flying

\* A change that lands is counted where it was.
LEMMA LandingAwardsNothing ==
  ASSUME LedgerInv, LedgerInv', NEW w \in Writers, RecordChange(w) \/ LoseChange(w), NEW f \in References
  PROVE  CountOf(Award, f)' = CountOf(Award, f)
  <1>1. PICK c \in Changes : c = writing[w] /\ c # Idle
    BY ChangesEverywhere DEF RecordChange, LoseChange, LedgerInv
  <1>2. writing' = [writing EXCEPT ![w] = Idle]
    BY DEF RecordChange, LoseChange
  <1>3. writing'[w] = Idle /\ \A x \in Writers : x # w => writing'[x] = writing[x]
    BY <1>2 DEF LedgerInv, WalletTypes
  <1>4. PICK mine \in BOOLEAN : mine <=> (c.reason = Award /\ c.ref = f)
    OBVIOUS
  <1>5. Flying(f)' = IF mine THEN Flying(f) \ {w} ELSE Flying(f)
    BY <1>1, <1>3, <1>4 DEF Flying
  <1>6. mine => w \in Flying(f)
    BY <1>1, <1>4 DEF Flying
  <1>7. Cardinality(Flying(f)) = Cardinality(Flying(f)') + IF mine THEN 1 ELSE 0
    <2>1. IsFiniteSet(Flying(f)) /\ Cardinality(Flying(f)) \in Nat
      BY AwardsCounted
    <2>2. mine => Cardinality(Flying(f) \ {w}) = Cardinality(Flying(f)) - 1
      BY <1>6, <2>1, FS_RemoveElement
    <2>3. QED
      BY <1>5, <2>1, <2>2
  <1>8. CountOf(Award, f)' = Cardinality(Rowed(f)') + Cardinality(Dropped(f)') + Cardinality(Flying(f)')
    BY DEF CountOf, Rowed, Dropped, Flying
  <1>9. /\ IsFiniteSet(Rowed(f)) /\ IsFiniteSet(Dropped(f)) /\ IsFiniteSet(Flying(f))
        /\ CountOf(Award, f) = Cardinality(Rowed(f)) + Cardinality(Dropped(f)) + Cardinality(Flying(f))
        /\ Cardinality(Rowed(f)) \in Nat /\ Cardinality(Dropped(f)) \in Nat /\ Cardinality(Flying(f)) \in Nat
    BY AwardsCounted
  <1>10. Cardinality(Flying(f)') \in Nat
    <2>1. Flying(f)' \in SUBSET Flying(f)
      BY <1>5
    <2>2. QED
      BY <1>9, <2>1, FS_Subset, FS_CardinalityType
  <1>11. CASE RecordChange(w)
    <2>1. PICK n : n = Len(entries[f]) + 1
      OBVIOUS
    <2>2. n \in Nat /\ DOMAIN entries[f] = 1 .. n - 1 /\ entries[f] \in Seq(Changes)
      BY <2>1, ChangesEverywhere DEF LedgerInv
    <2>3. entries' = [entries EXCEPT ![c.ref] = Append(@, c)] /\ UNCHANGED lost
      BY <1>1, <1>11 DEF RecordChange
    <2>4. entries'[f] = IF c.ref = f THEN Append(entries[f], c) ELSE entries[f]
      BY <2>3 DEF LedgerInv, WalletTypes
    <2>5. Dropped(f)' = Dropped(f)
      BY <2>3 DEF Dropped
    <2>6. Rowed(f)' = IF mine THEN Rowed(f) \cup {n} ELSE Rowed(f)
      <3>1. CASE c.ref = f
        <4>1. /\ DOMAIN entries'[f] = (1 .. n - 1) \cup {n} /\ entries'[f][n] = c
              /\ \A i \in 1 .. n - 1 : entries'[f][i] = entries[f][i]
          BY <2>1, <2>2, <2>4, <3>1
        <4>2. QED
          BY <1>4, <2>2, <3>1, <4>1 DEF Rowed
      <3>2. CASE c.ref # f
        BY <1>4, <2>4, <3>2 DEF Rowed
      <3>3. QED
        BY <3>1, <3>2
    <2>7. n \notin Rowed(f)
      BY <2>2 DEF Rowed
    <2>8. Cardinality(Rowed(f)') = Cardinality(Rowed(f)) + IF mine THEN 1 ELSE 0
      <3>1. Cardinality(Rowed(f) \cup {n}) = Cardinality(Rowed(f)) + 1
        BY <1>9, <2>7, FS_AddElement
      <3>2. QED
        BY <1>4, <1>9, <2>6, <3>1
    <2>9. QED
      BY <1>4, <1>7, <1>8, <1>9, <1>10, <2>5, <2>8
  <1>12. CASE LoseChange(w)
    <2>1. PICK n : n = Len(lost) + 1
      OBVIOUS
    <2>2. n \in Nat /\ DOMAIN lost = 1 .. n - 1 /\ lost \in Seq(Changes)
      BY <2>1, ChangesEverywhere DEF LedgerInv
    <2>3. lost' = Append(lost, c) /\ UNCHANGED entries
      BY <1>1, <1>12 DEF LoseChange
    <2>4. Rowed(f)' = Rowed(f)
      BY <2>3 DEF Rowed
    <2>5. /\ DOMAIN lost' = (1 .. n - 1) \cup {n} /\ lost'[n] = c
          /\ \A i \in 1 .. n - 1 : lost'[i] = lost[i]
      BY <2>1, <2>2, <2>3
    <2>6. Dropped(f)' = (IF mine THEN Dropped(f) \cup {n} ELSE Dropped(f)) /\ n \notin Dropped(f)
      BY <1>4, <2>2, <2>5 DEF Dropped
    <2>7. Cardinality(Dropped(f)') = Cardinality(Dropped(f)) + IF mine THEN 1 ELSE 0
      <3>1. Cardinality(Dropped(f) \cup {n}) = Cardinality(Dropped(f)) + 1
        BY <1>9, <2>6, FS_AddElement
      <3>2. QED
        BY <1>4, <1>9, <2>6, <3>1
    <2>8. QED
      BY <1>4, <1>7, <1>8, <1>9, <1>10, <2>4, <2>7
  <1>13. QED
    BY <1>11, <1>12

\* Only the pass that found a reservation awards it.
LEMMA OnlyItsPassAwards ==
  ASSUME CreditInv, CreditInv', [CreditNext]_creditVars, NEW b \in Bookings, Behind(b)
  PROVE  CountOf(Award, b)' <= CountOf(Award, b)
  <1> USE DEF CreditInv
  <1>1. b \in References
    BY ReferencesInclude
  <1>2. CountOf(Award, b) \in Nat
    BY <1>1, AwardsCounted
  <1>3. ASSUME UNCHANGED walletVars PROVE CountOf(Award, b)' = CountOf(Award, b)
    BY <1>3 DEF walletVars, CountOf
  <1>4. ASSUME NEW u, NEW n, NEW why, NEW f, why # Award \/ f # b, Apply(Change(u, n, why, f))
        PROVE  CountOf(Award, b)' = CountOf(Award, b)
    <2>1. Change(u, n, why, f).reason = why /\ Change(u, n, why, f).ref = f
      BY DEF Change
    <2>2. QED
      BY <1>1, <1>4, <2>1, OtherChangesAwardNothing
  <1>5. CASE WalletNext
    <2>1. ASSUME NEW w \in Writers, RecordChange(w) \/ LoseChange(w) PROVE CountOf(Award, b)' = CountOf(Award, b)
      BY <1>1, <2>1, LandingAwardsNothing
    <2>2. QED
      BY <1>2, <1>4, <1>5, <2>1 DEF WalletNext, AdminAdjust, PurchasePlan, ApplyGuarded, Award
  <1>6. CASE BookingNext
    <2>1. ASSUME NEW q \in Bookings, ReleaseHold(q) PROVE CountOf(Award, b)' = CountOf(Award, b)
      BY <1>3, <1>4, <2>1 DEF ReleaseHold, RollbackCredit, Award
    <2>2. ASSUME NEW q \in Bookings, NEW u \in Users, Book(q, u) PROVE CountOf(Award, b)' = CountOf(Award, b)
      BY <1>3, <1>4, <2>2 DEF Book, ApplyGuarded, Award
    <2>3. ASSUME NEW q \in Bookings, CheckPenalty(q) PROVE CountOf(Award, b)' = CountOf(Award, b)
      BY <1>3, <1>4, <2>3 DEF CheckPenalty, Award
    <2>4. ASSUME NEW q \in Bookings, CreateReview(q) PROVE CountOf(Award, b)' = CountOf(Award, b)
      BY <1>3, <1>4, <2>4 DEF CreateReview, Award
    <2>5. QED
      BY <1>2, <1>3, <1>6, <2>1, <2>2, <2>3, <2>4 DEF BookingNext, CancelBooking, PayHold
  <1>7. CASE PassNext
    <2>1. ASSUME NEW p \in Passes, NEW q \in Bookings, AwardCompleted(p, q) PROVE CountOf(Award, b)' = CountOf(Award, b)
      <3>1. q # b
        BY <2>1 DEF AwardCompleted, Behind
      <3>2. QED
        BY <1>3, <1>4, <2>1, <3>1 DEF AwardCompleted
    <2>2. QED
      BY <1>2, <1>3, <1>7, <2>1 DEF PassNext, EndPasses, FindDue, CompleteDue, NotifyCompleted, EndPass
  <1>8. CASE ReferralNext
    <2>1. ASSUME NEW k \in Claims, RewardReferrer(k) PROVE CountOf(Award, b)' = CountOf(Award, b)
      BY <1>3, <1>4, <2>1 DEF RewardReferrer, Award
    <2>2. QED
      BY <1>2, <1>3, <1>8, <2>1 DEF ReferralNext, ReadReferee, CreateReferral, SetReferredBy, CrashClaim
  <1>9. CASE UNCHANGED creditVars
    BY <1>2, <1>3, <1>9 DEF creditVars
  <1>10. QED
    BY <1>5, <1>6, <1>7, <1>8, <1>9 DEF CreditNext

\* A reservation stays behind once it is.
LEMMA BehindStays ==
  ASSUME CreditInv, [CreditNext]_creditVars, NEW b \in Bookings, Behind(b)
  PROVE  Behind(b)'
  <1>1. toAward \in [Passes -> SUBSET Bookings] /\ b \in notified /\ \A p \in Passes : b \notin toAward[p]
    BY DEF CreditInv, CreditTypeOK, Behind
  <1>2. CASE UNCHANGED <<notified, toAward>>
    BY <1>2 DEF Behind
  <1>3. CASE PassNext
    <2>1. CASE \E q \in Bookings : EndPasses(q)
      BY <1>2, <2>1 DEF EndPasses, passVars
    <2>2. ASSUME NEW p \in Passes, \/ FindDue(p) \/ CompleteDue(p) \/ NotifyCompleted(p) \/ EndPass(p)
                                   \/ \E q \in Bookings : AwardCompleted(p, q)
          PROVE  b \in notified' /\ \A x \in Passes : b \notin toAward'[x]
      BY <1>1, <2>2 DEF FindDue, CompleteDue, NotifyCompleted, EndPass, AwardCompleted, bookingVars
    <2>3. QED
      BY <1>3, <2>1, <2>2 DEF PassNext, Behind
  <1>4. CASE WalletNext \/ BookingNext \/ ReferralNext \/ UNCHANGED creditVars
    <2>1. UNCHANGED <<notified, toAward>>
      BY <1>4 DEF WalletNext, RecordChange, LoseChange, AdminAdjust, PurchasePlan,
            BookingNext, Book, CancelBooking, PayHold, ReleaseHold, CheckPenalty, CreateReview,
            ReferralNext, ReadReferee, CreateReferral, SetReferredBy, RewardReferrer, CrashClaim,
            creditVars, bookingVars, passVars
    <2>2. QED
      BY <1>2, <2>1
  <1>5. QED
    BY <1>3, <1>4 DEF CreditNext

\* completionNotifiedAt is a barrier: no step awards a notified reservation again
\* that no pass under way had found (autoComplete of reservation.jobs).
THEOREM NoSecondAward == CreditSpec => NotifiedIsNotAwardedAgain
  <1>1. ASSUME CreditInv, CreditInv', [CreditNext]_creditVars
        PROVE  [\A b \in Bookings :
                  Behind(b) => /\ Behind(b)'
                               /\ CountOf("completed_reservation", b)' <= CountOf("completed_reservation", b)]_creditVars
    BY <1>1, OnlyItsPassAwards, BehindStays DEF Award
  <1>2. QED
    BY <1>1, CreditInvariantHolds, PTL DEF CreditSpec, NotifiedIsNotAwardedAgain

-----------------------------------------------------------------------------
(* Plans and reminders                                                     *)

\* What was claimed or sent in the running period is in the list of the
\* profile, and what was claimed is claimed by one run and was not sent.
PlanInv ==
    /\ PlanTypeOK
    /\ \A r \in Reminders : reminder[r].step = "claimed" =>
          /\ reminder[r].period <= period
          /\ reminder[r].period = period => reminder[r].milestone \in profile.reminded
          /\ <<reminder[r].period, reminder[r].milestone>> \notin sent
    /\ \A q, r \in Reminders :
          /\ reminder[q].step = "claimed" /\ reminder[r].step = "claimed"
          /\ reminder[q].period = reminder[r].period /\ reminder[q].milestone = reminder[r].milestone
          => q = r
    /\ \A n \in Nat, m \in Milestones : <<n, m>> \in sent => n <= period /\ (n = period => m \in profile.reminded)
    /\ ~repeated

\* Nobody claims or sends: what was reminded is kept, unless a period begins.
LEMMA NoReminderMoves ==
  ASSUME PlanInv, PlanTypeOK', UNCHANGED <<reminder, sent, repeated>>,
         (period' = period /\ profile.reminded \subseteq profile'.reminded) \/ period' = period + 1
  PROVE  PlanInv'
  <1> USE DEF PlanInv
  <1>1. period \in Nat /\ period' \in Nat
    BY DEF PlanTypeOK
  <1>2. \A r \in Reminders : reminder[r].step = "claimed" => reminder[r].period \in Nat
    BY DEF PlanTypeOK, Reminding, NoReminder
  <1>3. QED
    BY <1>1, <1>2

\* The invariant bounds what a profile is.
LEMMA ProfileTypes ==
  ASSUME PlanTypeOK
  PROVE  /\ profile \in [tier : Tiers, sms : BOOLEAN, until : Days, reminded : SUBSET Milestones]
         /\ PlanExpiryDate \in Days /\ day \in Days /\ day + 1 \in Days /\ NoEnd \in Days
         /\ \A s \in Savers : saver[s].kind \in {"purchase", "admin", "switch"} => saver[s] \in Saving
         /\ \A r \in Reminders : reminder[r].step \in {"found", "claimed"} => reminder[r] \in Reminding
  <1>1. PlanExpiryDate \in Days /\ day \in Days /\ day + 1 \in Days /\ NoEnd \in Days
    BY PlanAssumption DEF PlanTypeOK, PlanExpiryDate, Days, NoEnd
  <1>2. QED
    BY <1>1 DEF PlanTypeOK, Profiles, NoSaver, Done, NoReminder

\* Reading the plan at the start of a purchase or a downgrade keeps the invariant.
LEMMA PlanIsRead ==
  ASSUME PlanInv, NEW s \in Savers, NEW kind \in {"purchase", "admin", "switch"}, NEW tier \in Tiers,
         NEW sms \in BOOLEAN, ReadProfile(s, kind, tier, sms)
  PROVE  PlanInv'
  <1>1. [kind |-> kind, tier |-> tier, sms |-> sms, read |-> profile, version |-> version] \in Saving
    BY DEF Saving, PlanInv, PlanTypeOK
  <1>2. PlanTypeOK'
    BY <1>1 DEF ReadProfile, PlanInv, PlanTypeOK
  <1>3. QED
    BY <1>2, NoReminderMoves DEF ReadProfile

\* Saving the plan keeps the invariant.
LEMMA PlanIsSaved ==
  ASSUME PlanInv, NEW s \in Savers, saver[s] \in Saving, NEW until \in Days, SavePlan(s, until), EndSaver(s),
         UNCHANGED <<day, reminder, sent, repeated>>
  PROVE  PlanInv'
  <1>0. PICK mine \in Saving : mine = saver[s]
    OBVIOUS
  <1>1. PICK tier, sms, end, reminded :
          /\ tier = Unless(mine.tier = mine.read.tier, profile.tier, mine.tier)
          /\ sms = Unless(mine.sms = mine.read.sms, profile.sms, mine.sms)
          /\ end = Unless(until = mine.read.until /\ mine.kind = "admin", profile.until, until)
          /\ reminded = IF mine.read.reminded # {} THEN {} ELSE profile.reminded
    OBVIOUS
  <1>2. mine.tier \in Tiers /\ mine.sms \in BOOLEAN
    BY DEF Saving
  <1>3. /\ tier \in {profile.tier, mine.tier} /\ sms \in {profile.sms, mine.sms} /\ end \in {profile.until, until}
        /\ reminded \in {{}, profile.reminded}
    BY <1>1 DEF Unless
  <1>4. IF mine.read.reminded # {} /\ version # mine.version
        THEN UNCHANGED <<profile, version, period, paidUntil>>
        ELSE /\ profile' = [tier |-> tier, sms |-> sms, until |-> end, reminded |-> reminded]
             /\ version' = IF mine.read.reminded # {} THEN version + 1 ELSE version
             /\ period' = period + 1
             /\ paidUntil' \in {until, 0}
    BY <1>0, <1>1 DEF SavePlan
  <1>5. [tier |-> tier, sms |-> sms, until |-> end, reminded |-> reminded] \in Profiles
    BY <1>2, <1>3, ProfileTypes DEF PlanInv, Profiles
  <1>6. /\ profile' \in Profiles /\ version' \in Nat /\ period' \in Nat /\ paidUntil' \in Days
    BY <1>4, <1>5, ProfileTypes DEF PlanInv, PlanTypeOK, Days
  <1>7. PlanTypeOK'
    BY <1>6 DEF PlanInv, PlanTypeOK, EndSaver
  <1>8. QED
    BY <1>4, <1>7, NoReminderMoves

\* The actions on a plan keep the invariant; then one lemma per step of a reminder.
LEMMA ChangePlanStep ==
  ASSUME PlanInv, ChangePlanNext
  PROVE  PlanInv'
  <1> USE DEF PlanInv
  <1>1. ASSUME NEW s \in Savers, StartActivatePlan(s) PROVE PlanInv'
    BY <1>1, PlanIsRead DEF StartActivatePlan, PlanAllowsSmsCampaign, Paid, Tiers
  <1>2. ASSUME NEW s \in Savers, StartSetStylistPlan(s) PROVE PlanInv'
    <2>1. PICK t \in Tiers : ReadProfile(s, "admin", t, PlanAllowsSmsCampaign(t))
      BY <1>2 DEF StartSetStylistPlan
    <2>2. PlanAllowsSmsCampaign(t) \in BOOLEAN
      BY DEF PlanAllowsSmsCampaign
    <2>3. QED
      BY <2>1, <2>2, PlanIsRead
  <1>3. ASSUME NEW s \in Savers, StartSetSmsCampaign(s) PROVE PlanInv'
    BY <1>3, PlanIsRead, ProfileTypes DEF StartSetSmsCampaign
  <1>4. ASSUME NEW s \in Savers, ActivatePlan(s) PROVE PlanInv'
    BY <1>4, PlanIsSaved, ProfileTypes DEF ActivatePlan
  <1>5. ASSUME NEW s \in Savers, SetStylistPlan(s) PROVE PlanInv'
    <2>1. PICK until \in Days : SavePlan(s, until)
      BY <1>5, ProfileTypes DEF SetStylistPlan
    <2>2. saver[s] \in Saving
      BY <1>5, ProfileTypes DEF SetStylistPlan
    <2>3. QED
      BY <1>5, <2>1, <2>2, PlanIsSaved DEF SetStylistPlan
  <1>6. ASSUME NEW s \in Savers, SetSmsCampaign(s) PROVE PlanInv'
    <2>1. saver[s] \in Saving /\ saver[s].sms \in BOOLEAN
      BY <1>6, ProfileTypes DEF SetSmsCampaign, Saving
    <2>2. PICK sms \in BOOLEAN : profile' = [profile EXCEPT !.sms = sms]
      BY <1>6, <2>1, ProfileTypes DEF SetSmsCampaign, Unless
    <2>3. profile' \in Profiles /\ profile'.reminded = profile.reminded
      BY <2>2, ProfileTypes DEF Profiles
    <2>4. PlanTypeOK'
      BY <1>6, <2>3 DEF SetSmsCampaign, EndSaver, PlanTypeOK
    <2>5. QED
      BY <1>6, <2>3, <2>4, NoReminderMoves DEF SetSmsCampaign
  <1>7. ASSUME NEW s \in Savers, CrashSaver(s) PROVE PlanInv'
    <2>1. PlanTypeOK'
      BY <1>7 DEF CrashSaver, EndSaver, PlanTypeOK
    <2>2. QED
      BY <1>7, <2>1, NoReminderMoves DEF CrashSaver
  <1>8. ASSUME NEW t \in Paid, BuyByCredit(t) PROVE PlanInv'
    <2>1. profile' \in Profiles
      BY <1>8, ProfileTypes DEF BuyByCredit, Profiles, Paid, Tiers
    <2>2. PlanTypeOK'
      BY <1>8, <2>1, ProfileTypes DEF BuyByCredit, PlanTypeOK
    <2>3. QED
      BY <1>8, <2>2, NoReminderMoves DEF BuyByCredit
  <1>9. QED
    BY <1>1, <1>2, <1>3, <1>4, <1>5, <1>6, <1>7, <1>8 DEF ChangePlanNext

LEMMA FindStep ==
  ASSUME PlanInv, NEW r \in Reminders, FindExpiring(r)
  PROVE  PlanInv'
  <1> USE DEF PlanInv
  <1>1. MilestoneFor(profile.until - day) \in Milestones
    <2>1. profile.until - day \in 1 .. 5
      BY ProfileTypes, PlanAssumption DEF FindExpiring, PlanTypeOK, Days, NoEnd
    <2>2. QED
      BY <2>1 DEF MilestoneFor, Milestones
  <1>2. PICK found \in Reminding : found.step = "found" /\ reminder' = [reminder EXCEPT ![r] = found]
    BY <1>1 DEF FindExpiring, Reminding, PlanTypeOK
  <1>3. /\ reminder'[r].step = "found" /\ \A q \in Reminders : q # r => reminder'[q] = reminder[q]
        /\ PlanTypeOK'
    BY <1>2 DEF PlanTypeOK, FindExpiring
  <1>4. QED
    BY <1>3 DEF FindExpiring

LEMMA ClaimStep ==
  ASSUME PlanInv, NEW r \in Reminders, ClaimMilestone(r)
  PROVE  PlanInv'
  <1> USE DEF PlanInv
  <1>1. reminder[r] \in Reminding /\ reminder[r].step = "found" /\ reminder[r].milestone \in Milestones
    BY ProfileTypes DEF ClaimMilestone, Reminding
  <1>2. CASE reminder[r].milestone \in profile.reminded
    <2>1. reminder' = [reminder EXCEPT ![r] = NoReminder] /\ UNCHANGED <<day, version, saver, profile, period, sent, repeated, paidUntil>>
      BY <1>2 DEF ClaimMilestone
    <2>2. /\ reminder'[r].step # "claimed" /\ \A q \in Reminders : q # r => reminder'[q] = reminder[q]
          /\ PlanTypeOK'
      BY <2>1 DEF PlanTypeOK, NoReminder
    <2>3. QED
      BY <2>1, <2>2
  <1>3. CASE reminder[r].milestone \notin profile.reminded
    <2>1. PICK m \in Milestones : m = reminder[r].milestone
      BY <1>1
    <2>2. /\ profile' = [profile EXCEPT !.reminded = @ \cup {m}]
          /\ reminder' = [reminder EXCEPT ![r] = [@ EXCEPT !.step = "claimed", !.period = period]]
          /\ UNCHANGED <<day, version, saver, period, sent, repeated, paidUntil>>
      BY <1>3, <2>1 DEF ClaimMilestone
    <2>3. /\ reminder'[r] \in Reminding /\ reminder'[r].step = "claimed"
          /\ reminder'[r].period = period /\ reminder'[r].milestone = m
          /\ \A q \in Reminders : q # r => reminder'[q] = reminder[q]
      BY <1>1, <2>1, <2>2 DEF PlanTypeOK, Reminding
    <2>4. profile' \in Profiles /\ profile'.reminded = profile.reminded \cup {m}
      BY <2>2, ProfileTypes DEF Profiles
    <2>5. PlanTypeOK'
      BY <2>2, <2>3, <2>4 DEF PlanTypeOK
    <2>6. <<period, m>> \notin sent /\ period \in Nat
      BY <1>3, <2>1 DEF PlanTypeOK
    <2>7. \A q \in Reminders : q # r /\ reminder[q].step = "claimed" => ~(reminder[q].period = period /\ reminder[q].milestone = m)
      BY <1>3, <2>1
    <2>8. QED
      BY <2>2, <2>3, <2>4, <2>5, <2>6, <2>7
  <1>4. QED
    BY <1>2, <1>3

LEMMA SendStep ==
  ASSUME PlanInv, NEW r \in Reminders, SendReminder(r)
  PROVE  PlanInv'
  <1> USE DEF PlanInv
  <1>1. PICK n \in Nat, m \in Milestones :
          /\ n = reminder[r].period /\ m = reminder[r].milestone /\ reminder[r].step = "claimed"
    BY ProfileTypes DEF SendReminder, Reminding
  <1>2. /\ sent' = sent \cup {<<n, m>>} /\ repeated' = (repeated \/ <<n, m>> \in sent)
        /\ reminder' = [reminder EXCEPT ![r] = NoReminder]
        /\ UNCHANGED <<day, profile, version, saver, period, paidUntil>>
    BY <1>1 DEF SendReminder
  <1>3. ~repeated' /\ n <= period /\ (n = period => m \in profile.reminded)
    BY <1>1, <1>2
  <1>4. /\ reminder'[r].step # "claimed" /\ \A q \in Reminders : q # r => reminder'[q] = reminder[q]
        /\ PlanTypeOK'
    BY <1>2, <1>3 DEF PlanTypeOK, NoReminder
  <1>5. \A q \in Reminders : q # r /\ reminder[q].step = "claimed" => <<reminder[q].period, reminder[q].milestone>> # <<n, m>>
    BY <1>1
  <1>6. QED
    BY <1>1, <1>2, <1>3, <1>4, <1>5

LEMMA LoseStep ==
  ASSUME PlanInv, NEW r \in Reminders, LoseReminder(r)
  PROVE  PlanInv'
  <1> USE DEF PlanInv
  <1>1. /\ reminder'[r].step # "claimed" /\ \A q \in Reminders : q # r => reminder'[q] = reminder[q]
        /\ PlanTypeOK'
    BY DEF LoseReminder, PlanTypeOK, NoReminder
  <1>2. QED
    BY <1>1 DEF LoseReminder

\* The invariant of plans and reminders holds in every state: what is claimed or
\* sent in the running period is in the list of the profile (plan.job.ts).
THEOREM PlanInvariantHolds == PlanSpec => []PlanInv
  <1>1. PlanInit => PlanInv
    <2> SUFFICES ASSUME PlanInit
                 PROVE  PlanInv
      OBVIOUS
    <2>1. NoEnd \in Days /\ day \in 0 .. MaxDay /\ 0 \in Days
      BY PlanAssumption DEF PlanInit, Days, NoEnd
    <2>2. PlanTypeOK
      BY <2>1 DEF PlanInit, PlanTypeOK, Profiles, Tiers
    <2>3. \A r \in Reminders : reminder[r].step # "claimed"
      BY DEF PlanInit, NoReminder
    <2>4. sent = {} /\ ~repeated
      BY DEF PlanInit
    <2>5. QED
      BY <2>2, <2>3, <2>4 DEF PlanInv
  <1>2. ASSUME PlanInv, [PlanNext]_planVars
        PROVE  PlanInv'
    <2>1. CASE NextDay
      <3>1. PlanTypeOK'
        BY <1>2, <2>1, PlanAssumption DEF NextDay, PlanInv, PlanTypeOK
      <3>2. QED
        BY <1>2, <2>1, <3>1, NoReminderMoves DEF NextDay
    <2>2. CASE DowngradeExpiredPlans
      <3>1. profile' \in Profiles /\ profile'.reminded = profile.reminded
        BY <1>2, <2>2, ProfileTypes DEF DowngradeExpiredPlans, PlanInv, Profiles, Tiers
      <3>2. PlanTypeOK'
        BY <1>2, <2>2, <3>1 DEF DowngradeExpiredPlans, PlanInv, PlanTypeOK
      <3>3. QED
        BY <1>2, <2>2, <3>1, <3>2, NoReminderMoves DEF DowngradeExpiredPlans
    <2>3. CASE UNCHANGED planVars
      BY <1>2, <2>3 DEF planVars, PlanInv, PlanTypeOK
    <2>4. QED
      BY <1>2, <2>1, <2>2, <2>3, ChangePlanStep, FindStep, ClaimStep, SendStep, LoseStep DEF PlanNext, ReminderNext
  <1>3. QED
    BY <1>1, <1>2, PTL DEF PlanSpec

\* A milestone is sent at most once in a plan period, however many runs of the
\* reminder job overlap (plan.job.ts, the atomic claim).
THEOREM RemindedOnce == PlanSpec => []RemindedOncePerPeriod
  <1>1. PlanInv => RemindedOncePerPeriod
    BY DEF PlanInv, RemindedOncePerPeriod
  <1>2. QED
    BY <1>1, PlanInvariantHolds, PTL

\* A save of the plan keeps what was bought: a purchase begins its own month with a
\* paid tier, and an admin's save ends the promise.
LEMMA SaveKeepsPurchase ==
  ASSUME PlanInv, PurchasedPlanLasts, NEW s \in Savers, saver[s] \in Saving,
         saver[s].kind = "purchase" => saver[s].tier \in Paid,
         NEW until \in Days, SavePlan(s, until), UNCHANGED day
  PROVE  PurchasedPlanLasts'
  <1>0. PICK mine \in Saving : mine = saver[s]
    OBVIOUS
  <1>1. day \in Nat /\ paidUntil \in Nat /\ profile.until \in Nat
    BY PlanAssumption, ProfileTypes DEF PlanInv, PlanTypeOK, Days, NoEnd
  <1>2. CASE UNCHANGED <<profile, paidUntil>>
    BY <1>2 DEF PurchasedPlanLasts
  <1>3. CASE paidUntil' = 0
    BY <1>1, <1>3 DEF PurchasedPlanLasts
  <1>4. CASE /\ mine.kind = "purchase" /\ ~(mine.tier = mine.read.tier /\ profile.tier # mine.tier)
             /\ paidUntil' = until
             /\ profile'.tier = Unless(mine.tier = mine.read.tier, profile.tier, mine.tier)
             /\ profile'.until = Unless(until = mine.read.until /\ mine.kind = "admin", profile.until, until)
    <2>1. profile'.tier = mine.tier /\ profile'.until = until
      BY <1>4 DEF Unless
    <2>2. mine.tier \in Paid /\ until \in Nat
      BY <1>0, <1>4 DEF Days
    <2>3. QED
      BY <1>4, <2>1, <2>2 DEF PurchasedPlanLasts
  <1>5. QED
    BY <1>0, <1>2, <1>3, <1>4 DEF SavePlan

\* What a purchase is going to save is a paid tier.
PurchasesAreOfPaid == \A s \in Savers : saver[s].kind = "purchase" => saver[s].tier \in Paid

\* A bought plan lasts to its end, whatever saves and downgrades overlap.
THEOREM PurchaseLasts == PlanSpec => []PurchasedPlanLasts
  <1> DEFINE Inv == PurchasesAreOfPaid /\ PurchasedPlanLasts
  <1>1. PlanInit => Inv
    BY DEF PlanInit, PurchasesAreOfPaid, PurchasedPlanLasts, NoSaver, Done
  <1>2. ASSUME PlanInv, Inv, PlanInv', [PlanNext]_planVars
        PROVE  Inv'
    <2>0. day \in Nat /\ paidUntil \in Nat /\ profile.until \in Nat /\ Period \in Nat
      BY <1>2, PlanAssumption, ProfileTypes DEF PlanInv, PlanTypeOK, Days, NoEnd
    <2>1. CASE NextDay
      BY <1>2, <2>0, <2>1 DEF NextDay, PurchasesAreOfPaid, PurchasedPlanLasts
    <2>2. CASE DowngradeExpiredPlans
      <3>1. profile.until <= day /\ UNCHANGED <<day, saver, paidUntil>>
        BY <2>2 DEF DowngradeExpiredPlans
      <3>2. QED
        BY <1>2, <2>0, <3>1 DEF PurchasesAreOfPaid, PurchasedPlanLasts
    <2>3. CASE UNCHANGED planVars
      BY <1>2, <2>3 DEF planVars, PurchasesAreOfPaid, PurchasedPlanLasts
    <2>4. CASE ReminderNext
      <3>1. /\ UNCHANGED <<day, saver, paidUntil>>
            /\ profile'.tier = profile.tier /\ profile'.until = profile.until
        BY <1>2, <2>4, ProfileTypes DEF ReminderNext, FindExpiring, ClaimMilestone, SendReminder, LoseReminder, PlanInv
      <3>2. QED
        BY <1>2, <3>1 DEF PurchasesAreOfPaid, PurchasedPlanLasts
    <2>5. ASSUME NEW s \in Savers, NEW kind \in {"purchase", "admin", "switch"}, NEW tier \in Tiers,
                 NEW sms \in BOOLEAN, kind = "purchase" => tier \in Paid, ReadProfile(s, kind, tier, sms)
          PROVE  Inv'
      <3>1. /\ saver' = [saver EXCEPT ![s] = [kind |-> kind, tier |-> tier, sms |-> sms,
                                              read |-> profile, version |-> version]]
            /\ UNCHANGED <<day, profile, paidUntil>>
        BY <2>5 DEF ReadProfile
      <3>2. QED
        BY <1>2, <2>5, <3>1 DEF PurchasesAreOfPaid, PurchasedPlanLasts, PlanInv, PlanTypeOK
    <2>6. ASSUME NEW s \in Savers, EndSaver(s)
          PROVE  PurchasesAreOfPaid'
      BY <1>2, <2>6 DEF EndSaver, PurchasesAreOfPaid, Done, PlanInv, PlanTypeOK
    <2>7. ASSUME NEW s \in Savers, ActivatePlan(s)
          PROVE  Inv'
      BY <1>2, <2>6, <2>7, SaveKeepsPurchase, ProfileTypes DEF ActivatePlan, PurchasesAreOfPaid, PlanInv
    <2>8. ASSUME NEW s \in Savers, SetStylistPlan(s)
          PROVE  Inv'
      <3>1. PICK until \in Days : SavePlan(s, until)
        BY <1>2, <2>8, ProfileTypes DEF SetStylistPlan, PlanInv
      <3>2. QED
        BY <1>2, <2>6, <2>8, <3>1, SaveKeepsPurchase, ProfileTypes DEF SetStylistPlan, PlanInv
    <2>9. ASSUME NEW s \in Savers, SetSmsCampaign(s)
          PROVE  Inv'
      <3>1. /\ UNCHANGED <<day, paidUntil>> /\ EndSaver(s)
            /\ profile'.tier = profile.tier /\ profile'.until = profile.until
        BY <1>2, <2>9, ProfileTypes DEF SetSmsCampaign, PlanInv
      <3>2. QED
        BY <1>2, <2>6, <3>1 DEF PurchasedPlanLasts
    <2>10. ASSUME NEW s \in Savers, CrashSaver(s)
           PROVE  Inv'
      BY <1>2, <2>6, <2>10 DEF CrashSaver, PurchasedPlanLasts
    <2>11. ASSUME NEW t \in Paid, BuyByCredit(t)
           PROVE  Inv'
      <3>1. /\ profile'.tier = t /\ profile'.until = PlanExpiryDate /\ paidUntil' = PlanExpiryDate
            /\ UNCHANGED saver
        BY <1>2, <2>11, ProfileTypes DEF BuyByCredit, PlanInv
      <3>2. QED
        BY <1>2, <2>0, <3>1 DEF PurchasesAreOfPaid, PurchasedPlanLasts, PlanExpiryDate
    <2>12. CASE ChangePlanNext
      <3>1. ASSUME NEW s \in Savers, StartActivatePlan(s) PROVE Inv'
        BY <2>5, <3>1 DEF StartActivatePlan, PlanAllowsSmsCampaign, Paid, Tiers
      <3>2. ASSUME NEW s \in Savers, StartSetStylistPlan(s) PROVE Inv'
        <4>1. PICK t \in Tiers : ReadProfile(s, "admin", t, PlanAllowsSmsCampaign(t))
          BY <3>2 DEF StartSetStylistPlan
        <4>2. PlanAllowsSmsCampaign(t) \in BOOLEAN
          BY DEF PlanAllowsSmsCampaign
        <4>3. QED
          BY <2>5, <4>1, <4>2
      <3>3. ASSUME NEW s \in Savers, StartSetSmsCampaign(s) PROVE Inv'
        BY <1>2, <2>5, <3>3, ProfileTypes DEF StartSetSmsCampaign, PlanInv
      <3>4. QED
        BY <2>7, <2>8, <2>9, <2>10, <2>11, <2>12, <3>1, <3>2, <3>3 DEF ChangePlanNext
    <2>13. QED
      BY <1>2, <2>1, <2>2, <2>3, <2>4, <2>12 DEF PlanNext
  <1>3. QED
    BY <1>1, <1>2, PlanInvariantHolds, PTL DEF PlanSpec

-----------------------------------------------------------------------------
(* Discount codes and campaigns                                            *)

USE DEF orderVars, dayVars, monthVars, campaignVars, codeVars

\* The bookings whose use of a code is counted and that were not refused.
Holders(c) == {o \in Orders : using[o] = c /\ order[o] \in {"consumed", "answered"}}

\* A booking has resolved a code once it is under way, and nobody a code that
\* was never created.
ResolvedExist ==
    \A o \in Orders : /\ order[o] # "idle" => using[o] \in Codes
                      /\ using[o] # NoCode => code[using[o]] # NoDoc

\* Holders are among the counted uses, which are among the highest limit.
UsesCounted ==
    \A c \in Codes :
        /\ Cardinality(Holders(c)) <= topLimit[c]
        /\ Exists(c) => /\ Cardinality(Holders(c)) <= code[c].used
                        /\ code[c].used <= topLimit[c]
                        /\ code[c].limit <= topLimit[c]

\* Every message of the day and of the month has its row or lost it.
Accounted == reached \subseteq recent \cup unlogged /\ monthSent <= monthCount + monthLost

\* Of campaigns that never overlapped one is being sent, to numbers that fit the
\* month together with what is logged.  Every message has its row or lost it,
\* but for the one just sent.
OneCampaign ==
    ~overlapped =>
        /\ resent \subseteq unlogged /\ monthCount <= GoldMax
        /\ \A s, q \in Senders : ~Free(s) /\ ~Free(q) => s = q
        /\ (\A s \in Senders : Free(s)) => Accounted
        /\ \A s \in Senders : ~Free(s) =>
              \/ /\ sending[s].step = "next" /\ Accounted
                 /\ monthCount + Cardinality(sending[s].todo) <= GoldMax
              \/ /\ sending[s].step = "sent"
                 /\ monthCount + Cardinality(sending[s].todo) + 1 <= GoldMax
                 /\ monthSent <= monthCount + monthLost + 1
                 /\ reached \subseteq recent \cup unlogged \cup {<<sending[s].code, p>> : p \in sending[s].now}

CodesInv == CodesTypeOK /\ ResolvedExist /\ UsesCounted /\ OneCampaign

-----------------------------------------------------------------------------
(* Amounts and documents *)

\* Two naturals multiply to a natural.
LEMMA Times == \A a, b \in Nat : a * b \in Nat
  OBVIOUS

\* What a code takes off is a natural number.
LEMMA DiscountType == \A doc \in CodeDocs : DiscountAmount(doc) \in Nat
  <1> SUFFICES ASSUME NEW doc \in CodeDocs
               PROVE  DiscountAmount(doc) \in Nat
    OBVIOUS
  <1> DEFINE eligible == IF doc.all THEN Price ELSE Share
             product == eligible * doc.value
  <1>1. eligible \in Nat /\ doc.value \in Nat /\ doc.cap \in Nat
    <2>1. Price \in Nat /\ Share \in Nat /\ Values \subseteq Nat /\ Caps \cup {Unlimited} \subseteq Nat
      BY CodesAssumption
    <2>2. doc.value \in Values /\ doc.cap \in Caps \cup {Unlimited}
      BY DEF CodeDocs
    <2>3. QED
      BY <2>1, <2>2
  <1>2. product \in Nat
    BY <1>1, Times
  <1>3. 2 * eligible * doc.value = 2 * product
    BY <1>1
  <1> HIDE DEF product
  <1>4. (2 * product + 100) \div 200 \in Nat
    BY <1>2
  <1>5. QED
    BY <1>1, <1>3, <1>4 DEF DiscountAmount, Least

\* A document that exists is one with all its fields.
LEMMA ExistingDoc ==
  ASSUME CodesTypeOK, NEW c \in Codes
  PROVE  Exists(c) <=> code[c] \in CodeDocs
  BY DEF CodesTypeOK, Exists, NoDoc, Deleted, CodeDocs, Kinds

\* Holders are finitely many.
LEMMA HoldersFinite == \A c : IsFiniteSet(Holders(c)) /\ Cardinality(Holders(c)) \in Nat
  BY CodesAssumption, FS_Subset, FS_CardinalityType DEF Holders

-----------------------------------------------------------------------------
(* Editing codes *)

\* A document that keeps its uses and whose limit was seen keeps the invariant.
LEMMA EditedDoc ==
  ASSUME CodesInv, NEW c \in Codes, Exists(c), NEW doc \in CodeDocs, doc.used = code[c].used,
         code' = [code EXCEPT ![c] = doc], NEW top \in Nat, topLimit[c] <= top, doc.limit <= top,
         topLimit' = [topLimit EXCEPT ![c] = top], UNCHANGED <<inWindow, orderVars, campaignVars>>
  PROVE  CodesInv'
  <1> USE DEF CodesInv, CodesTypeOK
  <1>1. CodesTypeOK'
    OBVIOUS
  <1>2. code[c] \in CodeDocs
    BY ExistingDoc
  <1>3. ResolvedExist'
    BY DEF ResolvedExist, CodeDocs, NoDoc, Kinds
  <1>4. \A d \in Codes : Holders(d)' = Holders(d)
    BY DEF Holders
  <1>5. \A d \in Codes \ {c} : Exists(d)' = Exists(d) /\ code'[d] = code[d] /\ topLimit'[d] = topLimit[d]
    BY DEF Exists
  <1>6. code'[c] = doc /\ topLimit'[c] = top
    OBVIOUS
  <1>7. Cardinality(Holders(c)) <= code[c].used /\ code[c].used <= topLimit[c]
    BY DEF UsesCounted
  <1>8. UsesCounted'
    <2> SUFFICES ASSUME NEW d \in Codes
                 PROVE  /\ Cardinality(Holders(d)') <= topLimit'[d]
                        /\ Exists(d)' => /\ Cardinality(Holders(d)') <= code'[d].used
                                         /\ code'[d].used <= topLimit'[d]
                                         /\ code'[d].limit <= topLimit'[d]
      BY DEF UsesCounted
    <2>1. CASE d = c
      <3>1. Cardinality(Holders(c)) \in Nat /\ code[c].used \in Nat /\ topLimit[c] \in Nat
        BY <1>2, HoldersFinite DEF CodeDocs
      <3>2. QED
        BY <1>4, <1>6, <1>7, <2>1, <3>1
    <2>2. CASE d # c
      BY <1>4, <1>5, <2>2 DEF UsesCounted
    <2>3. QED
      BY <2>1, <2>2
  <1>9. OneCampaign'
    BY DEF OneCampaign, Accounted, Free
  <1>10. QED
    BY <1>1, <1>3, <1>8, <1>9

\* A new code, under a name that nobody has used.
LEMMA CreatedDoc ==
  ASSUME CodesInv, NEW c \in Codes, NEW t \in Kinds, NEW v \in Values, NEW k \in Caps \cup {Unlimited},
         NEW n \in Limits \cup {Unlimited}, NEW all \in BOOLEAN, NEW anyTime \in BOOLEAN,
         CreateDiscountCode(c, t, v, k, all, anyTime, n)
  PROVE  CodesInv'
  <1> USE CodesAssumption DEF CodesInv, CodesTypeOK
  <1> DEFINE doc == [type |-> t, value |-> v, cap |-> IF t = "percentage" THEN k ELSE Unlimited,
                     all |-> all, anyTime |-> anyTime, limit |-> n, used |-> 0, active |-> TRUE]
  <1>1. doc \in CodeDocs /\ doc.used = 0 /\ doc.limit = n
    BY DEF CodeDocs
  <1>2. /\ code[c] = NoDoc /\ code' = [code EXCEPT ![c] = doc]
        /\ topLimit' = [topLimit EXCEPT ![c] = Most(topLimit[c], n)]
        /\ UNCHANGED <<inWindow, orderVars, campaignVars>>
    BY DEF CreateDiscountCode
  <1> HIDE DEF doc
  <1>3. n \in Nat /\ Most(topLimit[c], n) \in Nat /\ n <= Most(topLimit[c], n)
    BY DEF Most
  <1>4. CodesTypeOK'
    BY <1>1, <1>2, <1>3
  <1>5. ResolvedExist'
    BY <1>1, <1>2 DEF ResolvedExist, CodeDocs, NoDoc, Kinds
  <1>6. \A d \in Codes : Holders(d)' = Holders(d)
    BY <1>2 DEF Holders
  <1>7. Holders(c) = {}
    BY <1>2 DEF Holders, ResolvedExist
  <1>8. UsesCounted'
    <2> SUFFICES ASSUME NEW d \in Codes
                 PROVE  /\ Cardinality(Holders(d)') <= topLimit'[d]
                        /\ Exists(d)' => /\ Cardinality(Holders(d)') <= code'[d].used
                                         /\ code'[d].used <= topLimit'[d]
                                         /\ code'[d].limit <= topLimit'[d]
      BY DEF UsesCounted
    <2>1. CASE d = c
      <3>1. Cardinality(Holders(d)') = 0
        BY <1>6, <1>7, <2>1, FS_EmptySet
      <3>2. code'[d] = doc /\ topLimit'[d] = Most(topLimit[c], n)
        BY <1>2, <2>1
      <3> QED
        BY <1>1, <1>3, <3>1, <3>2
    <2>2. CASE d # c
      BY <1>2, <1>6, <2>2 DEF UsesCounted, Exists
    <2>3. QED
      BY <2>1, <2>2
  <1>9. OneCampaign'
    BY <1>2 DEF OneCampaign, Accounted, Free
  <1>10. QED
    BY <1>4, <1>5, <1>8, <1>9

\* A deleted code, and a moved window.
LEMMA OtherEdits ==
  ASSUME CodesInv, NEW c \in Codes, DeleteDiscountCode(c) \/ MoveWindow(c)
  PROVE  CodesInv'
  <1> USE DEF CodesInv, CodesTypeOK
  <1>1. /\ code' = [code EXCEPT ![c] = Deleted] \/ code' = code
        /\ inWindow' \subseteq Codes
        /\ UNCHANGED <<topLimit, orderVars, campaignVars>>
    BY DEF DeleteDiscountCode, MoveWindow
  <1>2. CodesTypeOK'
    BY <1>1
  <1>3. ResolvedExist'
    BY <1>1 DEF ResolvedExist, Deleted, NoDoc
  <1>4. \A d \in Codes : Holders(d)' = Holders(d)
    BY <1>1 DEF Holders
  <1>5. \A d \in Codes : Exists(d)' => Exists(d) /\ code'[d] = code[d]
    BY <1>1 DEF Exists
  <1>6. UsesCounted'
    BY <1>1, <1>4, <1>5 DEF UsesCounted
  <1>7. OneCampaign'
    BY <1>1 DEF OneCampaign, Accounted, Free
  <1>8. QED
    BY <1>2, <1>3, <1>6, <1>7

\* A document of which a field other than its limit and its uses is written.
LEMMA WrittenField ==
  ASSUME CodesInv, NEW c \in Codes, Exists(c), NEW doc \in CodeDocs,
         doc.used = code[c].used, doc.limit = code[c].limit,
         code' = [code EXCEPT ![c] = doc], UNCHANGED <<inWindow, topLimit, orderVars, campaignVars>>
  PROVE  CodesInv'
  <1>1. topLimit[c] \in Nat /\ topLimit' = [topLimit EXCEPT ![c] = topLimit[c]]
    BY DEF CodesInv, CodesTypeOK
  <1>2. doc.limit <= topLimit[c] /\ topLimit[c] <= topLimit[c]
    BY <1>1 DEF CodesInv, UsesCounted
  <1>3. QED
    BY <1>1, <1>2, EditedDoc

\* Every way to change a code keeps the invariant.
LEMMA EditStep ==
  ASSUME CodesInv, EditNext
  PROVE  CodesInv'
  <1> USE CodesAssumption
  <1>1. ASSUME NEW c \in Codes, UpdateDiscountCode(c)
        PROVE  CodesInv'
    <2> HIDE DEF orderVars, campaignVars
    <2>0. Exists(c) /\ UNCHANGED <<inWindow, orderVars, campaignVars>>
      BY <1>1, Zenon DEF UpdateDiscountCode
    <2>1. Exists(c) /\ code[c] \in CodeDocs /\ UNCHANGED <<inWindow, orderVars, campaignVars>>
      BY <2>0, ExistingDoc DEF CodesInv
    <2>2. ASSUME NEW doc \in CodeDocs, doc.used = code[c].used, doc.limit = code[c].limit,
                 code' = [code EXCEPT ![c] = doc], UNCHANGED topLimit
          PROVE  CodesInv'
      BY <2>1, <2>2, WrittenField
    <2>3. ASSUME NEW v \in Values, code' = [code EXCEPT ![c] = [code[c] EXCEPT !.value = v]], UNCHANGED topLimit
          PROVE  CodesInv'
      <3> DEFINE doc == [code[c] EXCEPT !.value = v]
      <3>1. doc \in CodeDocs /\ doc.used = code[c].used /\ doc.limit = code[c].limit
        BY <2>1 DEF CodeDocs
      <3>2. QED
        BY <2>2, <2>3, <3>1
    <2>4. ASSUME NEW t \in Kinds, code' = [code EXCEPT ![c] = [code[c] EXCEPT !.type = t]], UNCHANGED topLimit
          PROVE  CodesInv'
      <3> DEFINE doc == [code[c] EXCEPT !.type = t]
      <3>1. doc \in CodeDocs /\ doc.used = code[c].used /\ doc.limit = code[c].limit
        BY <2>1 DEF CodeDocs
      <3>2. QED
        BY <2>2, <2>4, <3>1
    <2>5. ASSUME NEW t \in Kinds, NEW v \in Values, UNCHANGED topLimit,
                 code' = [code EXCEPT ![c] = [code[c] EXCEPT !.type = t, !.value = v]]
          PROVE  CodesInv'
      <3> DEFINE doc == [code[c] EXCEPT !.type = t, !.value = v]
      <3>1. doc \in CodeDocs /\ doc.used = code[c].used /\ doc.limit = code[c].limit
        BY <2>1 DEF CodeDocs
      <3>2. QED
        BY <2>2, <2>5, <3>1
    <2>6. ASSUME NEW on \in BOOLEAN, code' = [code EXCEPT ![c] = [code[c] EXCEPT !.active = on]], UNCHANGED topLimit
          PROVE  CodesInv'
      <3> DEFINE doc == [code[c] EXCEPT !.active = on]
      <3>1. doc \in CodeDocs /\ doc.used = code[c].used /\ doc.limit = code[c].limit
        BY <2>1 DEF CodeDocs
      <3>2. QED
        BY <2>2, <2>6, <3>1
    <2>7. ASSUME NEW any \in BOOLEAN, code' = [code EXCEPT ![c] = [code[c] EXCEPT !.anyTime = any]], UNCHANGED topLimit
          PROVE  CodesInv'
      <3> DEFINE doc == [code[c] EXCEPT !.anyTime = any]
      <3>1. doc \in CodeDocs /\ doc.used = code[c].used /\ doc.limit = code[c].limit
        BY <2>1 DEF CodeDocs
      <3>2. QED
        BY <2>2, <2>7, <3>1
    <2>8. ASSUME NEW n \in Limits \cup {Unlimited}, code' = [code EXCEPT ![c] = [code[c] EXCEPT !.limit = n]],
                 topLimit' = [topLimit EXCEPT ![c] = Most(topLimit[c], n)]
          PROVE  CodesInv'
      <3> DEFINE doc == [code[c] EXCEPT !.limit = n]
                 top == Most(topLimit[c], n)
      <3>1. doc \in CodeDocs /\ doc.used = code[c].used /\ doc.limit = n
        BY <2>1 DEF CodeDocs
      <3>2. topLimit[c] \in Nat /\ n \in Nat
        BY DEF CodesInv, CodesTypeOK
      <3>3. top \in Nat /\ topLimit[c] <= top /\ n <= top
        BY <3>2 DEF Most
      <3> HIDE DEF doc, top
      <3>4. doc.limit <= top /\ code' = [code EXCEPT ![c] = doc] /\ topLimit' = [topLimit EXCEPT ![c] = top]
        BY <2>8, <3>1, <3>3 DEF doc, top
      <3>5. QED
        BY <2>1, <3>1, <3>3, <3>4, EditedDoc
    <2>9. QED
      BY <1>1, <2>3, <2>4, <2>5, <2>6, <2>7, <2>8, Zenon DEF UpdateDiscountCode
  <1>2. QED
    BY <1>1, CreatedDoc, OtherEdits DEF EditNext

-----------------------------------------------------------------------------
(* Bookings *)

\* A booking that goes on without a code document being written, and without a
\* holder more.
LEMMA NoHolderMore ==
  ASSUME CodesInv, CodesTypeOK', ResolvedExist', UNCHANGED <<code, inWindow, topLimit, campaignVars>>,
         \A c \in Codes : Holders(c)' \subseteq Holders(c)
  PROVE  CodesInv'
  <1> USE DEF CodesInv, CodesTypeOK
  <1>1. UsesCounted'
    <2> SUFFICES ASSUME NEW c \in Codes
                 PROVE  /\ Cardinality(Holders(c)') <= topLimit[c]
                        /\ Exists(c) => /\ Cardinality(Holders(c)') <= code[c].used
                                        /\ code[c].used <= topLimit[c]
                                        /\ code[c].limit <= topLimit[c]
      BY DEF UsesCounted, Exists
    <2>1. Cardinality(Holders(c)') <= Cardinality(Holders(c)) /\ Cardinality(Holders(c)') \in Nat
      BY HoldersFinite, FS_Subset, FS_CardinalityType
    <2>2. Cardinality(Holders(c)) \in Nat /\ topLimit[c] \in Nat /\ (Exists(c) => code[c].used \in Nat)
      BY HoldersFinite, ExistingDoc DEF CodeDocs
    <2>3. QED
      BY <2>1, <2>2 DEF UsesCounted
  <1>2. OneCampaign'
    BY DEF OneCampaign, Accounted, Free
  <1>3. QED
    BY <1>1, <1>2

\* A use that is counted: one holder more, and one use more, of a code whose
\* limit was not reached.
LEMMA CountedUse ==
  ASSUME CodesInv, NEW o \in Orders, ConsumeDiscount(o),
         Exists(using[o]), code[using[o]].active, code[using[o]].used < code[using[o]].limit
  PROVE  CodesInv'
  <1> USE DEF CodesInv, CodesTypeOK
  <1>1. PICK c \in Codes : c = using[o]
    BY DEF ConsumeDiscount, ResolvedExist
  <1> DEFINE doc == [code[c] EXCEPT !.used = code[c].used + 1]
  <1>2. code[c] \in CodeDocs
    BY <1>1, ExistingDoc
  <1>3. doc \in CodeDocs /\ doc.used = code[c].used + 1 /\ doc.limit = code[c].limit
    BY <1>2 DEF CodeDocs
  <1>4. /\ code' = [code EXCEPT ![c] = doc] /\ order[o] = "inserted"
        /\ order' = [order EXCEPT ![o] = "consumed"]
        /\ UNCHANGED <<hasRow, inWindow, topLimit, amount, using, campaignVars>>
    BY <1>1 DEF ConsumeDiscount
  <1> HIDE DEF doc
  <1>5. CodesTypeOK'
    BY <1>1, <1>3, <1>4 DEF OrderSteps
  <1>6. ResolvedExist'
    BY <1>1, <1>3, <1>4 DEF ResolvedExist, CodeDocs, NoDoc, Kinds
  <1>7. \A d \in Codes : d = c => Holders(d)' = Holders(c) \cup {o} /\ o \notin Holders(c)
    BY <1>1, <1>4 DEF Holders
  <1>8. \A d \in Codes \ {c} : Holders(d)' = Holders(d)
    BY <1>1, <1>4 DEF Holders
  <1>9. Cardinality(Holders(c) \cup {o}) = Cardinality(Holders(c)) + 1
    BY <1>7, HoldersFinite, FS_AddElement
  <1>10. UsesCounted'
    <2> SUFFICES ASSUME NEW d \in Codes
                 PROVE  /\ Cardinality(Holders(d)') <= topLimit[d]
                        /\ Exists(d)' => /\ Cardinality(Holders(d)') <= code'[d].used
                                         /\ code'[d].used <= topLimit[d]
                                         /\ code'[d].limit <= topLimit[d]
      BY <1>4 DEF UsesCounted
    <2>1. CASE d = c
      <3>1. /\ code[c].used \in Nat /\ topLimit[c] \in Nat /\ Cardinality(Holders(c)) \in Nat
            /\ code[c].limit \in Nat
        BY <1>1, <1>2, HoldersFinite, CodesAssumption DEF CodeDocs
      <3>2. /\ Cardinality(Holders(c)) <= code[c].used /\ code[c].used < code[c].limit
            /\ code[c].limit <= topLimit[c]
        BY <1>1 DEF UsesCounted
      <3>3. code'[c] = doc
        BY <1>1, <1>4
      <3>4. QED
        <4>1. Cardinality(Holders(d)') = Cardinality(Holders(c)) + 1
          BY <1>7, <1>9, <2>1
        <4>2. code'[d] = doc
          BY <2>1, <3>3
        <4>3. QED
          BY <1>3, <2>1, <3>1, <3>2, <4>1, <4>2
    <2>2. CASE d # c
      BY <1>4, <1>8, <2>2 DEF UsesCounted, Exists
    <2>3. QED
      BY <2>1, <2>2
  <1>11. OneCampaign'
    BY <1>4 DEF OneCampaign, Accounted, Free
  <1>12. QED
    BY <1>5, <1>6, <1>10, <1>11

\* Every step of a booking with a code keeps the invariant.
LEMMA OrderStep ==
  ASSUME CodesInv, OrderNext
  PROVE  CodesInv'
  <1> USE CodesAssumption
  <1>1. ASSUME NEW o \in Orders, NEW c \in Codes, ResolveDiscountForBooking(o, c)
        PROVE  CodesInv'
    <2>1. DiscountAmount(code[c]) \in Nat /\ code[c] # NoDoc
      BY <1>1, ExistingDoc, DiscountType DEF ResolveDiscountForBooking, Exists, CodesInv
    <2>2. CodesTypeOK'
      BY <1>1, <2>1 DEF ResolveDiscountForBooking, CodesInv, CodesTypeOK, OrderSteps
    <2>3. ResolvedExist'
      BY <1>1, <2>1 DEF ResolveDiscountForBooking, CodesInv, CodesTypeOK, ResolvedExist
    <2>4. \A d \in Codes : Holders(d)' \subseteq Holders(d)
      BY <1>1 DEF ResolveDiscountForBooking, CodesInv, CodesTypeOK, Holders
    <2>5. QED
      BY <1>1, <2>2, <2>3, <2>4, NoHolderMore DEF ResolveDiscountForBooking
  <1>2. ASSUME NEW o \in Orders, NEW step \in {"inserted", "answered", "refused", "crashed"},
               order[o] # "idle", order' = [order EXCEPT ![o] = step],
               step = "answered" => order[o] = "consumed", hasRow' \subseteq Orders,
               UNCHANGED <<code, inWindow, topLimit, amount, using, campaignVars>>
        PROVE  CodesInv'
    <2>1. CodesTypeOK'
      BY <1>2 DEF CodesInv, CodesTypeOK, OrderSteps
    <2>2. ResolvedExist'
      BY <1>2 DEF CodesInv, ResolvedExist
    <2>3. \A d \in Codes : Holders(d)' \subseteq Holders(d)
      BY <1>2 DEF CodesInv, CodesTypeOK, Holders
    <2>4. QED
      BY <1>2, <2>1, <2>2, <2>3, NoHolderMore
  <1>3. ASSUME NEW o \in Orders, InsertBooking(o) \/ FinishBooking(o) \/ CrashBooking(o)
        PROVE  CodesInv'
    BY <1>2, <1>3 DEF InsertBooking, FinishBooking, CrashBooking, Refuse, CodesInv, CodesTypeOK
  <1>4. ASSUME NEW o \in Orders, ConsumeDiscount(o)
        PROVE  CodesInv'
    BY <1>2, <1>4, CountedUse DEF ConsumeDiscount, Refuse, CodesInv, CodesTypeOK
  <1>5. QED
    BY <1>1, <1>3, <1>4 DEF OrderNext

-----------------------------------------------------------------------------
(* Campaigns *)

\* The limit of every plan is within that of the best one.
LEMMA LimitOfPlans == \A t \in {"free", "silver", "gold"} : SmsLimit(t) \in Nat /\ SmsLimit(t) <= GoldMax
  BY CodesAssumption DEF SmsLimit

\* Sets of numbers are finite.
LEMMA NumbersFinite == \A to \in SUBSET Phones : IsFiniteSet(to) /\ Cardinality(to) \in Nat
  BY CodesAssumption, FS_Subset, FS_CardinalityType

LEMMA OneFewer ==
  ASSUME NEW to \in SUBSET Phones, NEW p \in to
  PROVE  Cardinality(to \ {p}) = Cardinality(to) - 1 /\ Cardinality(to) \in Nat
  <1>1. IsFiniteSet(to) /\ Cardinality(to) \in Nat
    BY NumbersFinite
  <1>2. Cardinality(to \ {p}) = IF p \in to THEN Cardinality(to) - 1 ELSE Cardinality(to)
    BY <1>1, FS_RemoveElement
  <1>3. QED
    BY <1>1, <1>2

\* While no two campaigns overlapped, a step of the only one that is under way
\* leaves the others free: what it has to show of its own.
LEMMA OnlyOne ==
  ASSUME CodesInv, NEW s \in Senders, NEW next \in Campaigns \cup {NoCampaign}, sending' = [sending EXCEPT ![s] = next],
         ~overlapped' => /\ ~overlapped /\ \A q \in Senders \ {s} : Free(q)
                         /\ resent' \subseteq unlogged' /\ monthCount' <= GoldMax
                         /\ \/ next = NoCampaign /\ Accounted'
                            \/ /\ next.step = "next" /\ Accounted'
                               /\ monthCount' + Cardinality(next.todo) <= GoldMax
                            \/ /\ next.step = "sent"
                               /\ monthCount' + Cardinality(next.todo) + 1 <= GoldMax
                               /\ monthSent' <= monthCount' + monthLost' + 1
                               /\ reached' \subseteq recent' \cup unlogged' \cup {<<next.code, p>> : p \in next.now}
  PROVE  OneCampaign'
  <1>1. sending'[s] = next /\ \A q \in Senders \ {s} : sending'[q] = sending[q]
    BY DEF CodesInv, CodesTypeOK
  <1>2. SUFFICES ASSUME ~overlapped'
                 PROVE  /\ resent' \subseteq unlogged' /\ monthCount' <= GoldMax
                        /\ \A q \in Senders \ {s} : sending'[q] = NoCampaign
                        /\ next = NoCampaign => Accounted'
                        /\ next # NoCampaign =>
                              \/ /\ next.step = "next" /\ Accounted'
                                 /\ monthCount' + Cardinality(next.todo) <= GoldMax
                              \/ /\ next.step = "sent"
                                 /\ monthCount' + Cardinality(next.todo) + 1 <= GoldMax
                                 /\ monthSent' <= monthCount' + monthLost' + 1
                                 /\ reached' \subseteq recent' \cup unlogged' \cup {<<next.code, p>> : p \in next.now}
    BY <1>1 DEF OneCampaign, Free
  <1>3. next = NoCampaign => next.step # "next" /\ next.step # "sent"
    BY DEF NoCampaign
  <1>4. QED
    BY <1>1, <1>2, <1>3 DEF Free

\* Every step of a campaign keeps its types and its bounds.
LEMMA CampaignStep ==
  ASSUME CodesInv, CampaignNext
  PROVE  CodesTypeOK' /\ OneCampaign'
  <1> USE CodesAssumption DEF CodesInv, CodesTypeOK
  <1>0. NoCampaign.step = "idle"
    BY DEF NoCampaign
  <1>1. ASSUME NEW s \in Senders, NEW t \in {"free", "silver", "gold"}, NEW c \in Codes, NEW to \in SUBSET Phones,
               StartCampaign(s, t, c, to)
        PROVE  CodesTypeOK' /\ OneCampaign'
    <2> DEFINE next == [step |-> "next", code |-> c, todo |-> to, now |-> {}]
    <2>1. next \in Campaigns /\ next.step = "next" /\ next.todo = to
      BY DEF Campaigns
    <2>2. /\ sending' = [sending EXCEPT ![s] = next]
          /\ UNCHANGED <<code, inWindow, topLimit, orderVars, recent, monthCount, dayVars, monthVars>>
          /\ overlapped' \in BOOLEAN
          /\ ~overlapped' => ~overlapped /\ \A q \in Senders : Free(q)
      BY <1>1 DEF StartCampaign, BeginCampaign, Free
    <2>3. monthCount + Cardinality(to) <= GoldMax
      BY <1>1, LimitOfPlans, NumbersFinite DEF StartCampaign
    <2> HIDE DEF next
    <2>4. CodesTypeOK'
      BY <2>1, <2>2
    <2>5. OneCampaign'
      BY <2>1, <2>2, <2>3, OnlyOne DEF OneCampaign, Accounted
    <2>6. QED
      BY <2>4, <2>5
  <1>2. ASSUME NEW s \in Senders, ~Free(s), ~overlapped
        PROVE  /\ \A q \in Senders \ {s} : Free(q)
               /\ resent \subseteq unlogged /\ monthCount <= GoldMax
               /\ sending[s].step = "next" =>
                     Accounted /\ monthCount + Cardinality(sending[s].todo) <= GoldMax
               /\ sending[s].step = "sent" =>
                     /\ monthCount + Cardinality(sending[s].todo) + 1 <= GoldMax
                     /\ monthSent <= monthCount + monthLost + 1
                     /\ reached \subseteq recent \cup unlogged \cup {<<sending[s].code, p>> : p \in sending[s].now}
    BY <1>2 DEF OneCampaign
  <1>3. ASSUME NEW s \in Senders, sending[s].step # "idle"
        PROVE  /\ ~Free(s) /\ sending[s] \in Campaigns
               /\ sending[s].code \in Codes /\ sending[s].todo \subseteq Phones /\ sending[s].now \subseteq Phones
    BY <1>0, <1>3 DEF Free, Campaigns
  <1>4. ASSUME NEW s \in Senders, NEW p \in Phones, SkipNext(s, p)
        PROVE  CodesTypeOK' /\ OneCampaign'
    <2> DEFINE next == [sending[s] EXCEPT !.todo = sending[s].todo \ {p}]
    <2>1. /\ sending[s].step = "next" /\ p \in sending[s].todo /\ sending' = [sending EXCEPT ![s] = next]
          /\ UNCHANGED <<code, inWindow, topLimit, orderVars, recent, monthCount, overlapped, dayVars, monthVars>>
      BY <1>4 DEF SkipNext
    <2>2. sending[s] \in Campaigns /\ ~Free(s)
      BY <1>3, <2>1
    <2>3. next \in Campaigns /\ next.step = "next" /\ next.todo = sending[s].todo \ {p}
      BY <2>1, <2>2 DEF Campaigns
    <2>4. Cardinality(next.todo) = Cardinality(sending[s].todo) - 1 /\ Cardinality(sending[s].todo) \in Nat
      <3>1. sending[s].todo \in SUBSET Phones
        BY <1>3, <2>1
      <3> HIDE DEF next
      <3>2. QED
        BY <2>1, <2>3, <3>1, OneFewer
    <2> HIDE DEF next
    <2>5. CodesTypeOK'
      BY <2>1, <2>3
    <2>6. OneCampaign'
      <3>1. ~overlapped => /\ \A q \in Senders \ {s} : Free(q)
                           /\ resent \subseteq unlogged /\ monthCount <= GoldMax /\ Accounted
                           /\ monthCount + Cardinality(next.todo) <= GoldMax
        BY <1>2, <2>1, <2>2, <2>3, <2>4
      <3>2. Accounted' = Accounted
        BY <2>1 DEF Accounted
      <3>3. QED
        BY <2>1, <2>3, <3>1, <3>2, OnlyOne
    <2>7. QED
      BY <2>5, <2>6
  <1>5. ASSUME NEW s \in Senders, NEW p \in Phones, SendNext(s, p)
        PROVE  CodesTypeOK' /\ OneCampaign'
    <2> DEFINE message == <<sending[s].code, p>>
               next == [step |-> "sent", code |-> sending[s].code, todo |-> sending[s].todo \ {p}, now |-> {p}]
    <2>1. /\ sending[s].step = "next" /\ p \in sending[s].todo /\ message \notin recent
          /\ sending' = [sending EXCEPT ![s] = next]
          /\ reached' = reached \cup {message}
          /\ resent' = IF message \in reached THEN resent \cup {message} ELSE resent
          /\ monthSent' = monthSent + 1
          /\ UNCHANGED <<code, inWindow, topLimit, orderVars, recent, monthCount, overlapped, unlogged, monthLost>>
      BY <1>5 DEF SendNext
    <2>2. sending[s] \in Campaigns /\ ~Free(s)
      BY <1>3, <2>1
    <2>3. /\ next \in Campaigns /\ next.step = "sent" /\ next.todo = sending[s].todo \ {p}
          /\ next.code = sending[s].code /\ next.now = {p}
      BY <2>1, <2>2 DEF Campaigns
    <2>4. Cardinality(next.todo) = Cardinality(sending[s].todo) - 1 /\ Cardinality(sending[s].todo) \in Nat
      <3>1. sending[s].todo \in SUBSET Phones
        BY <1>3, <2>1
      <3> HIDE DEF next
      <3>2. QED
        BY <2>1, <2>3, <3>1, OneFewer
    <2>5. message \in Messages
      BY <1>3, <2>1 DEF Messages
    <2>6. message \in {<<next.code, x>> : x \in next.now}
      BY <2>3
    <2> HIDE DEF next, message
    <2>7. CodesTypeOK'
      BY <2>1, <2>3, <2>5
    <2>8. ASSUME ~overlapped
          PROVE  /\ resent' \subseteq unlogged /\ reached' \subseteq recent \cup unlogged \cup {message}
                 /\ monthSent' <= monthCount + monthLost + 1
                 /\ monthCount + Cardinality(next.todo) + 1 <= GoldMax
      <3>1. Accounted /\ resent \subseteq unlogged /\ monthCount + Cardinality(sending[s].todo) <= GoldMax
        BY <1>2, <2>1, <2>2, <2>8
      <3>2. QED
        BY <2>1, <2>4, <3>1 DEF Accounted
    <2>9. OneCampaign'
      <3>1. ~overlapped => reached' \subseteq recent' \cup unlogged' \cup {<<next.code, x>> : x \in next.now}
        BY <2>1, <2>6, <2>8
      <3>2. QED
        BY <1>2, <2>1, <2>2, <2>3, <2>8, <3>1, OnlyOne
    <2>10. QED
      BY <2>7, <2>9
  <1>6. ASSUME NEW s \in Senders, LogSend(s)
        PROVE  CodesTypeOK' /\ OneCampaign'
    <2> DEFINE rows == {<<sending[s].code, p>> : p \in sending[s].now}
               next == [sending[s] EXCEPT !.step = "next", !.now = {}]
    <2>1. /\ sending[s].step = "sent" /\ sending' = [sending EXCEPT ![s] = next]
          /\ recent' = recent \cup rows /\ monthCount' = monthCount + 1
          /\ UNCHANGED <<code, inWindow, topLimit, orderVars, overlapped, dayVars, monthVars>>
      BY <1>6 DEF LogSend
    <2>2. sending[s] \in Campaigns /\ ~Free(s)
      BY <1>3, <2>1
    <2>3. next \in Campaigns /\ next.step = "next" /\ next.todo = sending[s].todo
      BY <2>1, <2>2 DEF Campaigns
    <2>4. Cardinality(next.todo) \in Nat
      BY <1>3, <2>1, <2>3, NumbersFinite
    <2>5. rows \subseteq Messages
      BY <1>3, <2>1 DEF Messages
    <2> HIDE DEF next
    <2>6. CodesTypeOK'
      BY <2>1, <2>3, <2>5
    <2>7. OneCampaign'
      <3>1. ~overlapped => /\ resent \subseteq unlogged /\ reached \subseteq recent \cup unlogged \cup rows
                           /\ monthSent <= monthCount + monthLost + 1
                           /\ monthCount + Cardinality(next.todo) + 1 <= GoldMax
                           /\ \A q \in Senders \ {s} : Free(q)
        BY <1>2, <2>1, <2>2, <2>3
      <3> HIDE DEF rows
      <3>2. ~overlapped => Accounted' /\ monthCount' <= GoldMax /\ monthCount' + Cardinality(next.todo) <= GoldMax
        BY <2>1, <2>4, <3>1 DEF Accounted
      <3>3. QED
        BY <2>1, <2>3, <3>1, <3>2, OnlyOne
    <2>8. QED
      BY <2>6, <2>7
  <1>7. ASSUME NEW s \in Senders, EndCampaign(s)
        PROVE  CodesTypeOK' /\ OneCampaign'
    <2>1. /\ sending[s].step = "next" /\ sending' = [sending EXCEPT ![s] = NoCampaign]
          /\ UNCHANGED <<code, inWindow, topLimit, orderVars, recent, monthCount, overlapped, dayVars, monthVars>>
      BY <1>7 DEF EndCampaign
    <2>2. CodesTypeOK'
      BY <1>0, <2>1
    <2>3. OneCampaign'
      BY <1>0, <1>2, <1>3, <2>1, OnlyOne DEF Accounted
    <2>4. QED
      BY <2>2, <2>3
  <1>8. ASSUME NEW s \in Senders, LoseRow(s)
        PROVE  CodesTypeOK' /\ OneCampaign'
    <2> DEFINE rows == {<<sending[s].code, p>> : p \in sending[s].now}
    <2>1. /\ sending[s].step = "sent" /\ sending' = [sending EXCEPT ![s] = NoCampaign]
          /\ unlogged' = unlogged \cup rows /\ monthLost' = monthLost + 1
          /\ UNCHANGED <<code, inWindow, topLimit, orderVars, recent, monthCount, overlapped, reached, resent, monthSent>>
      BY <1>8 DEF LoseRow
    <2>2. rows \subseteq Messages
      BY <1>3, <2>1 DEF Messages
    <2>3. CodesTypeOK'
      BY <1>0, <2>1, <2>2
    <2>4. OneCampaign'
      <3>1. ~overlapped => /\ resent \subseteq unlogged /\ reached \subseteq recent \cup unlogged \cup rows
                           /\ monthSent <= monthCount + monthLost + 1 /\ monthCount <= GoldMax
                           /\ \A q \in Senders \ {s} : Free(q)
        BY <1>2, <1>3, <2>1
      <3> HIDE DEF rows
      <3>2. ~overlapped => Accounted' /\ resent' \subseteq unlogged'
        BY <2>1, <3>1 DEF Accounted
      <3>3. QED
        BY <1>0, <2>1, <3>1, <3>2, OnlyOne
    <2>5. QED
      BY <2>3, <2>4
  <1>9. ASSUME TimePasses
        PROVE  CodesTypeOK' /\ OneCampaign'
    <2>1. \A s \in Senders : ~Free(s) => Cardinality(sending[s].todo) \in Nat
      BY NumbersFinite DEF Campaigns, Free
    <2>2. /\ recent' = {} /\ reached' = {} /\ resent' = {} /\ unlogged' = {}
          /\ UNCHANGED <<code, inWindow, topLimit, orderVars, sending, overlapped>>
          /\ \/ UNCHANGED <<monthCount, monthSent, monthLost>>
             \/ monthCount' = 0 /\ monthSent' = 0 /\ monthLost' = 0
      BY <1>9 DEF TimePasses
    <2>3. CodesTypeOK'
      BY <2>2
    <2>4. OneCampaign'
      BY <2>1, <2>2 DEF OneCampaign, Accounted, Free
    <2>5. QED
      BY <2>3, <2>4
  <1>10. QED
    BY <1>1, <1>4, <1>5, <1>6, <1>7, <1>8, <1>9 DEF CampaignNext

-----------------------------------------------------------------------------
(* Theorems *)

\* The invariant holds in every state: types, codes that exist, uses that count
\* the holders, and one campaign at a time within the month.
THEOREM CodesInvariantHolds == CodesSpec => []CodesInv
  <1> USE CodesAssumption
  <1>1. CodesInit => CodesInv
    <2> SUFFICES ASSUME CodesInit
                 PROVE  CodesInv
      OBVIOUS
    <2>1. CodesTypeOK /\ ResolvedExist
      BY DEF CodesInit, CodesTypeOK, ResolvedExist, OrderSteps, Campaigns, NoCampaign
    <2>2. \A c \in Codes : Holders(c) = {} /\ ~Exists(c)
      BY DEF CodesInit, Holders, Exists
    <2>3. UsesCounted
      <3>1. \A c \in Codes : Cardinality(Holders(c)) = 0 /\ topLimit[c] = 0
        BY <2>2, FS_EmptySet DEF CodesInit
      <3>2. QED
        BY <2>2, <3>1 DEF UsesCounted
    <2>4. OneCampaign
      BY CodesAssumption DEF OneCampaign, Accounted, CodesInit, Free
    <2>5. QED
      BY <2>1, <2>3, <2>4 DEF CodesInv
  <1>2. CodesInv /\ [CodesNext]_codeVars => CodesInv'
    <2> SUFFICES ASSUME CodesInv, [CodesNext]_codeVars
                 PROVE  CodesInv'
      OBVIOUS
    <2>1. CASE CampaignNext
      <3>1. UNCHANGED <<code, inWindow, topLimit, orderVars>>
        BY <2>1, Zenon DEF CampaignNext, StartCampaign, BeginCampaign, SkipNext, SendNext, LogSend, EndCampaign,
                           LoseRow, TimePasses
      <3>2. ResolvedExist' /\ UsesCounted'
        BY <3>1 DEF CodesInv, ResolvedExist, UsesCounted, Exists, Holders
      <3>3. QED
        BY <2>1, <3>2, CampaignStep DEF CodesInv
    <2>2. CASE UNCHANGED codeVars
      BY <2>2 DEF CodesInv, CodesTypeOK, ResolvedExist, UsesCounted, OneCampaign, Accounted, Exists, Holders,
                    Free
    <2>3. QED
      BY <2>1, <2>2, EditStep, OrderStep DEF CodesNext
  <1>3. QED
    BY <1>1, <1>2, PTL DEF CodesSpec

\* No more customers have a discount than the highest limit its code ever had,
\* and a preview that is valid has room, although a call resolves the code long
\* before it consumes a use and the stylist edits it meanwhile
\* (discount.service.ts:388-446).
THEOREM WithinLimit == CodesSpec => []AnsweredWithinLimit
  <1>1. CodesInv => AnsweredWithinLimit
    <2> SUFFICES ASSUME CodesInv, NEW c \in Codes
                 PROVE  LET have == Cardinality({o \in Orders : using[o] = c /\ order[o] = "answered"}) IN
                        /\ have <= topLimit[c]
                        /\ \A o \in Orders :
                              LET page == PreviewDiscount(o, c) IN page.valid => have < page.conditions.usageLimit
      BY DEF AnsweredWithinLimit
    <2> DEFINE Have == {o \in Orders : using[o] = c /\ order[o] = "answered"}
    <2>1. Cardinality(Have) \in Nat /\ Cardinality(Have) <= Cardinality(Holders(c)) /\ Cardinality(Holders(c)) \in Nat
      <3>1. Have \subseteq Holders(c)
        BY DEF Holders
      <3>2. QED
        BY <3>1, HoldersFinite, FS_Subset, FS_CardinalityType
    <2>2. topLimit[c] \in Nat /\ (Exists(c) => code[c].used \in Nat /\ code[c].limit \in Nat)
      BY CodesAssumption, ExistingDoc DEF CodesInv, CodesTypeOK, CodeDocs
    <2> HIDE DEF Have
    <2>3. Cardinality(Have) <= topLimit[c]
      BY <2>1, <2>2 DEF CodesInv, UsesCounted
    <2>4. ASSUME NEW o \in Orders, PreviewDiscount(o, c).valid
          PROVE  Cardinality(Have) < PreviewDiscount(o, c).conditions.usageLimit
      <3>1. Exists(c) /\ code[c].used < code[c].limit
        BY <2>4 DEF PreviewDiscount, AssertRedeemable
      <3>2. PreviewDiscount(o, c).conditions.usageLimit = code[c].limit
        BY <2>4 DEF PreviewDiscount, BuildConditions
      <3>3. QED
        BY <2>1, <2>2, <3>1, <3>2 DEF CodesInv, UsesCounted
    <2>5. QED
      BY <2>3, <2>4 DEF Have
  <1>2. QED
    BY <1>1, CodesInvariantHolds, PTL

\* Campaigns one after the other exceed the month of the best plan by no more
\* messages than have lost their row, and write twice in a day to no number but
\* one whose row was lost (campaign.service.ts:296-330).
THEOREM CampaignsStayApart == CodesSpec => []CampaignsApartKeepTheirBounds
  <1>1. CodesInv => CampaignsApartKeepTheirBounds
    <2> SUFFICES ASSUME CodesInv, ~overlapped
                 PROVE  monthSent <= GoldMax + monthLost /\ resent \subseteq unlogged
      BY DEF CampaignsApartKeepTheirBounds
    <2>1. monthCount \in Nat /\ monthSent \in Nat /\ monthLost \in Nat /\ GoldMax \in Nat
      BY CodesAssumption DEF CodesInv, CodesTypeOK
    <2>2. CASE \A s \in Senders : Free(s)
      BY <2>1, <2>2 DEF CodesInv, OneCampaign, Accounted
    <2>3. CASE \E s \in Senders : ~Free(s)
      <3>1. PICK s \in Senders : ~Free(s)
        BY <2>3
      <3>2. Cardinality(sending[s].todo) \in Nat
        BY <3>1, NumbersFinite DEF CodesInv, CodesTypeOK, Campaigns, Free
      <3>3. QED
        BY <2>1, <3>1, <3>2 DEF CodesInv, OneCampaign, Accounted
    <2>4. QED
      BY <2>2, <2>3
  <1>2. QED
    BY <1>1, CodesInvariantHolds, PTL
=============================================================================
