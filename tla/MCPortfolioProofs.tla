------------------------- MODULE MCPortfolioProofs -------------------------
(***************************************************************************)
(* Proofs about the portfolio. Of the replays of a holding (Holdings), for *)
(* any quantities and any length of history: the holdings page never shows *)
(* more than the ledger lets the user sell, the two splits over accounts   *)
(* agree and the sell hint is the server's. Of the composition MCPortfolio *)
(* checks, for any value of its constants: what the session promises       *)
(* (SessionProofs), its offline copy, the analyst panel, the dashboard and *)
(* the screens that load in place.                                         *)
(***************************************************************************)
EXTENDS MCPortfolio, FiniteSetTheorems, SequenceTheorems, WellFoundedInduction, TLAPS

(* The tolerance is a number of steps, one at least.                       *)
LEMMA ToleranceType ==
  ASSUME NEW held \in Nat
  PROVE  Tolerance(held) \in Nat \ {0}
<1>1. held \div ToleranceScale \in Int
  BY ScaleAssumption
<1> QED BY <1>1 DEF Tolerance, Larger

(* Inductive as it is, once the quantities are known to be numbers: a sell *)
(* that removes the position from the page leaves the ledger at most the   *)
(* tolerance, on top of what it had more before.                           *)
Numbers == ledger \in Nat /\ owned \in Nat /\ dust \in Nat

HInv == Numbers /\ LedgerCoversHolding

LEMMA BuyHInv ==
  ASSUME HInv, NEW t \in Trade, Buy(t)
  PROVE  HInv'
<1>1. t.qty \in Nat /\ t.action = "BUY"
  BY QuantitiesAssumption DEF Trade, Buy
<1>2. owned' = owned + t.qty /\ ledger' = ledger + t.qty /\ dust' = dust
  BY <1>1 DEF Buy, ApplyTrade
<1> QED BY <1>1, <1>2 DEF HInv, Numbers, LedgerCoversHolding

LEMMA SellHInv ==
  ASSUME HInv, NEW t \in Trade, Sell(t)
  PROVE  HInv'
<1>1. t.qty \in Nat /\ t.action = "SELL"
  BY QuantitiesAssumption DEF Trade, Sell
<1>2. Tolerance(owned) \in Nat
  BY ToleranceType DEF HInv, Numbers
<1>3. ledger' = IF ledger - t.qty <= 0 THEN 0 ELSE ledger - t.qty
  BY <1>1 DEF Sell, Left, Larger, HInv, Numbers
<1>4. CASE t.qty >= owned - Tolerance(owned)
  <2>1. ~(t.qty < owned - Tolerance(owned))
    BY <1>1, <1>2, <1>4 DEF HInv, Numbers
  <2>2. owned' = 0 /\ dust' = dust + Tolerance(owned)
    BY <1>1, <1>4, <2>1 DEF Sell, ApplyTrade
  <2> QED BY <1>1, <1>2, <1>3, <1>4, <2>2 DEF HInv, Numbers, LedgerCoversHolding
<1>5. CASE ~(t.qty >= owned - Tolerance(owned))
  <2>1. t.qty < owned - Tolerance(owned)
    BY <1>1, <1>2, <1>5 DEF HInv, Numbers
  <2>2. owned' = owned - t.qty /\ dust' = dust
    BY <1>1, <1>5, <2>1 DEF Sell, ApplyTrade
  <2> QED BY <1>1, <1>2, <1>3, <2>1, <2>2 DEF HInv, Numbers, LedgerCoversHolding
<1> QED BY <1>4, <1>5

-----------------------------------------------------------------------------
(* The two splits of a holding over its accounts.                          *)

(* A set of numbers that has 0 and, with each, the next, has them all.     *)
LEMMA Induction ==
  ASSUME NEW S, 0 \in S, \A n \in Nat : n \in S => n + 1 \in S
  PROVE  \A n \in Nat : n \in S
<1> SUFFICES ASSUME NEW m \in Nat, m \notin S PROVE FALSE
  OBVIOUS
<1> DEFINE Missing == {n \in Nat : n \notin S}
<1>1. m \in Missing /\ Missing \subseteq Nat /\ Missing # {}
  OBVIOUS
<1>2. PICK x \in Missing : \A y \in Missing : ~(<<y, x>> \in OpToRel(<, Nat))
  <2> HIDE DEF Missing
  <2> QED BY <1>1, NatLessThanWellFounded, WFMin
<1>3. \A y \in Missing : y < x => <<y, x>> \in OpToRel(<, Nat)
  BY <1>1 DEF OpToRel
<1>4. x \in Nat \ {0} /\ x \notin S
  OBVIOUS
<1>5. x - 1 \in Nat /\ x - 1 < x /\ (x - 1) + 1 = x
  BY <1>4
<1>6. x - 1 \in S
  BY <1>2, <1>3, <1>5
<1> QED BY <1>4, <1>5, <1>6

(* The running total adds account by account.                              *)
LEMMA RunningTotals ==
  ASSUME NEW f \in [Accounts -> Int]
  PROVE  /\ RunningTotal(f) \in [Accounts -> Int]
         /\ \A a \in Accounts :
              RunningTotal(f)[a] = f[a] + (IF a = 0 THEN 0 ELSE RunningTotal(f)[a - 1])
<1> DEFINE adds(g, n) == \A a \in 0..n : g[a] = f[a] + (IF a = 0 THEN 0 ELSE g[a - 1])
           S == {n \in Nat : n <= NAccounts => \E g \in [0..n -> Int] : adds(g, n)}
<1>1. 0 \in S
  <2>1. [a \in 0..0 |-> f[a]] \in [0..0 -> Int] /\ adds([a \in 0..0 |-> f[a]], 0)
    BY AccountsAssumption DEF Accounts
  <2> QED BY <2>1
<1>2. ASSUME NEW n \in Nat, n \in S PROVE n + 1 \in S
  <2> SUFFICES ASSUME n + 1 <= NAccounts
               PROVE  \E g \in [0..n + 1 -> Int] : adds(g, n + 1)
    OBVIOUS
  <2>1. PICK g \in [0..n -> Int] : adds(g, n)
    BY <1>2, AccountsAssumption
  <2> DEFINE h == [a \in 0..n + 1 |-> IF a = n + 1 THEN f[a] + g[n] ELSE g[a]]
  <2>2. n + 1 \in Accounts
    BY AccountsAssumption DEF Accounts
  <2>3. h \in [0..n + 1 -> Int]
    BY <2>2
  <2>4. ASSUME NEW a \in 0..n + 1 PROVE h[a] = f[a] + (IF a = 0 THEN 0 ELSE h[a - 1])
    <3>1. CASE a = n + 1
      <4>1. a # 0 /\ a - 1 = n /\ a - 1 \in 0..n + 1 /\ n # n + 1
        BY <3>1
      <4> QED BY <3>1, <4>1
    <3>2. CASE a # n + 1
      <4>1. a \in 0..n /\ (a # 0 => a - 1 \in 0..n /\ a - 1 # n + 1)
        BY <3>2
      <4>2. h[a] = g[a] /\ (a # 0 => h[a - 1] = g[a - 1])
        BY <3>2, <4>1
      <4> QED BY <2>1, <4>1, <4>2
    <3> QED BY <3>1, <3>2
  <2> QED BY <2>3, <2>4
<1>3. NAccounts \in S
  <2> HIDE DEF S
  <2> QED BY <1>1, <1>2, Induction, AccountsAssumption
<1>4. PICK g \in [Accounts -> Int] : adds(g, NAccounts)
  BY <1>3, AccountsAssumption DEF Accounts
<1> DEFINE sums(u) == u = [a \in Accounts |-> f[a] + (IF a = 0 THEN 0 ELSE u[a - 1])]
<1>5. sums(g)
  BY <1>4 DEF Accounts
<1>6. RunningTotal(f) = CHOOSE u : sums(u)
  BY DEF RunningTotal
<1>7. sums(RunningTotal(f))
  <2> HIDE DEF sums
  <2> QED BY <1>5, <1>6
<1> DEFINE u == RunningTotal(f)
<1>8. u = [a \in Accounts |-> f[a] + (IF a = 0 THEN 0 ELSE u[a - 1])]
  BY <1>7
<1>9. \A a \in Accounts : u[a] = f[a] + (IF a = 0 THEN 0 ELSE u[a - 1])
  BY <1>8
<1>10. u \in [Accounts -> Int]
  <2> DEFINE T == {n \in Nat : n <= NAccounts => u[n] \in Int}
  <2>0. \A n \in Nat : n <= NAccounts => n \in Accounts
    BY AccountsAssumption DEF Accounts
  <2> HIDE DEF u
  <2>1. 0 \in T
    BY <1>9, <2>0, AccountsAssumption
  <2>2. ASSUME NEW n \in Nat, n \in T PROVE n + 1 \in T
    <3> SUFFICES ASSUME n + 1 <= NAccounts PROVE u[n + 1] \in Int
      OBVIOUS
    <3>1. u[n] \in Int /\ n + 1 \in Accounts /\ n + 1 # 0 /\ (n + 1) - 1 = n
      BY <2>0, <2>2, AccountsAssumption
    <3> QED BY <1>9, <3>1
  <2>3. \A n \in Nat : n \in T
    <3> HIDE DEF T
    <3> QED BY <2>1, <2>2, Induction
  <2>4. \A a \in Accounts : u[a] \in Int
    BY <2>3, AccountsAssumption DEF Accounts
  <2> QED BY <1>8, <2>4
<1> QED BY <1>9, <1>10

LEMMA TotalMoves ==
  ASSUME NEW f \in [Accounts -> Int], NEW g \in [Accounts -> Int], NEW a \in Accounts,
         \A b \in Accounts : b # a => g[b] = f[b]
  PROVE  Total(g) = Total(f) + g[a] - f[a]
<1> DEFINE T == {n \in Nat : n <= NAccounts =>
                   RunningTotal(g)[n] = RunningTotal(f)[n] + (IF n < a THEN 0 ELSE g[a] - f[a])}
           Rf == RunningTotal(f)
           Rg == RunningTotal(g)
<1>0. /\ a \in Nat /\ a <= NAccounts /\ NAccounts \in Nat
      /\ \A n \in Nat : n <= NAccounts => n \in Accounts
  BY AccountsAssumption DEF Accounts
<1>1. /\ Rf \in [Accounts -> Int] /\ Rg \in [Accounts -> Int]
      /\ \A b \in Accounts : Rf[b] = f[b] + (IF b = 0 THEN 0 ELSE Rf[b - 1])
      /\ \A b \in Accounts : Rg[b] = g[b] + (IF b = 0 THEN 0 ELSE Rg[b - 1])
  BY RunningTotals
<1>2. \A n \in Nat : n \in T <=>
        (n <= NAccounts => Rg[n] = Rf[n] + (IF n < a THEN 0 ELSE g[a] - f[a]))
  OBVIOUS
<1> HIDE DEF T, Rf, Rg
<1>3. 0 \in T
  <2>1. 0 \in Accounts /\ Rg[0] = g[0] /\ Rf[0] = f[0]
    BY <1>0, <1>1
  <2>2. CASE a = 0
    BY <1>2, <2>1, <2>2
  <2>3. CASE a # 0
    <3>1. 0 < a /\ g[0] = f[0]
      BY <1>0, <2>1, <2>3
    <3> QED BY <1>2, <2>1, <3>1
  <2> QED BY <2>2, <2>3
<1>4. ASSUME NEW n \in Nat, n \in T PROVE n + 1 \in T
  <2> SUFFICES ASSUME n + 1 <= NAccounts
               PROVE  Rg[n + 1] = Rf[n + 1] + (IF n + 1 < a THEN 0 ELSE g[a] - f[a])
    BY <1>2
  <2>1. n \in Accounts /\ n + 1 \in Accounts /\ n + 1 # 0 /\ (n + 1) - 1 = n
    BY <1>0
  <2>2. Rg[n + 1] = g[n + 1] + Rg[n] /\ Rf[n + 1] = f[n + 1] + Rf[n]
    BY <1>1, <2>1
  <2>3. Rg[n] = Rf[n] + (IF n < a THEN 0 ELSE g[a] - f[a])
    BY <1>0, <1>2, <1>4
  <2>4. Rf[n] \in Int /\ f[n + 1] \in Int /\ g[n + 1] \in Int /\ f[a] \in Int /\ g[a] \in Int
    BY <1>1, <2>1
  <2>5. CASE n + 1 = a
    BY <1>0, <2>2, <2>3, <2>4, <2>5
  <2>6. CASE n + 1 # a
    <3>1. g[n + 1] = f[n + 1] /\ (n + 1 < a <=> n < a)
      BY <1>0, <2>1, <2>6
    <3> QED BY <2>2, <2>3, <2>4, <3>1
  <2> QED BY <2>5, <2>6
<1>5. NAccounts \in T
  BY <1>0, <1>3, <1>4, Induction
<1>6. Rg[NAccounts] = Rf[NAccounts] + g[a] - f[a]
  <2>1. Rf[NAccounts] \in Int /\ f[a] \in Int /\ g[a] \in Int
    BY <1>0, <1>1
  <2> QED BY <1>0, <1>2, <1>5, <2>1
<1> QED BY <1>6 DEF Total, Rf, Rg

(* What is held everywhere as much or more is more together.               *)
LEMMA TotalGrows ==
  ASSUME NEW f \in [Accounts -> Int], NEW g \in [Accounts -> Int],
         \A b \in Accounts : f[b] <= g[b]
  PROVE  Total(f) <= Total(g)
<1> DEFINE Rf == RunningTotal(f)
           Rg == RunningTotal(g)
           T == {n \in Nat : n <= NAccounts => Rf[n] <= Rg[n]}
<1>0. NAccounts \in Nat /\ \A n \in Nat : n <= NAccounts => n \in Accounts
  BY AccountsAssumption DEF Accounts
<1>1. /\ Rf \in [Accounts -> Int] /\ Rg \in [Accounts -> Int]
      /\ \A b \in Accounts : Rf[b] = f[b] + (IF b = 0 THEN 0 ELSE Rf[b - 1])
      /\ \A b \in Accounts : Rg[b] = g[b] + (IF b = 0 THEN 0 ELSE Rg[b - 1])
  BY RunningTotals
<1> HIDE DEF Rf, Rg
<1>2. 0 \in T
  BY <1>0, <1>1
<1>3. ASSUME NEW n \in Nat, n \in T PROVE n + 1 \in T
  <2> SUFFICES ASSUME n + 1 <= NAccounts PROVE Rf[n + 1] <= Rg[n + 1]
    OBVIOUS
  <2>1. n \in Accounts /\ n + 1 \in Accounts /\ n + 1 # 0 /\ (n + 1) - 1 = n /\ Rf[n] <= Rg[n]
    BY <1>0, <1>3
  <2>2. Rg[n + 1] = g[n + 1] + Rg[n] /\ Rf[n + 1] = f[n + 1] + Rf[n]
    BY <1>1, <2>1
  <2>3. Rf[n] \in Int /\ Rg[n] \in Int /\ f[n + 1] \in Int /\ g[n + 1] \in Int /\ f[n + 1] <= g[n + 1]
    BY <1>1, <2>1
  <2> HIDE DEF T
  <2> QED BY <2>1, <2>2, <2>3
<1>4. NAccounts \in T
  <2> HIDE DEF T
  <2> QED BY <1>0, <1>2, <1>3, Induction
<1> QED BY <1>0, <1>4 DEF Total, Rf, Rg

LEMMA TotalNothing == NothingHeld \in [Accounts -> Int] /\ Total(NothingHeld) = 0
<1> DEFINE R == RunningTotal(NothingHeld)
           T == {n \in Nat : n <= NAccounts => R[n] = 0}
<1>0. NAccounts \in Nat /\ \A n \in Nat : n <= NAccounts => n \in Accounts
  BY AccountsAssumption DEF Accounts
<1>1. NothingHeld \in [Accounts -> Int] /\ \A b \in Accounts : NothingHeld[b] = 0
  BY DEF NothingHeld
<1>2. \A b \in Accounts : R[b] = NothingHeld[b] + (IF b = 0 THEN 0 ELSE R[b - 1])
  BY <1>1, RunningTotals
<1> HIDE DEF R
<1>3. 0 \in T
  BY <1>0, <1>1, <1>2
<1>4. ASSUME NEW n \in Nat, n \in T PROVE n + 1 \in T
  <2> SUFFICES ASSUME n + 1 <= NAccounts PROVE R[n + 1] = 0
    OBVIOUS
  <2>1. n + 1 \in Accounts /\ n + 1 # 0 /\ (n + 1) - 1 = n /\ R[n] = 0
    BY <1>0, <1>4
  <2> HIDE DEF T
  <2> QED BY <1>1, <1>2, <2>1
<1>5. NAccounts \in T
  <2> HIDE DEF T
  <2> QED BY <1>0, <1>3, <1>4, Induction
<1> QED BY <1>0, <1>1, <1>5 DEF Total, R

LEMMA TotalType ==
  ASSUME NEW f \in [Accounts -> Nat]
  PROVE  /\ Total(f) \in Nat
         /\ \A a \in Accounts : f[a] <= Total(f)
<1>1. f \in [Accounts -> Int] /\ \A b \in Accounts : NothingHeld[b] = 0
  BY DEF NothingHeld
<1>2. Total(f) \in Int
  BY <1>1, RunningTotals, AccountsAssumption DEF Total, Accounts
<1>3. 0 <= Total(f)
  BY <1>1, TotalNothing, TotalGrows
<1>4. ASSUME NEW a \in Accounts PROVE f[a] <= Total(f)
  <2> DEFINE g == [NothingHeld EXCEPT ![a] = f[a]]
  <2>1. g \in [Accounts -> Int] /\ g[a] = f[a] /\ \A b \in Accounts : b # a => g[b] = 0
    BY <1>1 DEF NothingHeld
  <2> HIDE DEF g
  <2>2. Total(g) = Total(NothingHeld) + g[a] - NothingHeld[a]
    BY <1>1, <2>1, TotalMoves, TotalNothing
  <2>3. Total(g) <= Total(f)
    BY <1>1, <2>1, TotalGrows
  <2> QED BY <1>1, <2>1, <2>2, <2>3, TotalNothing
<1> QED BY <1>2, <1>3, <1>4

(* Three accounts hold no more than all.                                   *)
LEMMA ThreeOfAll ==
  ASSUME NEW f \in [Accounts -> Nat], NEW a \in Accounts, NEW b \in Accounts, NEW c \in Accounts,
         a # b, b # c, a # c
  PROVE  f[a] + f[b] + f[c] <= Total(f)
<1> DEFINE g == [f EXCEPT ![a] = 0]
           h == [g EXCEPT ![b] = 0]
<1>1. /\ f \in [Accounts -> Int] /\ g \in [Accounts -> Nat] /\ h \in [Accounts -> Nat]
      /\ g \in [Accounts -> Int] /\ h \in [Accounts -> Int]
      /\ g[a] = 0 /\ \A d \in Accounts : d # a => g[d] = f[d]
      /\ h[b] = 0 /\ \A d \in Accounts : d # b => h[d] = g[d]
  OBVIOUS
<1> HIDE DEF g, h
<1>2. Total(g) = Total(f) - f[a] /\ Total(f) \in Nat /\ Total(g) \in Nat
  BY <1>1, TotalMoves, TotalType
<1>3. Total(h) = Total(g) - g[b] /\ Total(h) \in Nat
  BY <1>1, TotalMoves, TotalType
<1>4. h[c] = f[c] /\ g[b] = f[b] /\ h[c] <= Total(h)
  BY <1>1, TotalType
<1> QED BY <1>2, <1>3, <1>4

LEMMA FewAccounts == IsFiniteSet(Accounts)
BY FS_Interval, AccountsAssumption DEF Accounts

LEMMA SortIsTotal ==
  ASSUME NEW accounts, NEW D \in SUBSET Accounts, \A a \in D : accounts[a] \in Nat
  PROVE  /\ \A a, b \in D : a # b => SortsBefore(accounts, a, b) \/ SortsBefore(accounts, b, a)
         /\ \A a \in D : ~SortsBefore(accounts, a, a)
         /\ \A a, b, c \in D : SortsBefore(accounts, a, b) /\ SortsBefore(accounts, b, c)
                                 => SortsBefore(accounts, a, c)
<1>1. D \subseteq Int
  BY AccountsAssumption DEF Accounts
<1>2. \A a, b \in D : a # b => SortsBefore(accounts, a, b) \/ SortsBefore(accounts, b, a)
  BY <1>1 DEF SortsBefore
<1>3. \A a \in D : ~SortsBefore(accounts, a, a)
  BY <1>1 DEF SortsBefore
<1>4. \A a, b, c \in D : SortsBefore(accounts, a, b) /\ SortsBefore(accounts, b, c)
                           => SortsBefore(accounts, a, c)
  BY <1>1 DEF SortsBefore
<1> QED BY <1>2, <1>3, <1>4

(* Sorting puts every other account at a place of its own, in the order.   *)
LEMMA DrawOrderSorts ==
  ASSUME NEW accounts, DOMAIN accounts \subseteq Accounts,
         \A a \in DOMAIN accounts : accounts[a] \in Nat, NEW own
  PROVE  LET others == DOMAIN accounts \ {own}
             order  == DrawOrder(accounts, own)
         IN  /\ Len(order) \in Nat
             /\ \A i \in 1..Len(order) : order[i] \in others
             /\ \A a \in others : \E i \in 1..Len(order) : order[i] = a
             /\ \A i, j \in 1..Len(order) :
                  SortsBefore(accounts, order[j], order[i]) <=> j < i
<1> DEFINE others == DOMAIN accounts \ {own}
           order == DrawOrder(accounts, own)
           n == Cardinality(others)
           before(a) == {b \in others : SortsBefore(accounts, b, a)}
           rank(a) == Cardinality(before(a))
<1>1. IsFiniteSet(others) /\ n \in Nat
  <2>1. others \in SUBSET Accounts
    OBVIOUS
  <2>2. IsFiniteSet(others)
    BY <2>1, FewAccounts, FS_Subset
  <2> QED BY <2>2, FS_CardinalityType
<1>2. /\ \A a, b \in others : a # b => SortsBefore(accounts, a, b) \/ SortsBefore(accounts, b, a)
      /\ \A a \in others : ~SortsBefore(accounts, a, a)
      /\ \A a, b, c \in others : SortsBefore(accounts, a, b) /\ SortsBefore(accounts, b, c)
                                   => SortsBefore(accounts, a, c)
  <2>1. others \in SUBSET Accounts /\ \A a \in others : accounts[a] \in Nat
    OBVIOUS
  <2> HIDE DEF others
  <2> QED BY <2>1, SortIsTotal
<1>3. ASSUME NEW a \in others PROVE rank(a) \in 0..n - 1
  <2> DEFINE rest == others \ {a}
  <2>1. IsFiniteSet(rest) /\ Cardinality(rest) = n - 1
    <3> HIDE DEF others
    <3> QED BY <1>1, FS_RemoveElement
  <2>2. before(a) \in SUBSET rest
    BY <1>2
  <2>3. rank(a) <= n - 1 /\ rank(a) \in Nat
    <3> HIDE DEF others, before
    <3>1. IsFiniteSet(before(a)) /\ rank(a) <= Cardinality(rest)
      BY <2>1, <2>2, FS_Subset
    <3>2. rank(a) \in Nat
      BY <3>1, FS_CardinalityType
    <3> QED BY <2>1, <3>1, <3>2
  <2> HIDE DEF rank, n
  <2> QED BY <1>1, <2>3
<1>4. ASSUME NEW a \in others, NEW b \in others, SortsBefore(accounts, a, b)
      PROVE  rank(a) < rank(b)
  <2> DEFINE upTo == before(a) \cup {a}
  <2>1. before(a) \in SUBSET others /\ before(b) \in SUBSET others
    OBVIOUS
  <2>2. upTo \in SUBSET before(b) /\ a \notin before(a)
    BY <1>2, <1>4
  <2> HIDE DEF before, others
  <2>3. IsFiniteSet(before(a)) /\ IsFiniteSet(before(b)) /\ rank(a) \in Nat /\ rank(b) \in Nat
    BY <1>1, <2>1, FS_Subset, FS_CardinalityType
  <2>4. Cardinality(upTo) = rank(a) + 1
    BY <2>2, <2>3, FS_AddElement
  <2>5. Cardinality(upTo) <= rank(b)
    BY <2>2, <2>3, FS_Subset
  <2> HIDE DEF rank
  <2> QED BY <2>3, <2>4, <2>5
<1>5. ASSUME NEW a \in others, NEW b \in others
      PROVE  /\ SortsBefore(accounts, a, b) <=> rank(a) < rank(b)
             /\ rank(a) = rank(b) => a = b
  <2>1. rank(a) \in Int /\ rank(b) \in Int
    BY <1>3
  <2>2. a = b \/ SortsBefore(accounts, a, b) \/ SortsBefore(accounts, b, a)
    BY <1>2
  <2> HIDE DEF rank, others
  <2> QED BY <1>2, <1>4, <2>1, <2>2
<1>6. ASSUME NEW k \in 0..n - 1 PROVE \E a \in others : rank(a) = k
  <2> DEFINE f == [a \in others |-> rank(a)]
  <2>1. f \in [others -> 0..n - 1]
    BY <1>3
  <2>2. \A a, b \in others : f[a] = f[b] => a = b
    <3> HIDE DEF rank, others
    <3> QED BY <1>5
  <2>3. f \in Injection(others, 0..n - 1)
    <3> HIDE DEF f
    <3> QED BY <2>1, <2>2 DEF Injection, IsInjective
  <2>4. IsFiniteSet(0..n - 1) /\ Cardinality(0..n - 1) = n
    <3> HIDE DEF n
    <3>1. n - 1 \in Int
      BY <1>1
    <3> QED BY <1>1, <3>1, FS_Interval
  <2>5. f \in Surjection(others, 0..n - 1)
    <3> HIDE DEF f
    <3> QED BY <2>3, <2>4, FS_Injection
  <2>6. \A j \in 0..n - 1 : \E a \in others : f[a] = j
    <3> HIDE DEF f
    <3> QED BY <2>5 DEF Surjection
  <2> HIDE DEF rank
  <2> QED BY <2>6
<1>7. order = [i \in 1..n |-> CHOOSE a \in others : rank(a) = i - 1]
  BY DEF DrawOrder
<1>8. ASSUME NEW i \in 1..n PROVE order[i] \in others /\ rank(order[i]) = i - 1
  <2>1. i - 1 \in 0..n - 1
    <3> HIDE DEF n
    <3> QED BY <1>1
  <2>2. \E a \in others : rank(a) = i - 1
    <3> HIDE DEF rank, others
    <3> QED BY <1>6, <2>1
  <2> HIDE DEF rank, others, order
  <2>3. order[i] = CHOOSE a \in others : rank(a) = i - 1
    BY <1>7
  <2> QED BY <2>2, <2>3
<1>9. Len(order) = n
  <2> HIDE DEF n, others, order, rank
  <2>1. order \in [1..n -> others]
    BY <1>7, <1>8
  <2>2. order \in Seq(others)
    BY <1>1, <2>1, SeqDef
  <2>3. DOMAIN order = 1..n
    BY <2>1
  <2> QED BY <1>1, <2>2, <2>3, LenProperties
<1>10. \A a \in others : \E i \in 1..n : order[i] = a
  <2> TAKE a \in others
  <2>1. rank(a) + 1 \in 1..n
    <3> HIDE DEF rank, n
    <3> QED BY <1>1, <1>3
  <2> WITNESS rank(a) + 1 \in 1..n
  <2>2. order[rank(a) + 1] \in others /\ rank(order[rank(a) + 1]) = (rank(a) + 1) - 1
    BY <1>8, <2>1
  <2>3. rank(a) \in Int
    BY <1>3
  <2> HIDE DEF order, others, rank
  <2> QED BY <1>5, <2>2, <2>3
<1>11. \A i, j \in 1..n : SortsBefore(accounts, order[j], order[i]) <=> j < i
  <2> TAKE i, j \in 1..n
  <2>1. /\ order[i] \in others /\ rank(order[i]) = i - 1
        /\ order[j] \in others /\ rank(order[j]) = j - 1
    BY <1>8
  <2>2. SortsBefore(accounts, order[j], order[i]) <=> rank(order[j]) < rank(order[i])
    <3> HIDE DEF rank, others, order
    <3> QED BY <1>5, <2>1
  <2>3. i \in Int /\ j \in Int
    OBVIOUS
  <2> HIDE DEF rank, others, order, n
  <2> QED BY <2>1, <2>2, <2>3
<1> HIDE DEF order, others, n, rank
<1>12. /\ Len(order) \in Nat
       /\ \A i \in 1..Len(order) : order[i] \in others
       /\ \A a \in others : \E i \in 1..Len(order) : order[i] = a
       /\ \A i, j \in 1..Len(order) : SortsBefore(accounts, order[j], order[i]) <=> j < i
  BY <1>1, <1>8, <1>9, <1>10, <1>11
<1> QED BY <1>12 DEF order, others

LEMMA DrawsGoOn ==
  ASSUME NEW accounts, NEW t, Len(DrawOrder(accounts, t.account)) \in Nat
  PROVE  \A i \in 0..Len(DrawOrder(accounts, t.account)) :
           Draws(accounts, t)[i] =
             IF i = 0 THEN TakeFrom([rest |-> t.qty, accounts |-> accounts], t.account)
                      ELSE TakeFrom(Draws(accounts, t)[i - 1], DrawOrder(accounts, t.account)[i])
<1> DEFINE n == Len(DrawOrder(accounts, t.account))
<1>0. n \in Nat /\ n = Len(DrawOrder(accounts, t.account))
  OBVIOUS
<1> HIDE DEF n
<1> DEFINE others == DrawOrder(accounts, t.account)
           first == TakeFrom([rest |-> t.qty, accounts |-> accounts], t.account)
           step(g, i) == IF i = 0 THEN first ELSE TakeFrom(g[i - 1], others[i])
           goes(g, m) == DOMAIN g = 0..m /\ \A i \in 0..m : g[i] = step(g, i)
           S == {m \in Nat : \E g : goes(g, m)}
<1> HIDE DEF others, first
<1>1. 0 \in S
  <2>1. goes([i \in 0..0 |-> first], 0)
    OBVIOUS
  <2> QED BY <2>1
<1>2. ASSUME NEW m \in Nat, m \in S PROVE m + 1 \in S
  <2>1. PICK g : goes(g, m)
    BY <1>2
  <2> DEFINE h == [i \in 0..m + 1 |-> IF i = m + 1 THEN TakeFrom(g[m], others[m + 1]) ELSE g[i]]
  <2>2. DOMAIN h = 0..m + 1
    OBVIOUS
  <2>3. ASSUME NEW i \in 0..m + 1 PROVE h[i] = step(h, i)
    <3>1. CASE i = m + 1
      <4>1. i # 0 /\ i - 1 = m /\ m \in 0..m + 1 /\ m # m + 1
        BY <3>1
      <4>2. h[m] = g[m] /\ h[i] = TakeFrom(g[m], others[m + 1])
        BY <3>1, <4>1
      <4> HIDE DEF h
      <4> QED BY <3>1, <4>1, <4>2
    <3>2. CASE i # m + 1
      <4>1. i \in 0..m /\ (i # 0 => i - 1 \in 0..m + 1 /\ i - 1 # m + 1)
        BY <3>2
      <4>2. h[i] = g[i] /\ (i # 0 => h[i - 1] = g[i - 1])
        BY <3>2, <4>1
      <4> HIDE DEF h
      <4> QED BY <2>1, <4>1, <4>2
    <3> QED BY <3>1, <3>2
  <2> HIDE DEF h
  <2>4. goes(h, m + 1)
    BY <2>2, <2>3
  <2> HIDE DEF goes
  <2> QED BY <2>4
<1>3. n \in S
  <2> HIDE DEF S
  <2> QED BY <1>0, <1>1, <1>2, Induction
<1>4. PICK g0 : goes(g0, n)
  BY <1>3
<1> DEFINE draws(u) == u = [i \in 0..n |-> step(u, i)]
           g == [i \in 0..n |-> g0[i]]
<1>5. draws(g)
  <2>1. \A i \in 0..n : g[i] = g0[i] /\ (i # 0 => i - 1 \in 0..n)
    BY <1>0
  <2>2. \A i \in 0..n : g[i] = step(g, i)
    <3> HIDE DEF g
    <3> QED BY <1>4, <2>1
  <2>3. g = [i \in 0..n |-> g[i]]
    OBVIOUS
  <2> HIDE DEF g
  <2> QED BY <2>2, <2>3
<1>6. Draws(accounts, t) = CHOOSE u : draws(u)
  BY <1>0 DEF Draws, others, first
<1>7. draws(Draws(accounts, t))
  <2> HIDE DEF draws
  <2> QED BY <1>5, <1>6
<1> DEFINE u == Draws(accounts, t)
<1>8. u = [i \in 0..n |-> step(u, i)]
  BY <1>7
<1>9. \A i \in 0..n : u[i] = step(u, i)
  <2> HIDE DEF step, u
  <2> QED BY <1>8
<1> QED BY <1>9 DEF n, others, first

(* What taking from one of the accounts leaves.                            *)
Taken(D, s, a) ==
  /\ TakeFrom(s, a).rest = Left(s.rest, Held(s.accounts, a))
  /\ TakeFrom(s, a).rest \in Nat
  /\ TakeFrom(s, a).accounts \in [D -> Nat]
  /\ \A b \in D : b # a => TakeFrom(s, a).accounts[b] = s.accounts[b]
  /\ a \in D =>
       TakeFrom(s, a).accounts[a] = s.accounts[a] - Smaller(s.rest, Held(s.accounts, a))
  /\ SumOf(TakeFrom(s, a).accounts) - TakeFrom(s, a).rest = SumOf(s.accounts) - s.rest
  /\ SumOf(s.accounts) \in Nat

LEMMA TakeFromFits ==
  ASSUME NEW D \in SUBSET Accounts, NEW s, s.rest \in Nat, s.accounts \in [D -> Nat],
         NEW a \in Accounts
  PROVE  Taken(D, s, a)
<1> DEFINE r == TakeFrom(s, a)
           held == Held(s.accounts, a)
           taken == Smaller(s.rest, held)
           f == [b \in Accounts |-> Held(s.accounts, b)]
           g == [b \in Accounts |-> Held(r.accounts, b)]
<1>1. held \in Nat /\ (a \in D => held = s.accounts[a]) /\ (a \notin D => held = 0)
  BY DEF Held
<1>2. taken \in Nat /\ taken <= held /\ s.rest - taken = Left(s.rest, held) /\ s.rest - taken \in Nat
  <2> HIDE DEF held
  <2> QED BY <1>1 DEF Smaller, Left, Larger
<1>3. /\ r.rest = s.rest - taken
      /\ r.accounts = [b \in D |-> IF b = a THEN s.accounts[b] - taken ELSE s.accounts[b]]
  BY DEF TakeFrom
<1> HIDE DEF r, taken, held
<1>4. /\ r.accounts \in [D -> Nat]
      /\ \A b \in D : b # a => r.accounts[b] = s.accounts[b]
      /\ a \in D => r.accounts[a] = s.accounts[a] - taken
  BY <1>1, <1>2, <1>3
<1>5. /\ f \in [Accounts -> Nat] /\ f \in [Accounts -> Int]
      /\ g \in [Accounts -> Nat] /\ g \in [Accounts -> Int]
      /\ \A b \in Accounts : b # a => g[b] = f[b]
      /\ f[a] = held /\ g[a] = held - taken
  BY <1>1, <1>2, <1>4 DEF Held
<1>6. SumOf(s.accounts) = Total(f) /\ SumOf(r.accounts) = Total(g)
  BY DEF SumOf
<1> HIDE DEF f, g
<1>7. Total(g) = Total(f) + g[a] - f[a] /\ Total(f) \in Nat
  BY <1>5, TotalMoves, TotalType
<1>8. SumOf(r.accounts) - r.rest = SumOf(s.accounts) - s.rest
  BY <1>1, <1>2, <1>3, <1>5, <1>6, <1>7
<1> QED BY <1>2, <1>3, <1>4, <1>6, <1>7, <1>8 DEF Taken, r, taken, held

LEMMA PartGrows ==
  ASSUME NEW held \in [Accounts -> Nat], NEW X, NEW a \in Accounts, a \notin X
  PROVE  /\ Total(Part(held, X)) \in Nat
         /\ Total(Part(held, X \cup {a})) = Total(Part(held, X)) + held[a]
         /\ Total(Part(held, X)) <= Total(held)
<1> DEFINE f == Part(held, X)
           g == Part(held, X \cup {a})
<1>1. /\ f \in [Accounts -> Nat] /\ f \in [Accounts -> Int]
      /\ g \in [Accounts -> Int] /\ held \in [Accounts -> Int]
      /\ f[a] = 0 /\ g[a] = held[a] /\ \A b \in Accounts : b # a => g[b] = f[b]
      /\ \A b \in Accounts : f[b] <= held[b]
  BY DEF Part
<1> HIDE DEF f, g
<1>3. Total(f) \in Nat /\ Total(g) = Total(f) + g[a] - f[a] /\ Total(f) <= Total(held)
  BY <1>1, TotalType, TotalMoves, TotalGrows
<1>4. Total(g) = Total(f) + held[a]
  BY <1>1, <1>3
<1> QED BY <1>3, <1>4 DEF f, g

LEMMA PartOfNone == \A held : Total(Part(held, {})) = 0
<1>1. \A held : Part(held, {}) = NothingHeld
  BY DEF Part, NothingHeld
<1> QED BY <1>1, TotalNothing

(* The allocation's accounts are those that hold some, with as much.       *)
SameSplit(accounts, held) ==
  /\ DOMAIN accounts \subseteq Accounts /\ accounts \in [DOMAIN accounts -> Nat \ {0}]
  /\ held \in [Accounts -> Nat]
  /\ \A a \in Accounts : held[a] = Held(accounts, a)

(* What is so once the accounts in X have been drawn down, towards `left`. *)
DrawnDown(D, held, qty, left, s, X) ==
  /\ s.rest \in Nat /\ s.accounts \in [D -> Nat]
  /\ s.rest = Left(qty, Total(Part(held, X)))
  /\ SumOf(s.accounts) - s.rest = Total(held) - qty
  /\ \A b \in D \ X : s.accounts[b] = held[b]
  /\ \A b \in D \cap X : s.accounts[b] = left[b]

LEMMA OneDraw ==
  ASSUME NEW D \in SUBSET Accounts, NEW held \in [Accounts -> Nat], NEW qty \in Nat, NEW left,
         NEW s, NEW X, NEW a \in Accounts, a \notin X, DrawnDown(D, held, qty, left, s, X),
         \A b \in Accounts \ D : held[b] = 0,
         left[a] = held[a] - Smaller(Left(qty, Total(Part(held, X))), held[a])
  PROVE  DrawnDown(D, held, qty, left, TakeFrom(s, a), X \cup {a})
<1> DEFINE r == TakeFrom(s, a)
           had == Held(s.accounts, a)
           before == Total(Part(held, X))
<1>1. s.rest \in Nat /\ s.accounts \in [D -> Nat] /\ s.rest = Left(qty, before)
  BY DEF DrawnDown
<1>2. had = held[a] /\ had \in Nat
  BY <1>1 DEF Held, DrawnDown
<1>3. before \in Nat /\ Total(Part(held, X \cup {a})) = before + held[a]
  BY PartGrows
<1>0. Taken(D, s, a)
  BY <1>1, TakeFromFits
<1>4. r.rest = Left(s.rest, had) /\ r.rest \in Nat
  BY <1>0 DEF Taken
<1>5. r.accounts \in [D -> Nat] /\ \A b \in D : b # a => r.accounts[b] = s.accounts[b]
  BY <1>0 DEF Taken
<1>6. a \in D => r.accounts[a] = s.accounts[a] - Smaller(s.rest, had)
  BY <1>0 DEF Taken
<1>7. SumOf(r.accounts) - r.rest = SumOf(s.accounts) - s.rest
  BY <1>0 DEF Taken
<1> HIDE DEF r, had, before
<1>8. r.rest = Left(qty, before + held[a])
  BY <1>1, <1>2, <1>3, <1>4 DEF Left, Larger
<1>9. a \in D => r.accounts[a] = left[a]
  <2>1. a \in D => s.accounts[a] = held[a]
    BY DEF DrawnDown
  <2>2. left[a] = held[a] - Smaller(s.rest, held[a])
    BY <1>1 DEF before
  <2> QED BY <1>2, <1>6, <2>1, <2>2
<1>10. SumOf(r.accounts) - r.rest = Total(held) - qty
  BY <1>7 DEF DrawnDown
<1>11. /\ \A b \in D \ (X \cup {a}) : r.accounts[b] = held[b]
       /\ \A b \in D \cap (X \cup {a}) : r.accounts[b] = left[b]
  BY <1>5, <1>9 DEF DrawnDown
<1>12. r.rest = Left(qty, Total(Part(held, X \cup {a})))
  BY <1>3, <1>8
<1>13. DrawnDown(D, held, qty, left, r, X \cup {a})
  BY <1>4, <1>5, <1>10, <1>11, <1>12 DEF DrawnDown
<1> QED BY <1>13 DEF r

(* Drawing the accounts down one after the other leaves each of them what  *)
(* the account check's formula does, and takes all that is asked for.      *)
LEMMA DrawsAgree ==
  ASSUME NEW accounts, NEW held, SameSplit(accounts, held),
         NEW t, t.account \in Accounts, t.qty \in Nat, t.qty <= Total(held)
  PROVE  LET last == Draws(accounts, t)[Len(DrawOrder(accounts, t.account))].accounts
             left == DrawDown(held, t.account, t.qty)
             D    == DOMAIN accounts
         IN  /\ last \in [D -> Nat]
             /\ \A a \in D : last[a] = left[a]
             /\ \A a \in Accounts \ D : left[a] = 0
             /\ SumOf(last) = Total(held) - t.qty
<1> DEFINE D == DOMAIN accounts
           own == t.account
           qty == t.qty
           order == DrawOrder(accounts, own)
           n == Len(order)
           others == D \ {own}
           u == Draws(accounts, t)
           left == DrawDown(held, own, qty)
           done(i) == {own} \cup {order[j] : j \in 1..i}
           first(a) == {b \in Accounts : DrawnBefore(held, own, b, a)}
           start == [rest |-> qty, accounts |-> accounts]
<1>0. D \in SUBSET Accounts /\ held \in [Accounts -> Nat]
  BY DEF SameSplit
<1>1. /\ \A a \in Accounts \ D : held[a] = 0
      /\ \A a \in D : held[a] = accounts[a] /\ held[a] \in Nat \ {0}
      /\ SumOf(accounts) = Total(held)
      /\ accounts \in [D -> Nat] /\ DOMAIN accounts = D
  <2>1. [a \in Accounts |-> Held(accounts, a)] = held
    BY DEF SameSplit
  <2>2. SumOf(accounts) = Total(held)
    BY <2>1 DEF SumOf
  <2> QED BY <2>2 DEF Held, SameSplit
<1>2. /\ n \in Nat
      /\ \A i \in 1..n : order[i] \in others
      /\ \A a \in others : \E i \in 1..n : order[i] = a
      /\ \A i, j \in 1..n : SortsBefore(accounts, order[j], order[i]) <=> j < i
  <2>1. DOMAIN accounts = D /\ \A a \in D : accounts[a] \in Nat
    BY <1>1
  <2> QED BY <1>0, <2>1, DrawOrderSorts
<1>3. \A i \in 0..n : u[i] = IF i = 0 THEN TakeFrom(start, own) ELSE TakeFrom(u[i - 1], order[i])
  BY <1>2, DrawsGoOn
<1>4. \A a \in Accounts :
        left[a] = held[a] - Smaller(Left(qty, Total(Part(held, first(a)))), held[a])
  BY DEF DrawDown
<1>5. Total(held) \in Nat /\ qty \in Nat /\ qty <= Total(held)
  BY <1>0, TotalType
<1> HIDE DEF D, start, u, left, order, n, first, own, qty, done, others
<1>6. ASSUME NEW s, NEW X, NEW a \in Accounts, a \notin X, DrawnDown(D, held, qty, left, s, X),
             Part(held, first(a)) = Part(held, X)
      PROVE  DrawnDown(D, held, qty, left, TakeFrom(s, a), X \cup {a})
  <2>1. left[a] = held[a] - Smaller(Left(qty, Total(Part(held, X))), held[a])
    BY <1>4, <1>6
  <2> QED BY <1>0, <1>1, <1>5, <1>6, <2>1, OneDraw
<1>7. DrawnDown(D, held, qty, left, u[0], done(0))
  <2>1. own \in Accounts /\ {} \cup {own} = {own} /\ own \notin {}
    BY DEF own
  <2>2. Total(Part(held, {})) = 0
    BY PartOfNone
  <2>3. DrawnDown(D, held, qty, left, start, {})
    <3>1. Left(qty, 0) = qty
      BY <1>5 DEF Left, Larger
    <3> QED BY <1>1, <1>5, <2>2, <3>1 DEF start, DrawnDown
  <2>4. first(own) = {}
    BY AccountsAssumption DEF first, DrawnBefore, Accounts
  <2>5. DrawnDown(D, held, qty, left, TakeFrom(start, own), {} \cup {own})
        <3> QED BY <1>6, <2>1, <2>3, <2>4
  <2>6. done(0) = {own}
    BY DEF done
  <2>7. u[0] = TakeFrom(start, own)
    BY <1>2, <1>3
    <2> QED BY <2>1, <2>5, <2>6, <2>7
<1>8. ASSUME NEW i \in Nat, i + 1 <= n, DrawnDown(D, held, qty, left, u[i], done(i))
      PROVE  DrawnDown(D, held, qty, left, u[i + 1], done(i + 1))
  <2> DEFINE a == order[i + 1]
  <2>1. i + 1 \in 1..n /\ \A j \in 1..i : j \in 1..n /\ j < i + 1
    BY <1>2, <1>8
  <2>2. a \in others /\ a \in D /\ a \in Accounts /\ a # own
    BY <1>0, <1>2, <2>1 DEF others
  <2>3. \A j \in 1..n : SortsBefore(accounts, order[j], a) <=> j < i + 1
    BY <1>2, <2>1
  <2>4. ~SortsBefore(accounts, a, a)
    BY <2>1, <2>3
  <2>5. a \notin done(i)
    BY <2>1, <2>2, <2>3, <2>4 DEF done
  <2>6. ASSUME NEW b \in D PROVE b \in first(a) <=> b \in done(i)
    <3>1. CASE b = own
      BY <1>0, <2>2, <3>1 DEF first, DrawnBefore, done
    <3>2. CASE b # own
      <4>1. PICK j \in 1..n : order[j] = b
        BY <1>2, <3>2 DEF others
      <4>2. b \in first(a) <=> b # a /\ SortsBefore(accounts, b, a)
        <5>1. held[a] = accounts[a] /\ held[b] = accounts[b] /\ b \in Accounts
          BY <1>0, <1>1, <2>2
        <5> QED BY <2>2, <3>2, <5>1 DEF first, DrawnBefore, SortsBefore
      <4>3. b \in done(i) <=> j < i + 1
        <5>1. j < i + 1 => j \in 1..i
          BY <1>2
        <5>2. b \in done(i) => j < i + 1
          <6>1. ASSUME b \in done(i) PROVE j < i + 1
            <7>1. PICK k \in 1..i : order[k] = b
              BY <3>2, <6>1 DEF done
            <7>2. SortsBefore(accounts, order[k], a)
              BY <2>1, <2>3
            <7> QED BY <2>3, <4>1, <7>1, <7>2
          <6> QED BY <6>1
        <5> QED BY <4>1, <5>1, <5>2 DEF done
      <4> QED BY <2>3, <2>4, <4>1, <4>2, <4>3
    <3> QED BY <3>1, <3>2
  <2>7. Part(held, first(a)) = Part(held, done(i))
    BY <1>1, <2>6 DEF Part
  <2>8. done(i + 1) = done(i) \cup {a}
    <3>1. 1..(i + 1) = 1..i \cup {i + 1}
      OBVIOUS
    <3> QED BY <3>1 DEF done
  <2>9. u[i + 1] = TakeFrom(u[i], a)
    <3>1. i + 1 \in 0..n /\ i + 1 # 0 /\ (i + 1) - 1 = i
      BY <2>1
    <3> QED BY <1>3, <3>1
  <2> HIDE DEF a
  <2>10. DrawnDown(D, held, qty, left, TakeFrom(u[i], a), done(i) \cup {a})
    BY <1>6, <1>8, <2>2, <2>5, <2>7
  <2> QED BY <2>8, <2>9, <2>10
<1>9. DrawnDown(D, held, qty, left, u[n], done(n))
  <2> DEFINE S == {i \in Nat : i <= n => DrawnDown(D, held, qty, left, u[i], done(i))}
    <2>1. 0 \in S
    BY <1>7
  <2>2. ASSUME NEW i \in Nat, i \in S PROVE i + 1 \in S
    BY <1>2, <1>8, <2>2
  <2>3. n \in S
    <3> HIDE DEF S
    <3> QED BY <1>2, <2>1, <2>2, Induction
  <2> QED BY <1>2, <2>3
<1>10. D \subseteq done(n)
  BY <1>2 DEF done, others
<1>11. Part(held, done(n)) = held
  BY <1>0, <1>1, <1>10 DEF Part
<1>12. u[n].rest = 0
  <2>1. u[n].rest = Left(qty, Total(held))
    BY <1>9, <1>11 DEF DrawnDown
  <2> QED BY <1>5, <2>1 DEF Left, Larger
<1>13. SumOf(u[n].accounts) = Total(held) - qty
  <2> DEFINE x == SumOf(u[n].accounts)
  <2>1. x - 0 = Total(held) - qty /\ x \in Nat
    <3>1. x \in Nat
      <4>1. Taken(D, u[n], 0)
        BY <1>0, <1>9, TakeFromFits, AccountsAssumption DEF Accounts, DrawnDown
      <4> QED BY <4>1 DEF Taken
    <3> QED BY <1>9, <1>12, <3>1 DEF DrawnDown
  <2> HIDE DEF x
  <2>2. x = Total(held) - qty
    BY <1>5, <2>1
  <2> QED BY <2>2 DEF x
<1>14. ASSUME NEW a \in Accounts \ D PROVE left[a] = 0
  <2>1. held[a] = 0 /\ Left(qty, Total(Part(held, first(a)))) \in Nat
    <3>1. Total(Part(held, first(a))) \in Nat
      <4>1. Part(held, first(a)) \in [Accounts -> Nat]
        BY <1>0 DEF Part
      <4> QED BY <4>1, TotalType
    <3> QED BY <1>1, <1>5, <3>1 DEF Left, Larger
  <2> QED BY <1>4, <2>1 DEF Smaller
<1> QED BY <1>9, <1>10, <1>13, <1>14 DEF DrawnDown, D, u, n, order, left, own, qty

(* The split of the account check is the allocation's, and of the holding. *)
SplitInv == SameSplit(alloc, split) /\ Total(split) = owned

LEMMA SameSums ==
  ASSUME NEW accounts, NEW held, SameSplit(accounts, held)
  PROVE  SumOf(accounts) = Total(held)
<1>1. [a \in Accounts |-> Held(accounts, a)] = held
  BY DEF SameSplit
<1> QED BY <1>1 DEF SumOf

LEMMA NothingIsSame == SameSplit(<< >>, NothingHeld)
<1>1. DOMAIN << >> = {} /\ << >> \in [{} -> Nat \ {0}]
  OBVIOUS
<1>2. NothingHeld \in [Accounts -> Nat] /\ \A a \in Accounts : NothingHeld[a] = Held(<< >>, a)
  BY <1>1 DEF NothingHeld, Held
<1> QED BY <1>1, <1>2 DEF SameSplit

(* What is shown of a sell that leaves some: the two loops end alike.      *)
LEMMA SellsAgree ==
  ASSUME NEW accounts, NEW held, SameSplit(accounts, held),
         NEW t, t.account \in Accounts, t.qty \in Nat, t.qty <= Total(held)
  PROVE  LET last == Draws(accounts, t)[Len(DrawOrder(accounts, t.account))].accounts
             left == DrawDown(held, t.account, t.qty)
         IN  SameSplit(NonEmpty(last), left) /\ Total(left) = Total(held) - t.qty
<1> DEFINE D == DOMAIN accounts
           last == Draws(accounts, t)[Len(DrawOrder(accounts, t.account))].accounts
           left == DrawDown(held, t.account, t.qty)
           kept == {a \in D : last[a] > 0}
<1>1. D \subseteq Accounts
  BY DEF SameSplit
<1>2. /\ last \in [D -> Nat]
      /\ \A a \in D : last[a] = left[a]
      /\ \A a \in Accounts \ D : left[a] = 0
      /\ SumOf(last) = Total(held) - t.qty
  BY DrawsAgree
<1>3. DOMAIN left = Accounts /\ left = [a \in Accounts |-> left[a]]
  BY DEF DrawDown
<1> HIDE DEF D, last, left
<1>4. left \in [Accounts -> Nat]
  BY <1>2, <1>3
<1>5. [a \in Accounts |-> Held(last, a)] = left
  BY <1>1, <1>2, <1>3 DEF Held
<1>6. Total(left) = Total(held) - t.qty
  BY <1>2, <1>5 DEF SumOf
<1>7. NonEmpty(last) = [a \in kept |-> last[a]]
  BY <1>2 DEF NonEmpty, Restrict
<1>8. SameSplit(NonEmpty(last), left)
  <2>1. NonEmpty(last) \in [kept -> Nat \ {0}] /\ kept \subseteq Accounts
    BY <1>1, <1>2, <1>7
  <2>2. ASSUME NEW a \in Accounts PROVE left[a] = Held(NonEmpty(last), a)
    <3>1. CASE a \in kept
      BY <1>2, <1>7, <2>1, <3>1 DEF Held
    <3>2. CASE a \notin kept
      <4>1. left[a] = 0
        BY <1>2, <1>4, <3>2
      <4> QED BY <2>1, <3>2, <4>1 DEF Held
    <3> QED BY <3>1, <3>2
  <2> QED BY <1>4, <2>1, <2>2 DEF SameSplit
<1> QED BY <1>6, <1>8 DEF last, left

LEMMA BuySplitInv ==
  ASSUME HInv, SplitInv, NEW t \in Trade, Buy(t)
  PROVE  SplitInv'
<1> DEFINE D == DOMAIN alloc
<1>1. t.qty \in Nat \ {0} /\ t.action = "BUY" /\ t.account \in Accounts
  BY QuantitiesAssumption DEF Trade, Buy
<1>2. /\ split \in [Accounts -> Nat] /\ D \subseteq Accounts /\ alloc \in [D -> Nat \ {0}]
      /\ \A a \in Accounts : split[a] = Held(alloc, a)
  BY DEF SplitInv, SameSplit
<1>3. split' = [split EXCEPT ![t.account] = @ + t.qty] /\ owned' = owned + t.qty
  BY <1>1 DEF Buy, SplitTrade, ApplyTrade
<1>4. alloc' = [a \in D \cup {t.account} |-> Held(alloc, a) + (IF a = t.account THEN t.qty ELSE 0)]
  BY DEF Buy, AllocateBuy
<1>5. /\ split' \in [Accounts -> Nat] /\ split'[t.account] = split[t.account] + t.qty
      /\ \A a \in Accounts : a # t.account => split'[a] = split[a]
  BY <1>1, <1>2, <1>3
<1>6. Total(split)' = owned'
  <2>1. Total(split') = Total(split) + split'[t.account] - split[t.account]
    <3>1. split \in [Accounts -> Int] /\ split' \in [Accounts -> Int]
      BY <1>2, <1>5
    <3> QED BY <1>1, <1>5, <3>1, TotalMoves
  <2>2. Total(split) = owned /\ owned \in Nat /\ split[t.account] \in Nat
    BY <1>1, <1>2 DEF SplitInv, HInv, Numbers
  <2>3. Total(split)' = Total(split')
    OBVIOUS
  <2> QED BY <1>1, <1>3, <1>5, <2>1, <2>2, <2>3
<1>7. SameSplit(alloc', split')
  <2>1. DOMAIN alloc' \subseteq Accounts /\ alloc' \in [DOMAIN alloc' -> Nat \ {0}]
    BY <1>1, <1>2, <1>4 DEF Held
  <2>2. ASSUME NEW a \in Accounts PROVE split'[a] = Held(alloc', a)
    BY <1>1, <1>2, <1>4, <1>5 DEF Held
  <2> QED BY <1>5, <2>1, <2>2 DEF SameSplit
<1> QED BY <1>6, <1>7 DEF SplitInv

LEMMA SellSplitInv ==
  ASSUME HInv, SplitInv, NEW t \in Trade, Sell(t)
  PROVE  SplitInv'
<1>1. t.qty \in Nat \ {0} /\ t.action = "SELL" /\ t.account \in Accounts
  BY QuantitiesAssumption DEF Trade, Sell
<1>2. Total(split) = owned /\ SumOf(alloc) = owned /\ owned \in Nat /\ Tolerance(owned) \in Nat \ {0}
  BY SameSums, ToleranceType DEF SplitInv, HInv, Numbers
<1>3. split' = IF SoldOut(split, t.qty) THEN NothingHeld ELSE DrawDown(split, t.account, t.qty)
  BY <1>1 DEF Sell, SplitTrade
<1>4. SoldOut(split, t.qty) <=> t.qty >= owned - Tolerance(owned)
  BY <1>2 DEF SoldOut
<1>5. CASE t.qty >= owned - Tolerance(owned)
  <2>1. ~(t.qty < owned - Tolerance(owned))
    BY <1>1, <1>2, <1>5
  <2>2. owned' = 0 /\ split' = NothingHeld
    BY <1>1, <1>3, <1>4, <1>5, <2>1 DEF Sell, ApplyTrade
  <2>3. SameSplit(alloc', split')
    <3>1. CASE SumOf(alloc) = 0
      <4>1. alloc' = alloc
        BY <3>1 DEF Sell, AllocateSell
      <4>2. \A a \in Accounts : split[a] = 0
        BY <1>2, <3>1, TotalType DEF SplitInv, SameSplit
      <4>3. split = NothingHeld
        BY <4>2 DEF NothingHeld, SplitInv, SameSplit
      <4> QED BY <2>2, <4>1, <4>3 DEF SplitInv
    <3>2. CASE SumOf(alloc) # 0
      <4>1. alloc' = << >>
        BY <1>2, <1>5, <3>2 DEF Sell, AllocateSell
      <4> QED BY <2>2, <4>1, NothingIsSame
    <3> QED BY <3>1, <3>2
  <2> QED BY <2>2, <2>3, TotalNothing DEF SplitInv
<1>6. CASE ~(t.qty >= owned - Tolerance(owned))
  <2>1. t.qty < owned - Tolerance(owned) /\ t.qty <= owned /\ owned # 0
    BY <1>1, <1>2, <1>6
  <2>2. owned' = owned - t.qty /\ split' = DrawDown(split, t.account, t.qty)
    BY <1>1, <1>3, <1>4, <1>6, <2>1 DEF Sell, ApplyTrade
  <2>3. alloc' = NonEmpty(Draws(alloc, t)[Len(DrawOrder(alloc, t.account))].accounts)
    BY <1>2, <1>6, <2>1 DEF Sell, AllocateSell
  <2>4. SameSplit(alloc', split') /\ Total(split') = Total(split) - t.qty
    <3>1. t.qty <= Total(split) /\ t.qty \in Nat
      BY <1>1, <1>2, <2>1
    <3> QED BY <1>1, <2>2, <2>3, <3>1, SellsAgree DEF SplitInv
  <2> QED BY <1>2, <2>2, <2>4 DEF SplitInv
<1> QED BY <1>5, <1>6

LEMMA SplitIsOfTheHolding == SplitInv => SplitsAgree
BY SameSums DEF SplitInv, SplitsAgree, SameSplit

LEMMA UnsetIsOne == UNSET \in Accounts
BY AccountsAssumption DEF Accounts, UNSET

(* A sell that its account and the untagged shares cover leaves less than  *)
(* the tolerances to be taken from the others.                             *)
LEMMA OthersAreSpared ==
  ASSUME HInv, SplitInv, NEW t \in Trade, Sell(t), t.account # UNSET, ~FallsShort(split, t),
         NEW a \in Accounts \ {t.account, UNSET}
  PROVE  split[a] - split'[a] <= Tolerance(owned) + Tolerance(Usable(split, t.account))
<1> DEFINE use == Usable(split, t.account)
<1>1. t.qty \in Nat \ {0} /\ t.action = "SELL" /\ t.account \in Accounts /\ UNSET \in Accounts
  BY QuantitiesAssumption, UnsetIsOne DEF Trade, Sell
<1>2. split \in [Accounts -> Nat] /\ Total(split) = owned /\ owned \in Nat
  BY DEF SplitInv, SameSplit, HInv, Numbers
<1>3. use = split[t.account] + split[UNSET] /\ use \in Nat
  BY <1>1, <1>2 DEF Usable
<1>4. Tolerance(owned) \in Nat \ {0} /\ Tolerance(use) \in Nat \ {0}
  BY <1>2, <1>3, ToleranceType
<1>5. t.qty <= use + Tolerance(use)
  BY <1>1, <1>3, <1>4 DEF FallsShort
<1>6. split' = IF SoldOut(split, t.qty) THEN NothingHeld ELSE DrawDown(split, t.account, t.qty)
  BY <1>1 DEF Sell, SplitTrade
<1> HIDE DEF use
<1>7. CASE SoldOut(split, t.qty)
  <2>1. split'[a] = 0
    BY <1>6, <1>7 DEF NothingHeld
  <2>2. t.qty >= owned - Tolerance(owned)
    BY <1>2, <1>7 DEF SoldOut
  <2>3. split[t.account] + split[UNSET] + split[a] <= owned
    BY <1>1, <1>2, ThreeOfAll
  <2>4. split[a] \in Nat /\ split[t.account] \in Nat /\ split[UNSET] \in Nat
    BY <1>1, <1>2
  <2>5. split[a] <= Tolerance(owned) + Tolerance(use)
    BY <1>1, <1>2, <1>3, <1>4, <1>5, <2>2, <2>3, <2>4
  <2> QED BY <2>1, <2>4, <2>5 DEF use
<1>8. CASE ~SoldOut(split, t.qty)
  <2> DEFINE first == {b \in Accounts : DrawnBefore(split, t.account, b, a)}
             before == Total(Part(split, first))
  <2>1. split'[a] = split[a] - Smaller(Left(t.qty, before), split[a])
    BY <1>6, <1>8 DEF DrawDown
  <2>2. t.account \in first /\ UNSET \in first
    BY <1>1 DEF DrawnBefore
  <2>3. use <= before /\ before \in Nat
    <3> DEFINE f == Part(split, first)
               g == [f EXCEPT ![t.account] = 0]
    <3>1. /\ f \in [Accounts -> Nat] /\ f \in [Accounts -> Int]
          /\ f[t.account] = split[t.account] /\ f[UNSET] = split[UNSET]
      BY <1>1, <1>2, <2>2 DEF Part
    <3> HIDE DEF f
    <3>2. /\ g \in [Accounts -> Nat] /\ g \in [Accounts -> Int] /\ g[t.account] = 0
          /\ g[UNSET] = f[UNSET] /\ \A b \in Accounts : b # t.account => g[b] = f[b]
      BY <1>1, <3>1
    <3> HIDE DEF g
    <3>3. Total(g) = Total(f) + g[t.account] - f[t.account] /\ Total(f) \in Nat
      BY <1>1, <3>1, <3>2, TotalMoves, TotalType
    <3>4. g[UNSET] <= Total(g)
      BY <1>1, <3>2, TotalType
    <3>5. f[t.account] \in Nat /\ f[UNSET] \in Nat
      BY <1>1, <3>1
    <3>6. f[t.account] + f[UNSET] <= Total(f)
      BY <3>2, <3>3, <3>4, <3>5
    <3> QED BY <1>3, <3>1, <3>3, <3>6 DEF f
  <2> HIDE DEF before
  <2>4. Left(t.qty, before) \in Nat /\ Left(t.qty, before) <= Tolerance(use)
    BY <1>1, <1>3, <1>4, <1>5, <2>3 DEF Left, Larger
  <2>5. Smaller(Left(t.qty, before), split[a]) \in Nat /\ split[a] \in Nat
        /\ Smaller(Left(t.qty, before), split[a]) <= Tolerance(use)
    BY <1>2, <1>4, <2>4 DEF Smaller
  <2> QED BY <1>4, <2>1, <2>5 DEF use
<1> QED BY <1>7, <1>8

LEMMA HintHolds == HInv /\ SplitInv => HintAgreesWithServer
<1> SUFFICES ASSUME HInv, SplitInv, NEW t \in Trade, t.action = "SELL"
             PROVE  LET owns == OwnedForAccount(t.account)
                    IN  /\ t.qty <= owns => Accepts(t)
                        /\ Accepts(t) => t.qty <= owns + dust + Tolerance(ledger)
                                                  + Tolerance(Usable(split, t.account)) + 1
  BY DEF HintAgreesWithServer
<1> DEFINE use == Usable(split, t.account)
           owns == OwnedForAccount(t.account)
           short == SplitTrade([held |-> split, short |-> << >>], t).short
<1>1. t.qty \in Nat \ {0} /\ t.account \in Accounts /\ UNSET \in Accounts
  BY QuantitiesAssumption, UnsetIsOne DEF Trade
<1>2. /\ split \in [Accounts -> Nat] /\ owned \in Nat /\ ledger \in Nat /\ dust \in Nat
      /\ ledger >= owned /\ ledger - owned <= dust
  BY DEF SplitInv, SameSplit, HInv, Numbers, LedgerCoversHolding
<1>3. use = split[t.account] + split[UNSET] /\ use \in Nat
  BY <1>1, <1>2 DEF Usable
<1>4. Tolerance(ledger) \in Nat \ {0} /\ Tolerance(use) \in Nat \ {0}
  BY <1>2, <1>3, ToleranceType
<1>5. owns = IF t.account = UNSET \/ owned <= use THEN owned ELSE use
  BY <1>1, <1>3 DEF OwnedForAccount, Smaller
<1>6. FallsShort(split, t) <=> t.account # UNSET /\ t.qty > use + Tolerance(use)
  BY DEF FallsShort
<1>7. short = IF FallsShort(split, t) THEN Noted(<< >>, t.id, t.qty - use) ELSE << >>
  BY DEF SplitTrade
<1>8. DOMAIN << >> = {}
  OBVIOUS
<1>9. OversellAdded(<< >>, short) <=> FallsShort(split, t) /\ t.qty - use > 1
  <2>1. CASE FallsShort(split, t)
    <3>1. DOMAIN short = {t.id} /\ short[t.id] = t.qty - use
      BY <1>7, <1>8, <2>1 DEF Noted
    <3> QED BY <1>8, <2>1, <3>1 DEF OversellAdded, ShortOf
  <2>2. CASE ~FallsShort(split, t)
    BY <1>7, <1>8, <2>2 DEF OversellAdded
  <2> QED BY <2>1, <2>2
<1>10. Accepts(t) <=> t.qty <= ledger + Tolerance(ledger) /\ ~OversellAdded(<< >>, short)
  BY DEF Accepts
<1> HIDE DEF use, owns, short
<1>11. t.qty <= owns => Accepts(t)
  BY <1>1, <1>2, <1>3, <1>4, <1>5, <1>6, <1>9, <1>10
<1>12. ASSUME Accepts(t)
       PROVE  t.qty <= owns + dust + Tolerance(ledger) + Tolerance(use) + 1
  <2>1. t.qty <= ledger + Tolerance(ledger) /\ ledger <= owned + dust
    BY <1>2, <1>10, <1>12
  <2>2. CASE t.account = UNSET \/ owned <= use
    <3>1. owns = owned
      BY <1>5, <2>2
    <3> QED BY <1>1, <1>2, <1>4, <2>1, <3>1
  <2>3. CASE t.account # UNSET /\ ~(owned <= use)
    <3>1. owns = use
      BY <1>5, <2>3
    <3>2. t.qty <= use + Tolerance(use) + 1
      BY <1>1, <1>3, <1>4, <1>6, <1>9, <1>10, <1>12, <2>3
    <3> QED BY <1>1, <1>2, <1>3, <1>4, <3>1, <3>2
  <2> QED BY <2>2, <2>3
<1> QED BY <1>11, <1>12 DEF use, owns

-----------------------------------------------------------------------------
(* The replays together.                                                   *)
ReplayInv == HInv /\ SplitInv

LEMMA InitReplayInv == Init => ReplayInv
<1> SUFFICES ASSUME Init PROVE ReplayInv
  OBVIOUS
<1>1. HInv
  BY DEF Init, HInv, Numbers, LedgerCoversHolding
<1>2. split = NothingHeld /\ alloc = << >> /\ owned = 0
  BY DEF Init
<1>3. SplitInv
  BY <1>2, NothingIsSame, TotalNothing DEF SplitInv
<1> QED BY <1>1, <1>3 DEF ReplayInv

LEMMA ReplayStep == ReplayInv /\ [Next]_vars => ReplayInv'
<1> SUFFICES ASSUME ReplayInv, [Next]_vars PROVE ReplayInv'
  OBVIOUS
<1>1. CASE UNCHANGED vars
  BY <1>1 DEF vars, ReplayInv, HInv, Numbers, LedgerCoversHolding, SplitInv
<1>2. ASSUME NEW t \in Trade, Buy(t) PROVE ReplayInv'
  BY <1>2, BuyHInv, BuySplitInv DEF ReplayInv
<1>3. ASSUME NEW t \in Trade, Sell(t) PROVE ReplayInv'
  BY <1>3, SellHInv, SellSplitInv DEF ReplayInv
<1> QED BY <1>1, <1>2, <1>3 DEF Next

LEMMA ReplaysAgree == Spec => []ReplayInv
BY InitReplayInv, ReplayStep, PTL DEF Spec

(* The holdings page (apply_trade) never shows more than _replay_ledger    *)
(* has, and less only by the tolerances of the sells of everything.        *)
THEOREM LedgerCovers == Spec => []LedgerCoversHolding
<1>1. ReplayInv => LedgerCoversHolding
  BY DEF ReplayInv, HInv
<1> QED BY <1>1, ReplaysAgree, PTL

(* account_split and replay_accounts, each with a loop of its own, say the *)
(* same of every account after any history, and add up to the holding of   *)
(* apply_trade.                                                            *)
THEOREM TheSplitsAgree == Spec => []SplitsAgree
<1>1. ReplayInv => SplitsAgree
  BY SplitIsOfTheHolding DEF ReplayInv
<1> QED BY <1>1, ReplaysAgree, PTL

(* The form's "You own N" (tradeForm.js) and the server's checks agree on  *)
(* a sell dated now, up to the tolerances.                                 *)
THEOREM TheHintAgrees == Spec => []HintAgreesWithServer
<1>1. ReplayInv => HintAgreesWithServer
  BY HintHolds DEF ReplayInv
<1> QED BY <1>1, ReplaysAgree, PTL

(* A sell that its account and the untagged shares can cover leaves the    *)
(* other accounts as they were, up to the tolerances (account_split).      *)
THEOREM OwnAccountComesFirst == Spec => OwnAccountFirst
<1> DEFINE Spares ==
      split' # split =>
        \A t \in Trade :
          (Sell(t) /\ t.account # UNSET /\ ~FallsShort(split, t)) =>
            \A a \in Accounts \ {t.account, UNSET} :
              split[a] - split'[a] <= Tolerance(owned) + Tolerance(Usable(split, t.account))
<1>1. ReplayInv => Spares
  BY OthersAreSpared DEF ReplayInv
<1>2. ReplayInv /\ [Next]_vars => [Spares]_vars
  BY <1>1
<1>3. [][Spares]_vars => OwnAccountFirst
  BY DEF OwnAccountFirst
<1> HIDE DEF Spares
<1> QED BY <1>2, <1>3, ReplaysAgree, PTL DEF Spec

(* The four carried over to the specification holdings runs.               *)
THEOREM TheReplaysAgree ==
  PortfolioSpec =>
    [](SplitsAgree /\ LedgerCoversHolding /\ HintAgreesWithServer) /\ OwnAccountFirst
<1>1. PortfolioInit => Init
  BY DEF PortfolioInit
<1>2. [PortfolioNext]_<<part, vars, sessionVars, offlineVars, homeVars, screenVars, panelVars>>
        => [Next]_vars
  <2>1. ReplaysMove => Next
    BY DEF ReplaysMove
  <2>2. SessionMoves \/ OfflineMoves \/ DashboardMoves \/ ScreensMove \/ AnalystMoves
          => UNCHANGED vars
    BY DEF SessionMoves, OfflineMoves, DashboardMoves, ScreensMove, AnalystMoves, OthersWait
  <2> QED BY <2>1, <2>2 DEF PortfolioNext
<1>3. PortfolioSpec => Spec
  BY <1>1, <1>2, PTL DEF PortfolioSpec, Spec
<1> QED BY <1>3, LedgerCovers, TheSplitsAgree, TheHintAgrees, OwnAccountComesFirst, PTL

-----------------------------------------------------------------------------
(* The session: SessionProofs in the composition.                          *)
Proved == INSTANCE SessionProofs WITH
  Accounts <- People, Screens <- CopiedScreens, MaxInFlight <- MaxRequests, MaxAsked <- MaxAppAsked,
  MaxChanges <- Changes, Chosen <- Settings

LEMMA SameCount == \A S : App!Cardinality(S) = Proved!Cardinality(S)
BY DEF App!Cardinality, Proved!Cardinality

LEMMA SameSessionStep == App!Next => Proved!Next
<1> USE DEF App!Answer, Proved!Answer, App!CanSave, Proved!CanSave, App!ChangeCurrency,
            Proved!ChangeCurrency, App!Delivered, Proved!Delivered, App!Elsewhere, Proved!Elsewhere,
            App!Expires, Proved!Expires, App!FailUser, Proved!FailUser, App!Failed, Proved!Failed,
            App!KeepsRenewal, Proved!KeepsRenewal, App!Load, Proved!Load, App!LogOut, Proved!LogOut,
            App!NewToken, Proved!NewToken, App!Newest, Proved!Newest, App!NoUser, Proved!NoUser,
            App!NumbersArrive, Proved!NumbersArrive, App!OtherToken, Proved!OtherToken,
            App!PasswordArrives, Proved!PasswordArrives, App!Profile, Proved!Profile, App!ProfileArrives,
            Proved!ProfileArrives, App!Reads, Proved!Reads, App!Recalled, Proved!Recalled, App!Refuse,
            Proved!Refuse, App!Refused, Proved!Refused, App!ReloadUser, Proved!ReloadUser, App!Remember,
            Proved!Remember, App!Renew, Proved!Renew, App!RenewToken, Proved!RenewToken,
            App!RenewalArrives, Proved!RenewalArrives, App!Replied, Proved!Replied, App!Request,
            Proved!Request, App!Restart, Proved!Restart, App!RevokedFlight, Proved!RevokedFlight,
            App!RevokedToken, Proved!RevokedToken, App!SavePassword, Proved!SavePassword,
            App!SaveSettings, Proved!SaveSettings, App!Saved, Proved!Saved, App!Saving, Proved!Saving,
            App!ScopeKept, Proved!ScopeKept, App!Send, Proved!Send, App!Serve, Proved!Serve,
            App!SettingsArrive, Proved!SettingsArrive, App!ShowUser, Proved!ShowUser, App!SignIn,
            Proved!SignIn, App!SignOut, Proved!SignOut, App!Submit, Proved!Submit, App!Superseded,
            Proved!Superseded, App!Unreachable, Proved!Unreachable, App!UserKnown, Proved!UserKnown,
            App!UserPage, Proved!UserPage, App!Writes, Proved!Writes, App!CurrencyOf, Proved!CurrencyOf,
            App!SameScope, Proved!SameScope, App!KnownWhenAsked, Proved!KnownWhenAsked
<1>1. ASSUME NEW u \in People, App!SignIn(u) PROVE Proved!SignIn(u)
  BY <1>1, SameCount
<1>2. ASSUME NEW u \in People, App!Elsewhere(u) PROVE Proved!Elsewhere(u)
  BY <1>2
<1>3. App!SignOut => Proved!SignOut
  OBVIOUS
<1>4. ASSUME NEW path \in CopiedScreens, App!Load(path) PROVE Proved!Load(path)
  BY <1>4, SameCount
<1>5. App!ReloadUser => Proved!ReloadUser
  BY SameCount
<1>6. ASSUME NEW kind \in App!Writes, App!Submit(kind) PROVE Proved!Submit(kind)
  BY <1>6, SameCount
<1>7. App!Renew => Proved!Renew
  BY SameCount
<1>8. ASSUME NEW r \in flight, App!Serve(r) PROVE Proved!Serve(r)
  BY <1>8
<1>9. ASSUME NEW r \in flight, App!Refused(r) PROVE Proved!Refused(r)
  BY <1>9
<1>10. ASSUME NEW r \in flight, App!Delivered(r) PROVE Proved!Delivered(r)
  BY <1>10
<1>11. ASSUME NEW r \in flight, App!Failed(r) PROVE Proved!Failed(r)
  BY <1>11
<1>12. ASSUME NEW r \in flight, App!Unreachable(r) PROVE Proved!Unreachable(r)
  BY <1>12
<1>13. App!Restart => Proved!Restart
  BY SameCount
<1>14. App!Writes = Proved!Writes
  OBVIOUS
<1> HIDE DEF App!Answer, Proved!Answer, App!CanSave, Proved!CanSave, App!ChangeCurrency,
            Proved!ChangeCurrency, App!Delivered, Proved!Delivered, App!Elsewhere, Proved!Elsewhere,
            App!Expires, Proved!Expires, App!FailUser, Proved!FailUser, App!Failed, Proved!Failed,
            App!KeepsRenewal, Proved!KeepsRenewal, App!Load, Proved!Load, App!LogOut, Proved!LogOut,
            App!NewToken, Proved!NewToken, App!Newest, Proved!Newest, App!NoUser, Proved!NoUser,
            App!NumbersArrive, Proved!NumbersArrive, App!OtherToken, Proved!OtherToken,
            App!PasswordArrives, Proved!PasswordArrives, App!Profile, Proved!Profile, App!ProfileArrives,
            Proved!ProfileArrives, App!Reads, Proved!Reads, App!Recalled, Proved!Recalled, App!Refuse,
            Proved!Refuse, App!Refused, Proved!Refused, App!ReloadUser, Proved!ReloadUser, App!Remember,
            Proved!Remember, App!Renew, Proved!Renew, App!RenewToken, Proved!RenewToken,
            App!RenewalArrives, Proved!RenewalArrives, App!Replied, Proved!Replied, App!Request,
            Proved!Request, App!Restart, Proved!Restart, App!RevokedFlight, Proved!RevokedFlight,
            App!RevokedToken, Proved!RevokedToken, App!SavePassword, Proved!SavePassword,
            App!SaveSettings, Proved!SaveSettings, App!Saved, Proved!Saved, App!Saving, Proved!Saving,
            App!ScopeKept, Proved!ScopeKept, App!Send, Proved!Send, App!Serve, Proved!Serve,
            App!SettingsArrive, Proved!SettingsArrive, App!ShowUser, Proved!ShowUser, App!SignIn,
            Proved!SignIn, App!SignOut, Proved!SignOut, App!Submit, Proved!Submit, App!Superseded,
            Proved!Superseded, App!Unreachable, Proved!Unreachable, App!UserKnown, Proved!UserKnown,
            App!UserPage, Proved!UserPage, App!Writes, Proved!Writes, App!CurrencyOf, Proved!CurrencyOf,
            App!SameScope, Proved!SameScope, App!KnownWhenAsked, Proved!KnownWhenAsked
<1> QED BY <1>1, <1>2, <1>3, <1>4, <1>5, <1>6, <1>7, <1>8, <1>9, <1>10, <1>11, <1>12, <1>13, <1>14
        DEF App!Next, Proved!Next

LEMMA SessionPart == PortfolioSpec => [](part = "session" => Proved!IInv)
<1>0. Proved!NoneIsNoToken
  BY SessionAssumption DEF Proved!NoneIsNoToken, Proved!TokenOf, App!TokenOf
<1> DEFINE I == part = "session" => Proved!IInv
<1>1. PortfolioInit => I
  <2>1. App!Init => Proved!Init
    BY DEF App!Init, Proved!Init, App!NoUser, Proved!NoUser
  <2> QED BY <2>1, <1>0, Proved!InitIInv DEF PortfolioInit
<1>2. I /\ [PortfolioNext]_<<part, vars, sessionVars, offlineVars, homeVars, screenVars, panelVars>> => I'
  <2> SUFFICES ASSUME I, [PortfolioNext]_<<part, vars, sessionVars, offlineVars, homeVars, screenVars, panelVars>>, part' = "session"
               PROVE  Proved!IInv'
    OBVIOUS
  <2>1. part = "session" /\ (App!Next \/ UNCHANGED sessionVars)
    BY DEF PortfolioNext, ReplaysMove, SessionMoves, OfflineMoves, DashboardMoves, ScreensMove, AnalystMoves,
           OthersWait
  <2>2. [Proved!Next]_(Proved!svars)
    BY <2>1, SameSessionStep DEF Proved!svars, sessionVars
  <2> QED BY <1>0, <2>1, <2>2, Proved!StepIInv
<1> QED BY <1>1, <1>2, PTL DEF PortfolioSpec

(* The offline copy holds replies of who is signed in only, in the         *)
(* currency they are filed under or of a change of it the phone had not    *)
(* learned of when it asked (services/api.js, offlineCache.js): the        *)
(* theorem of SessionProofs, of the composition.                           *)
THEOREM CopiesStayFaithful == PortfolioSpec => []CopiesFaithful
<1>1. (part = "session" => Proved!IInv) => CopiesFaithful
  BY Proved!IInvSafe
  DEF CopiesFaithful, App!CopiesFaithful, Proved!CopiesFaithful, App!CopiesOfTheirAccount,
      Proved!CopiesOfTheirAccount, App!CopiesNotOlder, Proved!CopiesNotOlder, App!CurrencyOf, Proved!CurrencyOf
<1> QED BY <1>1, SessionPart, PTL

(* What the account page saved is not shown undone by an older reply       *)
(* (context/UserContext.jsx).                                              *)
THEOREM SavedSettingsAreKept == PortfolioSpec => []SavedSettingsStay
<1>1. (part = "session" => Proved!IInv) => SavedSettingsStay
  BY Proved!IInvSafe
  DEF SavedSettingsStay, App!SavedSettingsStay, Proved!SavedSettingsStay, App!UserKnown, Proved!UserKnown
<1> QED BY <1>1, SessionPart, PTL

(* A refusal signs nobody out whose token in use still works               *)
(* (services/api.js sessionExpired).                                       *)
THEOREM RefusalEndsOnlyRevoked == PortfolioSpec => []EndsOnlyRevoked
<1>1. (part = "session" => Proved!IInv) => EndsOnlyRevoked
  BY Proved!IInvSafe DEF EndsOnlyRevoked, App!EndsOnlyRevoked, Proved!EndsOnlyRevoked
<1> QED BY <1>1, SessionPart, PTL

-----------------------------------------------------------------------------
(* The offline copy.                                                       *)
LEMMA SameSizes == \A S : Offline!Cardinality(S) = Cardinality(S)
BY DEF Offline!Cardinality, Cardinality

(* Sequences in which nothing comes twice; what comes before what in them. *)
Distinct(q) == \A i, j \in 1..Len(q) : q[i] = q[j] => i = j

Has(q, a) == \E i \in 1..Len(q) : q[i] = a

Earlier(q, a, b) == \E i, j \in 1..Len(q) : i < j /\ q[i] = a /\ q[j] = b

(* What filtering keeps: those not gone, once each, in their order.        *)
FilteredOf(q, w, gone) ==
  /\ Distinct(w)
  /\ \A a : Has(w, a) <=> Has(q, a) /\ a \notin gone
  /\ \A a, b : Earlier(w, a, b) <=> Earlier(q, a, b) /\ a \notin gone /\ b \notin gone

LEMMA FilteredGoesOn ==
  ASSUME NEW q, NEW gone, Len(q) \in Nat
  PROVE  \A i \in 0..Len(q) :
           Offline!Filtered(q, gone)[i] =
             IF i = 0 THEN << >>
             ELSE IF q[i] \in gone THEN Offline!Filtered(q, gone)[i - 1]
             ELSE Append(Offline!Filtered(q, gone)[i - 1], q[i])
<1> DEFINE n == Len(q)
           step(g, i) == IF i = 0 THEN << >>
                         ELSE IF q[i] \in gone THEN g[i - 1]
                         ELSE Append(g[i - 1], q[i])
           goes(g, m) == DOMAIN g = 0..m /\ \A i \in 0..m : g[i] = step(g, i)
           S == {m \in Nat : \E g : goes(g, m)}
<1>0. n \in Nat /\ n = Len(q)
  OBVIOUS
<1> HIDE DEF n
<1>1. 0 \in S
  <2>1. goes([i \in 0..0 |-> << >>], 0)
    OBVIOUS
  <2> QED BY <2>1
<1>2. ASSUME NEW m \in Nat, m \in S PROVE m + 1 \in S
  <2>1. PICK g : goes(g, m)
    BY <1>2
  <2> DEFINE next == IF q[m + 1] \in gone THEN g[m] ELSE Append(g[m], q[m + 1])
             h == [i \in 0..m + 1 |-> IF i = m + 1 THEN next ELSE g[i]]
  <2>2. DOMAIN h = 0..m + 1
    OBVIOUS
  <2>3. ASSUME NEW i \in 0..m + 1 PROVE h[i] = step(h, i)
    <3>1. CASE i = m + 1
      <4>1. i # 0 /\ i - 1 = m /\ m \in 0..m + 1 /\ m # m + 1
        BY <3>1
      <4>2. h[m] = g[m] /\ h[i] = next
        BY <3>1, <4>1
      <4> HIDE DEF h
      <4> QED BY <3>1, <4>1, <4>2
    <3>2. CASE i # m + 1
      <4>1. i \in 0..m /\ (i # 0 => i - 1 \in 0..m + 1 /\ i - 1 # m + 1)
        BY <3>2
      <4>2. h[i] = g[i] /\ (i # 0 => h[i - 1] = g[i - 1])
        BY <3>2, <4>1
      <4> HIDE DEF h
      <4> QED BY <2>1, <4>1, <4>2
    <3> QED BY <3>1, <3>2
  <2> HIDE DEF h
  <2>4. goes(h, m + 1)
    BY <2>2, <2>3
  <2> HIDE DEF goes
  <2> QED BY <2>4
<1>3. n \in S
  <2> HIDE DEF S
  <2> QED BY <1>0, <1>1, <1>2, Induction
<1>4. PICK g0 : goes(g0, n)
  BY <1>3
<1> DEFINE filters(u) == u = [i \in 0..n |-> step(u, i)]
           g == [i \in 0..n |-> g0[i]]
<1>5. filters(g)
  <2>1. \A i \in 0..n : g[i] = g0[i] /\ (i # 0 => i - 1 \in 0..n /\ g[i - 1] = g0[i - 1])
    BY <1>0
  <2>2. \A i \in 0..n : g[i] = step(g, i)
    <3> HIDE DEF g
    <3> QED BY <1>4, <2>1
  <2>3. g = [i \in 0..n |-> g[i]]
    OBVIOUS
  <2> HIDE DEF g
  <2> QED BY <2>2, <2>3
<1>6. Offline!Filtered(q, gone) = CHOOSE u : filters(u)
  BY <1>0 DEF Offline!Filtered
<1>7. filters(Offline!Filtered(q, gone))
  <2> HIDE DEF filters
  <2> QED BY <1>5, <1>6
<1> DEFINE u == Offline!Filtered(q, gone)
<1>8. u = [i \in 0..n |-> step(u, i)]
  BY <1>7
<1>9. \A i \in 0..n : u[i] = step(u, i)
  <2> HIDE DEF step, u
  <2> QED BY <1>8
<1> QED BY <1>9 DEF n

(* Something new put at the end: it is there too, after everything else.    *)
AppendedTo(w, v, x) ==
  /\ Distinct(v)
  /\ \A a : Has(v, a) <=> Has(w, a) \/ a = x
  /\ \A a, b : Earlier(v, a, b) <=> Earlier(w, a, b) \/ (b = x /\ Has(w, a))

LEMMA AppendFits ==
  ASSUME NEW X, NEW w \in Seq(X), NEW x \in X, Distinct(w), ~Has(w, x)
  PROVE  Append(w, x) \in Seq(X) /\ AppendedTo(w, Append(w, x), x)
<1> DEFINE v == Append(w, x)
           L == Len(w)
<1>1. L \in Nat /\ v \in Seq(X) /\ Len(v) = L + 1 /\ v[L + 1] = x
      /\ \A i \in 1..L : v[i] = w[i]
  BY LenProperties, AppendProperties
<1> HIDE DEF v, L
<1>2. \A i \in 1..L + 1 : i \in 1..L \/ i = L + 1
  BY <1>1
<1>3. \A i \in 1..L : i \in 1..L + 1 /\ i < L + 1 /\ L + 1 \in 1..L + 1
  BY <1>1
<1>4. \A a : Has(v, a) <=> \E i \in 1..L + 1 : v[i] = a
  BY <1>1 DEF Has
<1>5. \A a : Has(w, a) <=> \E i \in 1..L : w[i] = a
  BY DEF Has, L
<1>6. \A a : Has(v, a) <=> Has(w, a) \/ a = x
  <2> TAKE a
  <2>1. L + 1 \in 1..L + 1
    BY <1>1
  <2> QED BY <1>1, <1>2, <1>3, <1>4, <1>5, <2>1
<1>7. Distinct(v)
  <2>1. \A i \in 1..L : w[i] # x
    BY <1>5
  <2>2. \A i, j \in 1..L : w[i] = w[j] => i = j
    BY DEF Distinct, L
  <2> QED BY <1>1, <1>2, <2>1, <2>2 DEF Distinct
<1>8. \A a, b : Earlier(v, a, b) <=> Earlier(w, a, b) \/ (b = x /\ Has(w, a))
  <2> TAKE a, b
  <2>1. Earlier(v, a, b) <=> \E i, j \in 1..L + 1 : i < j /\ v[i] = a /\ v[j] = b
    BY <1>1 DEF Earlier
  <2>2. ASSUME NEW i \in 1..L + 1, NEW j \in 1..L + 1, i < j
        PROVE  i \in 1..L /\ (j \in 1..L \/ j = L + 1)
    BY <1>1, <2>2
  <2>3. Earlier(w, a, b) <=> \E i, j \in 1..L : i < j /\ w[i] = a /\ w[j] = b
    BY DEF Earlier, L
  <2> QED BY <1>1, <1>3, <1>5, <2>1, <2>2, <2>3
<1>9. AppendedTo(w, v, x)
  BY <1>6, <1>7, <1>8 DEF AppendedTo
<1> QED BY <1>1, <1>9 DEF v

LEMMA WithoutFits ==
  ASSUME NEW X, NEW q \in Seq(X), Distinct(q), NEW gone
  PROVE  Offline!Without(q, gone) \in Seq(X) /\ FilteredOf(q, Offline!Without(q, gone), gone)
<1> DEFINE n == Len(q)
           u == Offline!Filtered(q, gone)
           (* what the first i keys leave *)
           Good(i) ==
             /\ u[i] \in Seq(X) /\ Distinct(u[i])
             /\ \A a : Has(u[i], a) <=> (\E k \in 1..i : q[k] = a) /\ a \notin gone
             /\ \A a, b : Earlier(u[i], a, b) <=>
                  /\ \E k, l \in 1..i : k < l /\ q[k] = a /\ q[l] = b
                  /\ a \notin gone /\ b \notin gone
<1>1. n \in Nat /\ \A i \in 1..n : q[i] \in X
  BY LenProperties, ElementOfSeq
<1>2. \A i \in 0..n : u[i] = IF i = 0 THEN << >> ELSE IF q[i] \in gone THEN u[i - 1]
                             ELSE Append(u[i - 1], q[i])
  BY <1>1, FilteredGoesOn
<1>3. Offline!Without(q, gone) = u[n]
  BY DEF Offline!Without
<1> HIDE DEF u
<1>4. Good(0)
  <2>1. u[0] = << >>
    BY <1>1, <1>2
  <2>2. << >> \in Seq(X) /\ Len(<< >>) = 0
    OBVIOUS
  <2> QED BY <2>1, <2>2 DEF Distinct, Has, Earlier
<1>5. ASSUME NEW m \in Nat, m + 1 <= n, Good(m) PROVE Good(m + 1)
  <2> DEFINE x == q[m + 1]
             w == u[m]
  <2>1. m + 1 \in 1..n /\ x \in X /\ m + 1 # 0 /\ (m + 1) - 1 = m
    BY <1>1, <1>5
  <2>2. u[m + 1] = IF x \in gone THEN w ELSE Append(w, x)
    <3>1. m + 1 \in 0..n
      BY <2>1
    <3> QED BY <1>2, <2>1, <3>1
  <2>3. \A k \in 1..m : q[k] # x
    BY <1>1, <2>1 DEF Distinct
  <2>4. \A a : (\E k \in 1..m + 1 : q[k] = a) <=> (\E k \in 1..m : q[k] = a) \/ a = x
    OBVIOUS
  <2>5. \A a, b : (\E k, l \in 1..m + 1 : k < l /\ q[k] = a /\ q[l] = b) <=>
                    \/ \E k, l \in 1..m : k < l /\ q[k] = a /\ q[l] = b
                    \/ b = x /\ \E k \in 1..m : q[k] = a
    <3> TAKE a, b
    <3>1. ASSUME NEW k \in 1..m + 1, NEW l \in 1..m + 1, k < l
          PROVE  k \in 1..m /\ (l \in 1..m \/ l = m + 1)
      BY <3>1
    <3>2. \A k \in 1..m : k \in 1..m + 1 /\ k < m + 1 /\ m + 1 \in 1..m + 1
      OBVIOUS
    <3> QED BY <3>1, <3>2
  <2>8. /\ \A a : Has(w, a) <=> (\E k \in 1..m : q[k] = a) /\ a \notin gone
        /\ \A a, b : Earlier(w, a, b) <=>
             /\ \E k, l \in 1..m : k < l /\ q[k] = a /\ q[l] = b
             /\ a \notin gone /\ b \notin gone
    BY <1>5
  <2>6. CASE x \in gone
    <3>1. u[m + 1] = w
      BY <2>2, <2>6
    <3> QED BY <1>5, <2>4, <2>5, <2>6, <3>1
  <2>7. CASE x \notin gone
    <3> DEFINE v == Append(w, x)
    <3>1. u[m + 1] = v
      BY <2>2, <2>7
    <3>2. w \in Seq(X) /\ Distinct(w) /\ ~Has(w, x)
      BY <1>5, <2>3
    <3>3. v \in Seq(X) /\ AppendedTo(w, v, x)
      BY <2>1, <3>2, AppendFits
    <3> HIDE DEF v
    <3>4. /\ Distinct(v)
          /\ \A a : Has(v, a) <=> Has(w, a) \/ a = x
          /\ \A a, b : Earlier(v, a, b) <=> Earlier(w, a, b) \/ (b = x /\ Has(w, a))
      BY <3>3 DEF AppendedTo
    <3>9. \A a : Has(v, a) <=> (\E k \in 1..m + 1 : q[k] = a) /\ a \notin gone
      BY <2>4, <2>7, <2>8, <3>4
    <3>10. \A a, b : Earlier(v, a, b) <=>
             /\ \E k, l \in 1..m + 1 : k < l /\ q[k] = a /\ q[l] = b
             /\ a \notin gone /\ b \notin gone
      <4> TAKE a, b
      <4>1. Earlier(w, a, b) <=>
              (\E k, l \in 1..m : k < l /\ q[k] = a /\ q[l] = b) /\ a \notin gone /\ b \notin gone
        BY <2>8
      <4>2. Has(w, a) <=> (\E k \in 1..m : q[k] = a) /\ a \notin gone
        BY <2>8
      <4> HIDE DEF w
      <4> QED BY <2>5, <2>7, <3>4, <4>1, <4>2
    <3> QED BY <3>1, <3>3, <3>4, <3>9, <3>10
  <2> QED BY <2>6, <2>7
<1>6. Good(n)
  <2> DEFINE S == {i \in Nat : i <= n => Good(i)}
  <2> HIDE DEF Good
  <2>1. 0 \in S
    BY <1>4
  <2>2. ASSUME NEW i \in Nat, i \in S PROVE i + 1 \in S
    BY <1>1, <1>5, <2>2
  <2> HIDE DEF S
  <2>3. n \in S
    BY <1>1, <2>1, <2>2, Induction
  <2> QED BY <1>1, <2>3 DEF S
<1> DEFINE v == Offline!Without(q, gone)
<1>7. /\ v \in Seq(X) /\ Distinct(v)
      /\ \A a : Has(v, a) <=> (\E k \in 1..n : q[k] = a) /\ a \notin gone
      /\ \A a, b : Earlier(v, a, b) <=>
           /\ \E k, l \in 1..n : k < l /\ q[k] = a /\ q[l] = b
           /\ a \notin gone /\ b \notin gone
  BY <1>3, <1>6
<1>8. \A a : Has(q, a) <=> \E k \in 1..n : q[k] = a
  BY DEF Has
<1>9. \A a, b : Earlier(q, a, b) <=> \E k, l \in 1..n : k < l /\ q[k] = a /\ q[l] = b
  BY DEF Earlier
<1> HIDE DEF v, n
<1>10. FilteredOf(q, v, gone)
  BY <1>7, <1>8, <1>9 DEF FilteredOf
<1> QED BY <1>7, <1>10 DEF v

(* The ones that go are the first of them.                                 *)
Oldest(q, gone) ==
  /\ \A a \in gone : Has(q, a)
  /\ \A a \in gone : \A b : Has(q, b) /\ b \notin gone => Earlier(q, a, b)

LEMMA FirstAreOldest ==
  ASSUME NEW X, NEW q \in Seq(X), NEW n \in 0..Len(q)
  PROVE  Oldest(q, Offline!Range(SubSeq(q, 1, n)))
<1> DEFINE L == Len(q)
           p == SubSeq(q, 1, n)
           gone == Offline!Range(p)
<1>1. L \in Nat /\ n \in 0..L
  BY LenProperties
<1>2. p \in Seq(X) /\ Len(p) = n /\ \A i \in 1..n : p[i] = q[i]
  <2>1. 1..n \subseteq 1..L
    BY <1>1
  <2>2. CASE n = 0
    <3>1. p = << >>
      BY <1>1, <2>2, SubSeqProperties
    <3> QED BY <2>2, <3>1
  <2>3. CASE n # 0
    <3>1. 1 \in 1..L /\ n \in 1..L /\ n - 1 + 1 = n
      BY <1>1, <2>3
    <3> QED BY <1>1, <2>3, <3>1, SubSeqProperties
  <2> QED BY <2>2, <2>3
<1>3. DOMAIN p = 1..n
  BY <1>2, LenProperties
<1> HIDE DEF p, L
<1>4. \A a : a \in gone <=> \E i \in 1..n : q[i] = a
  BY <1>2, <1>3 DEF Offline!Range
<1>5. \A i \in 1..n : i \in 1..L
  BY <1>1
<1> HIDE DEF gone
<1>6. ASSUME NEW a \in gone, NEW b, Has(q, b), b \notin gone PROVE Earlier(q, a, b)
  <2>1. PICK i \in 1..n : q[i] = a
    BY <1>4
  <2>2. PICK j \in 1..L : q[j] = b
    BY <1>6 DEF Has, L
  <2>3. j \notin 1..n
    BY <1>4, <1>6, <2>2
  <2>4. i < j
    BY <1>1, <2>3
  <2> QED BY <1>5, <2>1, <2>2, <2>4 DEF Earlier, L
<1>7. \A a \in gone : Has(q, a)
  BY <1>4, <1>5 DEF Has, L
<1> QED BY <1>6, <1>7 DEF Oldest, gone, p

LEMMA BeyondIsOldest ==
  ASSUME NEW X, NEW q \in Seq(X), Distinct(q), NEW k \in Nat
  PROVE  /\ Oldest(q, Offline!Beyond(q, k))
         /\ \A a : k # 0 /\ Has(q, a) => \E b : Has(q, b) /\ b \notin Offline!Beyond(q, k)
<1> DEFINE L == Len(q)
<1>1. L \in Nat
  BY LenProperties
<1>2. CASE L > k
  <2>1. L - k \in 0..L
    BY <1>1, <1>2
  <2>2. Offline!Beyond(q, k) = Offline!Range(SubSeq(q, 1, L - k))
    BY <1>2 DEF Offline!Beyond
  <2>3. Oldest(q, Offline!Beyond(q, k))
    BY <2>1, <2>2, FirstAreOldest
  <2>4. ASSUME k # 0 PROVE Has(q, q[L]) /\ q[L] \notin Offline!Beyond(q, k)
    <3>1. L \in 1..L /\ L - k < L /\ L - k \in 1..L
      BY <1>1, <1>2, <2>4
    <3>2. Has(q, q[L])
      BY <3>1 DEF Has
    <3>3. Len(SubSeq(q, 1, L - k)) = L - k
          /\ \A i \in 1..(L - k) : SubSeq(q, 1, L - k)[i] = q[i]
      <4>1. 1..(L - k) \subseteq 1..L /\ (L - k) - 1 + 1 = L - k
        BY <1>1, <3>1
      <4> QED BY <3>1, <4>1, <1>1, SubSeqProperties
    <3>4. DOMAIN SubSeq(q, 1, L - k) = 1..(L - k)
      <4>1. SubSeq(q, 1, L - k) \in Seq(X)
        BY <1>1, <3>1, SubSeqProperties
      <4> QED BY <3>3, <4>1, LenProperties
    <3>5. \A i \in 1..(L - k) : i \in 1..L /\ i # L
      BY <1>1, <3>1
    <3>6. \A i \in 1..(L - k) : q[i] # q[L]
      BY <3>1, <3>5 DEF Distinct
    <3> QED BY <2>2, <3>2, <3>3, <3>4, <3>6 DEF Offline!Range
  <2> QED BY <2>3, <2>4
<1>3. CASE ~(L > k)
  BY <1>3 DEF Offline!Beyond, Oldest
<1> QED BY <1>2, <1>3

LEMMA UsedFits ==
  ASSUME NEW X, NEW q \in Seq(X), Distinct(q), NEW x \in X
  PROVE  /\ Offline!Used(x, q) \in Seq(X) /\ Distinct(Offline!Used(x, q))
         /\ \A a : Has(Offline!Used(x, q), a) <=> Has(q, a) \/ a = x
         /\ \A a, b : Earlier(Offline!Used(x, q), a, b) <=>
              a # x /\ ((b # x /\ Earlier(q, a, b)) \/ (b = x /\ Has(q, a)))
<1> DEFINE w == Offline!Without(q, {x})
<1>1. w \in Seq(X) /\ FilteredOf(q, w, {x})
  BY WithoutFits
<1>2. /\ Distinct(w)
      /\ \A a : Has(w, a) <=> Has(q, a) /\ a \notin {x}
      /\ \A a, b : Earlier(w, a, b) <=> Earlier(q, a, b) /\ a \notin {x} /\ b \notin {x}
  BY <1>1 DEF FilteredOf
<1>3. Offline!Used(x, q) = Append(w, x)
  BY DEF Offline!Used
<1> HIDE DEF w
<1>4. Append(w, x) \in Seq(X) /\ AppendedTo(w, Append(w, x), x)
  BY <1>1, <1>2, AppendFits
<1> QED BY <1>2, <1>3, <1>4 DEF AppendedTo

(* Some of q's keys, in q's order.                                         *)
PartOf(w, q) ==
  /\ \A a : Has(w, a) => Has(q, a)
  /\ \A a, b : Earlier(w, a, b) => Earlier(q, a, b)

LEMMA NoneTwiceIsShorter ==
  ASSUME NEW X, NEW q \in Seq(X), NEW w \in Seq(X), Distinct(w),
         \A a : Has(w, a) => Has(q, a)
  PROVE  Len(w) <= Len(q)
<1> DEFINE L == Len(q)
           M == Len(w)
           at == [i \in 1..M |-> CHOOSE j \in 1..L : q[j] = w[i]]
<1>1. L \in Nat /\ M \in Nat
  BY LenProperties
<1>2. \A i \in 1..M : \E j \in 1..L : q[j] = w[i]
  <2>1. \A i \in 1..M : Has(w, w[i])
    BY DEF Has
  <2> QED BY <2>1 DEF Has
<1>3. \A i \in 1..M : at[i] \in 1..L /\ q[at[i]] = w[i]
  BY <1>2
<1> HIDE DEF L, M
<1>4. at \in [1..M -> 1..L]
  BY <1>3
<1>5. IsFiniteSet(1..L) /\ Cardinality(1..L) = L /\ IsFiniteSet(1..M) /\ Cardinality(1..M) = M
  <2>1. 1 \in Int /\ L \in Int /\ M \in Int
    BY <1>1
  <2> QED BY <1>1, <2>1, FS_Interval
<1>6. ASSUME L < M PROVE FALSE
  <2> HIDE DEF at
  <2>1. PICK i \in 1..M, j \in 1..M : i # j /\ at[i] = at[j]
    <3>1. Cardinality(1..L) < Cardinality(1..M)
      BY <1>5, <1>6
    <3> QED BY <1>4, <1>5, <3>1, FS_PigeonHole
  <2>2. w[i] = w[j]
    BY <1>3, <2>1
  <2> QED BY <2>1, <2>2 DEF Distinct, M
<1> QED BY <1>1, <1>6 DEF L, M

LEMMA RestIsPart ==
  ASSUME NEW X, NEW q \in Seq(X), Distinct(q), NEW n \in 0..Len(q)
  PROVE  LET w == SubSeq(q, n + 1, Len(q))
         IN  w \in Seq(X) /\ Distinct(w) /\ PartOf(w, q)
<1> DEFINE L == Len(q)
           w == SubSeq(q, n + 1, L)
<1>1. L \in Nat /\ n \in 0..L /\ \A i \in 1..L : q[i] \in X
  BY LenProperties, ElementOfSeq
<1>2. w \in Seq(X) /\ Len(w) = L - n /\ \A i \in 1..(L - n) : w[i] = q[n + i]
  <2>1. n + 1 \in Int /\ L \in Int /\ \A i \in n + 1..L : i \in 1..L
    BY <1>1
  <2>2. \A i \in n + 1..L : q[i] \in X
    BY <1>1, <2>1
  <2>3. /\ w \in Seq(X)
        /\ Len(w) = IF n + 1 <= L THEN L - (n + 1) + 1 ELSE 0
        /\ \A i \in 1..(L - (n + 1) + 1) : w[i] = q[(n + 1) + i - 1]
    <3> HIDE DEF L
    <3> QED BY <2>1, <2>2, SubSeqProperties
  <2> HIDE DEF L, w
  <2>4. L - (n + 1) + 1 = L - n /\ (IF n + 1 <= L THEN L - (n + 1) + 1 ELSE 0) = L - n
    BY <1>1
  <2>5. \A i \in 1..(L - n) : (n + 1) + i - 1 = n + i
    BY <1>1
  <2> QED BY <2>3, <2>4, <2>5
<1> HIDE DEF w
<1>3. \A i \in 1..(L - n) : n + i \in 1..L
  BY <1>1
<1> HIDE DEF L
<1>4. Distinct(w)
  <2>1. ASSUME NEW i \in 1..(L - n), NEW j \in 1..(L - n), w[i] = w[j] PROVE i = j
    <3>1. n + i \in 1..L /\ n + j \in 1..L /\ q[n + i] = q[n + j]
      BY <1>2, <1>3, <2>1
    <3>2. n + i = n + j
      BY <3>1 DEF Distinct, L
    <3> QED BY <1>1, <3>2
  <2> QED BY <1>2, <2>1 DEF Distinct
<1>5. ASSUME NEW a, Has(w, a) PROVE Has(q, a)
  <2>1. PICK i \in 1..(L - n) : w[i] = a
    BY <1>2, <1>5 DEF Has
  <2> QED BY <1>2, <1>3, <2>1 DEF Has, L
<1>6. ASSUME NEW a, NEW b, Earlier(w, a, b) PROVE Earlier(q, a, b)
  <2>1. PICK i \in 1..(L - n), j \in 1..(L - n) : i < j /\ w[i] = a /\ w[j] = b
    BY <1>2, <1>6 DEF Earlier
  <2>2. n + i \in 1..L /\ n + j \in 1..L /\ n + i < n + j /\ q[n + i] = a /\ q[n + j] = b
    BY <1>1, <1>2, <1>3, <2>1
  <2> QED BY <2>2 DEF Earlier, L
<1>7. PartOf(w, q)
  BY <1>5, <1>6 DEF PartOf
<1> QED BY <1>2, <1>4, <1>7 DEF w, L

-----------------------------------------------------------------------------
(* What the replies st, the index ix and the use order u owe each other.   *)
Kept(st, ix, u) ==
  /\ st \subseteq CopiedKeys /\ ix \in Seq(CopiedKeys) /\ u \in Seq(CopiedKeys)
  /\ Distinct(ix) /\ Distinct(u)
  /\ \A a : a \in st \/ Has(ix, a) => Has(u, a)
  /\ \A a, b : Earlier(ix, a, b) => Earlier(u, a, b)
  /\ \A kept, gone : kept \in st /\ Has(ix, kept) /\ Has(u, gone) /\ gone \notin st
                     /\ Offline!SameScreen(kept, gone) => Earlier(u, gone, kept)

(* What goes was used before what stays of its screen.                     *)
OldestOfScreen(ix, out) ==
  \A gone \in out : Has(ix, gone) /\
    \A kept : Has(ix, kept) /\ kept \notin out /\ Offline!SameScreen(kept, gone) => Earlier(ix, gone, kept)

LEMMA GoesOldest ==
  ASSUME NEW st, NEW ix, NEW u, Kept(st, ix, u), NEW out, OldestOfScreen(ix, out)
  PROVE  Kept(st \ out, ix, u)
BY DEF Kept, OldestOfScreen

LEMMA KnowsFewer ==
  ASSUME NEW st, NEW ix, NEW u, Kept(st, ix, u),
         NEW w \in Seq(CopiedKeys), Distinct(w), PartOf(w, ix)
  PROVE  Kept(st, w, u)
BY DEF Kept, PartOf

LEMMA MovesToTheEnd ==
  ASSUME NEW st, NEW ix, NEW u, Kept(st, ix, u), NEW key \in CopiedKeys
  PROVE  Kept(st \cup {key}, Offline!Used(key, ix), Offline!Used(key, u))
<1> DEFINE w == Offline!Used(key, ix)
           v == Offline!Used(key, u)
<1>1. /\ w \in Seq(CopiedKeys) /\ Distinct(w)
      /\ \A a : Has(w, a) <=> Has(ix, a) \/ a = key
      /\ \A a, b : Earlier(w, a, b) <=>
           a # key /\ ((b # key /\ Earlier(ix, a, b)) \/ (b = key /\ Has(ix, a)))
  BY UsedFits DEF Kept
<1>2. /\ v \in Seq(CopiedKeys) /\ Distinct(v)
      /\ \A a : Has(v, a) <=> Has(u, a) \/ a = key
      /\ \A a, b : Earlier(v, a, b) <=>
           a # key /\ ((b # key /\ Earlier(u, a, b)) \/ (b = key /\ Has(u, a)))
  BY UsedFits DEF Kept
<1> HIDE DEF w, v
<1>3. st \cup {key} \subseteq CopiedKeys /\ \A a : a \in st \cup {key} \/ Has(w, a) => Has(v, a)
  BY <1>1, <1>2 DEF Kept
<1>4. \A a, b : Earlier(w, a, b) => Earlier(v, a, b)
  BY <1>1, <1>2 DEF Kept
<1>5. ASSUME NEW kept, NEW gone, kept \in st \cup {key}, Has(w, kept), Has(v, gone),
             gone \notin st \cup {key}, Offline!SameScreen(kept, gone)
      PROVE  Earlier(v, gone, kept)
  <2>1. gone # key /\ gone \notin st /\ Has(u, gone)
    BY <1>2, <1>5
  <2>2. CASE kept = key
    BY <1>2, <2>1, <2>2
  <2>3. CASE kept # key
    <3>1. kept \in st /\ Has(ix, kept)
      BY <1>1, <1>5, <2>3
    <3>2. Earlier(u, gone, kept)
      BY <1>5, <2>1, <3>1 DEF Kept
    <3> QED BY <1>2, <2>1, <2>3, <3>2
  <2> QED BY <2>2, <2>3
<1>6. Kept(st \cup {key}, w, v)
  BY <1>1, <1>2, <1>3, <1>4, <1>5 DEF Kept
<1> QED BY <1>6 DEF w, v

(* What goes beyond the limits: never the key just used.                   *)
LEMMA EvictsOldest ==
  ASSUME NEW q \in Seq(CopiedKeys), Distinct(q), NEW key \in CopiedKeys, Has(q, key),
         \A b : ~Earlier(q, key, b)
  PROVE  OldestOfScreen(q, Offline!Evicts(key, q)) /\ key \notin Offline!Evicts(key, q)
<1> DEFINE others == Offline!Range(q) \ LimitedKeys
           some == Offline!Without(q, others)
           cut == Offline!ScreenEvicts(key, q)
           left == Offline!Without(q, cut)
           rest == Offline!Beyond(left, AllKept)
<1>0. \A a : Has(q, a) => a \in Offline!Range(q)
  <2>1. DOMAIN q = 1..Len(q)
    BY LenProperties
  <2> QED BY <2>1 DEF Has, Offline!Range
<1>1. /\ some \in Seq(CopiedKeys) /\ Distinct(some)
      /\ \A a : Has(some, a) <=> Has(q, a) /\ a \notin others
      /\ \A a, b : Earlier(some, a, b) <=> Earlier(q, a, b) /\ a \notin others /\ b \notin others
  BY WithoutFits DEF FilteredOf
<1>2. Oldest(some, Offline!Beyond(some, LimitedKept))
      /\ \A a : Has(some, a) => \E b : Has(some, b) /\ b \notin Offline!Beyond(some, LimitedKept)
  BY <1>1, BeyondIsOldest, OfflineAssumption
<1>3. /\ left \in Seq(CopiedKeys) /\ Distinct(left)
      /\ \A a : Has(left, a) <=> Has(q, a) /\ a \notin cut
      /\ \A a, b : Earlier(left, a, b) <=> Earlier(q, a, b) /\ a \notin cut /\ b \notin cut
  BY WithoutFits DEF FilteredOf
<1>4. Oldest(left, rest)
      /\ \A a : Has(left, a) => \E b : Has(left, b) /\ b \notin rest
  BY <1>3, BeyondIsOldest, OfflineAssumption
<1>5. Offline!Evicts(key, q) = cut \cup rest
  BY DEF Offline!Evicts
<1>6. cut = IF key \in LimitedKeys THEN Offline!Beyond(some, LimitedKept) ELSE {}
  BY DEF Offline!ScreenEvicts
<1>7. \A a : Has(q, a) /\ a \notin others => a \in LimitedKeys
  BY <1>0
<1>7a. \A a : a \in LimitedKeys => a \notin others
  OBVIOUS
<1> HIDE DEF some, cut, left, rest, others
<1>8. ASSUME NEW gone \in cut
      PROVE  /\ Has(q, gone)
             /\ \A kept : Has(q, kept) /\ kept \notin cut /\ Offline!SameScreen(kept, gone) => Earlier(q, gone, kept)
  <2>1. cut = Offline!Beyond(some, LimitedKept)
    BY <1>6, <1>8
  <2>2. Has(some, gone)
    BY <1>2, <1>8, <2>1 DEF Oldest
  <2>3. Has(q, gone) /\ gone \in LimitedKeys
    BY <1>1, <1>7, <2>2
  <2>4. ASSUME NEW kept, Has(q, kept), kept \notin cut, Offline!SameScreen(kept, gone)
        PROVE  Earlier(q, gone, kept)
    <3>1. kept \in LimitedKeys
      BY <2>3, <2>4 DEF Offline!SameScreen
    <3>2. Has(some, kept)
      BY <1>1, <1>7a, <2>4, <3>1
    <3>3. Earlier(some, gone, kept)
      BY <1>2, <1>8, <2>1, <2>4, <3>2 DEF Oldest
    <3> QED BY <1>1, <3>3
  <2> QED BY <2>3, <2>4
<1>9. ASSUME NEW gone \in rest
      PROVE  /\ Has(q, gone)
             /\ \A kept : Has(q, kept) /\ kept \notin cut /\ kept \notin rest => Earlier(q, gone, kept)
  <2>1. Has(left, gone)
    BY <1>4 DEF Oldest
  <2>2. ASSUME NEW kept, Has(q, kept), kept \notin cut, kept \notin rest
        PROVE  Earlier(q, gone, kept)
    <3>1. Has(left, kept)
      BY <1>3, <2>2
    <3>2. Earlier(left, gone, kept)
      BY <1>4, <2>2, <3>1 DEF Oldest
    <3> QED BY <1>3, <3>2
  <2> QED BY <1>3, <2>1, <2>2
<1>10. OldestOfScreen(q, cut \cup rest)
  BY <1>8, <1>9 DEF OldestOfScreen
<1>11. key \notin cut
  <2> SUFFICES ASSUME key \in cut PROVE FALSE
    OBVIOUS
  <2>1. cut = Offline!Beyond(some, LimitedKept)
    BY <1>6
  <2>2. Has(some, key)
    BY <1>2, <2>1 DEF Oldest
  <2>3. PICK b : Has(some, b) /\ b \notin cut
    BY <1>2, <2>1, <2>2
  <2>4. Earlier(some, key, b)
    BY <1>2, <2>1, <2>3 DEF Oldest
  <2> QED BY <1>1, <2>4
<1>12. key \notin rest
  <2> SUFFICES ASSUME key \in rest PROVE FALSE
    OBVIOUS
  <2>1. Has(left, key)
    BY <1>4 DEF Oldest
  <2>2. PICK b : Has(left, b) /\ b \notin rest
    BY <1>4, <2>1
  <2>3. Earlier(left, key, b)
    BY <1>4, <2>2 DEF Oldest
  <2> QED BY <1>3, <2>3
<1> QED BY <1>5, <1>10, <1>11, <1>12

LEMMA FewerFit ==
  ASSUME NEW st, IsFiniteSet(st), NEW rest \in SUBSET st, NEW q \in Seq(CopiedKeys), Offline!Fits(st, q),
         NEW w \in Seq(CopiedKeys), Distinct(w), PartOf(w, q)
  PROVE  Offline!Fits(rest, w) /\ IsFiniteSet(rest)
<1>1. IsFiniteSet(rest) /\ Cardinality(rest) <= Cardinality(st)
  BY FS_Subset
<1>2. Len(w) <= Len(q) /\ Len(w) \in Nat /\ Len(q) \in Nat
  BY NoneTwiceIsShorter, LenProperties DEF PartOf
<1>3. Cardinality(rest) \in Nat /\ Cardinality(st) \in Nat
  BY <1>1, FS_CardinalityType
<1>4. Offline!Fits(rest, w)
  BY <1>1, <1>2, <1>3, OfflineAssumption, SameSizes DEF Offline!Fits
<1> QED BY <1>1, <1>4

(* What is kept, within the storage.                                       *)
KeptWithin(st, ix, u) == Kept(st, ix, u) /\ IsFiniteSet(st) /\ Offline!Fits(st, ix)

(* touch(), for a reply that has just been written or was there before.    *)
LEMMA TouchHolds ==
  ASSUME NEW st, NEW ix, NEW u, Kept(st, ix, u), IsFiniteSet(st), NEW key \in CopiedKeys,
         NEW s, s.store = st \cup {key}, s.index = ix, Offline!Fits(s.store, s.index)
  PROVE  LET t == Offline!Touches(key, s)
         IN  key \in t.store /\ KeptWithin(t.store, t.index, Offline!Used(key, u))
<1> DEFINE moved == Offline!Used(key, ix)
           gone == Offline!Evicts(key, moved)
           kept == s.store \ gone
           keys == Offline!Without(moved, gone)
           v == Offline!Used(key, u)
           t == Offline!Touches(key, s)
<1>1. ix \in Seq(CopiedKeys) /\ Distinct(ix)
  BY DEF Kept
<1>2. /\ moved \in Seq(CopiedKeys) /\ Distinct(moved)
      /\ \A a : Has(moved, a) <=> Has(ix, a) \/ a = key
      /\ \A a, b : Earlier(moved, a, b) <=>
           a # key /\ ((b # key /\ Earlier(ix, a, b)) \/ (b = key /\ Has(ix, a)))
  BY <1>1, UsedFits
<1>3. OldestOfScreen(moved, gone) /\ key \notin gone
  <2> HIDE DEF moved
  <2> QED BY <1>2, EvictsOldest
<1>4. t = IF Offline!Fits(kept, keys) THEN [store |-> kept, index |-> keys, ok |-> TRUE]
          ELSE [store |-> kept, index |-> ix, ok |-> FALSE]
  BY DEF Offline!Touches
<1>5. Kept(s.store, moved, v)
  BY MovesToTheEnd
<1>6. keys \in Seq(CopiedKeys) /\ Distinct(keys) /\ PartOf(keys, moved)
      /\ \A a : Has(keys, a) => Has(moved, a)
  BY <1>2, WithoutFits DEF FilteredOf, PartOf
<1>7. IsFiniteSet(s.store)
  BY FS_AddElement
<1> HIDE DEF moved, gone, keys, v, t
<1>8. Kept(kept, moved, v)
  BY <1>3, <1>5, GoesOldest
<1>9. key \in kept
  BY <1>3
<1>10. IsFiniteSet(kept) /\ Offline!Fits(kept, ix)
  <2>1. PartOf(ix, ix)
    BY DEF PartOf
  <2> QED BY <1>1, <1>7, <2>1, FewerFit
<1>11. CASE Offline!Fits(kept, keys)
  <2>1. t.store = kept /\ t.index = keys
    BY <1>4, <1>11
  <2>2. Kept(kept, keys, v)
    BY <1>6, <1>8, KnowsFewer
  <2> QED BY <1>9, <1>10, <1>11, <2>1, <2>2 DEF KeptWithin, t, v
<1>12. CASE ~Offline!Fits(kept, keys)
  <2>1. t.store = kept /\ t.index = ix
    BY <1>4, <1>12
  <2>2. ~Has(ix, key)
    <3> SUFFICES ASSUME Has(ix, key) PROVE FALSE
      OBVIOUS
    <3>1. \A a : Has(keys, a) => Has(ix, a)
      BY <1>2, <1>6
    <3>2. Len(keys) <= Len(ix)
      BY <1>1, <1>6, <3>1, NoneTwiceIsShorter
    <3>3. Len(keys) \in Nat /\ Len(ix) \in Nat /\ Cardinality(kept) \in Nat
      BY <1>1, <1>6, <1>10, LenProperties, FS_CardinalityType
    <3>4. Offline!Fits(kept, keys)
      BY <1>10, <3>2, <3>3, OfflineAssumption, SameSizes DEF Offline!Fits
    <3> QED BY <1>12, <3>4
  <2>3. \A a, b : Earlier(ix, a, b) => Has(ix, a) /\ Has(ix, b)
    BY DEF Earlier, Has
  <2>4. PartOf(ix, moved)
    BY <1>2, <2>2, <2>3 DEF PartOf
  <2>5. Kept(kept, ix, v)
    BY <1>1, <1>8, <2>4, KnowsFewer
  <2> QED BY <1>9, <1>10, <2>1, <2>5 DEF KeptWithin, t, v
<1> QED BY <1>11, <1>12

(* save(): what it leaves, before the key is touched.                      *)
LEMMA SaveHolds ==
  ASSUME KeptWithin(store, index, used), NEW key \in CopiedKeys
  PROVE  LET s == Offline!Saves(key)
         IN  \/ /\ s.ok /\ Offline!Fits(s.store, s.index)
                /\ \E st : s.store = st \cup {key} /\ IsFiniteSet(st) /\ Kept(st, s.index, used)
             \/ ~s.ok /\ key \notin s.store /\ KeptWithin(s.store, s.index, used)
<1> DEFINE n == Len(Offline!Dropping)
           rest == store \ Offline!Range(Offline!Dropping)
           keys == SubSeq(index, n + 1, Len(index))
           s == Offline!Saves(key)
<1>0. index \in Seq(CopiedKeys) /\ Distinct(index) /\ Kept(store, index, used) /\ IsFiniteSet(store)
      /\ Offline!Fits(store, index)
  BY DEF KeptWithin, Kept
<1>1. n \in 0..Len(index) /\ Offline!Dropping = SubSeq(index, 1, n)
  <2> DEFINE d == IF Len(index) < Dropped THEN Len(index) ELSE Dropped
  <2>1. d \in 0..Len(index) /\ d \in Nat
    BY <1>0, LenProperties, OfflineAssumption
  <2>2. Offline!Dropping = SubSeq(index, 1, d)
    BY DEF Offline!Dropping
  <2> HIDE DEF d
  <2>3. \A i \in 1..d : index[i] \in CopiedKeys
    <3>1. \A i \in 1..d : i \in 1..Len(index)
      BY <1>0, <2>1, LenProperties
    <3> QED BY <1>0, <3>1, ElementOfSeq
  <2>4. Len(SubSeq(index, 1, d)) = d
    <3>1. Len(SubSeq(index, 1, d)) = IF 1 <= d THEN d - 1 + 1 ELSE 0
      BY <2>1, <2>3, SubSeqProperties
    <3> QED BY <2>1, <3>1
  <2> QED BY <2>1, <2>2, <2>4
<1>2. s = IF Offline!Fits(store \cup {key}, index)
          THEN [store |-> store \cup {key}, index |-> index, ok |-> TRUE]
          ELSE IF Offline!Fits(rest \cup {key}, keys)
          THEN [store |-> rest \cup {key}, index |-> keys, ok |-> TRUE]
          ELSE [store |-> rest, index |-> keys, ok |-> FALSE]
  BY DEF Offline!Saves
<1>3. Oldest(index, Offline!Range(Offline!Dropping))
  BY <1>0, <1>1, FirstAreOldest
<1>4. OldestOfScreen(index, Offline!Range(Offline!Dropping))
  BY <1>3 DEF Oldest, OldestOfScreen
<1>5. keys \in Seq(CopiedKeys) /\ Distinct(keys) /\ PartOf(keys, index)
  BY <1>0, <1>1, RestIsPart
<1>6. Kept(rest, keys, used)
  <2> HIDE DEF keys
  <2>1. Kept(rest, index, used)
    BY <1>0, <1>4, GoesOldest
  <2> QED BY <1>5, <2>1, KnowsFewer
<1>7. IsFiniteSet(rest) /\ Offline!Fits(rest, keys)
  <2> HIDE DEF keys
  <2> QED BY <1>0, <1>5, FewerFit
<1> HIDE DEF rest, keys, s, n
<1>8. CASE Offline!Fits(store \cup {key}, index)
  <2>1. s.ok /\ s.store = store \cup {key} /\ s.index = index
    BY <1>2, <1>8
  <2> QED BY <1>0, <1>8, <2>1 DEF s
<1>9. CASE ~Offline!Fits(store \cup {key}, index) /\ Offline!Fits(rest \cup {key}, keys)
  <2>1. s.ok /\ s.store = rest \cup {key} /\ s.index = keys
    BY <1>2, <1>9
  <2> QED BY <1>6, <1>7, <1>9, <2>1 DEF s
<1>10. CASE ~Offline!Fits(store \cup {key}, index) /\ ~Offline!Fits(rest \cup {key}, keys)
  <2>1. ~s.ok /\ s.store = rest /\ s.index = keys
    BY <1>2, <1>10
  <2>2. key \notin store
    <3> SUFFICES ASSUME key \in store PROVE FALSE
      OBVIOUS
    <3>1. store \cup {key} = store
      OBVIOUS
    <3> QED BY <1>0, <1>10, <3>1
  <2>3. key \notin rest
    BY <2>2 DEF rest
  <2> QED BY <1>6, <1>7, <2>1, <2>3 DEF s, KeptWithin
<1> QED BY <1>8, <1>9, <1>10

LEMMA NothingIsHeld == KeptWithin({}, << >>, << >>)
<1>1. << >> \in Seq(CopiedKeys) /\ Len(<< >>) = 0
  OBVIOUS
<1>2. \A a, b : ~Has(<< >>, a) /\ ~Earlier(<< >>, a, b)
  BY <1>1 DEF Has, Earlier
<1>3. Distinct(<< >>)
  BY <1>1 DEF Distinct
<1>4. IsFiniteSet({}) /\ Cardinality({}) = 0
  BY FS_EmptySet
<1>5. Offline!Fits({}, << >>)
  BY <1>1, <1>4, OfflineAssumption, SameSizes DEF Offline!Fits
<1> QED BY <1>1, <1>2, <1>3, <1>4, <1>5 DEF KeptWithin, Kept

LEMMA CopyStepHolds ==
  ASSUME KeptWithin(store, index, used), [Offline!Next]_(Offline!ovars)
  PROVE  KeptWithin(store, index, used)'
<1>1. ASSUME NEW key \in CopiedKeys, Offline!Remember(key) PROVE KeptWithin(store, index, used)'
  <2> DEFINE s == Offline!Saves(key)
             t == Offline!Touches(key, s)
  <2>1. CASE s.ok
    <3>1. PICK st : s.store = st \cup {key} /\ IsFiniteSet(st) /\ Kept(st, s.index, used)
      BY <2>1, SaveHolds
    <3>2. Offline!Fits(s.store, s.index)
      BY <2>1, SaveHolds
    <3>3. key \in t.store /\ KeptWithin(t.store, t.index, Offline!Used(key, used))
      <4> HIDE DEF s
      <4> QED BY <3>1, <3>2, TouchHolds
    <3>4. Offline!Becomes(t, key)
      BY <1>1, <2>1 DEF Offline!Remember
    <3> HIDE DEF t
    <3> QED BY <3>3, <3>4 DEF Offline!Becomes, Offline!Used
  <2>2. CASE ~s.ok
    <3>1. key \notin s.store /\ KeptWithin(s.store, s.index, used)
      BY <2>2, SaveHolds
    <3>2. Offline!Becomes(s, key)
      BY <1>1, <2>2 DEF Offline!Remember
    <3> HIDE DEF s
    <3> QED BY <3>1, <3>2 DEF Offline!Becomes
  <2> QED BY <2>1, <2>2
<1>2. ASSUME NEW key \in CopiedKeys, Offline!Recall(key) PROVE KeptWithin(store, index, used)'
  <2> DEFINE s == [store |-> store, index |-> index]
             t == Offline!Touches(key, s)
  <2>1. key \in store /\ Offline!Becomes(t, key)
    BY <1>2 DEF Offline!Recall
  <2>2. s.store = store \cup {key} /\ s.index = index /\ Offline!Fits(s.store, s.index)
    BY <2>1 DEF KeptWithin
  <2>3. key \in t.store /\ KeptWithin(t.store, t.index, Offline!Used(key, used))
    <3>1. Kept(store, index, used) /\ IsFiniteSet(store)
      BY DEF KeptWithin
    <3> HIDE DEF s
    <3> QED BY <2>2, <3>1, TouchHolds
  <2> HIDE DEF t
  <2> QED BY <2>1, <2>3 DEF Offline!Becomes, Offline!Used
<1>3. CASE Offline!ForgetAll
  BY <1>3, NothingIsHeld DEF Offline!ForgetAll
<1>4. CASE UNCHANGED Offline!ovars
  BY <1>4 DEF Offline!ovars
<1> QED BY <1>1, <1>2, <1>3, <1>4 DEF Offline!Next

LEMMA HeldAreRecent ==
  ASSUME KeptWithin(store, index, used)
  PROVE  Offline!KeptAreRecent
<1> SUFFICES ASSUME NEW kept \in store \cap Offline!Range(index), NEW gone \in Offline!Range(used) \ store,
                    Offline!SameScreen(kept, gone)
             PROVE  Offline!LastUse(kept) > Offline!LastUse(gone)
  BY DEF Offline!KeptAreRecent
<1>1. index \in Seq(CopiedKeys) /\ used \in Seq(CopiedKeys) /\ Distinct(used) /\ Kept(store, index, used)
  BY DEF KeptWithin, Kept
<1>2. DOMAIN index = 1..Len(index) /\ DOMAIN used = 1..Len(used) /\ Len(used) \in Nat
  BY <1>1, LenProperties
<1>3. Has(index, kept) /\ Has(used, gone)
  BY <1>2 DEF Has, Offline!Range
<1>4. Earlier(used, gone, kept)
  BY <1>1, <1>3 DEF Kept
<1>5. PICK i \in 1..Len(used), j \in 1..Len(used) : i < j /\ used[i] = gone /\ used[j] = kept
  BY <1>4 DEF Earlier
<1>6. \A m \in 1..Len(used) : Offline!LastUse(used[m]) = m
  BY <1>1, <1>2 DEF Offline!LastUse, Distinct
<1> QED BY <1>2, <1>5, <1>6

(* Among the replies the offline index knows, a screen keeps those used    *)
(* last, whatever was kept, found, dropped or refused by a full storage    *)
(* before (native/offlineCache.js).                                        *)
THEOREM TheLatestAreKept == PortfolioSpec => []KeptAreRecent
<1> DEFINE I == part = "offline" => KeptWithin(store, index, used)
           all == <<part, vars, sessionVars, offlineVars, homeVars, screenVars, panelVars>>
<1>1. PortfolioInit => I
  BY NothingIsHeld DEF PortfolioInit, Offline!Init
<1>2. I /\ [PortfolioNext]_all => I'
  <2> SUFFICES ASSUME I, [PortfolioNext]_all, part' = "offline"
               PROVE  KeptWithin(store, index, used)'
    OBVIOUS
  <2>1. part = "offline" /\ (Offline!Next \/ UNCHANGED offlineVars)
    BY DEF PortfolioNext, ReplaysMove, SessionMoves, OfflineMoves, DashboardMoves, ScreensMove, AnalystMoves,
           OthersWait
  <2>2. [Offline!Next]_(Offline!ovars)
    BY <2>1 DEF offlineVars, Offline!ovars
  <2>3. KeptWithin(store, index, used)
    BY <2>1
  <2> QED BY <2>2, <2>3, CopyStepHolds
<1>3. I => KeptAreRecent
  BY HeldAreRecent DEF KeptAreRecent
<1> QED BY <1>1, <1>2, <1>3, PTL DEF PortfolioSpec

-----------------------------------------------------------------------------
(* The analyst panel.                                                      *)
PanelTypes ==
  /\ now \in Int /\ skew \in Int /\ made \in Int \cup {None}
  /\ panel \in Panels \cup {None} /\ asking \in Asks \cup {None}

(* Nothing is from the future: the panel's clock is the device's or behind *)
(* it, and a report was made before it is answered.                        *)
NotAhead ==
  /\ made # None => made <= now
  /\ panel # None => panel.clock <= now + skew
  /\ asking # None /\ asking.answer # None /\ asking.answer.made # None => asking.answer.made <= now

(* A report made for this panel tells how far the clock is ahead.          *)
OffsetCovers ==
  panel # None /\ panel.result # None /\ ~panel.result.report.cached =>
    panel.result.offset = Cap \/ panel.result.offset >= skew

(* A request belongs to a panel, and only a first load has no report yet;  *)
(* too soon is an answer to a refresh.                                     *)
AsksOfPanel ==
  asking # None =>
    /\ panel # None
    /\ asking.kind # "load" => panel.result # None
    /\ asking.answer # None /\ asking.answer.made = None => asking.kind = "refresh"

PanelInv == PanelTypes /\ NotAhead /\ OffsetCovers /\ AsksOfPanel /\ Analyst!WaitsForAnswer

LEMMA MaxOfTwo ==
  ASSUME NEW a \in Int, NEW b \in Int
  PROVE  Analyst!Max({a, b}) = IF a >= b THEN a ELSE b
<1> DEFINE m == IF a >= b THEN a ELSE b
<1>1. m \in {a, b} /\ \A y \in {a, b} : m >= y
  OBVIOUS
<1>2. \A x \in {a, b} : (\A y \in {a, b} : x >= y) => x = m
  OBVIOUS
<1> QED BY <1>1, <1>2 DEF Analyst!Max

LEMMA MinOfTwo ==
  ASSUME NEW a \in Int, NEW b \in Int
  PROVE  Analyst!Min({a, b}) = IF a <= b THEN a ELSE b
<1> DEFINE m == IF a <= b THEN a ELSE b
<1>1. m \in {a, b} /\ \A y \in {a, b} : m <= y
  OBVIOUS
<1>2. \A x \in {a, b} : (\A y \in {a, b} : x <= y) => x = m
  OBVIOUS
<1> QED BY <1>1, <1>2 DEF Analyst!Min

(* clockOffset: a report received no earlier than it was made shows at     *)
(* least the skew, up to the cap.                                          *)
LEMMA OffsetOfReport ==
  ASSUME PanelConstants, NEW report \in [made : Int, cached : BOOLEAN], NEW at \in Int
  PROVE  /\ Analyst!ClockOffset(report, at) \in Int
         /\ ~report.cached => Analyst!ClockOffset(report, at) = Cap \/ Analyst!ClockOffset(report, at) >= at - report.made
<1> DEFINE late == IF 0 >= at - report.made THEN 0 ELSE at - report.made
<1>1. late \in Int /\ late >= at - report.made /\ at - report.made \in Int /\ Cap \in Int
  BY DEF PanelConstants
<1>2. Analyst!Max({0, at - report.made}) = late
  BY <1>1, MaxOfTwo
<1>3. Analyst!Min({late, Cap}) = IF late <= Cap THEN late ELSE Cap
  <2> HIDE DEF late
  <2> QED BY <1>1, MinOfTwo
<1>4. Analyst!ClockOffset(report, at) = IF report.cached THEN 0 ELSE IF late <= Cap THEN late ELSE Cap
  BY <1>2, <1>3 DEF Analyst!ClockOffset
<1> HIDE DEF late
<1> QED BY <1>1, <1>4

LEMMA InitPanelInv ==
  ASSUME PanelConstants
  PROVE  Analyst!Init => PanelInv
BY DEF PanelConstants, Analyst!Init, PanelInv, PanelTypes, NotAhead, OffsetCovers, AsksOfPanel, Analyst!WaitsForAnswer

(* A request goes out for the panel.                                       *)
LEMMA LoadAsks ==
  ASSUME NEW kind \in {"load", "refresh", "latest"}, Analyst!Load(kind)
  PROVE  asking' \in Asks /\ asking'.kind = kind /\ asking'.answer = None
BY DEF Analyst!Load, Asks

LEMMA StepPanelInv ==
  ASSUME PanelConstants, PanelInv, Analyst!Next
  PROVE  PanelInv'
<1> USE DEF PanelConstants, PanelInv, PanelTypes, NotAhead, OffsetCovers, AsksOfPanel, Analyst!WaitsForAnswer,
            Analyst!Loading
<1>1. CASE Analyst!Open
  <2>1. panel' \in Panels /\ panel'.result = None /\ panel'.clock = now + skew
    BY <1>1 DEF Analyst!Open, Analyst!Mounted, Analyst!DeviceNow, Panels
  <2>2. asking' \in Asks /\ asking'.kind = "load" /\ asking'.answer = None
    BY <1>1, LoadAsks DEF Analyst!Open
  <2> QED BY <1>1, <2>1, <2>2 DEF Analyst!Open
<1>2. CASE Analyst!Close
  BY <1>2 DEF Analyst!Close
<1>3. CASE Analyst!Retry
  <2>1. panel' \in Panels /\ panel'.result = None /\ panel'.clock = panel.clock
    BY <1>3 DEF Analyst!Retry, Panels
  <2>2. asking' \in Asks /\ asking'.kind = "load" /\ asking'.answer = None
    BY <1>3, LoadAsks DEF Analyst!Retry
  <2> QED BY <1>3, <2>1, <2>2 DEF Analyst!Retry
<1>4. CASE Analyst!Refresh
  <2>1. panel' \in Panels /\ panel'.result = panel.result /\ panel'.result # None /\ panel'.clock = panel.clock
    BY <1>4 DEF Analyst!Refresh, Analyst!Offered, Panels
  <2>2. asking' \in Asks /\ asking'.kind = "refresh" /\ asking'.answer = None
    BY <1>4, LoadAsks DEF Analyst!Refresh
  <2> QED BY <1>4, <2>1, <2>2 DEF Analyst!Refresh
<1>5. CASE Analyst!Serve
  <2>1. PICK answer : asking' = [asking EXCEPT !.answer = answer]
                      /\ \/ Analyst!TooSoon /\ answer = [made |-> None, cached |-> FALSE] /\ UNCHANGED made
                         \/ made # None /\ answer = [made |-> made, cached |-> TRUE] /\ UNCHANGED made
                         \/ answer = [made |-> now, cached |-> FALSE] /\ made' = now
    BY <1>5 DEF Analyst!Serve
  <2>2. answer \in Answers /\ (answer.made # None => answer.made <= now) /\ (answer.made = None => asking.kind = "refresh")
    <3>1. CASE Analyst!TooSoon /\ answer = [made |-> None, cached |-> FALSE]
      BY <3>1 DEF Answers, Analyst!TooSoon
    <3>2. CASE made # None /\ answer = [made |-> made, cached |-> TRUE]
      BY <3>2 DEF Answers
    <3>3. CASE answer = [made |-> now, cached |-> FALSE]
      BY <3>3 DEF Answers
    <3> QED BY <2>1, <3>1, <3>2, <3>3
  <2>3. asking' \in Asks /\ asking'.kind = asking.kind /\ asking'.answer = answer
    BY <1>5, <2>1, <2>2 DEF Analyst!Serve, Asks
  <2>4. made' \in Int \cup {None} /\ (made' # None => made' <= now)
    BY <2>1
  <2> QED BY <1>5, <2>2, <2>3, <2>4 DEF Analyst!Serve
<1>6. CASE Analyst!MadeElsewhere
  BY <1>6 DEF Analyst!MadeElsewhere
<1>7. CASE Analyst!Arrive
  <2>1. CASE asking.answer.made = None
    <3>1. asking' \in Asks /\ asking'.kind = "latest" /\ asking'.answer = None
      BY <1>7, <2>1, LoadAsks DEF Analyst!Arrive
    <3>2. asking.kind = "refresh" /\ panel # None /\ panel.result # None
      BY <1>7, <2>1 DEF Analyst!Arrive
    <3> QED BY <1>7, <2>1, <3>1, <3>2 DEF Analyst!Arrive
  <2>2. CASE asking.answer.made # None
    <3>1. PICK report : report = asking.answer
      OBVIOUS
    <3>2. report \in [made : Int, cached : BOOLEAN] /\ report.made <= now
      BY <1>7, <2>2, <3>1 DEF Analyst!Arrive, Asks, Answers
    <3>3. PICK offset : offset = Analyst!ClockOffset(report, now + skew)
      OBVIOUS
    <3>4. offset \in Int /\ (~report.cached => offset = Cap \/ offset >= skew)
      <4>1. now + skew \in Int
        OBVIOUS
      <4>2. offset \in Int /\ (~report.cached => offset = Cap \/ offset >= (now + skew) - report.made)
        BY <3>2, <3>3, <4>1, OffsetOfReport
      <4> QED BY <3>2, <4>2
    <3>5. panel' = [[panel EXCEPT !.result = [report |-> report, offset |-> offset],
                                  !.error = FALSE, !.clock = now + skew] EXCEPT !.refreshing = FALSE]
          /\ asking' = None /\ UNCHANGED <<now, skew, made>>
      BY <1>7, <2>2, <3>1, <3>3 DEF Analyst!Arrive, Analyst!WithReport, Analyst!DeviceNow
    <3>6. PICK result : result = [report |-> report, offset |-> offset]
      OBVIOUS
    <3>7. result \in Results /\ result.report = report /\ result.offset = offset
      BY <3>2, <3>4, <3>6 DEF Results
    <3>8. panel \in Panels
      BY <1>7 DEF Analyst!Arrive
    <3>9. PICK at \in Int : at = now + skew
      OBVIOUS
    <3>10. panel' = [panel EXCEPT !.result = result, !.error = FALSE, !.clock = at, !.refreshing = FALSE]
      BY <3>5, <3>6, <3>8, <3>9 DEF Panels
    <3>11. panel' \in Panels /\ panel'.result = result /\ panel'.clock = at /\ ~panel'.refreshing
      BY <3>7, <3>8, <3>10 DEF Panels
    <3> QED BY <3>4, <3>5, <3>7, <3>9, <3>11
  <2> QED BY <2>1, <2>2
<1>8. CASE Analyst!Fail
  <2>1. panel' \in Panels /\ panel'.result = panel.result /\ panel'.clock = panel.clock /\ ~panel'.refreshing
        /\ panel'.error = (asking.kind = "load")
    BY <1>8 DEF Analyst!Fail, Panels
  <2> QED BY <1>8, <2>1 DEF Analyst!Fail
<1>9. CASE Analyst!SeeTime
  <2>1. panel' \in Panels /\ panel'.result = panel.result /\ panel'.clock = now + skew
        /\ panel'.refreshing = panel.refreshing /\ panel'.error = panel.error
    BY <1>9 DEF Analyst!SeeTime, Analyst!DeviceNow, Panels
  <2> QED BY <1>9, <2>1 DEF Analyst!SeeTime
<1>10. CASE Analyst!Tick
  <2>1. panel # None => panel.clock \in Int
    BY DEF Panels
  <2>2. asking # None /\ asking.answer # None => asking.answer.made \in Int \cup {None}
    BY DEF Asks, Answers
  <2> QED BY <1>10, <2>1, <2>2 DEF Analyst!Tick
<1> QED BY <1>1, <1>2, <1>3, <1>4, <1>5, <1>6, <1>7, <1>8, <1>9, <1>10 DEF Analyst!Next

(* What the button, the age and the wait say follows.                      *)
LEMMA PanelInvSafe ==
  ASSUME PanelConstants, PanelInv
  PROVE  Analyst!ButtonKeepsItsWord
<1>1. ASSUME panel # None, panel.result # None
      PROVE  /\ panel.clock \in Int /\ panel.result.report.made \in Int /\ panel.result.offset \in Int
             /\ panel.clock <= now + skew /\ now \in Int /\ skew \in Int /\ Cooldown \in Int
  BY <1>1 DEF PanelConstants, PanelInv, PanelTypes, NotAhead, Panels, Results
<1> DEFINE made_ == panel.result.report.made
           offset == panel.result.offset
<1>2. Analyst!NotOfferedEarly
  <2> SUFFICES ASSUME panel # None, Analyst!Offered(panel), ~panel.result.report.cached, offset # Cap
               PROVE  now >= Analyst!RefreshAvailableAt(panel.result.report)
    BY DEF Analyst!NotOfferedEarly
  <2>1. panel.result # None /\ Analyst!Countdown(panel) = 0
    BY DEF Analyst!Offered
  <2>2. panel.clock >= made_ + Cooldown + offset
    BY <1>1, <2>1 DEF Analyst!Countdown, Analyst!RefreshAt, Analyst!RefreshAvailableAt
  <2>3. offset >= skew
    BY <2>1 DEF PanelInv, OffsetCovers
  <2> QED BY <1>1, <2>1, <2>2, <2>3 DEF Analyst!RefreshAvailableAt
<1>3. Analyst!AgesAddUp
  <2> SUFFICES ASSUME panel # None, Analyst!Body(panel) = "report", ~Analyst!Offered(panel), ~panel.refreshing
               PROVE  Analyst!Header(panel).age + Analyst!Header(panel).wait >= Cooldown
    BY DEF Analyst!AgesAddUp
  <2>1. panel.result # None
    BY DEF Analyst!Body, Analyst!Loading
  <2>2. Analyst!Countdown(panel) = made_ + Cooldown + offset - panel.clock
    BY <1>1, <2>1 DEF Analyst!Offered, Analyst!Countdown, Analyst!RefreshAt, Analyst!RefreshAvailableAt
  <2>3. Analyst!Age(panel) \in Int /\ Analyst!Age(panel) >= panel.clock - offset - made_
    <3>1. panel.clock - offset - made_ \in Int
      BY <1>1, <2>1
    <3>2. Analyst!Max({0, panel.clock - offset - made_})
            = IF 0 >= panel.clock - offset - made_ THEN 0 ELSE panel.clock - offset - made_
      BY <3>1, MaxOfTwo
    <3> QED BY <3>1, <3>2 DEF Analyst!Age
  <2>4. Analyst!Header(panel).age = Analyst!Age(panel) /\ Analyst!Header(panel).wait = Analyst!Countdown(panel)
    BY DEF Analyst!Header
  <2> QED BY <1>1, <2>1, <2>2, <2>3, <2>4
<1> QED BY <1>2, <1>3 DEF PanelInv, Analyst!ButtonKeepsItsWord

(* The Refresh button of the analyst panel never promises what the server  *)
(* would refuse, counts down beside an age it agrees with, and is never    *)
(* left spinning (clockOffset, useAnalystReport).                          *)
THEOREM TheButtonKeepsItsWord == PortfolioSpec => []ButtonKeepsItsWord
<1> USE PanelAssumption
<1> DEFINE I == part = "analyst" => PanelInv
<1>1. PortfolioInit => I
  BY InitPanelInv DEF PortfolioInit
<1>2. I /\ [PortfolioNext]_<<part, vars, sessionVars, offlineVars, homeVars, screenVars, panelVars>> => I'
  <2> SUFFICES ASSUME I, [PortfolioNext]_<<part, vars, sessionVars, offlineVars, homeVars, screenVars, panelVars>>, part' = "analyst"
               PROVE  PanelInv'
    OBVIOUS
  <2>1. part = "analyst" /\ (Analyst!Next \/ UNCHANGED panelVars)
    BY DEF PortfolioNext, ReplaysMove, SessionMoves, OfflineMoves, DashboardMoves, ScreensMove, AnalystMoves,
           OthersWait
  <2>2. CASE UNCHANGED panelVars
    BY <2>1, <2>2 DEF panelVars, PanelInv, PanelTypes, NotAhead, OffsetCovers, AsksOfPanel, Analyst!WaitsForAnswer,
                      Analyst!Loading
  <2> QED BY <2>1, <2>2, StepPanelInv
<1>3. I => ButtonKeepsItsWord
  BY PanelInvSafe DEF ButtonKeepsItsWord
<1> QED BY <1>1, <1>2, <1>3, PTL DEF PortfolioSpec

-----------------------------------------------------------------------------
(* The dashboard.                                                          *)
Loads ==
  [number : Nat, key : Home!Keys, who : Home!Who, made : Nat \cup {None}, under : Nat, ignored : BOOLEAN,
   mounted : BOOLEAN]

(* The user's setting as the pages know it is one the account has made.    *)
KnownRight(c) == c \in 0..MaxCurrency \cup {None} /\ (c # None => c <= currencies[session.who])

HomeTypes ==
  /\ session \in [number : 0..1, who : Home!Who] /\ (session.number = 0 => session.who = 0)
  /\ currencies \in [Home!Who -> 0..MaxCurrency]
  /\ cache \in [Home!Keys -> SavedEntries \cup {None}]
  /\ KnownRight(known)
  /\ page \in Boards \cup {None}
  /\ loads \subseteq Loads
  /\ loadsAsked \in Nat /\ minute \in Nat

(* Whose the n-th token is.                                                *)
Owner(n) == IF n = 0 THEN 0 ELSE session.who

(* An entry under a key is of the account whose token the key names, and   *)
(* of the setting it was asked under, whose currency is the key's, or of a *)
(* later one.                                                              *)
Right(entry, key) ==
  /\ key.session <= session.number
  /\ entry.who = Owner(key.session)
  /\ entry.currency = key.currency
  /\ entry.made >= entry.under
  /\ entry.made = entry.under => Home!CurrencyOf(entry.who, entry.made) = key.currency

(* What the page has loaded is of who is signed in.                        *)
PageRight(p) ==
  \A k \in Home!Keys : p.loaded[k] # None => Right(p.loaded[k], k) /\ p.loaded[k].who = session.who

LoadRight(l) ==
  /\ l.key.session <= session.number
  /\ l.who = Owner(l.key.session)
  /\ l.under <= currencies[l.who]
  /\ Home!CurrencyOf(l.who, l.under) = l.key.currency
  /\ l.made # None => l.made >= l.under
  /\ l.mounted => l.who = session.who

CacheRight == \A k \in Home!Keys : cache[k] # None => Right(cache[k].entry, k)

HomeInv ==
  /\ HomeTypes
  /\ CacheRight
  /\ page # None => PageRight(page)
  /\ \A l \in loads : LoadRight(l) /\ (l.mounted => page # None)

LEMMA OpenedPage ==
  ASSUME HomeConstants, HomeTypes
  PROVE  Home!Opened \in Boards /\ PageRight(Home!Opened)
<1>1. (CHOOSE r \in HomeRanges : TRUE) \in HomeRanges
  BY DEF HomeConstants
<1>2. Home!Opened \in Boards
  BY <1>1 DEF HomeTypes, Home!Opened, Boards
<1>3. \A k \in Home!Keys : Home!Opened.loaded[k] = None
  BY DEF Home!Opened
<1> QED BY <1>2, <1>3 DEF PageRight

LEMMA KeyOfPage ==
  ASSUME HomeConstants, HomeTypes, NEW c, KnownRight(c), NEW p \in Boards
  PROVE  /\ Home!KeyIn(c, p) \in Home!Keys \cup {None}
         /\ Home!KeyIn(c, p) # None =>
              /\ c \in Nat /\ Home!KeyIn(c, p).session = session.number
              /\ Home!KeyIn(c, p).currency = Home!CurrencyOf(session.who, c)
<1>1. session.number \in 0..1 /\ session.who \in Home!Who /\ p.range \in HomeRanges
  BY DEF HomeTypes, Boards
<1>2. c # None => c \in Nat /\ Home!CurrencyOf(session.who, c) \in HomeCurrencies
  BY <1>1 DEF KnownRight, HomeConstants, Home!CurrencyOf
<1> HIDE DEF Home!CurrencyOf
<1>3. Home!KeyIn(c, p) # None =>
        /\ c # None
        /\ Home!KeyIn(c, p) = [session |-> session.number, currency |-> Home!CurrencyOf(session.who, c),
                              range |-> p.range]
  BY DEF Home!KeyIn
<1> QED BY <1>1, <1>2, <1>3 DEF Home!Keys

LEMMA InitHomeInv ==
  ASSUME HomeConstants
  PROVE  Home!Init => HomeInv
<1> SUFFICES ASSUME Home!Init PROVE HomeInv
  OBVIOUS
<1>1. session \in [number : 0..1, who : Home!Who] /\ session.number = 0 /\ session.who = 0
  BY DEF Home!Init, Home!Who
<1>2. (CHOOSE r \in HomeRanges : TRUE) \in HomeRanges
  BY DEF HomeConstants
<1>3. page \in Boards /\ \A k \in Home!Keys : page.loaded[k] = None
  BY <1>2 DEF Home!Init, Home!Opened, Boards
<1> QED BY <1>1, <1>3 DEF HomeConstants, Home!Init, Home!Who, HomeInv, HomeTypes, KnownRight, CacheRight, PageRight

(* Fewer flags on the loads on their way make nothing wrong.               *)
LEMMA FlagsGone ==
  ASSUME NEW l \in Loads, NEW k \in Loads,
         k = [l EXCEPT !.ignored = TRUE] \/ k = [l EXCEPT !.mounted = FALSE, !.ignored = TRUE]
  PROVE  LoadRight(l) => LoadRight(k)
BY DEF Loads, LoadRight

LEMMA LeftLoads ==
  ASSUME HomeInv
  PROVE  /\ Home!Left \subseteq Loads /\ \A l \in Home!Left : LoadRight(l)
         /\ Home!Gone \subseteq Loads /\ \A l \in Home!Gone : LoadRight(l) /\ ~l.mounted
<1>1. loads \subseteq Loads /\ \A l \in loads : LoadRight(l)
  BY DEF HomeInv, HomeTypes
<1>2. ASSUME NEW l \in Home!Left PROVE l \in Loads /\ LoadRight(l)
  <2>1. PICK m \in loads : l = [m EXCEPT !.ignored = TRUE]
    BY DEF Home!Left
  <2>2. l \in Loads
    BY <1>1, <2>1 DEF Loads
  <2> QED BY <1>1, <2>1, <2>2, FlagsGone
<1>3. ASSUME NEW l \in Home!Gone PROVE l \in Loads /\ LoadRight(l) /\ ~l.mounted
  <2>1. PICK m \in loads : l = [m EXCEPT !.mounted = FALSE, !.ignored = TRUE]
    BY DEF Home!Gone
  <2>2. l \in Loads /\ ~l.mounted
    BY <1>1, <2>1 DEF Loads
  <2> QED BY <1>1, <2>1, <2>2, FlagsGone
<1> QED BY <1>2, <1>3

(* The effect starts loads of who is signed in, under a setting the        *)
(* account has made.                                                       *)
LEMMA RenderKeeps ==
  ASSUME HomeConstants, HomeInv, NEW c, KnownRight(c), NEW p \in Boards, PageRight(p),
         Home!Render(Home!KeyIn(c, p), p, c), UNCHANGED <<session, currencies, cache, minute>>,
         KnownRight(known')
  PROVE  HomeInv'
<1> DEFINE key == Home!KeyIn(c, p)
<1>1. key \in Home!Keys \cup {None}
      /\ (key # None => c \in Nat /\ key.session = session.number /\ key.currency = Home!CurrencyOf(session.who, c))
  BY KeyOfPage DEF HomeInv
<1>2. session.number \in 0..1 /\ session.who \in Home!Who /\ (session.number = 0 => session.who = 0)
      /\ loadsAsked \in Nat
  BY DEF HomeInv, HomeTypes
<1> HIDE DEF key
<1>3. CASE Home!NeedsLoad(key, p)
  <2>1. key # None /\ key \in Home!Keys
    BY <1>1, <1>3 DEF Home!NeedsLoad
  <2>2. PICK new : new = [number |-> loadsAsked, key |-> key, who |-> session.who, made |-> None,
                          under |-> c, ignored |-> FALSE, mounted |-> TRUE]
    OBVIOUS
  <2>3. page' = [p EXCEPT !.fetched[key] = p.refresh] /\ loads' = Home!Left \cup {new} /\ loadsAsked' = loadsAsked + 1
    BY <1>3, <2>2 DEF Home!Render, key
  <2>4. new \in Loads
    BY <1>1, <1>2, <2>1, <2>2 DEF Loads
  <2>5. LoadRight(new)
    <3>1. /\ new.key = key /\ new.who = session.who /\ new.made = None /\ new.under = c
          /\ c <= currencies[session.who] /\ key.session = session.number
          /\ key.currency = Home!CurrencyOf(session.who, c)
      BY <1>1, <2>1, <2>2 DEF KnownRight, HomeConstants
    <3>2. session.number <= session.number /\ session.who = Owner(session.number)
      BY <1>2 DEF Owner
    <3> QED BY <3>1, <3>2 DEF LoadRight
  <2>6. page' \in Boards /\ page'.loaded = p.loaded
    BY <2>1, <2>3 DEF Boards
  <2>7. loads' \subseteq Loads /\ \A l \in loads' : LoadRight(l)
    BY <2>3, <2>4, <2>5, LeftLoads
  <2>8. HomeTypes'
    BY <1>2, <2>3, <2>6, <2>7 DEF HomeInv, HomeTypes, KnownRight
  <2>9. CacheRight' /\ PageRight(page') /\ \A l \in loads' : LoadRight(l)'
    BY <2>6, <2>7 DEF HomeInv, CacheRight, PageRight, LoadRight, Right, Owner
  <2> QED BY <2>6, <2>8, <2>9 DEF HomeConstants, HomeInv, PageRight, Right, Owner
<1>4. CASE ~Home!NeedsLoad(key, p)
  <2>1. page' = p /\ loads' = Home!Left /\ UNCHANGED loadsAsked
    BY <1>4 DEF Home!Render, key
  <2>2. loads' \subseteq Loads /\ \A l \in loads' : LoadRight(l)
    BY <2>1, LeftLoads
  <2> QED BY <2>1, <2>2
          DEF HomeConstants, HomeInv, HomeTypes, KnownRight, CacheRight, PageRight, LoadRight, Right, Owner
<1> QED BY <1>3, <1>4

LEMMA LearnCurrencyKeeps ==
  ASSUME HomeConstants, HomeInv, Home!LearnCurrency
  PROVE  HomeInv'
<1>1. PICK c \in (IF known = None THEN 0 ELSE known + 1)..currencies[session.who] :
        /\ known' = c
        /\ \/ UNCHANGED <<page, loads, loadsAsked>>
           \/ page # None /\ Home!Render(Home!KeyIn(c, page), page, c)
  BY DEF Home!LearnCurrency
<1>2. UNCHANGED <<session, currencies, cache, minute>>
  BY DEF Home!LearnCurrency
<1>3. currencies[session.who] \in 0..MaxCurrency /\ (known # None => known \in 0..MaxCurrency)
  BY DEF HomeInv, HomeTypes, KnownRight
<1>4. KnownRight(c) /\ KnownRight(known')
  BY <1>1, <1>3 DEF KnownRight, HomeConstants
<1>5. CASE UNCHANGED <<page, loads, loadsAsked>>
  BY <1>1, <1>2, <1>4, <1>5 DEF HomeInv, HomeTypes, KnownRight, CacheRight, PageRight, LoadRight, Right, Owner
<1>6. CASE page # None /\ Home!Render(Home!KeyIn(c, page), page, c)
  BY <1>1, <1>2, <1>4, <1>6, RenderKeeps DEF HomeInv, HomeTypes
<1> QED BY <1>1, <1>5, <1>6

(* The user's steps on the page that run the effect.                       *)
LEMMA PageStepsKeep ==
  ASSUME HomeConstants, HomeInv,
         \/ Home!Refresh \/ Home!Retry \/ Home!RetryAllocation \/ Home!SeeRenewed
         \/ \E range \in HomeRanges : Home!SelectRange(range)
  PROVE  HomeInv'
<1>1. HomeTypes /\ KnownRight(known) /\ UNCHANGED <<session, currencies, cache, minute, known>>
      /\ page \in Boards /\ PageRight(page)
  BY DEF HomeInv, HomeTypes, Home!Refresh, Home!Retry, Home!RetryAllocation, Home!SeeRenewed, Home!SelectRange
<1>2. ASSUME NEW p \in Boards, p.loaded = page.loaded, p.range = page.range, Home!Render(Home!Key(page), p, known)
      PROVE  HomeInv'
  <2>1. PageRight(p)
    BY <1>1, <1>2 DEF PageRight
  <2>2. Home!Key(page) = Home!KeyIn(known, p)
    BY <1>2 DEF Home!Key, Home!KeyIn
  <2> QED BY <1>1, <1>2, <2>1, <2>2, RenderKeeps DEF KnownRight
<1>3. CASE Home!Refresh
  <2>1. PICK p : p = [page EXCEPT !.refresh = @ + 1]
    OBVIOUS
  <2>2. p \in Boards /\ p.loaded = page.loaded /\ p.range = page.range
    BY <1>1, <2>1 DEF Boards
  <2> QED BY <1>2, <1>3, <2>1, <2>2 DEF Home!Refresh
<1>4. CASE Home!Retry
  <2>1. PICK p : p = [page EXCEPT !.failure = None]
    OBVIOUS
  <2>2. p \in Boards /\ p.loaded = page.loaded /\ p.range = page.range
    BY <1>1, <2>1 DEF Boards
  <2> QED BY <1>2, <1>4, <2>1, <2>2 DEF Home!Retry
<1>5. CASE Home!RetryAllocation
  <2>1. Home!Key(page) # None
    BY <1>5 DEF Home!RetryAllocation, Home!Shown, Home!Current, Home!Previous
  <2>2. Home!Key(page) \in Home!Keys
    BY <1>1, <2>1, KeyOfPage DEF Home!Key
  <2>3. PICK p : p = [page EXCEPT !.fetched[Home!Key(page)] = None, !.clock = minute]
    OBVIOUS
  <2>4. p \in Boards /\ p.loaded = page.loaded /\ p.range = page.range
    BY <1>1, <2>2, <2>3 DEF Boards, HomeTypes
  <2> QED BY <1>2, <1>5, <2>3, <2>4 DEF Home!RetryAllocation
<1>6. CASE Home!SeeRenewed
  BY <1>1, <1>2, <1>6 DEF Home!SeeRenewed
<1>7. ASSUME NEW range \in HomeRanges, Home!SelectRange(range) PROVE HomeInv'
  <2>1. PICK p : p = [page EXCEPT !.range = range, !.clock = minute]
    OBVIOUS
  <2>2. p \in Boards /\ p.loaded = page.loaded
    BY <1>1, <2>1 DEF Boards, HomeTypes
  <2>3. PageRight(p)
    BY <1>1, <2>2 DEF PageRight
  <2>4. CASE range = page.range
    <3>1. page' = p /\ UNCHANGED <<loads, loadsAsked>>
      BY <1>7, <2>1, <2>4 DEF Home!SelectRange
    <3> QED BY <1>1, <2>2, <2>3, <3>1
            DEF HomeConstants, HomeInv, HomeTypes, KnownRight, CacheRight, PageRight, LoadRight, Right, Owner
  <2>5. CASE range # page.range
    <3>1. Home!Render(Home!KeyIn(known, p), p, known)
      BY <1>7, <2>1, <2>5 DEF Home!SelectRange, Home!Key
    <3> QED BY <1>1, <2>2, <2>3, <3>1, RenderKeeps DEF KnownRight
  <2> QED BY <2>4, <2>5
<1> QED BY <1>3, <1>4, <1>5, <1>6, <1>7

(* The page is left or opened, the token renewed or someone else's.        *)
LEMMA SessionStepsKeep ==
  ASSUME HomeConstants, HomeInv, Home!Leave \/ Home!Return \/ Home!Renew \/ Home!SwitchAccount
  PROVE  HomeInv'
<1>1. CASE Home!Leave
  <2>1. page' = None /\ loads' = Home!Gone /\ UNCHANGED <<session, currencies, cache, known, loadsAsked, minute>>
    BY <1>1 DEF Home!Leave
  <2> QED BY <2>1, LeftLoads DEF HomeInv, HomeTypes, KnownRight, CacheRight, LoadRight, Right, Owner
<1>2. CASE Home!Return
  <2>1. Home!Opened \in Boards /\ PageRight(Home!Opened)
    BY OpenedPage DEF HomeInv
  <2>2. Home!Render(Home!KeyIn(known, Home!Opened), Home!Opened, known)
        /\ UNCHANGED <<session, currencies, cache, known, minute>>
    BY <1>2 DEF Home!Return, Home!Key
  <2> QED BY <2>1, <2>2, RenderKeeps DEF HomeInv, HomeTypes, KnownRight
<1>3. ASSUME session.number = 0, session' \in [number : {1}, who : Home!Who]
      PROVE  /\ \A k \in Home!Keys, entry \in Entries : Right(entry, k) => Right(entry, k)'
             /\ \A l \in Loads : LoadRight(l) /\ ~l.mounted /\ currencies' = currencies => LoadRight(l)'
  <2>1. session'.number = 1 /\ \A k \in Home!Keys : k.session \in 0..1
    BY <1>3 DEF Home!Keys
  <2>2. \A l \in Loads : l.key \in Home!Keys
    BY DEF Loads
  <2> QED BY <1>3, <2>1, <2>2 DEF Right, LoadRight, Owner
<1>4. CASE Home!Renew
  <2>1. session.number = 0 /\ session' = [session EXCEPT !.number = 1]
        /\ UNCHANGED <<currencies, cache, known, page, loads, loadsAsked, minute>>
    BY <1>4 DEF Home!Renew
  <2>2. session' \in [number : {1}, who : Home!Who] /\ session'.who = session.who
    BY <2>1 DEF HomeInv, HomeTypes
  <2>3. HomeTypes'
    BY <2>1, <2>2 DEF HomeInv, HomeTypes, KnownRight
  <2>4. CacheRight'
    BY <1>3, <2>1, <2>2 DEF HomeInv, HomeTypes, CacheRight, SavedEntries
  <2>5. page # None => PageRight(page)'
    BY <1>3, <2>1, <2>2 DEF HomeInv, HomeTypes, PageRight, Boards
  <2>6. \A l \in loads : LoadRight(l)'
    <3>1. \A l \in loads : l.key.session \in 0..1 /\ LoadRight(l)
      BY DEF HomeInv, HomeTypes, Loads, Home!Keys
    <3> QED BY <2>1, <2>2, <3>1 DEF LoadRight, Owner
  <2> QED BY <2>1, <2>3, <2>4, <2>5, <2>6 DEF HomeInv
<1>5. CASE Home!SwitchAccount
  <2>1. session.number = 0 /\ session' \in [number : {1}, who : Home!Who] /\ known' = None
        /\ page' = Home!Opened /\ loads' = Home!Gone /\ UNCHANGED <<currencies, cache, loadsAsked, minute>>
    BY <1>5 DEF Home!SwitchAccount, Home!Who
  <2>2. page' \in Boards /\ \A k \in Home!Keys : page'.loaded[k] = None
    BY <2>1, OpenedPage DEF HomeInv, Home!Opened
  <2>3. HomeTypes'
    BY <2>1, <2>2, LeftLoads DEF HomeInv, HomeTypes, KnownRight
  <2>4. CacheRight'
    BY <1>3, <2>1 DEF HomeInv, HomeTypes, CacheRight, SavedEntries
  <2>5. \A l \in loads' : LoadRight(l)'
    BY <1>3, <2>1, LeftLoads
  <2> QED BY <2>1, <2>2, <2>3, <2>4, <2>5, LeftLoads DEF HomeInv, PageRight
<1> QED BY <1>1, <1>2, <1>4, <1>5

(* A load goes through.                                                    *)
LEMMA LoadStepsKeep ==
  ASSUME HomeConstants, HomeInv, NEW l \in loads, Home!Serve(l) \/ Home!Arrive(l) \/ Home!Fail(l)
  PROVE  HomeInv'
<1>1. l \in Loads /\ LoadRight(l) /\ l.key \in Home!Keys /\ l.under \in Nat
  BY DEF HomeInv, HomeTypes, Loads, Home!Keys
<1>2. CASE Home!Serve(l)
  <2>1. PICK made_ : made_ = currencies[l.who]
    OBVIOUS
  <2>2. made_ \in Nat /\ made_ >= l.under
    BY <1>1, <2>1 DEF HomeInv, HomeTypes, Loads, LoadRight
  <2>3. PICK m : m = [l EXCEPT !.made = made_]
    OBVIOUS
  <2>4. m \in Loads /\ m.made = made_ /\ m.key = l.key /\ m.who = l.who /\ m.under = l.under /\ m.mounted = l.mounted
    BY <1>1, <2>2, <2>3 DEF Loads
  <2>5. LoadRight(m)
    BY <1>1, <2>2, <2>4 DEF LoadRight
  <2>6. loads' = (loads \ {l}) \cup {m} /\ UNCHANGED <<session, currencies, cache, known, page, loadsAsked, minute>>
    BY <1>2, <2>1, <2>3 DEF Home!Serve
  <2> QED BY <2>4, <2>5, <2>6 DEF HomeInv, HomeTypes, KnownRight, CacheRight, PageRight, LoadRight, Right, Owner
<1>3. CASE Home!Arrive(l)
  <2>1. l.made \in Nat /\ loads' = loads \ {l} /\ UNCHANGED <<session, currencies, known, loadsAsked, minute>>
    BY <1>1, <1>3 DEF Home!Arrive, Loads
  <2>2. PICK entry : /\ \E split_ \in BOOLEAN :
                          entry = [currency |-> l.key.currency, made |-> l.made, under |-> l.under,
                                   who |-> l.who, split |-> split_]
                     /\ cache' = Home!Written(l.key, entry)
                     /\ page' = IF l.mounted
                                THEN [page EXCEPT !.loaded[l.key] = entry, !.shownKey = l.key,
                                                  !.failure = IF @ = l.key THEN None ELSE @]
                                ELSE page
    BY <1>3 DEF Home!Arrive
  <2>3. entry \in Entries /\ Right(entry, l.key) /\ entry.who = l.who
    <3>1. l.made >= l.under /\ l.who \in Home!Who
      BY <1>1, <2>1 DEF HomeConstants, LoadRight, Loads
    <3>2. PICK split_ \in BOOLEAN :
            entry = [currency |-> l.key.currency, made |-> l.made, under |-> l.under, who |-> l.who, split |-> split_]
      BY <2>2
    <3>3. entry \in Entries
      BY <1>1, <2>1, <3>1, <3>2 DEF Entries, Home!Keys
    <3> QED BY <1>1, <3>1, <3>2, <3>3 DEF LoadRight, Right
  <2>4. PICK new : new = [entry |-> entry, at |-> minute]
    OBVIOUS
  <2>5. new \in SavedEntries /\ new.entry = entry
    BY <2>3, <2>4 DEF HomeInv, HomeTypes, SavedEntries
  <2>6. cache' \in [Home!Keys -> SavedEntries \cup {None}]
        /\ \A k \in Home!Keys : cache'[k] = None \/ cache'[k] = cache[k] \/ (k = l.key /\ cache'[k] = new)
    BY <2>2, <2>4, <2>5 DEF Home!Written, HomeInv, HomeTypes
  <2>7. CacheRight'
    BY <2>1, <2>3, <2>5, <2>6 DEF HomeInv, CacheRight, Right, Owner
  <2>8. page' \in Boards \cup {None} /\ (page' # None => PageRight(page')) /\ (page # None => page' # None)
    <3>1. CASE ~l.mounted
      BY <2>2, <3>1 DEF HomeInv, HomeTypes
    <3>2. CASE l.mounted
      <4>1. page \in Boards /\ PageRight(page)
        BY <3>2 DEF HomeInv, HomeTypes
      <4>2. page' \in Boards /\ page'.loaded = [page.loaded EXCEPT ![l.key] = entry]
        BY <1>1, <2>2, <2>3, <3>2, <4>1 DEF Boards
      <4>3. entry.who = session.who
        BY <1>1, <2>3, <3>2 DEF LoadRight
      <4>4. PageRight(page')
        BY <2>3, <4>1, <4>2, <4>3 DEF PageRight, Boards
      <4> QED BY <4>2, <4>4 DEF HomeConstants
    <3> QED BY <3>1, <3>2
  <2> QED BY <2>1, <2>6, <2>7, <2>8 DEF HomeInv, HomeTypes, KnownRight, PageRight, LoadRight, Right, Owner
<1>4. CASE Home!Fail(l)
  <2>1. loads' = loads \ {l} /\ UNCHANGED <<session, currencies, cache, known, loadsAsked, minute>>
    BY <1>4 DEF Home!Fail
  <2>2. page' \in Boards \cup {None} /\ (page' # None => PageRight(page')) /\ (page # None => page' # None)
    <3>1. CASE ~l.mounted
      BY <1>4, <3>1 DEF Home!Fail, HomeInv, HomeTypes
    <3>2. CASE l.mounted
      <4>1. page \in Boards /\ PageRight(page)
        BY <3>2 DEF HomeInv, HomeTypes
      <4>2. PICK f : page' = [page EXCEPT !.fetched[l.key] = None, !.failure = f] /\ f \in Home!Keys \cup {None}
        <5>1. page' = [page EXCEPT !.fetched[l.key] = None, !.failure = IF l.ignored THEN page.failure ELSE l.key]
          BY <1>4, <3>2, <4>1 DEF Home!Fail, Boards
        <5>2. (IF l.ignored THEN page.failure ELSE l.key) \in Home!Keys \cup {None}
          BY <1>1, <4>1 DEF Boards
        <5> QED BY <5>1, <5>2
      <4>3. page' \in Boards /\ page'.loaded = page.loaded
        BY <1>1, <4>1, <4>2 DEF Boards
      <4> QED BY <4>1, <4>3 DEF PageRight, HomeConstants
    <3> QED BY <3>1, <3>2
  <2> QED BY <2>1, <2>2 DEF HomeInv, HomeTypes, KnownRight, CacheRight, PageRight, LoadRight, Right, Owner
<1> QED BY <1>2, <1>3, <1>4

LEMMA StepHomeInv ==
  ASSUME HomeConstants, HomeInv, Home!Next
  PROVE  HomeInv'
<1>1. CASE Home!ChangeCurrency
  <2>1. PICK w : w = session.who
    OBVIOUS
  <2>2. w \in Home!Who /\ currencies[w] < MaxCurrency /\ currencies' = [currencies EXCEPT ![w] = @ + 1]
        /\ UNCHANGED <<session, cache, known, page, loads, loadsAsked, minute>>
    BY <1>1, <2>1 DEF Home!ChangeCurrency, HomeInv, HomeTypes
  <2>3. currencies' \in [Home!Who -> 0..MaxCurrency] /\ \A v \in Home!Who : currencies[v] <= currencies'[v]
        /\ currencies[v] \in Nat /\ currencies'[v] \in Nat
    BY <2>2 DEF HomeInv, HomeTypes, HomeConstants
  <2>4. KnownRight(known)'
    BY <2>1, <2>2, <2>3 DEF HomeInv, HomeTypes, KnownRight
  <2>5. \A l \in loads : LoadRight(l)'
    <3>1. \A l \in loads : LoadRight(l) /\ l.who \in Home!Who /\ l.under \in Nat
      BY DEF HomeInv, HomeTypes, Loads
    <3> QED BY <2>2, <2>3, <3>1 DEF LoadRight, Owner
  <2> QED BY <2>2, <2>3, <2>4, <2>5 DEF HomeInv, HomeTypes, CacheRight, PageRight, Right, Owner
<1>2. CASE Home!Tick
  <2>1. minute' \in Nat /\ UNCHANGED <<session, currencies, cache, known, page, loads, loadsAsked>>
    BY <1>2 DEF Home!Tick, HomeInv, HomeTypes
  <2> QED BY <2>1 DEF HomeInv, HomeTypes, KnownRight, CacheRight, PageRight, LoadRight, Right, Owner
<1> QED BY <1>1, <1>2, LearnCurrencyKeeps, PageStepsKeep, SessionStepsKeep, LoadStepsKeep DEF Home!Next

(* What is on screen is the page's own, or the cache's under the page's    *)
(* key.                                                                    *)
LEMMA HomeInvSafe ==
  ASSUME HomeConstants, HomeInv
  PROVE  Home!AmountsNotOlderThanSymbol
<1> SUFFICES ASSUME page # None, Home!Shown(page) # None
             PROVE  /\ Home!Shown(page).who = session.who
                    /\ Home!CurrencyOf(Home!Shown(page).who, Home!Shown(page).made) # Home!CurrencyOf(session.who, known)
                         => Home!Shown(page).made > Home!Shown(page).under
  BY DEF Home!AmountsNotOlderThanSymbol
<1> DEFINE shown == Home!Shown(page)
<1>0. ASSUME NEW k \in Home!Keys, shown \in Entries, Right(shown, k), shown.who = session.who,
             k.currency = Home!CurrencyOf(session.who, known)
      PROVE  /\ shown.who = session.who
             /\ Home!CurrencyOf(shown.who, shown.made) # Home!CurrencyOf(session.who, known)
                  => shown.made > shown.under
  <2> HIDE DEF shown
  <2>1. shown.made \in Nat /\ shown.under \in Nat
    BY <1>0 DEF Entries
  <2> QED BY <1>0, <2>1 DEF Right
<1> HIDE DEF shown
<1>1. page \in Boards /\ PageRight(page) /\ HomeTypes
  BY DEF HomeInv, HomeTypes
<1> DEFINE key == Home!Key(page)
<1>2. key \in Home!Keys \cup {None}
      /\ (key # None => key.session = session.number /\ key.currency = Home!CurrencyOf(session.who, known))
  BY <1>1, KeyOfPage DEF HomeTypes, Home!Key
<1> HIDE DEF key
<1>3. CASE Home!Current(page) # None
  <2>1. key # None /\ key \in Home!Keys
    BY <1>2, <1>3 DEF Home!Current, key
  <2>2. CASE page.loaded[key] # None
    <3>1. shown = page.loaded[key]
      BY <1>3, <2>1, <2>2 DEF Home!Shown, Home!Current, key, shown
    <3>2. shown \in Entries /\ Right(shown, key) /\ shown.who = session.who
      BY <1>1, <2>1, <2>2, <3>1 DEF PageRight, Boards
    <3> QED BY <1>0, <1>2, <2>1, <3>2 DEF shown
  <2>3. CASE page.loaded[key] = None
    <3>1. shown = cache[key].entry /\ cache[key] # None
      BY <1>3, <2>1, <2>3 DEF Home!Shown, Home!Current, Home!Cached, key, shown
    <3>2. Right(shown, key) /\ shown \in Entries
      BY <1>1, <2>1, <3>1 DEF HomeInv, CacheRight, HomeTypes, SavedEntries
    <3>3. shown.who = session.who
      BY <1>1, <1>2, <2>1, <3>2 DEF Right, Owner, HomeTypes
    <3> QED BY <1>0, <1>2, <2>1, <3>2, <3>3 DEF shown
  <2> QED BY <2>2, <2>3
<1>4. CASE Home!Current(page) = None
  <2>1. Home!Previous(page) # None /\ Home!Previous(page).currency = Home!CurrencyOf(session.who, known)
        /\ shown = Home!Previous(page)
    BY <1>4 DEF Home!Shown, shown
  <2>2. page.shownKey \in Home!Keys /\ Home!Previous(page) = page.loaded[page.shownKey]
    BY <1>1, <2>1 DEF Home!Previous, Boards
  <2>3. shown \in Entries /\ Right(shown, page.shownKey) /\ shown.who = session.who
    BY <1>1, <2>1, <2>2 DEF PageRight, Boards
  <2>4. page.shownKey.currency = Home!CurrencyOf(session.who, known)
    BY <2>1, <2>3 DEF Right
  <2> QED BY <1>0, <2>2, <2>3, <2>4 DEF shown
<1> QED BY <1>3, <1>4

(* Amounts the dashboard shows under another currency's symbol are of a    *)
(* change the page had not learned of when it asked for them, and nobody   *)
(* else's are shown at all (the shown amounts, the cache).                 *)
THEOREM TheDashboardShowsItsCurrency == PortfolioSpec => []AmountsNotOlderThanSymbol
<1> USE HomeAssumption
<1> DEFINE I == part = "dashboard" => HomeInv
<1>1. PortfolioInit => I
  BY InitHomeInv DEF PortfolioInit
<1>2. I /\ [PortfolioNext]_<<part, vars, sessionVars, offlineVars, homeVars, screenVars, panelVars>> => I'
  <2> SUFFICES ASSUME I, [PortfolioNext]_<<part, vars, sessionVars, offlineVars, homeVars, screenVars, panelVars>>,
                      part' = "dashboard"
               PROVE  HomeInv'
    OBVIOUS
  <2>1. part = "dashboard" /\ (Home!Next \/ UNCHANGED homeVars)
    BY DEF PortfolioNext, ReplaysMove, SessionMoves, OfflineMoves, DashboardMoves, ScreensMove, AnalystMoves,
           OthersWait
  <2>2. CASE UNCHANGED homeVars
    BY <2>1, <2>2 DEF homeVars, HomeInv, HomeTypes, KnownRight, CacheRight, PageRight, LoadRight, Right, Owner
  <2> QED BY <2>1, <2>2, StepHomeInv
<1>3. I => AmountsNotOlderThanSymbol
  BY HomeInvSafe DEF AmountsNotOlderThanSymbol
<1> QED BY <1>1, <1>2, <1>3, PTL DEF PortfolioSpec

-----------------------------------------------------------------------------
(* The screens that load in place.                                         *)
HoldingsPages == [name : {"holdings"}, holdings : PageAnswers \cup {None}, error : BOOLEAN]

ChartPages ==
  [name : {"chart"}, range : ChartRanges, shown : PageAnswers \cup {None},
   failure : ChartRanges \cup {None}]

SearchPages ==
  [name : {"search"}, type : AssetTypes, text : Words, results : PageAnswers \cup {None},
   last : Words, loading : BOOLEAN, error : BOOLEAN, id : Nat]

ReportPages ==
  [name : {"reports"}, years : (SUBSET Years) \cup {None}, yearsError : BOOLEAN, year : Years \cup {None},
   report : PageAnswers \cup {None}, reportError : BOOLEAN]

Sought == {"holdings", "chart", "search", "years", "report"}

PageRequests ==
  [what : Sought, asks : Selections, number : Nat, live : BOOLEAN]

(* Requests are numbered in the order they were sent, and of each kind one *)
(* at most is still attended to.                                           *)
Orderly(requests, n) ==
  /\ requests \subseteq PageRequests
  /\ \A r \in requests : 0 < r.number /\ r.number <= n
  /\ \A r, q \in requests : r.number = q.number => r = q
  /\ \A r, q \in requests : r.live /\ q.live /\ r.what = q.what => r = q

LEMMA SilencedOrderly ==
  ASSUME NEW requests, NEW n \in Nat, Orderly(requests, n), NEW what
  PROVE  /\ Orderly(Pages!Silenced(what, requests), n)
         /\ \A q \in Pages!Silenced(what, requests) : \E r \in requests :
              q.number = r.number /\ q.what = r.what /\ q.asks = r.asks /\ (q.live => r.live /\ r.what # what)
         /\ \A r \in requests : r.what # what => r \in Pages!Silenced(what, requests)
<1> DEFINE after == Pages!Silenced(what, requests)
<1>1. ASSUME NEW q \in after
      PROVE  \E r \in requests :
               /\ q = IF r.what = what THEN [r EXCEPT !.live = FALSE] ELSE r
               /\ q \in PageRequests /\ q.number = r.number /\ q.what = r.what /\ q.asks = r.asks
               /\ q.live => r.live /\ r.what # what
  <2>1. PICK r \in requests : q = IF r.what = what THEN [r EXCEPT !.live = FALSE] ELSE r
    BY DEF Pages!Silenced
  <2>2. r \in PageRequests
    BY DEF Orderly
  <2> QED BY <2>1, <2>2 DEF PageRequests
<1>2. \A r \in requests : r.what # what => r \in after
  BY DEF Pages!Silenced
<1>3. after \subseteq PageRequests /\ \A q \in after : 0 < q.number /\ q.number <= n
  <2> HIDE DEF after
  <2> QED BY <1>1 DEF Orderly
<1>4. ASSUME NEW p \in after, NEW q \in after, p.number = q.number PROVE p = q
  <2>1. PICK r \in requests : p = (IF r.what = what THEN [r EXCEPT !.live = FALSE] ELSE r) /\ p.number = r.number
    BY <1>1
  <2>2. PICK s \in requests : q = (IF s.what = what THEN [s EXCEPT !.live = FALSE] ELSE s) /\ q.number = s.number
    BY <1>1
  <2> QED BY <1>4, <2>1, <2>2 DEF Orderly
<1>5. ASSUME NEW p \in after, NEW q \in after, p.live, q.live, p.what = q.what PROVE p = q
  <2>1. PICK r \in requests : r.live /\ r.what = p.what /\ p.number = r.number
    BY <1>1, <1>5
  <2>2. PICK s \in requests : s.live /\ s.what = q.what /\ q.number = s.number
    BY <1>1, <1>5
  <2>3. r = s
    BY <1>5, <2>1, <2>2 DEF Orderly
  <2> QED BY <1>4, <2>1, <2>2, <2>3
<1> QED BY <1>1, <1>2, <1>3, <1>4, <1>5 DEF Orderly

LEMMA AddedOrderly ==
  ASSUME NEW requests, NEW n \in Nat, Orderly(requests, n), NEW new \in PageRequests, new.number = n + 1,
         \A r \in requests : r.live => r.what # new.what
  PROVE  Orderly(requests \cup {new}, n + 1)
<1>1. \A r \in requests : r.number \in Nat /\ r.number <= n
  BY DEF Orderly, PageRequests
<1>2. \A r \in requests : r.number # new.number /\ r.number <= n + 1
  BY <1>1
<1> QED BY <1>2 DEF Orderly

LEMMA RemovedOrderly ==
  ASSUME NEW requests, NEW n \in Nat, Orderly(requests, n), NEW r
  PROVE  Orderly(requests \ {r}, n)
BY DEF Orderly

LEMMA NewPageRequest ==
  ASSUME NEW what \in Sought, NEW asks \in Selections, NEW n \in Nat
  PROVE  /\ Pages!Request(what, asks, n) \in PageRequests
         /\ Pages!Request(what, asks, n).what = what /\ Pages!Request(what, asks, n).asks = asks
         /\ Pages!Request(what, asks, n).number = n /\ Pages!Request(what, asks, n).live
BY DEF Pages!Request, PageRequests

(* A request takes the place of the one of its kind before it.             *)
LEMMA Replaced ==
  ASSUME NEW requests, NEW n \in Nat, Orderly(requests, n), NEW what \in Sought,
         NEW asks \in Selections, NEW new, new = Pages!Request(what, asks, n + 1),
         NEW after, after = Pages!Silenced(what, requests) \cup {new}
  PROVE  /\ Orderly(after, n + 1)
         /\ new \in after /\ new.what = what /\ new.asks = asks /\ new.number = n + 1 /\ new.live
         /\ \A q \in after : q = new \/ \E r \in requests :
              q.number = r.number /\ q.what = r.what /\ q.asks = r.asks /\ (q.live => r.live /\ r.what # what)
         /\ \A r \in requests : r.what # what => r \in after
<1>1. n + 1 \in Nat
  OBVIOUS
<1>2. new \in PageRequests /\ new.what = what /\ new.asks = asks /\ new.number = n + 1 /\ new.live
  BY <1>1, NewPageRequest
<1>3. \A q \in Pages!Silenced(what, requests) : q.live => q.what # new.what
  BY <1>2, SilencedOrderly
<1>4. Orderly(Pages!Silenced(what, requests), n)
  BY SilencedOrderly
<1>5. Orderly(after, n + 1)
  BY <1>2, <1>3, <1>4, AddedOrderly
<1> QED BY <1>2, <1>5, SilencedOrderly

LEMMA Asked ==
  ASSUME Orderly(sent, screenAsked), screenAsked \in Nat, NEW what \in Sought,
         NEW asks \in Selections, Pages!Ask(what, asks)
  PROVE  /\ screenAsked' = screenAsked + 1 /\ Orderly(sent', screenAsked')
         /\ \E new \in sent' :
              /\ new.what = what /\ new.asks = asks /\ new.number = screenAsked + 1 /\ new.live
              /\ \A q \in sent' : q = new \/ \E r \in sent :
                   q.number = r.number /\ q.what = r.what /\ q.asks = r.asks /\ (q.live => r.live /\ r.what # what)
              /\ \A r \in sent : r.what # what => r \in sent'
<1>1. PICK new : new = Pages!Request(what, asks, screenAsked + 1)
  OBVIOUS
<1>2. screenAsked' = screenAsked + 1 /\ sent' = Pages!Silenced(what, sent) \cup {new}
  BY <1>1 DEF Pages!Ask
<1> QED BY <1>1, <1>2, Replaced

-----------------------------------------------------------------------------
(* What each page relies on: behind what it waits for is a request that is *)
(* still attended to, and that asked for what is selected.                 *)
HoldingsWait ==
  /\ \A r \in sent : r.what = "holdings"
  /\ screen.holdings = None /\ ~screen.error => \E r \in sent : r.live

ChartWait ==
  /\ \A r \in sent : r.what = "chart" /\ (r.live => r.asks = screen.range)
  /\ screen.failure # screen.range /\ (screen.shown = None \/ screen.shown.asks # screen.range)
       => \E r \in sent : r.live

SearchWait ==
  /\ \A r \in sent : r.what = "search" /\ r.asks \in Queries /\ (r.number = screen.id => r.asks.type = screen.type)
  /\ screen.loading => \E r \in sent : r.number = screen.id
  /\ screen.results # None => screen.results.asks = [type |-> screen.type, query |-> screen.last]

ReportWait ==
  /\ \A r \in sent : r.what \in {"years", "report"} /\ (r.what = "report" /\ r.live => r.asks = screen.year)
  /\ screen.years = None /\ ~screen.yearsError => \E r \in sent : r.what = "years" /\ r.live
  /\ screen.year # None /\ ~screen.reportError /\ (screen.report = None \/ screen.report.asks # screen.year)
       => \E r \in sent : r.what = "report" /\ r.live
  /\ screen.years # None =>
       (screen.year = None) = (screen.years = {}) /\ (screen.year # None => screen.year \in screen.years)

PageWaits ==
  \/ screen \in HoldingsPages /\ HoldingsWait
  \/ screen \in ChartPages /\ ChartWait
  \/ screen \in SearchPages /\ SearchWait
  \/ screen \in ReportPages /\ ReportWait

(* What is shown answers an earlier request than any still attended to.    *)
Newer ==
  Pages!Loaded(screen) # None =>
    /\ Pages!Loaded(screen).number \in Nat /\ Pages!Loaded(screen).number <= screenAsked
    /\ \A r \in sent : Pages!Counts(r) /\ r.what # "years" => r.number > Pages!Loaded(screen).number

ScreensInv == screenAsked \in Nat /\ Orderly(sent, screenAsked) /\ PageWaits /\ Newer

-----------------------------------------------------------------------------
(* A step that leaves what is shown and attends to no more of the older    *)
(* requests than before.                                                   *)
LEMMA StillNewer ==
  ASSUME ScreensInv, Pages!Loaded(screen)' = Pages!Loaded(screen), screenAsked' \in Nat, screenAsked <= screenAsked',
         \A q \in sent' : q.number \in Nat /\
            (\/ q.number > screenAsked
             \/ \E r \in sent : q.number = r.number /\ q.what = r.what /\ (Pages!Counts(q)' => Pages!Counts(r)))
  PROVE  Newer'
<1> SUFFICES ASSUME Pages!Loaded(screen) # None
             PROVE  /\ Pages!Loaded(screen).number \in Nat /\ Pages!Loaded(screen).number <= screenAsked'
                    /\ \A q \in sent' : Pages!Counts(q)' /\ q.what # "years" => q.number > Pages!Loaded(screen).number
  BY DEF Newer
<1>1. /\ Pages!Loaded(screen).number \in Nat /\ Pages!Loaded(screen).number <= screenAsked
      /\ \A r \in sent : Pages!Counts(r) /\ r.what # "years" => r.number > Pages!Loaded(screen).number
  BY DEF ScreensInv, Newer
<1> QED BY <1>1 DEF ScreensInv

LEMMA OrderlyNumbers ==
  ASSUME NEW requests, NEW n, Orderly(requests, n)
  PROVE  \A r \in requests : r \in PageRequests /\ r.number \in Nat /\ r.live \in BOOLEAN
BY DEF Orderly, PageRequests

(* The answer of the request attended to is newer than all others attended *)
(* to of its kind: there are none.                                         *)
LEMMA OnlyOneLive ==
  ASSUME ScreensInv, NEW r \in sent, r.live, NEW q \in sent, q # r, q.what = r.what
  PROVE  ~q.live
BY DEF ScreensInv, Orderly

LEMMA AskedNewer ==
  ASSUME ScreensInv, NEW what \in Sought, NEW asks \in Selections, Pages!Ask(what, asks), what # "search",
         \A r \in sent : r.what # "search", Pages!Loaded(screen)' = Pages!Loaded(screen)
  PROVE  Newer'
<1>1. Orderly(sent, screenAsked) /\ screenAsked \in Nat
  BY DEF ScreensInv
<1>2. screenAsked' = screenAsked + 1 /\ Orderly(sent', screenAsked')
  BY <1>1, Asked
<1>3. PICK new \in sent' :
        /\ new.what = what /\ new.number = screenAsked + 1 /\ new.live
        /\ \A q \in sent' : q = new \/ \E r \in sent :
             q.number = r.number /\ q.what = r.what /\ q.asks = r.asks /\ (q.live => r.live /\ r.what # what)
  BY <1>1, Asked
<1>4. \A q \in sent' : q.number \in Nat
  BY <1>2, OrderlyNumbers
<1>5. \A q \in sent' : q.number \in Nat /\
        (\/ q.number > screenAsked
         \/ \E r \in sent : q.number = r.number /\ q.what = r.what /\ (Pages!Counts(q)' => Pages!Counts(r)))
  BY <1>1, <1>3, <1>4 DEF Pages!Counts
<1> QED BY <1>1, <1>2, <1>5, StillNewer

(* The holdings list.                                                      *)
LEMMA HoldingsAsks ==
  ASSUME ScreensConstants, ScreensInv, screen \in HoldingsPages, HoldingsWait,
         screen' \in HoldingsPages, screen'.holdings = screen.holdings, Pages!Ask("holdings", None)
  PROVE  ScreensInv'
<1>1. Orderly(sent, screenAsked) /\ screenAsked \in Nat
  BY DEF ScreensInv
<1>2. "holdings" \in Sought /\ None \in Selections
  BY DEF Sought, Selections
<1>3. screenAsked' = screenAsked + 1 /\ Orderly(sent', screenAsked')
  BY <1>1, <1>2, Asked
<1>4. PICK new \in sent' :
        /\ new.what = "holdings" /\ new.number = screenAsked + 1 /\ new.live
        /\ \A q \in sent' : q = new \/ \E r \in sent :
             q.number = r.number /\ q.what = r.what /\ q.asks = r.asks /\ (q.live => r.live /\ r.what # "holdings")
  BY <1>1, <1>2, Asked
<1>5. HoldingsWait'
  BY <1>4 DEF HoldingsWait
<1>6. Pages!Loaded(screen)' = Pages!Loaded(screen)
  BY DEF Pages!Loaded, HoldingsPages
<1>7. Newer'
  BY <1>2, <1>6, AskedNewer DEF HoldingsWait
<1> QED BY <1>1, <1>3, <1>5, <1>7 DEF ScreensInv, PageWaits

LEMMA HoldingsStep ==
  ASSUME ScreensConstants, ScreensInv, screen \in HoldingsPages, HoldingsWait, Pages!Next
  PROVE  ScreensInv'
<1>1. screen.name = "holdings" /\ screen.error \in BOOLEAN
  BY DEF HoldingsPages
<1>2. CASE Pages!Refresh
  <2>1. Pages!Ask("holdings", None) /\ screen' = screen
    BY <1>1, <1>2 DEF Pages!Refresh, Pages!AskAgain
  <2> QED BY <2>1, HoldingsAsks
<1>3. CASE Pages!Retry
  <2>1. Pages!Ask("holdings", None) /\ screen' = [screen EXCEPT !.error = FALSE]
    BY <1>1, <1>3 DEF Pages!Retry, Pages!AskAgain
  <2>2. screen' \in HoldingsPages /\ screen'.holdings = screen.holdings
    BY <2>1 DEF HoldingsPages
  <2> QED BY <2>1, <2>2, HoldingsAsks
<1>4. ASSUME NEW r \in sent, Pages!Arrive(r) \/ Pages!Fail(r) PROVE ScreensInv'
  <2>1. r.what = "holdings" /\ r \in PageRequests /\ sent' = sent \ {r} /\ UNCHANGED screenAsked
        /\ r.number \in Nat /\ 0 < r.number /\ r.number <= screenAsked
    BY <1>4, OrderlyNumbers DEF HoldingsWait, Pages!Arrive, Pages!Fail, ScreensInv, Orderly
  <2>2. Orderly(sent', screenAsked') /\ screenAsked' \in Nat
    BY <2>1, RemovedOrderly DEF ScreensInv
  <2>3. CASE ~r.live
    <3>1. screen' = screen
      BY <1>4, <2>1, <2>3 DEF Pages!Arrive, Pages!Fail, Pages!Counts
    <3>2. HoldingsWait' /\ Newer'
      BY <2>1, <2>3, <3>1 DEF HoldingsWait, ScreensInv, Newer, Pages!Counts
    <3> QED BY <2>2, <3>1, <3>2 DEF ScreensInv, PageWaits
  <2>4. CASE r.live
    <3>1. \A q \in sent' : q.what = "holdings" /\ ~q.live
      BY <2>1, <2>4, OnlyOneLive DEF HoldingsWait
    <3>2. CASE Pages!Fail(r)
      <4>1. screen' = [screen EXCEPT !.error = TRUE]
        BY <2>1, <2>4, <3>2 DEF Pages!Fail, Pages!Counts, Pages!Fails
      <4>2. screen' \in HoldingsPages /\ screen'.error /\ screen'.holdings = screen.holdings
        BY <4>1 DEF HoldingsPages
      <4>3. Pages!Loaded(screen)' = Pages!Loaded(screen)
        BY <4>2 DEF Pages!Loaded, HoldingsPages
      <4>4. Newer' /\ HoldingsWait'
        BY <2>1, <3>1, <4>2, <4>3 DEF ScreensInv, Newer, Pages!Counts, HoldingsWait
      <4> QED BY <2>2, <4>2, <4>4 DEF ScreensInv, PageWaits
    <3>3. CASE Pages!Arrive(r)
      <4>1. PICK answer : answer = [number |-> r.number, asks |-> r.asks]
        OBVIOUS
      <4>2. answer \in PageAnswers /\ answer.number = r.number
        BY <2>1, <4>1 DEF PageRequests, PageAnswers
      <4>3. screen' = [screen EXCEPT !.holdings = answer, !.error = FALSE]
        BY <2>1, <2>4, <3>3, <4>1 DEF Pages!Arrive, Pages!Counts, Pages!Shows
      <4>4. screen' \in HoldingsPages /\ screen'.holdings = answer
        BY <4>2, <4>3 DEF HoldingsPages
      <4>5. Pages!Loaded(screen)' = answer
        BY <4>4 DEF Pages!Loaded, HoldingsPages
      <4>6. Newer' /\ HoldingsWait'
        BY <2>1, <3>1, <4>2, <4>4, <4>5 DEF ScreensConstants, ScreensInv, Newer, Pages!Counts, HoldingsWait
      <4> QED BY <2>2, <4>4, <4>6 DEF ScreensInv, PageWaits
    <3> QED BY <1>4, <3>2, <3>3
  <2> QED BY <2>3, <2>4
<1> QED BY <1>1, <1>2, <1>3, <1>4
        DEF Pages!Next, Pages!SelectRange, Pages!SelectYear, Pages!Submit, Pages!Type, Pages!SearchExample,
            Pages!SetType

(* A position's chart.                                                     *)
LEMMA ChartAsks ==
  ASSUME ScreensConstants, ScreensInv, screen \in ChartPages, ChartWait,
         screen' \in ChartPages, screen'.shown = screen.shown, Pages!Ask("chart", screen'.range)
  PROVE  ScreensInv'
<1>1. Orderly(sent, screenAsked) /\ screenAsked \in Nat
  BY DEF ScreensInv
<1>2. "chart" \in Sought /\ screen'.range \in Selections
  BY DEF Sought, Selections, ChartPages
<1>3. screenAsked' = screenAsked + 1 /\ Orderly(sent', screenAsked')
  BY <1>1, <1>2, Asked
<1>4. PICK new \in sent' :
        /\ new.what = "chart" /\ new.asks = screen'.range /\ new.live
        /\ \A q \in sent' : q = new \/ \E r \in sent :
             q.number = r.number /\ q.what = r.what /\ q.asks = r.asks /\ (q.live => r.live /\ r.what # "chart")
  BY <1>1, <1>2, Asked
<1>5. ChartWait'
  BY <1>4 DEF ChartWait
<1>6. Pages!Loaded(screen)' = Pages!Loaded(screen)
  BY DEF Pages!Loaded, ChartPages
<1>7. Newer'
  BY <1>2, <1>6, AskedNewer DEF ChartWait
<1> QED BY <1>1, <1>3, <1>5, <1>7 DEF ScreensInv, PageWaits

LEMMA ChartStep ==
  ASSUME ScreensConstants, ScreensInv, screen \in ChartPages, ChartWait, Pages!Next
  PROVE  ScreensInv'
<1>1. screen.name = "chart"
  BY DEF ChartPages
<1>2. CASE Pages!Refresh
  <2>1. Pages!Ask("chart", screen.range) /\ screen' = screen
    BY <1>1, <1>2 DEF Pages!Refresh, Pages!AskAgain
  <2> QED BY <2>1, ChartAsks
<1>3. CASE Pages!Retry
  <2>1. Pages!Ask("chart", screen.range) /\ screen' = [screen EXCEPT !.failure = None]
    BY <1>1, <1>3 DEF Pages!Retry, Pages!AskAgain
  <2>2. screen' \in ChartPages /\ screen'.shown = screen.shown /\ screen'.range = screen.range
    BY <2>1 DEF ChartPages
  <2> QED BY <2>1, <2>2, ChartAsks
<1>4. ASSUME NEW range \in ChartRanges, Pages!SelectRange(range) PROVE ScreensInv'
  <2>1. Pages!Ask("chart", range) /\ screen' = [screen EXCEPT !.range = range]
    BY <1>4 DEF Pages!SelectRange
  <2>2. screen' \in ChartPages /\ screen'.shown = screen.shown /\ screen'.range = range
    BY <2>1 DEF ChartPages
  <2> QED BY <2>1, <2>2, ChartAsks
<1>5. ASSUME NEW r \in sent, Pages!Arrive(r) \/ Pages!Fail(r) PROVE ScreensInv'
  <2>1. r.what = "chart" /\ r \in PageRequests /\ sent' = sent \ {r} /\ UNCHANGED screenAsked
        /\ r.number \in Nat /\ 0 < r.number /\ r.number <= screenAsked
    BY <1>5, OrderlyNumbers DEF ChartWait, Pages!Arrive, Pages!Fail, ScreensInv, Orderly
  <2>2. Orderly(sent', screenAsked') /\ screenAsked' \in Nat
    BY <2>1, RemovedOrderly DEF ScreensInv
  <2>3. CASE ~r.live
    <3>1. screen' = screen
      BY <1>5, <2>1, <2>3 DEF Pages!Arrive, Pages!Fail, Pages!Counts
    <3>2. ChartWait' /\ Newer'
      BY <2>1, <2>3, <3>1 DEF ChartWait, ScreensInv, Newer, Pages!Counts
    <3> QED BY <2>2, <3>1, <3>2 DEF ScreensInv, PageWaits
  <2>4. CASE r.live
    <3>1. \A q \in sent' : q.what = "chart" /\ ~q.live
      BY <2>1, <2>4, OnlyOneLive DEF ChartWait
    <3>2. r.asks = screen.range /\ screen.range \in ChartRanges
      BY <2>4 DEF ChartWait, ChartPages
    <3>3. CASE Pages!Fail(r)
      <4>1. screen' = [screen EXCEPT !.failure = screen.range]
        BY <2>1, <2>4, <3>2, <3>3 DEF Pages!Fail, Pages!Counts, Pages!Fails
      <4>2. screen' \in ChartPages /\ screen'.failure = screen'.range /\ screen'.shown = screen.shown
        BY <3>2, <4>1 DEF ChartPages
      <4>3. Pages!Loaded(screen)' = Pages!Loaded(screen)
        BY <4>2 DEF Pages!Loaded, ChartPages
      <4>4. Newer' /\ ChartWait'
        BY <2>1, <3>1, <4>2, <4>3 DEF ScreensInv, Newer, Pages!Counts, ChartWait
      <4> QED BY <2>2, <4>2, <4>4 DEF ScreensInv, PageWaits
    <3>4. CASE Pages!Arrive(r)
      <4>1. PICK answer : answer = [number |-> r.number, asks |-> r.asks]
        OBVIOUS
      <4>2. answer \in PageAnswers /\ answer.number = r.number /\ answer.asks = screen.range
        BY <2>1, <3>2, <4>1 DEF PageRequests, PageAnswers
      <4>3. screen' = [screen EXCEPT !.shown = answer, !.failure = None]
        BY <2>1, <2>4, <3>4, <4>1 DEF Pages!Arrive, Pages!Counts, Pages!Shows
      <4>4. screen' \in ChartPages /\ screen'.shown = answer /\ screen'.range = screen.range
        BY <4>2, <4>3 DEF ChartPages
      <4>5. Pages!Loaded(screen)' = answer
        BY <4>4 DEF Pages!Loaded, ChartPages
      <4>6. Newer' /\ ChartWait'
        BY <2>1, <3>1, <4>2, <4>4, <4>5 DEF ScreensConstants, ScreensInv, Newer, Pages!Counts, ChartWait
      <4> QED BY <2>2, <4>4, <4>6 DEF ScreensInv, PageWaits
    <3> QED BY <1>5, <3>3, <3>4
  <2> QED BY <2>3, <2>4
<1> QED BY <1>1, <1>2, <1>3, <1>4, <1>5
        DEF Pages!Next, Pages!SelectYear, Pages!Submit, Pages!Type, Pages!SearchExample, Pages!SetType

(* The search.                                                             *)
LEMMA SearchAsks ==
  ASSUME ScreensConstants, ScreensInv, screen \in SearchPages, SearchWait, NEW text \in Words,
         Pages!RunSearch(text)
  PROVE  ScreensInv'
<1>1. Orderly(sent, screenAsked) /\ screenAsked \in Nat /\ screen.type \in AssetTypes
  BY DEF ScreensInv, SearchPages
<1>2. PICK asks : asks = [query |-> text, type |-> screen.type]
  OBVIOUS
<1>3. "search" \in Sought /\ asks \in Selections /\ asks \in Queries /\ asks.type = screen.type
  BY <1>1, <1>2 DEF Sought, Selections, Queries
<1>4. Pages!Ask("search", asks)
  BY <1>2 DEF Pages!RunSearch
<1>5. screenAsked' = screenAsked + 1 /\ Orderly(sent', screenAsked')
  BY <1>1, <1>3, <1>4, Asked
<1>6. PICK new \in sent' :
        /\ new.what = "search" /\ new.asks = asks /\ new.number = screenAsked + 1 /\ new.live
        /\ \A q \in sent' : q = new \/ \E r \in sent :
             q.number = r.number /\ q.what = r.what /\ q.asks = r.asks /\ (q.live => r.live /\ r.what # "search")
  BY <1>1, <1>3, <1>4, Asked
<1>7. PICK n \in Nat : n = screenAsked + 1
  BY <1>1
<1>8. screen' = [screen EXCEPT !.text = text, !.loading = TRUE, !.error = FALSE, !.id = n]
  BY <1>7 DEF Pages!RunSearch
<1>9. screen' \in SearchPages /\ screen'.id = n /\ screen'.type = screen.type /\ screen'.results = screen.results
      /\ screen'.last = screen.last
  BY <1>8 DEF SearchPages
<1>10. \A q \in sent' : q = new \/ \E r \in sent :
          q.number = r.number /\ q.what = r.what /\ q.asks = r.asks /\ q.number # n /\ q.number \in Nat
  <2>1. \A r \in sent : r.number \in Nat /\ r.number <= screenAsked
    BY <1>1, OrderlyNumbers DEF Orderly
  <2> QED BY <1>1, <1>6, <1>7, <2>1
<1>11. SearchWait'
  BY <1>3, <1>6, <1>7, <1>9, <1>10 DEF SearchWait
<1>12. Newer'
  <2>1. Pages!Loaded(screen)' = Pages!Loaded(screen)
    BY <1>9 DEF Pages!Loaded, SearchPages
  <2>2. \A q \in sent' : q.number \in Nat /\
          (\/ q.number > screenAsked
           \/ \E r \in sent : q.number = r.number /\ q.what = r.what /\ (Pages!Counts(q)' => Pages!Counts(r)))
    <3>1. \A q \in sent' : q.what = "search"
      BY <1>11 DEF SearchWait
    <3> QED BY <1>1, <1>6, <1>7, <1>9, <1>10, <3>1 DEF Pages!Counts
  <2> QED BY <1>1, <1>5, <2>1, <2>2, StillNewer
<1> QED BY <1>1, <1>5, <1>9, <1>11, <1>12 DEF ScreensInv, PageWaits

LEMMA SearchStep ==
  ASSUME ScreensConstants, ScreensInv, screen \in SearchPages, SearchWait, Pages!Next
  PROVE  ScreensInv'
<1>1. screen.name = "search" /\ screen.text \in Words
  BY DEF SearchPages
<1>2. CASE Pages!Submit
  BY <1>1, <1>2, SearchAsks DEF Pages!Submit
<1>3. ASSUME NEW text \in Texts, Pages!SearchExample(text) PROVE ScreensInv'
  <2>1. text \in Words
    BY DEF Words
  <2> QED BY <1>3, <2>1, SearchAsks DEF Pages!SearchExample
<1>4. ASSUME NEW text \in Texts, Pages!Type(text) PROVE ScreensInv'
  <2>1. screen' = [screen EXCEPT !.text = text] /\ UNCHANGED <<sent, screenAsked>> /\ text \in Words
    BY <1>4 DEF Pages!Type, Words
  <2>2. screen' \in SearchPages /\ screen'.id = screen.id /\ screen'.type = screen.type
        /\ screen'.results = screen.results /\ screen'.last = screen.last /\ screen'.loading = screen.loading
    BY <2>1 DEF SearchPages
  <2>3. Pages!Loaded(screen)' = Pages!Loaded(screen)
    BY <2>2 DEF Pages!Loaded, SearchPages
  <2>4. SearchWait' /\ Newer'
    BY <2>1, <2>2, <2>3 DEF SearchWait, ScreensInv, Newer, Pages!Counts
  <2> QED BY <2>1, <2>2, <2>4 DEF ScreensInv, PageWaits
<1>5. ASSUME NEW type \in AssetTypes, Pages!SetType(type) PROVE ScreensInv'
  <2>1. screen' = [screen EXCEPT !.type = type, !.text = "", !.results = None, !.loading = FALSE, !.error = FALSE,
                                 !.id = 0]
        /\ UNCHANGED <<sent, screenAsked>>
    BY <1>5 DEF Pages!SetType, Pages!Started
  <2>2. screen' \in SearchPages /\ screen'.id = 0 /\ screen'.results = None /\ ~screen'.loading
    BY <2>1 DEF SearchPages, Words
  <2>3. Pages!Loaded(screen)' = None
    BY <2>2 DEF Pages!Loaded, SearchPages
  <2>4. \A r \in sent : r.number # 0
    BY OrderlyNumbers DEF ScreensInv, Orderly
  <2>5. SearchWait' /\ Newer'
    BY <2>1, <2>2, <2>3, <2>4 DEF SearchWait, Newer
  <2> QED BY <2>1, <2>2, <2>5 DEF ScreensInv, PageWaits
<1>6. ASSUME NEW r \in sent, Pages!Arrive(r) \/ Pages!Fail(r) PROVE ScreensInv'
  <2>1. r.what = "search" /\ r \in PageRequests /\ sent' = sent \ {r} /\ UNCHANGED screenAsked
        /\ r.number \in Nat /\ 0 < r.number /\ r.number <= screenAsked /\ r.asks \in Queries
    BY <1>6, OrderlyNumbers DEF SearchWait, Pages!Arrive, Pages!Fail, ScreensInv, Orderly
  <2>2. Orderly(sent', screenAsked') /\ screenAsked' \in Nat
    BY <2>1, RemovedOrderly DEF ScreensInv
  <2>3. CASE r.number # screen.id
    <3>1. screen' = screen
      BY <1>6, <2>1, <2>3 DEF Pages!Arrive, Pages!Fail, Pages!Counts
    <3>2. SearchWait' /\ Newer'
      BY <2>1, <2>3, <3>1 DEF SearchWait, ScreensInv, Newer, Pages!Counts
    <3> QED BY <2>2, <3>1, <3>2 DEF ScreensInv, PageWaits
  <2>4. CASE r.number = screen.id
    <3>1. \A q \in sent' : q.what = "search" /\ q.number # screen.id
      BY <2>1, <2>4 DEF ScreensInv, Orderly, SearchWait
    <3>2. CASE Pages!Fail(r)
      <4>1. screen' = [screen EXCEPT !.error = TRUE, !.loading = FALSE]
        BY <2>1, <2>4, <3>2 DEF Pages!Fail, Pages!Counts, Pages!Fails
      <4>2. screen' \in SearchPages /\ ~screen'.loading /\ screen'.results = screen.results /\ screen'.id = screen.id
            /\ screen'.type = screen.type /\ screen'.last = screen.last
        BY <4>1 DEF SearchPages
      <4>3. Pages!Loaded(screen)' = Pages!Loaded(screen)
        BY <4>2 DEF Pages!Loaded, SearchPages
      <4>4. Newer' /\ SearchWait'
        BY <2>1, <3>1, <4>2, <4>3 DEF ScreensInv, Newer, Pages!Counts, SearchWait
      <4> QED BY <2>2, <4>2, <4>4 DEF ScreensInv, PageWaits
    <3>3. CASE Pages!Arrive(r)
      <4>1. PICK answer : answer = [number |-> r.number, asks |-> r.asks]
        OBVIOUS
      <4>2. answer \in PageAnswers /\ answer.number = r.number /\ answer.asks = r.asks
        BY <2>1, <4>1 DEF PageRequests, PageAnswers
      <4>3. screen' = [screen EXCEPT !.results = answer, !.last = r.asks.query, !.loading = FALSE]
        BY <2>1, <2>4, <3>3, <4>1 DEF Pages!Arrive, Pages!Counts, Pages!Shows
      <4>4. screen' \in SearchPages /\ screen'.results = answer /\ screen'.last = r.asks.query /\ ~screen'.loading
            /\ screen'.id = screen.id /\ screen'.type = screen.type
        BY <2>1, <4>2, <4>3 DEF SearchPages, Queries
      <4>5. Pages!Loaded(screen)' = answer
        BY <4>4 DEF Pages!Loaded, SearchPages
      <4>6. r.asks = [type |-> screen.type, query |-> r.asks.query]
        BY <2>1, <2>4 DEF SearchWait, Queries
      <4>7. Newer' /\ SearchWait'
        BY <2>1, <3>1, <4>2, <4>4, <4>5, <4>6 DEF ScreensInv, Newer, Pages!Counts, SearchWait
      <4> QED BY <2>2, <4>4, <4>7 DEF ScreensInv, PageWaits
    <3> QED BY <1>6, <3>2, <3>3
  <2> QED BY <2>3, <2>4
<1> QED BY <1>1, <1>2, <1>3, <1>4, <1>5, <1>6
        DEF Pages!Next, Pages!SelectYear, Pages!SelectRange, Pages!Refresh, Pages!Retry

-----------------------------------------------------------------------------
(* The tax report. A finite set of numbers that is not empty has a largest:*)
(* a smallest one without would have a smaller one without.                *)
LEMMA Largest ==
  ASSUME NEW S, S \subseteq Int, IsFiniteSet(S), S # {}
  PROVE  \E m \in S : \A n \in S : m >= n
<1> DEFINE HasLargest(T) == \E m \in T : \A n \in T : m >= n
           Bad == {T \in SUBSET S : T # {} /\ ~HasLargest(T)}
           Sizes == {k \in Nat : \E T \in Bad : Cardinality(T) = k}
<1> SUFFICES ASSUME ~HasLargest(S) PROVE FALSE
  OBVIOUS
<1>1. \A T \in Bad : T \subseteq S /\ IsFiniteSet(T) /\ Cardinality(T) \in Nat
  BY FS_Subset, FS_CardinalityType
<1>2. S \in Bad
  OBVIOUS
<1>3. Sizes # {}
  <2>1. Cardinality(S) \in Sizes
    BY <1>1, <1>2
  <2> QED BY <2>1
<1>4. PICK k \in Sizes : \A j \in Sizes : ~(j < k)
  <2>1. \E x \in Sizes : \A y \in Sizes : ~(<<y, x>> \in OpToRel(<, Nat))
    <3> HIDE DEF Sizes
    <3>1. Sizes \subseteq Nat
      BY DEF Sizes
    <3> QED BY <1>3, <3>1, NatLessThanWellFounded, WFMin
  <2>2. PICK x \in Sizes : \A y \in Sizes : ~(<<y, x>> \in OpToRel(<, Nat))
    BY <2>1
  <2>3. \A y \in Sizes : y < x => <<y, x>> \in OpToRel(<, Nat)
    BY DEF OpToRel
  <2> QED BY <2>2, <2>3
<1>5. PICK T \in Bad : Cardinality(T) = k
  OBVIOUS
<1>6. PICK x \in T : TRUE
  OBVIOUS
<1>7. x \in Int /\ T \subseteq Int
  BY <1>1
<1> DEFINE rest == T \ {x}
<1>8. IsFiniteSet(rest) /\ Cardinality(rest) = k - 1 /\ k \in Nat /\ Cardinality(rest) \in Nat
  BY <1>1, <1>5, <1>6, FS_RemoveElement, FS_CardinalityType
<1>9. rest \notin Bad
  <2>1. Cardinality(rest) < k
    BY <1>8
  <2> QED BY <1>4, <1>8, <2>1
<1>10. CASE rest = {}
  <2>1. T = {x}
    BY <1>6, <1>10
  <2>2. HasLargest(T)
    BY <1>7, <2>1
  <2> QED BY <2>2
<1>11. CASE rest # {}
  <2>1. HasLargest(rest)
    BY <1>1, <1>9, <1>11
  <2>2. PICK m \in rest : \A n \in rest : m >= n
    BY <2>1
  <2>3. m \in Int /\ m \in T
    BY <1>7, <2>2
  <2>4. CASE m >= x
    <3>1. \A n \in T : m >= n
      BY <2>2, <2>4
    <3> QED BY <2>3, <3>1
  <2>5. CASE ~(m >= x)
    <3>1. \A n \in T : x >= n
      BY <1>7, <2>2, <2>3, <2>5
    <3> QED BY <1>6, <3>1
  <2> QED BY <2>4, <2>5
<1> QED BY <1>10, <1>11

(* pickYear: a year of those offered, and none only when there is none.    *)
LEMMA YearPicked ==
  ASSUME ScreensConstants, NEW years \in SUBSET Years, NEW wanted,
         NEW year, year = Pages!PickYear(years, wanted)
  PROVE  (year = None) = (years = {}) /\ (year # None => year \in years) /\ year \in Years \cup {None}
<1>1. CASE wanted \in years
  BY <1>1 DEF Pages!PickYear, ScreensConstants
<1>2. CASE wanted \notin years /\ years = {}
  BY <1>2 DEF Pages!PickYear
<1>3. CASE wanted \notin years /\ years # {}
  <2>1. years \subseteq Int /\ IsFiniteSet(years)
    BY FS_Subset DEF ScreensConstants
  <2>2. \E m \in years : \A n \in years : m >= n
    BY <1>3, <2>1, Largest
  <2>3. year \in years
    BY <1>3, <2>2 DEF Pages!PickYear, Pages!Max
  <2> QED BY <1>3, <2>3 DEF ScreensConstants
<1> QED BY <1>1, <1>2, <1>3

(* Both effects run: the years, and the report of the year if there is one.*)
LEMMA ReportsAsk ==
  ASSUME ScreensConstants, ScreensInv, screen \in ReportPages, ReportWait,
         screen' \in ReportPages, screen'.years = screen.years, screen'.year = screen.year,
         screen'.report = screen.report, Pages!AskReports(screen)
  PROVE  ScreensInv'
<1>1. Orderly(sent, screenAsked) /\ screenAsked \in Nat
  BY DEF ScreensInv
<1>2. "years" \in Sought /\ "report" \in Sought /\ None \in Selections
  BY DEF Sought, Selections
<1>3. Pages!Loaded(screen)' = Pages!Loaded(screen)
  BY DEF Pages!Loaded, ReportPages
<1>4. CASE screen.year = None
  <2>1. Pages!Ask("years", None)
    BY <1>4 DEF Pages!AskReports
  <2>2. screenAsked' = screenAsked + 1 /\ Orderly(sent', screenAsked')
    BY <1>1, <1>2, <2>1, Asked
  <2>3. PICK new \in sent' :
          /\ new.what = "years" /\ new.live
          /\ \A q \in sent' : q = new \/ \E r \in sent :
               q.number = r.number /\ q.what = r.what /\ q.asks = r.asks /\ (q.live => r.live /\ r.what # "years")
    BY <1>1, <1>2, <2>1, Asked
  <2>4. ReportWait'
    BY <1>4, <2>3 DEF ReportWait
  <2>5. Newer'
    BY <1>2, <1>3, <2>1, AskedNewer DEF ReportWait
  <2> QED BY <1>1, <2>2, <2>4, <2>5 DEF ScreensInv, PageWaits
<1>5. CASE screen.year # None
  <2>1. screen.year \in Selections
    BY <1>5 DEF ReportPages, Selections
  <2>2. PICK mid : mid = Pages!Silenced("report", sent)
    OBVIOUS
  <2>3. PICK y : y = Pages!Request("years", None, screenAsked + 1)
    OBVIOUS
  <2>4. PICK first : first = Pages!Silenced("years", mid) \cup {y}
    OBVIOUS
  <2>5. PICK r2 : r2 = Pages!Request("report", screen.year, screenAsked + 2)
    OBVIOUS
  <2>6. screenAsked' = screenAsked + 2 /\ sent' = first \cup {r2}
    BY <1>5, <2>2, <2>3, <2>4, <2>5 DEF Pages!AskReports
  <2>7. /\ Orderly(mid, screenAsked)
        /\ \A q \in mid : \E r \in sent :
             q.number = r.number /\ q.what = r.what /\ q.asks = r.asks /\ (q.live => r.live /\ r.what # "report")
    BY <1>1, <2>2, SilencedOrderly
  <2>8. /\ Orderly(first, screenAsked + 1)
        /\ y \in first /\ y.what = "years" /\ y.number = screenAsked + 1 /\ y.live
        /\ \A q \in first : q = y \/ \E r \in mid :
             q.number = r.number /\ q.what = r.what /\ q.asks = r.asks /\ (q.live => r.live /\ r.what # "years")
    BY <1>1, <1>2, <2>3, <2>4, <2>7, Replaced
  <2>9. ASSUME NEW q \in first, q # y
        PROVE  \E r \in sent : q.number = r.number /\ q.what = r.what
                              /\ (~q.live \/ (r.live /\ q.what \notin {"years", "report"}))
    <3>1. PICK m \in mid :
            q.number = m.number /\ q.what = m.what /\ q.asks = m.asks /\ (q.live => m.live /\ m.what # "years")
      BY <2>8, <2>9
    <3>2. PICK r \in sent :
            m.number = r.number /\ m.what = r.what /\ m.asks = r.asks /\ (m.live => r.live /\ r.what # "report")
      BY <2>7
    <3> QED BY <3>1, <3>2
  <2>10. /\ r2 \in PageRequests /\ r2.what = "report" /\ r2.asks = screen.year /\ r2.number = screenAsked + 2
         /\ r2.live /\ screenAsked + 2 \in Nat /\ screenAsked + 1 \in Nat
    <3>1. screenAsked + 2 \in Nat /\ screenAsked + 1 \in Nat
      BY <1>1
    <3> QED BY <1>2, <2>1, <2>5, <3>1, NewPageRequest
  <2>11. Orderly(sent', screenAsked')
    <3>1. \A r \in first : r.live => r.what # r2.what
      BY <2>8, <2>9, <2>10
    <3>2. r2.number = (screenAsked + 1) + 1 /\ screenAsked + 2 = (screenAsked + 1) + 1
      BY <1>1, <2>10
    <3> QED BY <2>6, <2>8, <2>10, <3>1, <3>2, AddedOrderly
  <2>12. \A q \in sent' : q = y \/ q = r2 \/ (~q.live /\ \E r \in sent : q.number = r.number /\ q.what = r.what)
    BY <2>6, <2>9 DEF ReportWait
  <2>13. ReportWait'
    BY <2>6, <2>8, <2>10, <2>12 DEF ReportWait
  <2>14. Newer'
    <3>1. \A q \in sent' : q.number \in Nat
      BY <2>11, OrderlyNumbers
    <3>2. \A q \in sent' : q.number \in Nat /\
            (\/ q.number > screenAsked
             \/ \E r \in sent : q.number = r.number /\ q.what = r.what /\ (Pages!Counts(q)' => Pages!Counts(r)))
      BY <1>1, <2>8, <2>10, <2>12, <3>1 DEF Pages!Counts, ReportWait
    <3> QED BY <1>1, <1>3, <2>6, <3>2, StillNewer
  <2> QED BY <2>6, <2>10, <2>11, <2>13, <2>14 DEF ScreensInv, PageWaits
<1> QED BY <1>4, <1>5

(* The years arrive, and perhaps another year is looked at.                *)
LEMMA YearsArriveStep ==
  ASSUME ScreensConstants, ScreensInv, screen \in ReportPages, ReportWait, NEW r \in sent, r.what = "years",
         NEW years \in SUBSET Years, Pages!YearsArrive(r, years)
  PROVE  ScreensInv'
<1>1. Orderly(sent, screenAsked) /\ screenAsked \in Nat /\ Orderly(sent \ {r}, screenAsked)
  BY RemovedOrderly DEF ScreensInv
<1>2. PICK year : year = Pages!PickYear(years, screen.year)
  OBVIOUS
<1>3. (year = None) = (years = {}) /\ (year # None => year \in years) /\ year \in Years \cup {None}
  BY <1>2, YearPicked
<1>4. /\ screen' = [screen EXCEPT !.years = years, !.yearsError = FALSE, !.year = year]
      /\ IF year = screen.year THEN sent' = sent \ {r} /\ UNCHANGED screenAsked
         ELSE IF year = None THEN sent' = Pages!Silenced("report", sent \ {r}) /\ UNCHANGED screenAsked
         ELSE /\ screenAsked' = screenAsked + 1
              /\ sent' = Pages!Silenced("report", sent \ {r})
                         \cup {Pages!Request("report", year, screenAsked + 1)}
  BY <1>2 DEF Pages!YearsArrive
<1>5. screen' \in ReportPages /\ screen'.years = years /\ screen'.year = year /\ screen'.report = screen.report
      /\ screen'.reportError = screen.reportError
  BY <1>3, <1>4 DEF ReportPages
<1>6. Pages!Loaded(screen)' = Pages!Loaded(screen)
  BY <1>5 DEF Pages!Loaded, ReportPages
<1>7. years # None
  BY DEF ScreensConstants
<1>8. CASE year = screen.year
  <2>1. sent' = sent \ {r} /\ UNCHANGED screenAsked
    BY <1>4, <1>8
  <2>2. ReportWait'
    BY <1>3, <1>5, <1>7, <1>8, <2>1 DEF ReportWait
  <2>3. Newer'
    BY <1>6, <2>1 DEF ScreensInv, Newer, Pages!Counts, ReportWait
  <2> QED BY <1>1, <1>5, <2>1, <2>2, <2>3 DEF ScreensInv, PageWaits
<1>9. CASE year # screen.year /\ year = None
  <2>1. sent' = Pages!Silenced("report", sent \ {r}) /\ UNCHANGED screenAsked
    BY <1>4, <1>9
  <2>2. /\ Orderly(sent', screenAsked')
        /\ \A q \in sent' : \E s \in sent :
             q.number = s.number /\ q.what = s.what /\ q.asks = s.asks /\ (q.live => s.live /\ s.what # "report")
    <3>1. PICK rest : rest = sent \ {r}
      OBVIOUS
    <3>2. Orderly(rest, screenAsked)
      BY <1>1, <3>1
    <3>3. /\ Orderly(Pages!Silenced("report", rest), screenAsked)
          /\ \A q \in Pages!Silenced("report", rest) : \E s \in rest :
               q.number = s.number /\ q.what = s.what /\ q.asks = s.asks /\ (q.live => s.live /\ s.what # "report")
      BY <1>1, <3>2, SilencedOrderly
    <3> QED BY <2>1, <3>1, <3>3
  <2>3. ReportWait'
    BY <1>3, <1>5, <1>7, <1>9, <2>2 DEF ReportWait
  <2>4. Newer'
    <3>1. \A q \in sent' : q.number \in Nat
      BY <2>2, OrderlyNumbers
    <3>2. \A q \in sent' : q.number \in Nat /\
            (\/ q.number > screenAsked
             \/ \E s \in sent : q.number = s.number /\ q.what = s.what /\ (Pages!Counts(q)' => Pages!Counts(s)))
      BY <2>2, <3>1 DEF Pages!Counts, ReportWait
    <3>3. screenAsked' \in Nat /\ screenAsked <= screenAsked'
      BY <1>1, <2>1
    <3> QED BY <1>6, <3>2, <3>3, StillNewer
  <2> QED BY <1>1, <1>5, <2>1, <2>2, <2>3, <2>4 DEF ScreensInv, PageWaits
<1>10. CASE year # screen.year /\ year # None
  <2>1. "report" \in Sought /\ year \in Selections
    BY <1>3, <1>10 DEF Sought, Selections
  <2>2. PICK new : new = Pages!Request("report", year, screenAsked + 1)
    OBVIOUS
  <2>3. screenAsked' = screenAsked + 1 /\ sent' = Pages!Silenced("report", sent \ {r}) \cup {new}
    BY <1>4, <1>10, <2>2
  <2>4. /\ Orderly(sent', screenAsked')
        /\ new \in sent' /\ new.what = "report" /\ new.asks = year /\ new.number = screenAsked + 1 /\ new.live
        /\ \A q \in sent' : q = new \/ \E s \in sent \ {r} :
             q.number = s.number /\ q.what = s.what /\ q.asks = s.asks /\ (q.live => s.live /\ s.what # "report")
    <3>1. PICK rest : rest = sent \ {r}
      OBVIOUS
    <3>2. Orderly(rest, screenAsked) /\ sent' = Pages!Silenced("report", rest) \cup {new}
      BY <1>1, <2>3, <3>1
    <3>3. /\ Orderly(sent', screenAsked + 1)
          /\ new \in sent' /\ new.what = "report" /\ new.asks = year /\ new.number = screenAsked + 1 /\ new.live
          /\ \A q \in sent' : q = new \/ \E s \in rest :
               q.number = s.number /\ q.what = s.what /\ q.asks = s.asks /\ (q.live => s.live /\ s.what # "report")
      BY <1>1, <2>1, <2>2, <3>2, Replaced
    <3> QED BY <2>3, <3>1, <3>3
  <2>5. ReportWait'
    BY <1>3, <1>5, <1>7, <2>4 DEF ReportWait
  <2>6. Newer'
    <3>1. \A q \in sent' : q.number \in Nat
      BY <2>4, OrderlyNumbers
    <3>2. \A q \in sent' : q.number \in Nat /\
            (\/ q.number > screenAsked
             \/ \E s \in sent : q.number = s.number /\ q.what = s.what /\ (Pages!Counts(q)' => Pages!Counts(s)))
      BY <1>1, <2>4, <3>1 DEF Pages!Counts, ReportWait
    <3>3. screenAsked' \in Nat /\ screenAsked <= screenAsked'
      BY <1>1, <2>3
    <3> QED BY <1>6, <3>2, <3>3, StillNewer
  <2> QED BY <1>1, <1>5, <2>3, <2>4, <2>5, <2>6 DEF ScreensInv, PageWaits
<1> QED BY <1>8, <1>9, <1>10

LEMMA ReportsStep ==
  ASSUME ScreensConstants, ScreensInv, screen \in ReportPages, ReportWait, Pages!Next
  PROVE  ScreensInv'
<1>1. screen.name = "reports"
  BY DEF ReportPages
<1>2. CASE Pages!Refresh
  <2>1. Pages!AskReports(screen) /\ screen' = screen
    BY <1>1, <1>2 DEF Pages!Refresh, Pages!AskAgain
  <2> QED BY <2>1, ReportsAsk
<1>3. CASE Pages!Retry
  <2>1. Pages!AskReports(screen) /\ screen' = [screen EXCEPT !.yearsError = FALSE, !.reportError = FALSE]
    BY <1>1, <1>3 DEF Pages!Retry, Pages!AskAgain
  <2>2. screen' \in ReportPages /\ screen'.years = screen.years /\ screen'.year = screen.year
        /\ screen'.report = screen.report
    BY <2>1 DEF ReportPages
  <2> QED BY <2>1, <2>2, ReportsAsk
<1>4. ASSUME NEW year \in Years, Pages!SelectYear(year) PROVE ScreensInv'
  <2>1. screen.years # None /\ year \in screen.years /\ screen' = [screen EXCEPT !.year = year]
        /\ Pages!Ask("report", year) /\ year # None
    BY <1>4 DEF Pages!SelectYear, ScreensConstants
  <2>2. Orderly(sent, screenAsked) /\ screenAsked \in Nat /\ "report" \in Sought /\ year \in Selections
    BY DEF ScreensInv, Sought, Selections
  <2>3. screen' \in ReportPages /\ screen'.years = screen.years /\ screen'.year = year
        /\ screen'.report = screen.report /\ screen'.yearsError = screen.yearsError
    BY <2>1 DEF ReportPages
  <2>4. screenAsked' = screenAsked + 1 /\ Orderly(sent', screenAsked')
    BY <2>1, <2>2, Asked
  <2>5. PICK new \in sent' :
          /\ new.what = "report" /\ new.asks = year /\ new.live
          /\ \A q \in sent' : q = new \/ \E r \in sent :
               q.number = r.number /\ q.what = r.what /\ q.asks = r.asks /\ (q.live => r.live /\ r.what # "report")
    BY <2>1, <2>2, Asked
  <2>6. ReportWait'
    BY <2>1, <2>3, <2>5 DEF ReportWait
  <2>7. Pages!Loaded(screen)' = Pages!Loaded(screen)
    BY <2>3 DEF Pages!Loaded, ReportPages
  <2>8. Newer'
    BY <2>1, <2>2, <2>7, AskedNewer DEF ReportWait
  <2> QED BY <2>2, <2>3, <2>4, <2>6, <2>8 DEF ScreensInv, PageWaits
<1>5. ASSUME NEW r \in sent, Pages!Arrive(r), r.what = "years", r.live PROVE ScreensInv'
  <2>1. PICK years \in SUBSET Years : Pages!YearsArrive(r, years)
    BY <1>5 DEF Pages!Arrive, Pages!Counts
  <2> QED BY <1>5, <2>1, YearsArriveStep
<1>6. ASSUME NEW r \in sent, Pages!Arrive(r) \/ Pages!Fail(r), ~(Pages!Arrive(r) /\ r.what = "years" /\ r.live)
      PROVE  ScreensInv'
  <2>1. r.what \in {"years", "report"} /\ r \in PageRequests /\ sent' = sent \ {r} /\ UNCHANGED screenAsked
        /\ r.number \in Nat /\ 0 < r.number /\ r.number <= screenAsked
    BY <1>6, OrderlyNumbers DEF ReportWait, Pages!Arrive, Pages!Fail, Pages!Counts, ScreensInv, Orderly
  <2>2. Orderly(sent', screenAsked') /\ screenAsked' \in Nat
    BY <2>1, RemovedOrderly DEF ScreensInv
  <2>3. CASE ~r.live
    <3>1. screen' = screen
      BY <1>6, <2>1, <2>3 DEF Pages!Arrive, Pages!Fail, Pages!Counts
    <3>2. ReportWait' /\ Newer'
      BY <2>1, <2>3, <3>1 DEF ReportWait, ScreensInv, Newer, Pages!Counts
    <3> QED BY <2>2, <3>1, <3>2 DEF ScreensInv, PageWaits
  <2>4. CASE r.live /\ Pages!Fail(r)
    <3>1. PICK yearsError \in BOOLEAN, reportError \in BOOLEAN :
            /\ screen' = [screen EXCEPT !.yearsError = yearsError, !.reportError = reportError]
            /\ yearsError = (screen.yearsError \/ r.what = "years")
            /\ reportError = (screen.reportError \/ r.what = "report")
      <4>1. screen.yearsError \in BOOLEAN /\ screen.reportError \in BOOLEAN
        BY DEF ReportPages
      <4>2. CASE r.what = "years"
        <5>1. screen' = [screen EXCEPT !.yearsError = TRUE]
          BY <2>4, <4>2 DEF Pages!Fail, Pages!Counts, Pages!Fails
        <5>2. screen' = [screen EXCEPT !.yearsError = TRUE, !.reportError = screen.reportError]
          BY <5>1 DEF ReportPages
        <5> QED BY <4>1, <4>2, <5>2
      <4>3. CASE r.what = "report"
        <5>1. screen' = [screen EXCEPT !.reportError = TRUE]
          BY <2>4, <4>3 DEF Pages!Fail, Pages!Counts, Pages!Fails
        <5>2. screen' = [screen EXCEPT !.yearsError = screen.yearsError, !.reportError = TRUE]
          BY <5>1 DEF ReportPages
        <5> QED BY <4>1, <4>3, <5>2
      <4> QED BY <2>1, <4>2, <4>3
    <3>2. screen' \in ReportPages /\ screen'.years = screen.years /\ screen'.year = screen.year
          /\ screen'.report = screen.report
          /\ screen'.yearsError = (screen.yearsError \/ r.what = "years")
          /\ screen'.reportError = (screen.reportError \/ r.what = "report")
      BY <3>1 DEF ReportPages
    <3>3. Pages!Loaded(screen)' = Pages!Loaded(screen)
      BY <3>2 DEF Pages!Loaded, ReportPages
    <3>4. ReportWait' /\ Newer'
      BY <2>1, <3>2, <3>3 DEF ScreensInv, Newer, Pages!Counts, ReportWait
    <3> QED BY <2>2, <3>2, <3>4 DEF ScreensInv, PageWaits
  <2>5. CASE r.live /\ Pages!Arrive(r) /\ r.what = "report"
    <3>1. PICK answer : answer = [number |-> r.number, asks |-> r.asks]
      OBVIOUS
    <3>2. answer \in PageAnswers /\ answer.number = r.number /\ answer.asks = screen.year
      BY <2>1, <2>5, <3>1 DEF PageRequests, PageAnswers, ReportWait
    <3>3. screen' = [screen EXCEPT !.report = answer, !.reportError = FALSE]
      BY <2>5, <3>1 DEF Pages!Arrive, Pages!Counts, Pages!Shows
    <3>4. screen' \in ReportPages /\ screen'.report = answer /\ screen'.years = screen.years
          /\ screen'.year = screen.year /\ screen'.yearsError = screen.yearsError
      BY <3>2, <3>3 DEF ReportPages
    <3>5. Pages!Loaded(screen)' = answer
      BY <3>4 DEF Pages!Loaded, ReportPages
    <3>6. \A q \in sent' : q.what = "report" => ~q.live
      BY <2>1, <2>5, OnlyOneLive
    <3>7. ReportWait'
      BY <2>1, <2>5, <3>2, <3>4, <3>6 DEF ScreensConstants, ReportWait
    <3>8. Newer'
      BY <2>1, <3>2, <3>5, <3>6, <3>7 DEF Newer, Pages!Counts, ReportWait
    <3> QED BY <2>2, <3>4, <3>7, <3>8 DEF ScreensInv, PageWaits
  <2> QED BY <1>6, <2>1, <2>3, <2>4, <2>5
<1> QED BY <1>1, <1>2, <1>3, <1>4, <1>5, <1>6
        DEF Pages!Next, Pages!SelectRange, Pages!Submit, Pages!Type, Pages!SearchExample, Pages!SetType

-----------------------------------------------------------------------------
LEMMA StepScreensInv ==
  ASSUME ScreensConstants, ScreensInv, Pages!Next
  PROVE  ScreensInv'
BY HoldingsStep, ChartStep, SearchStep, ReportsStep DEF ScreensInv, PageWaits

LEMMA InitScreensInv ==
  ASSUME ScreensConstants
  PROVE  Pages!Init => ScreensInv
<1> SUFFICES ASSUME Pages!Init PROVE ScreensInv
  OBVIOUS
<1>1. ASSUME NEW what \in Sought, NEW asks \in Selections, sent = {Pages!Request(what, asks, 1)}, screenAsked = 1,
             Pages!Loaded(screen) = None, PageWaits
      PROVE  ScreensInv
  <2>1. Orderly(sent, screenAsked)
    BY <1>1, NewPageRequest DEF Orderly
  <2> QED BY <1>1, <2>1 DEF ScreensInv, Newer
<1>2. {"holdings", "chart", "years"} \subseteq Sought /\ None \in Selections
  BY DEF Sought, Selections
<1>3. CASE screen = [name |-> "holdings", holdings |-> None, error |-> FALSE]
  <2>1. sent = {Pages!Request("holdings", None, 1)} /\ screenAsked = 1 /\ Pages!Loaded(screen) = None
    BY <1>3 DEF Pages!Init, Pages!Loaded
  <2>2. screen \in HoldingsPages /\ HoldingsWait
    BY <1>2, <1>3, <2>1, NewPageRequest DEF HoldingsPages, HoldingsWait
  <2> QED BY <1>1, <1>2, <2>1, <2>2 DEF PageWaits
<1>4. ASSUME NEW range \in ChartRanges,
             screen = [name |-> "chart", range |-> range, shown |-> None, failure |-> None]
      PROVE  ScreensInv
  <2>1. sent = {Pages!Request("chart", range, 1)} /\ screenAsked = 1 /\ Pages!Loaded(screen) = None
        /\ range \in Selections
    BY <1>4 DEF Pages!Init, Pages!Loaded, Selections
  <2>2. screen \in ChartPages /\ ChartWait
    BY <1>2, <1>4, <2>1, NewPageRequest DEF ChartPages, ChartWait
  <2> QED BY <1>1, <1>2, <2>1, <2>2 DEF PageWaits
<1>5. ASSUME NEW type \in AssetTypes,
             screen = [name |-> "search", type |-> type, text |-> "", results |-> None, last |-> "",
                       loading |-> FALSE, error |-> FALSE, id |-> 0]
      PROVE  ScreensInv
  <2>1. sent = {} /\ screenAsked = 0 /\ Pages!Loaded(screen) = None
    BY <1>5 DEF Pages!Init, Pages!Loaded
  <2>2. screen \in SearchPages /\ SearchWait
    BY <1>5, <2>1 DEF SearchPages, Words, SearchWait
  <2> QED BY <2>1, <2>2 DEF PageWaits, ScreensInv, Orderly, Newer
<1>6. CASE screen = [name |-> "reports", years |-> None, yearsError |-> FALSE, year |-> None,
                     report |-> None, reportError |-> FALSE]
  <2>1. sent = {Pages!Request("years", None, 1)} /\ screenAsked = 1 /\ Pages!Loaded(screen) = None
    BY <1>6 DEF Pages!Init, Pages!Loaded
  <2>2. screen \in ReportPages
    BY <1>6 DEF ReportPages
  <2>3. \A r \in sent : r.what = "years" /\ r.live
    BY <1>2, <2>1, NewPageRequest
  <2>4. sent # {} /\ screen.year = None /\ screen.years = None
    BY <1>6, <2>1
  <2>5. ReportWait
    BY <2>3, <2>4 DEF ReportWait
  <2> QED BY <1>1, <1>2, <2>1, <2>2, <2>5 DEF PageWaits
<1> QED BY <1>3, <1>4, <1>5, <1>6 DEF Pages!Init, Pages!Pages

LEMMA ScreensInvSafe ==
  ASSUME ScreensInv
  PROVE  Pages!ScreensKeepUp
<1>1. Pages!NeverGoesBack
  BY DEF ScreensInv, Newer, Pages!NeverGoesBack
<1>2. CASE screen \in HoldingsPages /\ HoldingsWait
  <2>1. screen.name = "holdings"
    BY <1>2 DEF HoldingsPages
  <2>2. Pages!NeverWaitsForNothing
    BY <1>2, <2>1 DEF Pages!NeverWaitsForNothing, Pages!Waits, Pages!View, Pages!HoldingsView, HoldingsWait, Pages!Counts
  <2> QED BY <1>1, <2>1, <2>2 DEF Pages!AnswersTheSelection, Pages!ScreensKeepUp
<1>3. CASE screen \in ChartPages /\ ChartWait
  <2>1. screen.name = "chart"
    BY <1>3 DEF ChartPages
  <2>2. Pages!NeverWaitsForNothing
    BY <1>3, <2>1 DEF Pages!NeverWaitsForNothing, Pages!Waits, Pages!View, Pages!ChartView, ChartWait, Pages!Counts
  <2> QED BY <1>1, <2>1, <2>2 DEF Pages!AnswersTheSelection, Pages!ScreensKeepUp
<1>4. CASE screen \in SearchPages /\ SearchWait
  <2>1. screen.name = "search"
    BY <1>4 DEF SearchPages
  <2>2. Pages!NeverWaitsForNothing
    BY <1>4, <2>1 DEF Pages!NeverWaitsForNothing, Pages!Waits, Pages!View, Pages!SearchView, SearchWait, Pages!Counts
  <2> QED BY <1>1, <1>4, <2>1, <2>2 DEF SearchWait, Pages!AnswersTheSelection, Pages!ScreensKeepUp
<1>5. CASE screen \in ReportPages /\ ReportWait
  <2>1. screen.name = "reports" /\ screen.yearsError \in BOOLEAN /\ screen.reportError \in BOOLEAN
    BY <1>5 DEF ReportPages
  <2>2. Pages!NeverWaitsForNothing
    BY <1>5, <2>1
    DEF Pages!NeverWaitsForNothing, Pages!Waits, Pages!View, Pages!ReportsView, Pages!ShownReport, ReportWait,
        Pages!Counts
  <2> QED BY <1>1, <1>5, <2>1, <2>2 DEF ReportWait, Pages!AnswersTheSelection, Pages!ScreensKeepUp
<1> QED BY <1>2, <1>3, <1>4, <1>5 DEF ScreensInv, PageWaits

(* However answers cross: no screen waits for nothing, goes back to older  *)
(* numbers, or shows an answer to something else than was selected (the    *)
(* effects and their cleanup, searchId, pickYear).                         *)
THEOREM TheScreensKeepUp == PortfolioSpec => []ScreensKeepUp
<1> USE ScreensAssumption
<1> DEFINE I == part = "screens" => ScreensInv
<1>1. PortfolioInit => I
  BY InitScreensInv DEF PortfolioInit
<1>2. I /\ [PortfolioNext]_<<part, vars, sessionVars, offlineVars, homeVars, screenVars, panelVars>> => I'
  <2> SUFFICES ASSUME I, [PortfolioNext]_<<part, vars, sessionVars, offlineVars, homeVars, screenVars, panelVars>>,
                      part' = "screens"
               PROVE  ScreensInv'
    OBVIOUS
  <2>1. part = "screens" /\ (Pages!Next \/ UNCHANGED screenVars)
    BY DEF PortfolioNext, ReplaysMove, SessionMoves, OfflineMoves, DashboardMoves, ScreensMove, AnalystMoves,
           OthersWait
  <2>2. CASE UNCHANGED screenVars
    BY <2>1, <2>2
    DEF screenVars, ScreensInv, PageWaits, HoldingsWait, ChartWait, SearchWait, ReportWait, Newer, Pages!Loaded,
        Pages!Counts
  <2> QED BY <2>1, <2>2, StepScreensInv
<1>3. I => ScreensKeepUp
  BY ScreensInvSafe DEF ScreensKeepUp
<1> QED BY <1>1, <1>2, <1>3, PTL DEF PortfolioSpec

=============================================================================
