----------------------------- MODULE LedgerOps -----------------------------
(***************************************************************************)
(* The arithmetic of the trade ledger (backend/services/asset_services.py  *)
(* and allocation.py): the order trades are replayed in, the replay that   *)
(* finds an oversold history and the profit of every sell, and the two     *)
(* replays that split a holding over the user's accounts.                  *)
(*                                                                         *)
(* A quantity is a natural number of QTY_STEPs (as_quantity rounds to that *)
(* step), a price a natural number, a date a natural number. Accounts are  *)
(* numbered in the order of their names and 0 is "not set" (ACCOUNT_UNSET).*)
(***************************************************************************)
EXTENDS Integers, Sequences, FiniteSets, SequencesExt

CONSTANTS
  ToleranceScale,   (* 1 / SELL_ALL_TOLERANCE: 10^12 in the code        *)
  NAccounts         (* how many named accounts there are (ACCOUNT_TYPES) *)

ASSUME ScaleAssumption == ToleranceScale \in Nat \ {0}
ASSUME AccountsAssumption == NAccounts \in Nat

UNSET == 0
Accounts == 0..NAccounts

Larger(a, b) == IF a >= b THEN a ELSE b
Smaller(a, b) == IF a <= b THEN a ELSE b

(* How much more than `owned` still counts as "sell everything": one step  *)
(* or a fraction of a large position, whichever is more.                   *)
Tolerance(owned) == Larger(1, owned \div ToleranceScale)

(* A slip: a sell of a step too much leaves minus one step.                *)
LeftUnclamped(owned, qty) == owned - qty

(* A sell of everything leaves nothing, also when it asks a step too much. *)
Left(owned, qty) == Larger(0, owned - qty)

(* LEDGER_ORDER: by date, then buys before sells, then by id.              *)
EarlierTrade(t, u) ==
  \/ t.at < u.at
  \/ t.at = u.at /\ t.action = "BUY" /\ u.action = "SELL"
  \/ t.at = u.at /\ t.action = u.action /\ t.id < u.id

(* How many of the trades T come before one.                               *)
Place(T, t) == Cardinality({u \in T : EarlierTrade(u, t)})

InLedgerOrder(T) ==
  [i \in 1..Cardinality(T) |-> CHOOSE t \in T : Place(T, t) = i - 1]

(* A session that has loaded a trade before keeps it as it was then (and   *)
(* as it has changed it): the query decides which rows come back and in    *)
(* which order, but does not refresh it.                                   *)
AsLoaded(t, loaded) ==
  IF \E o \in loaded : o.id = t.id THEN CHOOSE o \in loaded : o.id = t.id ELSE t

Loaded(T, loaded) ==
  LET rows == InLedgerOrder(T)
      object == [t \in T |-> AsLoaded(t, loaded)]
  IN  [i \in DOMAIN rows |-> object[rows[i]]]

(* The trades T as a session that has loaded none of them reads them.      *)
History(T) == Loaded(T, {})

-----------------------------------------------------------------------------
(* The replay of one symbol (_replay_ledger). The average cost is the      *)
(* fraction cost.num / cost.den, and `profit` holds what each trade's      *)
(* profit column is set to, as a fraction too.                             *)

NoProfit == [num |-> 0, den |-> 1]

CommonDivisor(a, b) ==
  LET gcd[m \in Nat, n \in Nat] == IF n = 0 THEN m ELSE gcd[n, m % n]
  IN  gcd[a, b]

(* A fraction in lowest terms: equal amounts are the same amount.          *)
Amount(num, den) ==
  LET d == CommonDivisor(IF num < 0 THEN -num ELSE num, den)
  IN  [num |-> num \div d, den |-> den \div d]

EmptyReplay == [qty |-> 0, cost |-> [num |-> 0, den |-> 1], oversold |-> FALSE,
                profit |-> << >>]

ReplayBuy(s, t) ==
  [s EXCEPT !.qty  = @ + t.qty,
            !.cost = [num |-> s.qty * @.num + t.qty * t.price * @.den,
                      den |-> @.den * (s.qty + t.qty)],
            !.profit = (t.id :> NoProfit) @@ @]

ReplaySell(s, t) ==
  IF t.qty > s.qty + Tolerance(s.qty)
  THEN [s EXCEPT !.oversold = TRUE]
  ELSE [s EXCEPT !.qty = Left(@, t.qty),
                 !.profit = (t.id :> Amount((t.price * s.cost.den - s.cost.num) * t.qty, s.cost.den)) @@ @]

(* The code returns at the first sell of more than was owned, so the       *)
(* trades after it keep the profit they had.                               *)
ReplayTrade(s, t) ==
  CASE s.oversold                        -> s
    [] ~s.oversold /\ t.action = "BUY"  -> ReplayBuy(s, t)
    [] ~s.oversold /\ t.action = "SELL" -> ReplaySell(s, t)

(* What a replay holds after each of the trades.                           *)
Replays(history) ==
  LET upTo[n \in 0..Len(history)] ==
        IF n = 0 THEN EmptyReplay ELSE ReplayTrade(upTo[n - 1], history[n])
  IN  upTo

Replay(history) == Replays(history)[Len(history)]

-----------------------------------------------------------------------------
(* The holdings page and the chart (apply_trade): a sell within the        *)
(* tolerance of the whole position removes it.                             *)
ApplyTrade(owned, t) ==
  CASE t.action = "BUY" -> owned + t.qty
    [] t.action = "SELL" /\ t.qty >= owned - Tolerance(owned) -> 0
    [] t.action = "SELL" /\ t.qty <  owned - Tolerance(owned) -> owned - t.qty

-----------------------------------------------------------------------------
(* The split of one holding over its accounts (account_split). A sell      *)
(* takes from its own account, then from "not set", then from the largest  *)
(* other account, ties by name.                                            *)

NothingHeld == [a \in Accounts |-> 0]

(* What the accounts up to each of them hold together.                     *)
RunningTotal(held) ==
  LET upTo[a \in Accounts] == held[a] + (IF a = 0 THEN 0 ELSE upTo[a - 1])
  IN  upTo

Total(held) == RunningTotal(held)[NAccounts]

(* What some of the accounts hold together.                                *)
Part(held, some) == [a \in Accounts |-> IF a \in some THEN held[a] ELSE 0]

(* A slip: the sell's own account gets no precedence.                      *)
DrawnLargestFirst(held, own, a, b) ==
  /\ a # b
  /\ \/ a = UNSET
     \/ b # UNSET /\ held[a] > held[b]
     \/ b # UNSET /\ held[a] = held[b] /\ a < b

DrawnBefore(held, own, a, b) ==
  \/ a = own /\ b # own
  \/ /\ a # own /\ b # own /\ a # b
     /\ \/ a = UNSET
        \/ b # UNSET /\ held[a] > held[b]
        \/ b # UNSET /\ held[a] = held[b] /\ a < b

DrawDown(held, own, qty) ==
  [a \in Accounts |->
     LET first == {b \in Accounts : DrawnBefore(held, own, b, a)}
         rest  == Left(qty, Total(Part(held, first)))
     IN  held[a] - Smaller(rest, held[a])]

(* What a sell tagged with an account may use: its own shares and those    *)
(* with no account. Anything past that (and the tolerance) is a shortfall. *)
Usable(held, own) == held[own] + held[UNSET]

FallsShort(held, t) ==
  /\ t.account # UNSET
  /\ t.qty > Usable(held, t.account) + Tolerance(Usable(held, t.account))

SoldOut(held, qty) == qty >= Total(held) - Tolerance(Total(held))

Noted(short, id, qty) ==
  [i \in DOMAIN short \cup {id} |-> IF i = id THEN qty ELSE short[i]]

EmptySplit == [held |-> NothingHeld, short |-> << >>]

SplitTrade(s, t) ==
  IF t.action = "BUY"
  THEN [s EXCEPT !.held[t.account] = @ + t.qty]
  ELSE [held  |-> IF SoldOut(s.held, t.qty) THEN NothingHeld
                  ELSE DrawDown(s.held, t.account, t.qty),
        short |-> IF FallsShort(s.held, t)
                  THEN Noted(s.short, t.id, t.qty - Usable(s.held, t.account))
                  ELSE s.short]

AccountSplit(history) == FoldLeft(SplitTrade, EmptySplit, history)

(* account_oversell_added: some sell is now short by more than before,     *)
(* over one step more. A sell with no entry is short of nothing.           *)
ShortOf(short, id) == IF id \in DOMAIN short THEN short[id] ELSE 0

OversellAdded(before, after) ==
  \E id \in DOMAIN after : after[id] > ShortOf(before, id) + 1

=============================================================================
