------------------------------ MODULE Holdings ------------------------------
(***************************************************************************)
(* Four replays of one holding's trades that the pages show side by side:  *)
(* the ledger check (_replay_ledger), the holdings and the chart           *)
(* (apply_trade), the split behind the account check and the add form      *)
(* (account_split) and the allocation view (allocation.replay_accounts).   *)
(*                                                                         *)
(* A step is the next trade, in ledger order, of a history the trade       *)
(* routes accepted: a sell of more than the ledger has never comes.        *)
(***************************************************************************)
EXTENDS LedgerOps

CONSTANTS
  Quantities,   (* what a trade's quantity may be                           *)
  MaxTrades     (* bounds the history                                       *)

ASSUME QuantitiesAssumption == Quantities \subseteq Nat \ {0}
ASSUME MaxTradesAssumption == MaxTrades \in Nat

VARIABLES
  ledger,   (* quantity in _replay_ledger                                   *)
  owned,    (* quantity in apply_trade (0: not a holding)                   *)
  split,    (* quantity of each account in account_split                    *)
  alloc,    (* replay_accounts: a function of the accounts that hold some   *)
  dust,     (* the tolerances of the sells of everything so far             *)
  logged    (* how many trades so far                                       *)

vars == <<ledger, owned, split, alloc, dust, logged>>

Trade == [id : {0}, action : {"BUY", "SELL"}, qty : Quantities, account : Accounts]

-----------------------------------------------------------------------------
(* replay_accounts, loop by loop: a dict of the accounts that hold some.   *)

Held(accounts, a) == IF a \in DOMAIN accounts THEN accounts[a] ELSE 0

SumOf(accounts) == Total([a \in Accounts |-> Held(accounts, a)])

(* A slip: the untagged shares get no precedence.                          *)
SortsBySize(accounts, a, b) ==
  \/ accounts[a] > accounts[b]
  \/ accounts[a] = accounts[b] /\ a < b

SortsBefore(accounts, a, b) ==
  \/ a = UNSET /\ b # UNSET
  \/ b # UNSET /\ accounts[a] > accounts[b]
  \/ b # UNSET /\ accounts[a] = accounts[b] /\ a < b

(* The others sorted: each with as many before it as sort before it.       *)
DrawOrder(accounts, own) ==
  LET others == DOMAIN accounts \ {own}
  IN  [i \in 1..Cardinality(others) |->
         CHOOSE a \in others :
           Cardinality({b \in others : SortsBefore(accounts, b, a)}) = i - 1]

TakeFrom(s, a) ==
  LET taken == Smaller(s.rest, Held(s.accounts, a))
  IN  [rest |-> s.rest - taken,
       accounts |-> [b \in DOMAIN s.accounts |->
                       IF b = a THEN s.accounts[b] - taken ELSE s.accounts[b]]]

NonEmpty(accounts) == Restrict(accounts, {a \in DOMAIN accounts : accounts[a] > 0})

AllocateBuy(accounts, t) ==
  [a \in DOMAIN accounts \cup {t.account} |->
     Held(accounts, a) + (IF a = t.account THEN t.qty ELSE 0)]

(* From its own account first, then from the others one after the other.   *)
Draws(accounts, t) ==
  LET others == DrawOrder(accounts, t.account)
      drawn[i \in 0..Len(others)] ==
        IF i = 0 THEN TakeFrom([rest |-> t.qty, accounts |-> accounts], t.account)
                 ELSE TakeFrom(drawn[i - 1], others[i])
  IN  drawn

AllocateSell(accounts, t) ==
  IF SumOf(accounts) = 0 THEN accounts
  ELSE IF t.qty >= SumOf(accounts) - Tolerance(SumOf(accounts)) THEN << >>
  ELSE NonEmpty(Draws(accounts, t)[Len(DrawOrder(accounts, t.account))].accounts)

-----------------------------------------------------------------------------
(* The add form's "You own N" (Transactions/tradeForm.js), from a row of   *)
(* the holdings: what a sell from an account can take.                     *)

(* A slip: the shares with no account set are forgotten.                   *)
OwnedInItAlone(account) == IF account = UNSET THEN owned ELSE Smaller(owned, split[account])

OwnedForAccount(account) ==
  IF account = UNSET THEN owned ELSE Smaller(owned, split[account] + split[UNSET])

(* What the server accepts of a sell dated now, the last of the history.   *)
Accepts(t) ==
  /\ t.qty <= ledger + Tolerance(ledger)
  /\ ~OversellAdded(<< >>, SplitTrade([held |-> split, short |-> << >>], t).short)

-----------------------------------------------------------------------------
Init ==
  /\ ledger = 0
  /\ owned = 0
  /\ split = NothingHeld
  /\ alloc = << >>
  /\ dust = 0
  /\ logged = 0

Buy(t) ==
  /\ t.action = "BUY"
  /\ ledger' = ledger + t.qty
  /\ owned' = ApplyTrade(owned, t)
  /\ split' = SplitTrade([held |-> split, short |-> << >>], t).held
  /\ alloc' = AllocateBuy(alloc, t)
  /\ UNCHANGED dust

Sell(t) ==
  /\ t.action = "SELL"
  /\ t.qty <= ledger + Tolerance(ledger)
  /\ ledger' = Left(ledger, t.qty)
  /\ owned' = ApplyTrade(owned, t)
  /\ split' = SplitTrade([held |-> split, short |-> << >>], t).held
  /\ alloc' = AllocateSell(alloc, t)
  /\ dust' = IF t.qty >= owned - Tolerance(owned) THEN dust + Tolerance(owned) ELSE dust

Next ==
  /\ logged < MaxTrades
  /\ logged' = logged + 1
  /\ \E t \in Trade : Buy(t) \/ Sell(t)

Spec == Init /\ [][Next]_vars

-----------------------------------------------------------------------------
(* Quantities are natural numbers: no position and no account of either    *)
(* replay ever goes negative.                                              *)
TypeOK ==
  /\ ledger \in Nat /\ owned \in Nat /\ dust \in Nat /\ logged \in Nat
  /\ split \in [Accounts -> Nat]
  /\ DOMAIN alloc \subseteq Accounts /\ \A a \in DOMAIN alloc : alloc[a] \in Nat \ {0}

(* The two splits are the same, account by account, and add up to the      *)
(* holding: the allocation view, the account check and the "You own N"     *)
(* hint never disagree with each other or with the position, though each   *)
(* draws sells down in code of its own.                                    *)
SplitsAgree ==
  /\ Total(split) = owned /\ SumOf(alloc) = owned
  /\ \A a \in Accounts : split[a] = Held(alloc, a)

(* The holdings page never shows more than the ledger lets the user sell,  *)
(* and less only by the tolerances of the sells of everything so far.      *)
LedgerCoversHolding == ledger >= owned /\ ledger - owned <= dust

(* A sell its account (with the untagged shares) can cover leaves the      *)
(* other named accounts as they were, up to the tolerances.                *)
OwnAccountFirst ==
  [][split' # split =>
       \A t \in Trade :
         (Sell(t) /\ t.account # UNSET /\ ~FallsShort(split, t)) =>
           \A a \in Accounts \ {t.account, UNSET} :
             split[a] - split'[a] <= Tolerance(owned) + Tolerance(Usable(split, t.account))]_vars

(* The add form's hint and the server agree on a sell dated now: one that  *)
(* is not warned about is never refused, and one that is accepted though   *)
(* warned about is above the hint by no more than the tolerances.          *)
HintAgreesWithServer ==
  \A t \in {u \in Trade : u.action = "SELL"} :
    LET owns == OwnedForAccount(t.account)
    IN  /\ t.qty <= owns => Accepts(t)
        /\ Accepts(t) => t.qty <= owns + dust + Tolerance(ledger) + Tolerance(Usable(split, t.account)) + 1

=============================================================================
