------------------------------ MODULE MCLedger ------------------------------
(***************************************************************************)
(* Small instances of Ledger: two requests at once, at most four trades    *)
(* ever, two symbols and two accounts. Quantities are chosen so that the   *)
(* difference between owning enough and selling too much is more than the  *)
(* tolerance of one step, and a difference of one step is reachable too.   *)
(***************************************************************************)
EXTENDS Ledger

CONSTANTS p1, p2, p3

BothAlike == Permutations({p1, p2})

AllAlike == Permutations({p1, p2, p3})

T(id, action, qty, at, symbol, account) ==
  [id |-> id, action |-> action, qty |-> qty, price |-> 1, at |-> at,
   symbol |-> symbol, api |-> symbol, account |-> account]

(* A plain buy and sell; a sell tagged to another account than its buy,    *)
(* from before accounts were checked. With one asset allowed, only a trade *)
(* that is alone may move to the other.                                    *)
SmallHistories ==
  { {T(1, "BUY", 4, 1, "aapl", 1), T(2, "SELL", 3, 3, "aapl", 1)},
    {T(1, "BUY", 6, 1, "aapl", 1), T(2, "SELL", 5, 2, "aapl", 2)} }

SmallTemplates ==
  { T(1, "BUY", 3, 2, "aapl", 1), T(1, "SELL", 4, 3, "aapl", 1) }

E(fields, t) == [fields |-> fields, to |-> t]

SmallEdits ==
  { E({"qty", "price", "account"}, T(1, "BUY", 7, 1, "aapl", 2)),
    E({"at"}, T(1, "BUY", 1, 2, "aapl", 1)),
    E({"symbol", "api"}, T(1, "BUY", 1, 1, "btc", 1)) }

(* A buy and a sell, and room for a dearer buy between them; a trade may   *)
(* move to the other symbol, or change its price.                          *)
MoveHistories ==
  { {T(1, "BUY", 4, 1, "aapl", 1), T(2, "SELL", 3, 3, "aapl", UNSET)} }

MoveTemplates == {[T(1, "BUY", 6, 2, "aapl", 2) EXCEPT !.price = 3]}

MoveEdits ==
  { E({"symbol", "api"}, T(1, "BUY", 1, 2, "btc", 1)), E({"price"}, [T(1, "BUY", 1, 1, "aapl", 1) EXCEPT !.price = 2]) }

(* Two edits of one trade, one making it a sell, the other more shares.    *)
OverlapHistories == {{T(1, "BUY", 3, 1, "aapl", 1), T(2, "BUY", 2, 2, "aapl", 1)}}

OverlapEdits ==
  { E({"action"}, T(1, "SELL", 1, 1, "aapl", 1)), E({"qty"}, T(1, "BUY", 7, 1, "aapl", 1)) }

(* Deleting the first untagged sell makes the second draw from the largest *)
(* account, and leaves the sell tagged with that account short.            *)
ShiftingHistories ==
  { {T(1, "BUY", 8, 1, "aapl", 1), T(2, "BUY", 12, 1, "aapl", 2), T(3, "SELL", 6, 2, "aapl", UNSET),
     T(4, "SELL", 8, 3, "aapl", UNSET), T(5, "SELL", 6, 4, "aapl", 2)} }

SellOne == {T(1, "SELL", 1, 5, "aapl", 1)}

NoEdits == {}

NoTemplates == {}

(* One trade, of the one asset that is allowed; buys of it and of another. *)
OneAsset == {{T(1, "BUY", 1, 1, "aapl", UNSET)}}

TwoBuys == {T(1, "BUY", 1, 1, s, UNSET) : s \in {"aapl", "btc"}}

=============================================================================
