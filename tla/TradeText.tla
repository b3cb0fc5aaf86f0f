------------------------------ MODULE TradeText ------------------------------
(***************************************************************************)
(* How the rows of text read from a screenshot become trades               *)
(* (Transactions/tradeTextParser.js): labels claim their values, what is   *)
(* left is read as free text, a list of trades is cut into items. Which    *)
(* words make a label, a ticker or a number is left out: a row is what the *)
(* patterns find in it. A value is known by the row it was read from, so   *)
(* what matters can be said: whose amount a trade was given. Rows have no  *)
(* coordinates, so a value may always be the row below and there are no    *)
(* tables; two items of one trade, the first without amounts, do not come. *)
(***************************************************************************)
EXTENDS Naturals, Sequences

CONSTANTS
  None,
  MaxRows       \* bound: rows of a screen

VARIABLE screen \* the rows, top to bottom

(* label: [kind, priority] of the label the row starts with, followed by   *)
(* its value or not (bare); shape: what the whole row looks like; word: a  *)
(* buy or sell word; asset, units ("10 shares", a coin amount), number (an *)
(* amount with neither), money, day: what else is in it.                   *)
Row == [label |-> None, bare |-> FALSE, shape |-> "text", word |-> FALSE, asset |-> FALSE,
        units |-> FALSE, number |-> FALSE, money |-> FALSE, day |-> FALSE]

Label(kind, priority) == [Row EXCEPT !.label = [kind |-> kind, priority |-> priority]]

(* Rows as brokers write them.                                             *)
Rows == {
  [Row EXCEPT !.shape = "sentence", !.word = TRUE, !.asset = TRUE, !.units = TRUE],  \* Bought 10 shares of XEQT
  [Row EXCEPT !.shape = "header", !.word = TRUE, !.asset = TRUE],                    \* Buy BTC
  [Row EXCEPT !.shape = "title", !.asset = TRUE, !.money = TRUE],                    \* XEQT   $312.40
  [Row EXCEPT !.shape = "bought", !.word = TRUE],                                    \* You bought
  [Row EXCEPT !.shape = "amount", !.asset = TRUE, !.units = TRUE],                   \* 0.01 BTC
  [Row EXCEPT !.shape = "money", !.money = TRUE],                                    \* $312.40
  [Row EXCEPT !.shape = "dividend", !.money = TRUE],                                 \* Dividend $3.10
  [Row EXCEPT !.shape = "day", !.day = TRUE],                                        \* October 30, 2026
  [Row EXCEPT !.shape = "cancelled"],                                                \* Cancelled
  [Label("exchange", 1) EXCEPT !.word = TRUE],                                       \* Market buy
  [Label("quantity", 1) EXCEPT !.number = TRUE],                                     \* Quantity 10
  [Label("quantity", 1) EXCEPT !.bare = TRUE],
  [Label("total", 1) EXCEPT !.bare = TRUE],
  [Label("date", 0) EXCEPT !.day = TRUE],                                            \* Filled October 30, 2026
  [Label("fee", 1) EXCEPT !.money = TRUE],                                           \* Fee $4.95
  [Label("fee", 1) EXCEPT !.bare = TRUE],
  [Label("ignore", 1) EXCEPT !.bare = TRUE] }                                        \* Order number

-----------------------------------------------------------------------------
(* Found: the best value so far of each field, by priority, the first one  *)
(* on a tie; the row it came from stands for it, 0 for nothing. A price is *)
(* read like a total, a status, account or exchange like a date.           *)
Fields == {"action", "symbol", "quantity", "total", "date"}

Nothing == [f \in Fields |-> [row |-> 0, priority |-> 99]]

Set(found, field, holds, row, priority) ==
  IF holds /\ priority < found[field].priority
  THEN [found EXCEPT ![field] = [row |-> row, priority |-> priority]] ELSE found

(* applyLabel(): the field a labelled value gives, if it says that.        *)
FieldOf(kind, c) ==
  CASE kind = "quantity" /\ (c.units \/ c.number) -> "quantity"
    [] kind = "total" /\ (c.money \/ c.units \/ c.number) -> "total"
    [] kind = "date" /\ c.day -> "date"
    [] OTHER -> "none"

Skipped == {"fee", "ignore"}

(* Fees and order numbers are read so that nothing else takes them.        *)
Usable(kind, c) == kind \in Skipped \/ FieldOf(kind, c) # "none"

LabelWorks(c) == c.label # None /\ (c.bare \/ Usable(c.label.kind, c))

(* A label without a value takes the row below, unless that is a label.    *)
ValueRow(i, last, used) ==
  CASE ~screen[i].bare -> i
    [] screen[i].bare /\ i < last /\ ~LabelWorks(screen[i + 1]) -> i + 1
    [] OTHER -> 0

ReadLabel(s, i, last) ==
  LET c == screen[i]
      v == ValueRow(i, last, s.used)
      field == FieldOf(c.label.kind, screen[v])
  IN IF i \in s.used \/ c.label = None \/ v = 0 \/ ~Usable(c.label.kind, screen[v]) THEN s
     ELSE [found |-> IF field = "none" THEN s.found ELSE Set(s.found, field, TRUE, v, c.label.priority),
           used  |-> s.used \cup ({v} \ {i}),
           kinds |-> [s.kinds EXCEPT ![i] = c.label.kind, ![v] = c.label.kind]]

(* tradeSentence(): also "You bought" with the amount on the row below.    *)
SentenceRow(i, joins) ==
  CASE screen[i].shape = "sentence" -> i
    [] screen[i].shape = "bought" /\ joins /\ screen[i + 1].shape = "amount" -> i + 1
    [] OTHER -> 0

(* freeText(): a sentence beats a header, a header an amount, an amount a  *)
(* loose word; a list's bare amount comes last.                            *)
Sentence(found, row, at) ==
  LET says == at # 0
      f1 == Set(found, "action", says, row, 2)
      f2 == Set(f1, "symbol", says, at, 2)
  IN Set(f2, "quantity", says, at, 2)

LooseWords(found, c, i) ==
  LET f1 == Set(found, "action", c.shape = "header", i, 3)
      f2 == Set(f1, "symbol", c.shape = "header", i, 3)
      f3 == Set(f2, "action", c.word, i, 6)
      f4 == Set(f3, "date", c.day, i, 6)
  IN Set(f4, "symbol", c.shape = "title", i, 7)

LooseAmounts(found, c, i, kind, listed) ==
  LET f1 == Set(found, "quantity", c.units /\ kind \notin {"total", "date"}, i, 4)
      f2 == Set(f1, "symbol", c.units /\ c.asset /\ kind \notin {"total", "date"}, i, 5)
  IN Set(f2, "total", listed /\ kind = "none" /\ c.money, i, 8)

(* A slip: only what is labelled a fee is left out, not its row below.     *)
LeavesOutLabelled(s, i) == screen[i].label # None /\ s.kinds[i] \in Skipped

(* A fee or an order number is never a quantity or a total.                *)
LeavesOut(s, i) == s.kinds[i] \in Skipped

ReadText(s, found, i, last, listed) ==
  IF LeavesOut(s, i) THEN found
  ELSE LET at == SentenceRow(i, i < last /\ i + 1 \notin s.used)
       IN LooseAmounts(LooseWords(Sentence(found, i, at), screen[i], i), screen[i], i, s.kinds[i], listed)

-----------------------------------------------------------------------------
DayRow(i) == screen[i].shape = "day"

(* readTrade() of the rows first..last: the labels, then the free text,    *)
(* then the day heading; finish() wants an action, an asset, an amount.    *)
LabelsUpTo(first, last) ==
  LET read[i \in first - 1 .. last] ==
        IF i = first - 1 THEN [found |-> Nothing, used |-> {}, kinds |-> [k \in first..last |-> "none"]]
        ELSE ReadLabel(read[i - 1], i, last)
  IN  read

Labels(first, last) == LabelsUpTo(first, last)[last]

TextUpTo(first, last, listed) ==
  LET read[i \in first - 1 .. last] ==
        IF i = first - 1 THEN Labels(first, last).found
        ELSE ReadText(Labels(first, last), read[i - 1], i, last, listed)
  IN  read

ReadTrade(first, last, heading, listed) ==
  Set(TextUpTo(first, last, listed)[last], "date", heading # 0, heading, 9)

NotExecuted(first, last) ==
  \E i \in first..last : screen[i].shape = "cancelled" /\ ~LeavesOut(Labels(first, last), i)

IsTrade(item) ==
  /\ ~NotExecuted(item.first, item.last)
  /\ item.read["symbol"].row # 0 /\ item.read["action"].row # 0
  /\ item.read["quantity"].row # 0 \/ item.read["total"].row # 0

(* isAnchor(): what starts a trade of a list.                              *)
IsAnchor(i) ==
  \/ SentenceRow(i, i < Len(screen)) # 0
  \/ screen[i].shape = "header"
  \/ /\ screen[i].shape = "title" /\ i < Len(screen)
     /\ screen[i + 1].word /\ ~LabelWorks(screen[i + 1])

Anchors == {i \in DOMAIN screen : IsAnchor(i)}

AmountLabels == {i \in DOMAIN screen : screen[i].label # None /\ screen[i].label.kind \in {"quantity", "total"}}

(* An order's details, each label once, rather than a list.                *)
OneOrder ==
  \/ \A i, j \in Anchors : i = j
  \/ /\ \E i, j \in AmountLabels : screen[i].label.kind # screen[j].label.kind
     /\ ~\E i, j \in AmountLabels : i # j /\ screen[i].label.kind = screen[j].label.kind

(* An item starts with the titles and day headings just above its anchor,  *)
Start(anchor) ==
  LET goesUp(s) == \A i \in s..anchor - 1 : screen[i].shape \in {"title", "day"} /\ i \notin Anchors
  IN CHOOSE s \in 1..anchor : goesUp(s) /\ (s = 1 \/ ~goesUp(s - 1))

(* and ends at the next item, a day heading, or what is not a trade.       *)
Ends(anchor, i) ==
  \/ i > Len(screen)
  \/ \E b \in Anchors : b > anchor /\ Start(b) = i
  \/ screen[i].shape = "dividend" \/ DayRow(i)

LastRow(anchor) ==
  CHOOSE i \in anchor..Len(screen) : Ends(anchor, i + 1) /\ \A j \in anchor + 1 .. i : ~Ends(anchor, j)

HeadingAbove(anchor) ==
  LET days == {i \in 1..anchor : DayRow(i)}
  IN IF days = {} THEN 0 ELSE CHOOSE i \in days : \A j \in days : j <= i

Item(first, last, anchor, heading, listed) ==
  [first |-> first, last |-> last, anchor |-> anchor, read |-> ReadTrade(first, last, heading, listed)]

(* splitTrades(), parseTradeText().                                        *)
Items ==
  IF screen = << >> THEN {}
  ELSE IF OneOrder THEN {Item(1, Len(screen), 0, 0, FALSE)}
  ELSE {Item(Start(a), LastRow(a), a, HeadingAbove(a), TRUE) : a \in Anchors}

Trades == {item \in Items : IsTrade(item)}

Init == screen = << >>

NextRow ==
  /\ Len(screen) < MaxRows
  /\ \E row \in Rows : screen' = Append(screen, row)

Spec == Init /\ [][NextRow]_screen

-----------------------------------------------------------------------------
UnderSkipped(item, i) ==
  /\ i > item.first /\ ~LabelWorks(screen[i])
  /\ screen[i - 1].bare /\ screen[i - 1].label.kind \in Skipped

(* A trade is given amounts and a day of its own. None of its amounts is a *)
(* fee or an order number, beside its label or below it; in a list none is *)
(* of the next trade or of what is not a trade, and the day is on one of   *)
(* its rows or the nearest heading above, never one below it.              *)
ReadFromItsOwn ==
  \A item \in Trades :
    /\ \A f \in {"quantity", "total"} :
         LET i == item.read[f].row
         IN i # 0 =>
              /\ ~(screen[i].label # None /\ screen[i].label.kind \in Skipped)
              /\ ~UnderSkipped(item, i)
              /\ item.anchor # 0 => \A j \in item.anchor + 1 .. i : j \notin Anchors /\ screen[j].shape # "dividend"
    /\ LET d == item.read["date"].row
       IN item.anchor # 0 /\ d # 0 =>
            \/ ~DayRow(d)
            \/ d < item.anchor /\ \A j \in d + 1 .. item.anchor - 1 : DayRow(j) => j \in item.first .. item.anchor

=============================================================================
