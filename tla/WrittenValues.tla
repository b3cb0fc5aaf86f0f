--------------------------- MODULE WrittenValues ---------------------------
(***************************************************************************)
(* The numbers, days and times of a screenshot's text                      *)
(* (Transactions/tradeTextParser.js). Brokers write 1,234.56 or 1 234,56   *)
(* or 1.234,56, and 30/10/2026 or 10/30/2026, or leave the year out: what  *)
(* a mark or a number of two digits means is decided by its neighbours, by *)
(* the rest of the screen, and by the day it is read. A screen here is a   *)
(* sequence of numbers, of days or of times.                               *)
(***************************************************************************)
EXTENDS Integers, Sequences, SequencesExt

CONSTANTS
  None,
  Wholes,       \* the amounts written, without their decimals
  Days,         \* the days written: <<year, month, day>>
  Todays,       \* the days a screen may be read; the day before each is in Days
  MaxWritten    \* bound: what one screen shows

VARIABLES
  written,      \* the screen, in reading order
  today

wvars == <<written, today>>

(* The decimals, with the number of digits they are written with.          *)
Decimals == {[value |-> 5, digits |-> 1], [value |-> 40, digits |-> 2], [value |-> 125, digits |-> 3]}

(* How amounts are written: the mark between thousands, the decimal mark.  *)
Styles == {[sep |-> ",", mark |-> "."], [sep |-> "", mark |-> "."],
           [sep |-> " ", mark |-> ","], [sep |-> ".", mark |-> ","], [sep |-> "", mark |-> ","]}

Numbers == [whole : Wholes, decimals : Decimals \cup {None}, style : Styles, money : BOOLEAN]

Forms == {"iso", "named", "yearless", "day first", "month first", "on a Tuesday", "on a Tuesday, yearless",
          "today", "yesterday"}

DaysWritten == [day : Days, form : Forms]

Times == [hour : {0, 9, 12, 21}, clock : {12, 24}]

-----------------------------------------------------------------------------
(* Numbers. A piece of text: groups of digits, the decimals after them.    *)

Groups(n) ==
  CASE (n.style.sep = "" \/ n.whole < 1000) -> <<n.whole>>
    [] n.style.sep # "" /\ n.whole \in 1000..999999 -> <<n.whole \div 1000, n.whole % 1000>>
    [] OTHER -> <<n.whole \div 1000000, (n.whole \div 1000) % 1000, n.whole % 1000>>

Text(n) == [groups |-> Groups(n), decimals |-> n.decimals, sep |-> n.style.sep, mark |-> n.style.mark]

OnlyGroups(t, k) == [t EXCEPT !.groups = SubSeq(@, 1, k), !.decimals = None]

(* How much of it NUMBER or NUMBER_FR finds to be one number.              *)
MatchFr(t) ==
  CASE t.sep = "," /\ Len(t.groups) > 1 -> OnlyGroups(t, 2)
    [] t.sep = "." /\ Len(t.groups) > 1 /\ t.decimals = None -> OnlyGroups(t, 1)
    [] Len(t.groups) = 1 /\ t.mark = "." -> OnlyGroups(t, 1)
    [] OTHER -> t

MatchEn(t) ==
  CASE t.sep = " " /\ Len(t.groups) > 1 -> OnlyGroups(t, 1)
    [] t.sep = "." /\ Len(t.groups) > 1 /\ t.decimals = None -> OnlyGroups(t, 2)
    [] OTHER -> t

(* toNumber(): of two different marks the last is the decimal one; a lone  *)
(* comma before three digits is one on a French screen only.               *)
MarksOf(t) ==
  SelectSeq([k \in 1 .. Len(t.groups) - 1 |-> t.sep] \o (IF t.decimals = None THEN << >> ELSE <<t.mark>>),
            LAMBDA c : c # " ")

LastDigits(t) == IF t.decimals = None THEN 3 ELSE t.decimals.digits

LastIsDecimal(t, french) ==
  LET marks == MarksOf(t)
  IN /\ marks # << >>
     /\ \/ \E k \in DOMAIN marks : marks[k] # Last(marks)
        \/ Len(marks) = 1 /\ (Last(marks) = "." \/ french \/ LastDigits(t) # 3)

Parts(t) ==
  [k \in DOMAIN t.groups |-> [value |-> t.groups[k], digits |-> 3]]
    \o (IF t.decimals = None THEN << >> ELSE <<t.decimals>>)

Joined(parts) == FoldLeft(LAMBDA n, part : n * 10^part.digits + part.value, 0, parts)

(* In thousandths.                                                         *)
ToNumber(t, french) ==
  IF LastIsDecimal(t, french)
  THEN 1000 * Joined(Front(Parts(t))) + Last(Parts(t)).value * 10^(3 - Last(Parts(t)).digits)
  ELSE 1000 * Joined(Parts(t))

TwoDecimals(mark) ==
  {i \in DOMAIN written : LET n == written[i] IN n.decimals # None /\ n.decimals.digits = 2 /\ n.style.mark = mark}

DollarAfter ==
  {i \in DOMAIN written :
     LET n == written[i] IN n.decimals # None /\ n.decimals.digits < 3 /\ n.style.mark = "," /\ n.money}

(* A slip: commas on the screen, thousands or not.                         *)
AnyComma == \E i \in DOMAIN written : written[i].style.mark = "," \/ written[i].style.sep = ","

(* screenLocale(): French if it shows more decimal commas than points; an  *)
(* amount before its "$" counts twice.                                     *)
French == Cardinality(TwoDecimals(",")) + Cardinality(DollarAfter) > Cardinality(TwoDecimals("."))

(* amounts(): the first number found there.                                *)
Amount(n) == ToNumber(IF French THEN MatchFr(Text(n)) ELSE MatchEn(Text(n)), French)

-----------------------------------------------------------------------------
(* Days.                                                                   *)

MonthDays(y, m) ==
  CASE m \in {4, 6, 9, 11} -> 30
    [] m = 2 -> IF y % 4 = 0 /\ (y % 100 # 0 \/ y % 400 = 0) THEN 29 ELSE 28
    [] OTHER -> 31

Exists(y, m, d) == m \in 1..12 /\ d \in 1..MonthDays(y, m)

After(a, b) ==
  \/ a[1] > b[1]
  \/ a[1] = b[1] /\ (a[2] > b[2] \/ (a[2] = b[2] /\ a[3] > b[3]))

(* realDay(): without a year this year's, or the last's if this year's is  *)
(* still to come.                                                          *)
RealDay(y, m, d) ==
  LET year == IF y # None THEN y
              ELSE IF Exists(today[1], m, d) /\ After(<<today[1], m, d>>, today) THEN today[1] - 1
              ELSE today[1]
  IN IF Exists(year, m, d) THEN <<year, m, d>> ELSE None

(* Two numbers and a year: only when one reading is a real date.           *)
Numeric(y, a, b) ==
  CASE (a = b \/ (b > 12 /\ a <= 12)) -> {<<y, a, b>>}
    [] a > 12 /\ b <= 12 -> {<<y, b, a>>}
    [] OTHER -> {}

(* DATE_PATTERNS: what they find in it; "mar." is Tuesday, or March.       *)
Found(w) ==
  LET y == w.day[1]
      m == w.day[2]
      d == w.day[3]
  IN CASE w.form \in {"iso", "named"} -> {<<y, m, d>>}
       [] w.form = "yearless" -> {<<None, m, d>>}
       [] w.form = "day first" -> Numeric(y, d, m)
       [] w.form = "month first" -> Numeric(y, m, d)
       [] w.form = "on a Tuesday" -> {<<y, m, d>>, <<None, 3, d>>}
       [] w.form = "on a Tuesday, yearless" -> {<<None, 3, d>>, <<None, m, d>>}
       [] w.form \in {"today", "yesterday"} -> {}

(* Those with a year, or those without; "mar." comes first.                *)
Readable(w, withYear) == {f \in Found(w) : (f[1] # None) = withYear /\ RealDay(f[1], f[2], f[3]) # None}

FirstOf(w, withYear) ==
  LET all == Readable(w, withYear)
  IN IF \E f \in all : w.form = "on a Tuesday, yearless" /\ f[2] = 3
     THEN CHOOSE f \in all : f[2] = 3 ELSE CHOOSE f \in all : TRUE

FirstWith(withYear) ==
  LET i == SelectInSeq(written, LAMBDA w : Readable(w, withYear) # {})
  IN IF i = 0 THEN None
     ELSE LET f == FirstOf(written[i], withYear) IN RealDay(f[1], f[2], f[3])

(* "Today", "Yesterday" count when no day is written.                      *)
Relative(w) == w.form \in {"today", "yesterday"}

DayBefore(day) ==
  LET y == day[1]
      m == day[2]
  IN CASE day[3] > 1 -> <<y, m, day[3] - 1>>
       [] day[3] = 1 /\ m > 1 -> <<y, m - 1, MonthDays(y, m - 1)>>
       [] OTHER -> <<y - 1, 12, 31>>

RelativeDay ==
  LET i == SelectInSeq(written, Relative)
  IN CASE i = 0 -> None
       [] i # 0 /\ written[i].form = "today" -> today
       [] OTHER -> DayBefore(today)

(* findDateTime(): a day with its year beats one without, then the first.  *)
DayRead ==
  CASE FirstWith(TRUE) # None -> FirstWith(TRUE)
    [] FirstWith(TRUE) = None /\ FirstWith(FALSE) # None -> FirstWith(FALSE)
    [] OTHER -> RelativeDay

(* ... and the first time with am or pm, or the first without.             *)
Shown12(hour) == IF hour % 12 = 0 THEN 12 ELSE hour % 12

Hour12(shown, pm) == (shown % 12) + (IF pm THEN 12 ELSE 0)

TimeRead ==
  LET i == SelectInSeq(written, LAMBDA t : t.clock = 12)
  IN IF i # 0 THEN Hour12(Shown12(written[i].hour), written[i].hour >= 12)
     ELSE written[1].hour

-----------------------------------------------------------------------------
(* A trade is never in the future, and one without a year is not long ago. *)
Yearless(form) == form \in {"yearless", "on a Tuesday, yearless"}

Writable(w) ==
  /\ ~After(w.day, today)
  /\ Yearless(w.form) => After(w.day, [today EXCEPT ![1] = @ - 1])
  /\ w.form = "today" => w.day = today
  /\ w.form = "yesterday" => After(today, w.day) /\ \A d \in Days : ~(After(today, d) /\ After(d, w.day))

KindOf(v) == IF "whole" \in DOMAIN v THEN "number" ELSE IF "form" \in DOMAIN v THEN "day" ELSE "time"

Init ==
  /\ written = << >>
  /\ today \in Todays

Write(v) ==
  /\ Len(written) < MaxWritten
  /\ written # << >> => KindOf(v) = KindOf(written[1])
  /\ written' = Append(written, v)
  /\ UNCHANGED today

Next ==
  \/ \E n \in Numbers : Write(n)
  \/ \E w \in DaysWritten : Writable(w) /\ Write(w)
  \/ \E t \in Times : Write(t)

Spec == Init /\ [][Next]_wvars

Show(kind) == written # << >> /\ KindOf(written[1]) = kind

-----------------------------------------------------------------------------
Meant(n) == 1000 * n.whole + (IF n.decimals = None THEN 0 ELSE n.decimals.value * 10^(3 - n.decimals.digits))

(* Every amount of the screen in one style, with cents somewhere; and      *)
(* whatever the others, 12,40 and 1.234,56, which cannot be anything else. *)
OneStyle(mark) ==
  /\ \A i \in DOMAIN written : written[i].style.mark = mark
  /\ mark = "," => TwoDecimals(mark) # {}

Plain(n) ==
  \/ n.style.mark = "." /\ OneStyle(".")
  \/ n.style.mark = "," /\ OneStyle(",") /\ (n.style.sep = "." /\ n.whole >= 1000 => n.decimals # None)
  \/ n.style.sep = "" /\ n.style.mark = "," /\ n.decimals # None /\ n.decimals.digits # 3
  \/ n.style.sep = "." /\ n.whole >= 1000 /\ n.decimals # None

(* What is read off a screen is what it says. An amount in the screen's    *)
(* own style is read back; the day read is one that is written there, a    *)
(* month never taken for a day, in its own year and not in the future, and *)
(* the first one with its year if there is one; midnight and noon are not  *)
(* mixed up.                                                               *)
ReadAsWritten ==
  /\ Show("number") => \A i \in DOMAIN written : Plain(written[i]) => Amount(written[i]) = Meant(written[i])
  /\ Show("day") /\ ~(\E i \in DOMAIN written : written[i].form = "on a Tuesday, yearless") =>
       /\ DayRead # None => \E i \in DOMAIN written : written[i].day = DayRead
       /\ \A i \in DOMAIN written :
            /\ written[i].form \in {"iso", "named", "on a Tuesday"}
            /\ \A j \in 1 .. i - 1 : written[j].form \in {"yearless", "today", "yesterday"}
            => DayRead = written[i].day
  /\ Show("time") => \E i \in DOMAIN written : written[i].hour = TimeRead

=============================================================================
