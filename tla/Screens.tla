------------------------------ MODULE Screens ------------------------------
(***************************************************************************)
(* The screens that load what is selected and show it in place: the        *)
(* holdings list (pages/HoldingsPage.jsx), a position's chart              *)
(* (Holdings/HoldingsChart.jsx), the search (pages/SearchPage.jsx) and the *)
(* tax report with its list of years (pages/ReportsPage.jsx). Several      *)
(* requests of one screen may be on their way and answer in any order.     *)
(* An effect's cleanup silences the request of the render before it        *)
(* (`live`); the search numbers its requests instead.                      *)
(*                                                                         *)
(* One screen is open at a time. An answer is known by the number of its   *)
(* request and what was asked; the years answered may be any, for trades   *)
(* come and go.                                                            *)
(***************************************************************************)
EXTENDS Integers, FiniteSetsExt

CONSTANTS
  None,
  Ranges,
  Types,
  Texts,     \* what is typed in the search, "" is nothing
  Years,
  MaxAsked   \* bound: requests ever sent

VARIABLES
  screen,    \* the open page's state; its `name` tells which page
  sent,      \* requests without an answer yet
  asked      \* number of requests ever sent

scvars == <<screen, sent, asked>>

Loaded(s) == IF s.name = "chart" THEN s.shown
             ELSE IF s.name = "search" THEN s.results
             ELSE IF s.name = "holdings" THEN s.holdings ELSE s.report

Pages ==
  {[name |-> "holdings", holdings |-> None, error |-> FALSE]}
  \cup {[name |-> "chart", range |-> r, shown |-> None, failure |-> None] : r \in Ranges}
  \cup {[name |-> "search", type |-> t, text |-> "", results |-> None, last |-> "",
         loading |-> FALSE, error |-> FALSE, id |-> 0] : t \in Types}
  \cup {[name |-> "reports", years |-> None, yearsError |-> FALSE, year |-> None,
         report |-> None, reportError |-> FALSE]}

-----------------------------------------------------------------------------
(* A slip: the cleanup of an effect forgets the request it sent before.    *)
NotSilenced(what, requests) == requests

(* Requests. The cleanup of an effect silences the one it sent before.     *)
Silenced(what, requests) ==
  {IF r.what = what THEN [r EXCEPT !.live = FALSE] ELSE r : r \in requests}

Request(what, asks, number) == [what |-> what, asks |-> asks, number |-> number, live |-> TRUE]

Ask(what, asks) ==
  /\ asked < MaxAsked
  /\ asked' = asked + 1
  /\ sent' = Silenced(what, sent) \cup {Request(what, asks, asked + 1)}

(* The two effects of the tax report; without a year there is no report to *)
(* load.                                                                   *)
AskReports(s) ==
  IF s.year = None THEN Ask("years", None)
  ELSE /\ asked + 1 < MaxAsked
       /\ asked' = asked + 2
       /\ sent' = Silenced("years", Silenced("report", sent))
                  \cup {Request("years", None, asked + 1), Request("report", s.year, asked + 2)}

(* Whether an answer may still change the page.                            *)
Counts(r) == IF r.what = "search" THEN r.number = screen.id ELSE r.live

-----------------------------------------------------------------------------
Init ==
  /\ screen \in Pages
  /\ asked = IF screen.name = "search" THEN 0 ELSE 1
  /\ sent = CASE screen.name = "holdings" -> {Request("holdings", None, 1)}
              [] screen.name = "chart"    -> {Request("chart", screen.range, 1)}
              [] screen.name = "reports"  -> {Request("years", None, 1)}
              [] OTHER                    -> {}

(* Pull to refresh, or the app coming back: everything is asked again and  *)
(* stays on screen meanwhile.                                              *)
AskAgain(s) ==
  CASE s.name = "holdings" -> Ask("holdings", None)
    [] s.name = "chart"    -> Ask("chart", s.range)
    [] OTHER               -> AskReports(s)

Refresh ==
  /\ screen.name # "search"
  /\ AskAgain(screen)
  /\ UNCHANGED screen

(* What is shown. The holdings list, once there, stays under an error.     *)
HoldingsView(s) ==
  CASE s.holdings = None /\ s.error  -> {"error"}
    [] s.holdings = None /\ ~s.error -> {"spinner"}
    [] OTHER                         -> {"list"} \cup (IF s.error THEN {"error"} ELSE {})

(* The chart: the last one stays, dimmed, while another range loads; the   *)
(* error of the range selected takes its place, but not that of a refresh. *)
ChartView(s) ==
  LET error == s.failure = s.range
      another == s.shown = None \/ s.shown.asks # s.range
  IN CASE s.shown = None /\ ~error -> {"skeleton"}
       [] error /\ another         -> {"error"}
       [] OTHER                    -> {"chart"} \cup (IF another THEN {"dimmed"} ELSE {})

(* The search: examples until something was searched.                      *)
SearchView(s) ==
  (IF s.error THEN {"error"} ELSE {})
    \cup (IF s.loading THEN {"searching"} ELSE {})
    \cup (IF s.results # None THEN {"results"} ELSE IF s.loading \/ s.error THEN {} ELSE {"examples"})

(* The report: only that of the year selected; none without taxable sales. *)
ShownReport(s) == IF s.report # None /\ s.report.asks = s.year THEN s.report ELSE None

ReportsView(s) ==
  LET error == s.yearsError \/ s.reportError
  IN CASE (s.years = None \/ (s.year # None /\ ShownReport(s) = None)) ->
            IF error THEN {"error"} ELSE {"spinner"}
       [] s.years = {} -> {"nothing to report"}
       [] OTHER        -> {"report"} \cup (IF error THEN {"error"} ELSE {})

View(s) ==
  CASE s.name = "holdings" -> HoldingsView(s)
    [] s.name = "chart"    -> ChartView(s)
    [] s.name = "search"   -> SearchView(s)
    [] s.name = "reports"  -> ReportsView(s)

(* "Try again", beside the error.                                          *)
Retry ==
  /\ screen.name # "search" /\ "error" \in View(screen)
  /\ screen' = CASE screen.name = "holdings" -> [screen EXCEPT !.error = FALSE]
                 [] screen.name = "chart"    -> [screen EXCEPT !.failure = None]
                 [] OTHER                    -> [screen EXCEPT !.yearsError = FALSE, !.reportError = FALSE]
  /\ AskAgain(screen)

SelectRange(range) ==
  /\ screen.name = "chart" /\ screen.range # range
  /\ screen' = [screen EXCEPT !.range = range]
  /\ Ask("chart", range)

SelectYear(year) ==
  /\ screen.name = "reports" /\ screen.years # None
  /\ year \in screen.years \ {screen.year}
  /\ screen' = [screen EXCEPT !.year = year]
  /\ Ask("report", year)

-----------------------------------------------------------------------------
(* The search. Changing the type starts over and outdates the search on    *)
(* its way: no search has number 0.                                        *)
Type(text) ==
  /\ screen.name = "search"
  /\ screen' = [screen EXCEPT !.text = text]
  /\ UNCHANGED <<sent, asked>>

Started(s, type) ==
  [s EXCEPT !.type = type, !.text = "", !.results = None, !.loading = FALSE, !.error = FALSE, !.id = 0]

SetType(type) ==
  /\ screen.name = "search"
  /\ screen' = Started(screen, type)
  /\ UNCHANGED <<sent, asked>>

RunSearch(text) ==
  /\ screen' = [screen EXCEPT !.text = text, !.loading = TRUE, !.error = FALSE, !.id = asked + 1]
  /\ Ask("search", [query |-> text, type |-> screen.type])

(* Typed text is searched when submitted, an example at once.              *)
Submit ==
  /\ screen.name = "search" /\ screen.text # ""
  /\ RunSearch(screen.text)

SearchExample(text) ==
  /\ screen.name = "search" /\ text # "" /\ "examples" \in View(screen)
  /\ RunSearch(text)

-----------------------------------------------------------------------------
(* pickYear: the year looked at while it has sales, else the newest.       *)
PickYear(years, wanted) ==
  IF wanted \in years THEN wanted ELSE IF years = {} THEN None ELSE Max(years)

(* The years arrive; another year chosen by them is loaded.                *)
YearsArrive(r, years) ==
  LET year == PickYear(years, screen.year)
  IN /\ screen' = [screen EXCEPT !.years = years, !.yearsError = FALSE, !.year = year]
     /\ IF year = screen.year THEN sent' = sent \ {r} /\ UNCHANGED asked
        ELSE IF year = None THEN sent' = Silenced("report", sent \ {r}) /\ UNCHANGED asked
        ELSE /\ asked < MaxAsked
             /\ asked' = asked + 1
             /\ sent' = Silenced("report", sent \ {r}) \cup {Request("report", year, asked + 1)}

Shows(r) ==
  LET answer == [number |-> r.number, asks |-> r.asks]
  IN CASE r.what = "holdings" -> [screen EXCEPT !.holdings = answer, !.error = FALSE]
       [] r.what = "chart"    -> [screen EXCEPT !.shown = answer, !.failure = None]
       [] r.what = "report"   -> [screen EXCEPT !.report = answer, !.reportError = FALSE]
       [] r.what = "search"   -> [screen EXCEPT !.results = answer, !.last = r.asks.query, !.loading = FALSE]

Arrive(r) ==
  IF r.what = "years" /\ Counts(r)
  THEN \E years \in SUBSET Years : YearsArrive(r, years)
  ELSE /\ screen' = IF Counts(r) THEN Shows(r) ELSE screen
       /\ sent' = sent \ {r}
       /\ UNCHANGED asked

Fails(r) ==
  CASE r.what = "holdings" -> [screen EXCEPT !.error = TRUE]
    [] r.what = "chart"    -> [screen EXCEPT !.failure = r.asks]
    [] r.what = "years"    -> [screen EXCEPT !.yearsError = TRUE]
    [] r.what = "report"   -> [screen EXCEPT !.reportError = TRUE]
    [] r.what = "search"   -> [screen EXCEPT !.error = TRUE, !.loading = FALSE]

Fail(r) ==
  /\ screen' = IF Counts(r) THEN Fails(r) ELSE screen
  /\ sent' = sent \ {r}
  /\ UNCHANGED asked

Next ==
  \/ Refresh \/ Retry
  \/ \E range \in Ranges : SelectRange(range)
  \/ \E year \in Years : SelectYear(year)
  \/ Submit
  \/ \E text \in Texts : Type(text) \/ SearchExample(text)
  \/ \E type \in Types : SetType(type)
  \/ \E r \in sent : Arrive(r) \/ Fail(r)

Spec == Init /\ [][Next]_scvars

-----------------------------------------------------------------------------
Waits == View(screen) \cap {"spinner", "skeleton", "dimmed", "searching"} # {}

(* No screen waits for nothing: behind every spinner and every dimmed      *)
(* chart is a request whose answer will be let through.                    *)
NeverWaitsForNothing == Waits => \E r \in sent : Counts(r)

(* No answer that will still be let through is older than the one shown,   *)
(* so a screen never goes back to numbers it has replaced.                 *)
NeverGoesBack ==
  Loaded(screen) # None => \A r \in sent : Counts(r) /\ r.what # "years" => r.number > Loaded(screen).number

(* Results stand under the type and the words they were searched with, and *)
(* the report's year is one of the years offered.                          *)
AnswersTheSelection ==
  /\ screen.name = "search" /\ screen.results # None =>
       screen.results.asks = [type |-> screen.type, query |-> screen.last]
  /\ screen.name = "reports" /\ screen.years # None => 
       (screen.year = None) = (screen.years = {}) /\ (screen.year # None => screen.year \in screen.years)

(* However answers cross: no screen waits for nothing, goes back to older  *)
(* numbers, or shows an answer to something else than was selected.        *)
ScreensKeepUp == NeverWaitsForNothing /\ NeverGoesBack /\ AnswersTheSelection

=============================================================================
