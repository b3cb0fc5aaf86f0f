---------------------------- MODULE AnalystPanel ----------------------------
(***************************************************************************)
(* The analyst panel of one asset (Analyst/AnalystPanel.jsx,               *)
(* useAnalystReport.js): loading, retry, manual refresh, and the button    *)
(* that counts down until the server will make another report. The device  *)
(* clock may run ahead of the server's or behind it; a report generated    *)
(* for this very request tells by how much (clockOffset).                  *)
(*                                                                         *)
(* Time is counted in minutes. Of the server (AnalystReports) this keeps   *)
(* when the asset's report was made, for this user or for another; the     *)
(* panel is mounted anew for every asset, so it has only one.              *)
(***************************************************************************)
EXTENDS Integers, FiniteSetsExt

CONSTANTS
  None,
  Cooldown,   \* REFRESH_COOLDOWN, in minutes
  Cap,        \* the most clockOffset makes up for
  Skews,      \* minutes the device clock may be ahead of the server's
  MaxTime,    \* bound: minutes
  MaxSent     \* bound: requests ever sent

VARIABLES
  now,        \* the server's clock
  skew,       \* device clock - server clock
  made,       \* when the saved report was made, None when there is none
  panel,      \* the panel's state, None while it is closed
  req,        \* the tracker's newest request, None after its answer
  sentCount

avars == <<now, skew, made, panel, req, sentCount>>

DeviceNow == now + skew

Mounted == [result |-> None, error |-> FALSE, refreshing |-> FALSE, refreshError |-> FALSE, clock |-> DeviceNow]

-----------------------------------------------------------------------------
(* A slip: a clock that runs ahead is not made up for.                     *)
TrustsTheClock(report, receivedAt) == 0

(* How far the device seems ahead, from a report made for this request;    *)
(* cached ones give no clue.                                               *)
ClockOffset(report, receivedAt) ==
  IF report.cached THEN 0 ELSE Min({Max({0, receivedAt - report.made}), Cap})

RefreshAvailableAt(report) == report.made + Cooldown

(* When the device clock will say so.                                      *)
RefreshAt(p) == RefreshAvailableAt(p.result.report) + p.result.offset

(* The minutes the button still shows, 0 once it may be clicked. The       *)
(* panel's clock ticks by itself, and again when the time has come.        *)
Countdown(p) == IF p.clock >= RefreshAt(p) THEN 0 ELSE RefreshAt(p) - p.clock

(* "Updated 3 min ago".                                                    *)
Age(p) == Max({0, p.clock - p.result.offset - p.result.report.made})

(* A report on screen keeps its button, also while it is refreshed.        *)
Offered(p) == p.result # None /\ ~p.refreshing /\ Countdown(p) = 0

Loading(p) == p.result = None /\ ~p.error

(* The panel under its header, and the header's words on time.             *)
Body(p) == IF Loading(p) THEN "skeleton" ELSE IF p.error THEN "error" ELSE "report"

Header(p) == IF Body(p) = "report" THEN [age |-> Age(p), wait |-> Countdown(p)] ELSE [age |-> None, wait |-> None]

(* setResult: a report with the offset found as it arrived; the panel's    *)
(* clock catches up.                                                       *)
WithReport(p, report) ==
  [p EXCEPT !.result = [report |-> report, offset |-> ClockOffset(report, DeviceNow)],
            !.error = FALSE, !.clock = DeviceNow]

-----------------------------------------------------------------------------
(* fetchLatest: a new request takes the place of the one before it.        *)
Load(kind) ==
  /\ sentCount < MaxSent
  /\ sentCount' = sentCount + 1
  /\ req' = [kind |-> kind, answer |-> None]

Init ==
  /\ now = 0
  /\ skew \in Skews
  /\ made = None
  /\ panel = None
  /\ req = None
  /\ sentCount = 0

Open ==
  /\ panel = None
  /\ panel' = Mounted
  /\ Load("load")
  /\ UNCHANGED <<now, skew, made>>

(* Another result is opened, or the page left: the request is cancelled.   *)
Close ==
  /\ panel # None
  /\ panel' = None
  /\ req' = None
  /\ UNCHANGED <<now, skew, made, sentCount>>

Retry ==
  /\ panel # None /\ Body(panel) = "error"
  /\ panel' = [panel EXCEPT !.result = None, !.error = FALSE]
  /\ Load("load")
  /\ UNCHANGED <<now, skew, made>>

Refresh ==
  /\ panel # None /\ Offered(panel)
  /\ panel' = [panel EXCEPT !.refreshing = TRUE, !.refreshError = FALSE]
  /\ Load("refresh")
  /\ UNCHANGED <<now, skew, made>>

-----------------------------------------------------------------------------
(* The server answers: the saved report, one made now because the saved is *)
(* old or a refresh is due, or that it is too soon for one. Over its       *)
(* limits it answers the saved one.                                        *)
Due == made # None => now - made >= Cooldown

TooSoon == req.kind = "refresh" /\ ~Due

Serve ==
  /\ req # None /\ req.answer = None
  /\ \/ /\ TooSoon
        /\ req' = [req EXCEPT !.answer = [made |-> None, cached |-> FALSE]]
        /\ UNCHANGED made
     \/ /\ made # None /\ ~TooSoon
        /\ req' = [req EXCEPT !.answer = [made |-> made, cached |-> TRUE]]
        /\ UNCHANGED made
     \/ /\ Due
        /\ req' = [req EXCEPT !.answer = [made |-> now, cached |-> FALSE]]
        /\ made' = now
  /\ UNCHANGED <<now, skew, panel, sentCount>>

(* Another user, or another tab, has a report made.                        *)
MadeElsewhere ==
  /\ Due
  /\ made' = now
  /\ UNCHANGED <<now, skew, panel, req, sentCount>>

(* The answer arrives. Too soon means somebody refreshed meanwhile: the    *)
(* newest saved report is loaded, still refreshing.                        *)
Arrive ==
  /\ req # None /\ req.answer # None
  /\ IF req.answer.made = None
     THEN panel' = panel /\ Load("latest")
     ELSE /\ panel' = [WithReport(panel, req.answer) EXCEPT !.refreshing = FALSE]
          /\ req' = None
          /\ UNCHANGED sentCount
  /\ UNCHANGED <<now, skew, made>>

(* The report on screen stays when a refresh fails; the message of a       *)
(* failed load takes the place of the panel's body. After "too soon" a     *)
(* failure of the second load says nothing.                                *)
Fail ==
  /\ req # None
  /\ panel' = [panel EXCEPT !.refreshing = FALSE,
                            !.error = (req.kind = "load"),
                            !.refreshError = @ \/ req.kind = "refresh"]
  /\ req' = None
  /\ UNCHANGED <<now, skew, made, sentCount>>

(* useNow: every 15 seconds, and when the wait is over.                    *)
SeeTime ==
  /\ panel # None /\ panel.clock # DeviceNow
  /\ panel' = [panel EXCEPT !.clock = DeviceNow]
  /\ UNCHANGED <<now, skew, made, req, sentCount>>

Tick ==
  /\ now < MaxTime
  /\ now' = now + 1
  /\ UNCHANGED <<skew, made, panel, req, sentCount>>

Next ==
  \/ Open \/ Close \/ Retry \/ Refresh
  \/ Serve \/ MadeElsewhere \/ Arrive \/ Fail
  \/ SeeTime \/ Tick

Spec == Init /\ [][Next]_avars

-----------------------------------------------------------------------------
(* A report made for this panel's request offers no refresh before the     *)
(* server allows one, however far ahead the device clock runs (up to what  *)
(* is made up for) and however long the answer took. (A report from the    *)
(* server's cache tells nothing about the clock: a fast one may offer it   *)
(* early, and the server then says it is too soon.)                        *)
NotOfferedEarly ==
  panel # None /\ Offered(panel) /\ ~panel.result.report.cached =>
    now >= RefreshAvailableAt(panel.result.report) \/ panel.result.offset = Cap

(* While it is refreshing or loading, an answer is on its way.             *)
WaitsForAnswer == panel # None /\ (panel.refreshing \/ Loading(panel)) => req # None

(* The report's age and the wait for the next add up to the cooldown, or   *)
(* to more where the device clock is slow.                                 *)
AgesAddUp ==
  panel # None /\ Body(panel) = "report" /\ ~Offered(panel) /\ ~panel.refreshing =>
    Header(panel).age + Header(panel).wait >= Cooldown

(* The Refresh button never promises what the server would refuse, counts  *)
(* down beside an age it agrees with, and is never left spinning.          *)
ButtonKeepsItsWord == NotOfferedEarly /\ WaitsForAnswer /\ AgesAddUp

=============================================================================
