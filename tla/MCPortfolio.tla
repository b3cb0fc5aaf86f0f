---------------------------- MODULE MCPortfolio ----------------------------
(***************************************************************************)
(* Small instances of the replays behind the portfolio (Holdings) and of   *)
(* what stands between the server and its screens: the app's session       *)
(* (Session), its offline copy (OfflineCopy), the dashboard (Dashboard),   *)
(* the other screens that load in place (Screens) and the analyst panel    *)
(* (AnalystPanel). A behaviour is one of them moving while the others wait *)
(* with no state at all: they are explored one by one, and the state       *)
(* spaces add up instead of multiplying.                                   *)
(*                                                                         *)
(* Holdings: two named accounts and six trades of one to six steps; with a *)
(* scale of 3 a position of six steps has a tolerance of two, so both      *)
(* regimes of sell_tolerance are reached.                                  *)
(*                                                                         *)
(* Session: one account changes its currency and changes it back; the      *)
(* other is someone else on the same phone. Dashboard: either account      *)
(* changes its currency and changes it back. OfflineCopy: three paths of   *)
(* the limited screen, two of others, and less room than the limits allow. *)
(* AnalystPanel: the cooldown is three minutes and at most four are made   *)
(* up for; the device clock is two minutes slow, right, or one or three    *)
(* fast.                                                                   *)
(***************************************************************************)
EXTENDS Holdings, TLC

CONSTANTS
  None,
  People, CopiedScreens, MaxRequests, MaxAppAsked, Changes, Settings,      \* Session
  CopiedKeys, LimitedKeys, LimitedKept, AllKept, Dropped, Capacity,        \* OfflineCopy
  HomeRanges, HomeCurrencies, MaxCurrency, HomeSettings,                   \* Dashboard
  MaxLoads, MaxRefresh, MaxMinute,
  ChartRanges, AssetTypes, Texts, Years, MaxAsked,                         \* Screens
  Cooldown, Cap, Skews, MaxTime, MaxSent                                   \* AnalystPanel

VARIABLES
  part,                                                                    \* the part that moves
  place, token, currency, scope, copies, flight, asked, user, history,     \* Session
  store, index, used,                                                      \* OfflineCopy
  session, currencies, cache, known, page, loads, loadsAsked, minute,      \* Dashboard
  screen, sent, screenAsked,                                               \* Screens
  now, skew, made, panel, asking, sentCount                                \* AnalystPanel

sessionVars == <<place, token, currency, scope, copies, flight, asked, user, history>>
offlineVars == <<store, index, used>>
homeVars    == <<session, currencies, cache, known, page, loads, loadsAsked, minute>>
screenVars  == <<screen, sent, screenAsked>>
panelVars   == <<now, skew, made, panel, asking, sentCount>>

App == INSTANCE Session WITH
  Accounts <- People, Screens <- CopiedScreens, MaxInFlight <- MaxRequests, MaxAsked <- MaxAppAsked,
  MaxChanges <- Changes, Chosen <- Settings

Offline == INSTANCE OfflineCopy WITH
  Keys <- CopiedKeys, Limited <- LimitedKeys, Limit <- LimitedKept, MaxEntries <- AllKept

Home == INSTANCE Dashboard WITH
  Ranges <- HomeRanges, MaxTime <- MaxMinute, Currencies <- HomeCurrencies, Chosen <- HomeSettings,
  currency <- currencies, flight <- loads, asked <- loadsAsked, now <- minute

Pages == INSTANCE Screens WITH
  Ranges <- ChartRanges, Types <- AssetTypes, asked <- screenAsked

Analyst == INSTANCE AnalystPanel WITH req <- asking

(* Values of the constants in the configuration.                           *)
AnnChangesTwice == "ann" :> 2 @@ "bob" :> 0

ThereAndBack == [u \in People |-> [n \in 0..2 |-> IF n = 1 THEN "usd" ELSE "cad"]]

BothThereAndBack == [w \in {0, 1} |-> [n \in 0..2 |-> IF n = 1 THEN "usd" ELSE "cad"]]

FewSkews == {-2, 0, 1, 3}

-----------------------------------------------------------------------------
(* The variables of a part that does not move.                             *)
SessionIdle ==
  /\ place = None /\ token = None /\ currency = None /\ scope = None /\ copies = None
  /\ flight = None /\ asked = None /\ user = None /\ history = None

OfflineIdle ==
  /\ store = None /\ index = None /\ used = None

HomeIdle ==
  /\ session = None /\ currencies = None /\ cache = None /\ known = None /\ page = None
  /\ loads = None /\ loadsAsked = None /\ minute = None

ScreenIdle ==
  /\ screen = None /\ sent = None /\ screenAsked = None

AnalystIdle ==
  /\ now = None /\ skew = None /\ made = None /\ panel = None /\ asking = None
  /\ sentCount = None

PortfolioInit ==
  /\ part \in {"replays", "session", "offline", "dashboard", "screens", "analyst"}
  /\ Init
  /\ IF part = "session" THEN App!Init ELSE SessionIdle
  /\ IF part = "offline" THEN Offline!Init ELSE OfflineIdle
  /\ IF part = "dashboard" THEN Home!Init ELSE HomeIdle
  /\ IF part = "screens" THEN Pages!Init ELSE ScreenIdle
  /\ IF part = "analyst" THEN Analyst!Init ELSE AnalystIdle

OthersWait ==
  /\ UNCHANGED part
  /\ part # "replays"   => UNCHANGED vars
  /\ part # "session"   => UNCHANGED sessionVars
  /\ part # "offline"   => UNCHANGED offlineVars
  /\ part # "dashboard" => UNCHANGED homeVars
  /\ part # "screens"   => UNCHANGED screenVars
  /\ part # "analyst"   => UNCHANGED panelVars

ReplaysMove    == part = "replays"   /\ Next         /\ OthersWait
SessionMoves   == part = "session"   /\ App!Next     /\ OthersWait
OfflineMoves   == part = "offline"   /\ Offline!Next /\ OthersWait
DashboardMoves == part = "dashboard" /\ Home!Next    /\ OthersWait
ScreensMove    == part = "screens"   /\ Pages!Next   /\ OthersWait
AnalystMoves   == part = "analyst"   /\ Analyst!Next /\ OthersWait

PortfolioNext ==
  \/ ReplaysMove \/ SessionMoves \/ OfflineMoves \/ DashboardMoves \/ ScreensMove \/ AnalystMoves

PortfolioSpec ==
  PortfolioInit
    /\ [][PortfolioNext]_<<part, vars, sessionVars, offlineVars, homeVars, screenVars, panelVars>>

-----------------------------------------------------------------------------
(* What the proofs assume of the constants: that None, which stands for    *)
(* nothing at all, is none of the values it stands beside, and that times  *)
(* and years are numbers.                                                  *)
ASSUME SessionAssumption == None \notin App!TokenOf

(* The analyst panel: the answers of the server, the requests, the panel.  *)
Answers == [made : Int \cup {None}, cached : BOOLEAN]

Asks == [kind : {"load", "refresh", "latest"}, answer : Answers \cup {None}]

Results == [report : [made : Int, cached : BOOLEAN], offset : Int]

Panels ==
  [result : Results \cup {None}, error : BOOLEAN, refreshing : BOOLEAN, refreshError : BOOLEAN, clock : Int]

PanelConstants ==
  /\ None \notin Int \cup Results \cup Panels \cup Answers \cup Asks
  /\ Cooldown \in Int /\ Cap \in Int /\ Skews \subseteq Int

ASSUME PanelAssumption == PanelConstants

(* The dashboard: what was loaded, the saved copies, the page.             *)
Entries == [currency : HomeCurrencies, made : Nat, under : Nat, who : Home!Who, split : BOOLEAN]

SavedEntries == [entry : Entries, at : Nat]

Boards ==
  [range : HomeRanges, clock : Nat, refresh : Nat, failure : Home!Keys \cup {None},
   loaded : [Home!Keys -> Entries \cup {None}], shownKey : Home!Keys \cup {None},
   fetched : [Home!Keys -> Nat \cup {None}]]

HomeConstants ==
  /\ None \notin Nat \cup Home!Keys \cup Entries \cup SavedEntries \cup Boards
  /\ HomeRanges # {} /\ MaxCurrency \in Nat
  /\ HomeSettings \in [Home!Who -> [0..MaxCurrency -> HomeCurrencies]]

ASSUME HomeAssumption == HomeConstants

(* The other screens: what is selected, and the answers to it.             *)
Words == Texts \cup {""}

Queries == [query : Words, type : AssetTypes]

Selections == {None} \cup ChartRanges \cup Queries \cup Years

PageAnswers == [number : Nat, asks : Selections]

ScreensConstants ==
  /\ None \notin PageAnswers \cup Years /\ \A ys \in SUBSET Years : ys # None
  /\ Years \subseteq Int /\ IsFiniteSet(Years)

ASSUME ScreensAssumption == ScreensConstants

(* The offline copy: how much of it is kept, one reply of a screen at least. *)
ASSUME OfflineAssumption ==
  /\ LimitedKept \in Nat \ {0} /\ AllKept \in Nat \ {0}
  /\ Dropped \in Nat /\ Capacity \in Nat

-----------------------------------------------------------------------------
(* The offline copy holds the signed in account's replies, in the currency *)
(* they are filed under or of a change made since they were asked for      *)
(* (remember, forgetAll).                                                  *)
CopiesFaithful == part = "session" => App!CopiesFaithful

(* No profile asked for before a currency was saved undoes it on screen    *)
(* (updateUser, fetchUser).                                                *)
SavedSettingsStay == part = "session" => App!SavedSettingsStay

(* A refusal signs out only when the token in use was refused              *)
(* (sessionExpired).                                                       *)
EndsOnlyRevoked == part = "session" => App!EndsOnlyRevoked

(* A full offline copy gives up what was used least recently (touch, save).*)
KeptAreRecent == part = "offline" => Offline!KeptAreRecent

(* The dashboard shows no amounts of before a currency change it knew of   *)
(* under another currency's symbol, nor of another account (the shown      *)
(* amounts, the cache).                                                    *)
AmountsNotOlderThanSymbol == part = "dashboard" => Home!AmountsNotOlderThanSymbol

(* No screen waits for an answer that will not come, goes back to an older *)
(* answer, or shows one to another selection (the effects, searchId).      *)
ScreensKeepUp == part = "screens" => Pages!ScreensKeepUp

(* The Refresh button promises nothing the server would refuse, and is     *)
(* never left spinning (clockOffset, refresh).                             *)
ButtonKeepsItsWord == part = "analyst" => Analyst!ButtonKeepsItsWord

=============================================================================
