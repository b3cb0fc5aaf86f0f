------------------------------ MODULE MCPages ------------------------------
(***************************************************************************)
(* Small instances of the limits of the ledger (MCLedger) and of the pages *)
(* that fill it: the transactions page (TransactionPage), the dialog that  *)
(* adds a trade (AddTrade), its screenshot reader (TradeScan), what makes  *)
(* trades of the text (TradeText), its numbers and days (WrittenValues)    *)
(* and the import section (ImportPage). A behaviour is one of them moving  *)
(* while the others wait with no state at all: they are explored one by    *)
(* one, and the state spaces add up instead of multiplying.                *)
(***************************************************************************)
EXTENDS MCLedger

CONSTANTS
  None, eth, sol,
  Texts, Actions, MaxChanges, MaxRequests,                                     \* TransactionPage
  Stocks, Coins, TickerOf, MaxSearches, MaxSaves, ScansAdded,                  \* AddTrade
  Natives, ScansPicked, MaxRunning,                                            \* TradeScan
  MaxRows,                                                                     \* TradeText
  FileRows, BadRows, RowsSaved, MaxIds, MaxTries                                          \* ImportPage

(* Edits that move a trade to a third or a fourth asset, which are alike.  *)
MoveAway == {E({"symbol", "api"}, T(1, "BUY", 1, 1, s, UNSET)) : s \in {eth, sol}}

OneTicker == [c \in Coins |-> "usdc"]

PagesAlike == {f @@ g : f \in BothAlike, g \in Permutations({eth, sol})}

VARIABLES
  part,                                                                     \* the part that moves
  version, acked, filters, box, list, loading, error, asks, asked, saves,   \* TransactionPage
  step, confirming, pick, scan, typed, kind, searching, results, searches,
  scanning, scans, pending, added, creates,                                 \* AddTrade
  native, ai, consent, picked, runs, scanBox, image, worker, timer,         \* TradeScan
  shot,                                                                     \* TradeText
  written, today,                                                           \* WrittenValues
  imported, answers, rowsOf, preview, toggled, busy, ids, tries, meant, crossed, told   \* ImportPage

listVars   == <<version, acked, filters, box, list, loading, error, asks, asked, saves>>
addVars    == <<step, confirming, pick, scan, typed, kind, searching, results, searches, scanning, scans,
                pending, added, creates>>
scanVars   == <<native, ai, consent, picked, runs, scanBox, image, worker, timer>>

importVars == <<imported, answers, rowsOf, preview, toggled, busy, ids, tries, meant, crossed, told>>

List == INSTANCE TransactionPage WITH requests <- asked

Adding == INSTANCE AddTrade WITH
  MaxScans <- ScansAdded, loading <- searching, form <- added, saves <- creates

Scanning == INSTANCE TradeScan WITH MaxScans <- ScansPicked, box <- scanBox

Reading == INSTANCE TradeText WITH screen <- shot

Values == INSTANCE WrittenValues WITH
  Wholes <- {5, 1234, 1234567}, MaxWritten <- 2,
  Days <- {<<2024, 2, 29>>, <<2024, 10, 30>>, <<2025, 1, 9>>, <<2025, 6, 5>>, <<2025, 12, 31>>,
           <<2026, 3, 3>>, <<2026, 3, 4>>},
  Todays <- {<<2024, 3, 1>>, <<2025, 1, 10>>, <<2026, 3, 5>>}

Section == INSTANCE ImportPage WITH
  Rows <- FileRows, Bad <- BadRows,
  saved <- imported, finished <- answers, account <- rowsOf

-----------------------------------------------------------------------------
(* The variables of a part that does not move.                             *)
ListIdle ==
  /\ version = None /\ acked = None /\ filters = None /\ box = None /\ list = None
  /\ loading = None /\ error = None /\ asks = None /\ asked = None /\ saves = None

AddIdle ==
  /\ step = None /\ confirming = None /\ pick = None /\ scan = None /\ typed = None
  /\ kind = None /\ searching = None /\ results = None /\ searches = None /\ scanning = None
  /\ scans = None /\ pending = None /\ added = None /\ creates = None

ScanIdle ==
  /\ native = None /\ ai = None /\ consent = None /\ picked = None /\ runs = None
  /\ scanBox = None /\ image = None /\ worker = None /\ timer = None

ImportIdle ==
  /\ imported = None /\ answers = None /\ rowsOf = None /\ preview = None /\ toggled = None
  /\ busy = None /\ ids = None /\ tries = None /\ meant = None /\ crossed = None /\ told = None

(* The rows of the file that are among the trades already.                 *)
SavedBefore == [r \in FileRows |-> IF r \in RowsSaved THEN 1 ELSE 0]

PagesInit ==
  /\ part \in {"ledger", "list", "add", "scan", "text", "values", "import"}
  /\ Init
  /\ IF part = "list" THEN List!Init ELSE ListIdle
  /\ IF part = "add" THEN Adding!Init ELSE AddIdle
  /\ IF part = "scan" THEN Scanning!Init ELSE ScanIdle
  /\ IF part = "text" THEN Reading!Init ELSE shot = None
  /\ IF part = "values" THEN Values!Init ELSE written = None /\ today = None
  /\ IF part = "import" THEN Section!Init /\ imported = SavedBefore ELSE ImportIdle

OthersWait ==
  /\ UNCHANGED part
  /\ part # "ledger" => UNCHANGED vars
  /\ part # "list"   => UNCHANGED listVars
  /\ part # "add"    => UNCHANGED addVars
  /\ part # "scan"   => UNCHANGED scanVars
  /\ part # "text"   => UNCHANGED shot
  /\ part # "values" => UNCHANGED <<written, today>>
  /\ part # "import" => UNCHANGED importVars

LedgerMoves == part = "ledger" /\ Next            /\ OthersWait
ListMoves   == part = "list"   /\ List!Next       /\ OthersWait
AddMoves    == part = "add"    /\ Adding!Next     /\ OthersWait
ScanMoves   == part = "scan"   /\ Scanning!Next   /\ OthersWait
TextGrows   == part = "text"   /\ Reading!NextRow /\ OthersWait
ValuesGrow  == part = "values" /\ Values!Next     /\ OthersWait
ImportMoves == part = "import" /\ Section!Next    /\ OthersWait

PagesNext ==
  \/ LedgerMoves \/ ListMoves \/ AddMoves \/ ScanMoves \/ TextGrows \/ ValuesGrow \/ ImportMoves

pageVars == <<part, vars, listVars, addVars, scanVars, shot, written, today, importVars>>

PagesSpec == PagesInit /\ [][PagesNext]_pageVars

-----------------------------------------------------------------------------
(* What the proofs assume of the constants: that None, which stands for    *)
(* nothing at all, is neither a version nor a form nor a label, that the   *)
(* filters can be set to show everything, and that no coin's ticker, in    *)
(* small letters, is a stock's.                                            *)
ListConstants == None \notin Int /\ List!NoFilters \in List!Filters

ASSUME ListAssumption == ListConstants

AddConstants ==
  /\ None \notin [asset : UNION {Adding!Assets(k) : k \in Adding!Kinds}, scan : Nat]
  /\ \A c \in Coins : TickerOf[c] \notin Stocks

ASSUME AddAssumption == AddConstants

TextConstants ==
  None \notin [kind : {"exchange", "quantity", "total", "date", "fee", "ignore"}, priority : Nat]

ASSUME TextAssumption == TextConstants

-----------------------------------------------------------------------------
(* The list of trades settles on the filters shown and, unless it is the   *)
(* app's saved copy, on every change the page was told of (the effect of   *)
(* TransactionPage.jsx).                                                   *)
ListIsOfItsFilters == part = "list" => List!ListIsOfItsFilters

(* Pick, results and form of the add dialog belong together, but for coins *)
(* that share a ticker (TransactionSymbolSearch.jsx, the form's key).      *)
FormFollowsPick == part = "add" => Adding!FormFollowsPick

(* The text worker is there for every scan and goes when none is left; the *)
(* box is busy with the screenshot picked last (textReader.js,             *)
(* TradeScan.jsx).                                                         *)
ScansKeepUp == part = "scan" => Scanning!ScansKeepUp

(* What is read as a trade's amounts and day is its own                    *)
(* (tradeTextParser.js).                                                   *)
ReadFromItsOwn == part = "text" => Reading!ReadFromItsOwn

(* An amount, a day or a time is read as it is written                     *)
(* (tradeTextParser.js).                                                   *)
ReadAsWritten == part = "values" => Values!ReadAsWritten

(* A row is imported once, and again only where its duplicate was ticked   *)
(* or where imports under two ids read the trades before either saved it,  *)
(* however often answers are lost (ImportSection.jsx, commitRows).         *)
SavedAsTicked == part = "import" => Section!SavedAsTicked

=============================================================================
