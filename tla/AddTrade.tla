------------------------------- MODULE AddTrade -------------------------------
(***************************************************************************)
(* The add trade dialog: what opens and closes it                          *)
(* (pages/TransactionPage.jsx), the search for an asset                    *)
(* (Transactions/TransactionSymbolSearch.jsx) and the form of the one      *)
(* picked (Transactions/TransactionCreate.jsx). Searches and saves answer  *)
(* late or never; a screenshot is read while the user goes on. React keeps *)
(* a form as long as its key stays the same, with the asset it started     *)
(* from, so the key decides which asset is saved and which values a pick   *)
(* starts from. How a screenshot is read is TradeScan's.                   *)
(***************************************************************************)
EXTENDS Naturals, FiniteSets

CONSTANTS
  None,
  Stocks,       \* the tickers of stocks a search may list, in capitals
  Coins,        \* the CoinGecko ids of coins a search may list
  TickerOf,     \* [Coins -> their tickers, in small letters]: coins may share one
  MaxSearches,  \* bound: searches on their way
  MaxScans,     \* bound: screenshots read
  MaxSaves      \* bound: trades on their way

VARIABLES
  step,         \* "closed", "search" or "create"
  confirming,   \* "Discard this trade?" is asked
  pick,         \* TransactionPage's symbolData, or None
  scan,         \* the number of the scan the pick came with; 0 is none
  typed,        \* something is in the search box
  kind,         \* the search is for "stock" or "crypto"
  loading,
  results,      \* None, or the kind of asset listed
  searches,     \* on their way: [kind, newest]
  scanning,     \* a screenshot is being read
  scans,        \* how many scans have made it to a form
  pending,      \* a trade read from a screenshot whose asset is to be picked
  form,         \* the mounted form: [asset, scan], or None
  saves         \* on their way: [asset, open], open while its form is mounted

avars == <<step, confirming, pick, scan, typed, kind, loading, results, searches, scanning, scans, pending,
           form, saves>>

Kinds == {"stock", "crypto"}

(* A stock is known by its ticker, a coin also by its CoinGecko id.        *)
Asset(k, api_id, coin_id) == [kind |-> k, api_id |-> api_id, coin_id |-> coin_id]

Assets(k) ==
  IF k = "stock" THEN {Asset(k, ticker, None) : ticker \in Stocks} ELSE {Asset(k, TickerOf[c], c) : c \in Coins}

NoSearch ==
  /\ typed = FALSE /\ kind = "stock" /\ loading = FALSE /\ results = None
  /\ scanning = FALSE /\ pending = None

Init ==
  /\ step = "closed" /\ confirming = FALSE
  /\ pick = None /\ scan = 0
  /\ NoSearch
  /\ searches = {}
  /\ scans = 0
  /\ form = None
  /\ saves = {}

-----------------------------------------------------------------------------
(* A slip: the key without the scan.                                       *)
KeyOfTicker(asset, n) == [api_id |-> asset.api_id]

(* The form's key: the ticker, and the scan if there is one.               *)
Key(asset, n) == [api_id |-> asset.api_id, scan |-> n]

(* The form for a pick: the one mounted, if its key is the same, with the  *)
(* asset it was mounted for. A trade being saved from a form that goes is  *)
(* not waited for there any more.                                          *)
Mount(asset, n) ==
  IF form # None /\ Key(form.asset, form.scan) = Key(asset, n)
  THEN UNCHANGED <<form, saves>>
  ELSE /\ form' = [asset |-> asset, scan |-> n]
       /\ saves' = {[s EXCEPT !.open = FALSE] : s \in saves}

Unmount ==
  /\ form' = None
  /\ saves' = {[s EXCEPT !.open = FALSE] : s \in saves}

(* searchId moves on: no search on its way counts any more.                *)
Superseded(asked) == {[q EXCEPT !.newest = FALSE] : q \in asked}

-----------------------------------------------------------------------------
(* The dialog.                                                             *)

Open ==
  /\ step = "closed"
  /\ step' = "search"
  /\ UNCHANGED <<confirming, pick, scan, typed, kind, loading, results, searches, scanning, scans, pending,
                 form, saves>>

(* The app's "Add trade" shortcut, also while the dialog is open: the form *)
(* goes, what was picked stays.                                            *)
Shortcut ==
  /\ step = "create"
  /\ step' = "search"
  /\ Unmount
  /\ UNCHANGED <<confirming, pick, scan, typed, kind, loading, results, searches, scanning, scans, pending>>

(* closeModal(): the search, the scan box and the form go with it.         *)
Closed ==
  /\ step' = "closed" /\ confirming' = FALSE
  /\ pick' = None /\ scan' = 0
  /\ typed' = FALSE /\ kind' = "stock" /\ loading' = FALSE /\ results' = None
  /\ scanning' = FALSE /\ pending' = None
  /\ searches' = Superseded(searches)
  /\ form' = None

(* Close, Cancel and Discard.                                              *)
Close ==
  /\ step # "closed"
  /\ Closed
  /\ saves' = {[s EXCEPT !.open = FALSE] : s \in saves}
  /\ UNCHANGED scans

(* requestClose(): Esc, or a tap beside the dialog, asks once something    *)
(* was started; asked again it means "keep editing".                       *)
RequestClose ==
  \/ /\ step # "closed"
     /\ confirming \/ pick # None \/ typed
     /\ confirming' = ~confirming
     /\ UNCHANGED <<step, pick, scan, typed, kind, loading, results, searches, scanning, scans, pending,
                    form, saves>>
  \/ ~confirming /\ pick = None /\ ~typed /\ Close

-----------------------------------------------------------------------------
(* The search.                                                             *)

TypeQuery(text) ==
  /\ step # "closed"
  /\ typed' = text
  /\ UNCHANGED <<step, confirming, pick, scan, kind, loading, results, searches, scanning, scans, pending,
                 form, saves>>

ChangeKind(k) ==
  /\ step # "closed"
  /\ kind' = k
  /\ typed' = FALSE /\ loading' = FALSE /\ results' = None /\ pending' = None
  /\ searches' = Superseded(searches)
  /\ UNCHANGED <<step, confirming, pick, scan, scanning, scans, form, saves>>

Search ==
  /\ step # "closed" /\ typed /\ ~loading
  /\ Cardinality(searches) < MaxSearches
  /\ loading' = TRUE
  /\ searches' = Superseded(searches) \cup {[kind |-> kind, newest |-> TRUE]}
  /\ UNCHANGED <<step, confirming, pick, scan, typed, kind, results, scanning, scans, pending, form, saves>>

(* The results, or an error that leaves those shown before.                *)
SearchArrives(q) ==
  /\ searches' = searches \ {q}
  /\ IF q.newest
     THEN loading' = FALSE /\ results' \in {q.kind, results}
     ELSE UNCHANGED <<loading, results>>
  /\ UNCHANGED <<step, confirming, pick, scan, typed, kind, scanning, scans, pending, form, saves>>

(* What both ways to a form do: the scan box starts anew.                  *)
Picked(asset, n) ==
  /\ step' = "create"
  /\ pick' = asset /\ scan' = n
  /\ scans' = IF n = 0 THEN scans ELSE n
  /\ Mount(asset, n)
  /\ pending' = None /\ scanning' = FALSE /\ results' = None

(* A result is selected; a trade still pending fills its form.             *)
Select(asset) ==
  /\ results = asset.kind
  /\ Picked(asset, IF pending = None THEN 0 ELSE scans + 1)
  /\ UNCHANGED <<confirming, typed, kind, loading, searches>>

StartScan ==
  /\ step # "closed" /\ ~scanning
  /\ scans + (IF pending = None THEN 0 ELSE 1) < MaxScans
  /\ scanning' = TRUE
  /\ UNCHANGED <<step, confirming, pick, scan, typed, kind, loading, results, searches, scans, pending,
                 form, saves>>

(* A trade was read and its asset found: straight to the form.             *)
ScanFound(asset) ==
  /\ scanning
  /\ Picked(asset, scans + 1)
  /\ kind' = asset.kind
  /\ loading' = FALSE
  /\ searches' = Superseded(searches)
  /\ UNCHANGED <<confirming, typed>>

(* Not listed: it waits for the user to search and pick.                   *)
ScanNotFound(k) ==
  /\ scanning
  /\ scanning' = FALSE
  /\ pending' = k /\ kind' = k
  /\ typed' \in BOOLEAN
  /\ loading' = FALSE /\ results' = None
  /\ searches' = Superseded(searches)
  /\ UNCHANGED <<step, confirming, pick, scan, scans, form, saves>>

(* No trade in it, an error, or cancelled.                                 *)
ScanEnds ==
  /\ scanning
  /\ scanning' = FALSE
  /\ UNCHANGED <<step, confirming, pick, scan, typed, kind, loading, results, searches, scans, pending,
                 form, saves>>

-----------------------------------------------------------------------------
(* Saving.                                                                 *)

Save ==
  /\ form # None
  /\ ~\E s \in saves : s.open
  /\ Cardinality(saves) < MaxSaves
  /\ saves' = saves \cup {[asset |-> form.asset, open |-> TRUE]}
  /\ UNCHANGED <<step, confirming, pick, scan, typed, kind, loading, results, searches, scanning, scans, pending,
                 form>>

(* onCreated(): the list is read again and the dialog closed, also one     *)
(* opened anew since.                                                      *)
Saved(s) ==
  /\ Closed
  /\ saves' = {[t EXCEPT !.open = FALSE] : t \in saves \ {s}}
  /\ UNCHANGED scans

(* Refused, or no answer: an error, and it may be saved again.             *)
NotSaved(s) ==
  /\ saves' = saves \ {s}
  /\ UNCHANGED <<step, confirming, pick, scan, typed, kind, loading, results, searches, scanning, scans, pending,
                 form>>

Next ==
  \/ Open \/ Shortcut \/ Close \/ RequestClose
  \/ \E text \in BOOLEAN : TypeQuery(text)
  \/ \E k \in Kinds : ChangeKind(k) \/ ScanNotFound(k)
  \/ Search
  \/ \E q \in searches : SearchArrives(q)
  \/ \E k \in Kinds : \E asset \in Assets(k) : Select(asset) \/ ScanFound(asset)
  \/ StartScan \/ ScanEnds
  \/ Save
  \/ \E s \in saves : Saved(s) \/ NotSaved(s)

Spec == Init /\ [][Next]_avars

-----------------------------------------------------------------------------
(* Two coins of one ticker. *)
Twins(a, b) == a.kind = "crypto" /\ b.kind = "crypto" /\ a.api_id = b.api_id

(* What the dialog shows belongs together: results are of the kind the     *)
(* search is set to, it says it is searching exactly while the newest      *)
(* search is out, and the form has the values of the very screenshot the   *)
(* pick came with, never of one read before, and saves the very asset      *)
(* picked; unless that is a coin picked from the search while the form of  *)
(* another with its ticker was open, which is saved as that other one.     *)
FormFollowsPick ==
  /\ results # None => results = kind
  /\ loading = (\E q \in searches : q.newest)
  /\ (form # None) = (step = "create")
  /\ form # None => form.scan = scan /\ (form.asset = pick \/ (scan = 0 /\ Twins(form.asset, pick)))

=============================================================================
