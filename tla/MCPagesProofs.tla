--------------------------- MODULE MCPagesProofs ---------------------------
(***************************************************************************)
(* Proofs about the pages MCPages holds, for any number of requests,       *)
(* searches, screenshots, rows and tries: the list of trades               *)
(* (TransactionPage), the dialog that adds one (AddTrade), its screenshot  *)
(* reader (TradeScan), what makes trades of the text (TradeText) and the   *)
(* import section (ImportPage). Each part's invariant is kept by its       *)
(* steps, and the steps of the others leave the part's variables alone.    *)
(***************************************************************************)
EXTENDS MCPages, FiniteSetTheorems, WellFoundedInduction, TLAPS

(* The part that moves takes one of its own steps, if it takes any.        *)
LEMMA PartsMove ==
  ASSUME [PagesNext]_pageVars
  PROVE  /\ part' = part
         /\ part = "list"   => List!Next \/ UNCHANGED listVars
         /\ part = "add"    => Adding!Next \/ UNCHANGED addVars
         /\ part = "scan"   => Scanning!Next \/ UNCHANGED scanVars
         /\ part = "text"   => Reading!NextRow \/ UNCHANGED shot
         /\ part = "import" => Section!Next \/ UNCHANGED importVars
BY DEF PagesNext, pageVars, OthersWait, LedgerMoves, ListMoves, AddMoves, ScanMoves, TextGrows, ValuesGrow, ImportMoves

-----------------------------------------------------------------------------
(* The list of trades.                                                     *)

ListRequests == [filters : List!Filters, ignored : BOOLEAN, reply : Nat \cup {None}]

Lists == [filters : List!Filters, version : Nat, copied : BOOLEAN]

ListTypes ==
  /\ version \in Nat /\ acked \in Nat /\ acked <= version
  /\ filters \in List!Filters /\ box \in Texts
  /\ list \in Lists \cup {None}
  /\ loading \in BOOLEAN /\ error \in BOOLEAN /\ asks \in BOOLEAN
  /\ asked \subseteq ListRequests
  /\ saves \subseteq Nat \cup {None} /\ \A s \in saves : s # None => s <= version

(* One request at most still counts.                                       *)
OneCounts == \A r, q \in asked : ~r.ignored /\ ~q.ignored => r = q

(* With no effect to run, the one that counts is of the filters shown, and *)
(* was read after every change the page was told of.                       *)
CountsForThePage ==
  ~asks => \A r \in asked : ~r.ignored =>
    r.filters = filters /\ (r.reply # None => r.reply >= acked)

ListInv == ListTypes /\ OneCounts /\ CountsForThePage /\ List!ListIsOfItsFilters

LEMMA InitListInv == List!Init => ListInv
<1> SUFFICES ASSUME List!Init PROVE ListInv
  OBVIOUS
<1>1. List!NoFilters \in List!Filters
  BY ListAssumption DEF ListConstants
<1>2. box \in Texts
  BY <1>1 DEF List!Init, List!Filters
<1>3. ListTypes
  <2>1. version = 0 /\ acked = 0 /\ filters = List!NoFilters /\ list = None
    BY DEF List!Init
  <2>2. loading \in BOOLEAN /\ error \in BOOLEAN /\ asks \in BOOLEAN /\ asked = {} /\ saves = {}
    BY DEF List!Init
  <2> QED BY <1>1, <1>2, <2>1, <2>2 DEF ListTypes
<1> QED BY <1>3 DEF List!Init, ListInv, OneCounts, CountsForThePage, List!ListIsOfItsFilters

(* A list that is shown is of the filters it was asked with.               *)
LEMMA ShownSettles ==
  ASSUME ListInv, NEW r \in asked, NEW read \in Nat, NEW copied \in BOOLEAN, List!Shows(r, read, copied),
         asked' = asked \ {r}, UNCHANGED <<version, acked, filters, box, asks, saves>>,
         r.ignored \/ asks \/ copied \/ read >= acked
  PROVE  ListInv'
<1> USE DEF ListInv, ListTypes, OneCounts, CountsForThePage, List!ListIsOfItsFilters
<1>1. CASE r.ignored
  <2>1. UNCHANGED <<list, loading, error>>
    BY <1>1 DEF List!Shows
  <2> QED BY <1>1, <2>1
<1>2. CASE ~r.ignored
  <2>1. list' = [filters |-> r.filters, version |-> read, copied |-> copied] /\ loading' = FALSE /\ error' = FALSE
    BY <1>2 DEF List!Shows
  <2>2. list' \in Lists /\ list'.filters = r.filters /\ list'.version = read /\ list'.copied = copied
    BY <2>1 DEF Lists, ListRequests
  <2>3. ListTypes' /\ OneCounts' /\ CountsForThePage'
    BY <2>1, <2>2
  <2>4. ~asks => r.filters = filters
    BY <1>2
  <2> QED BY <1>2, <2>1, <2>2, <2>3, <2>4
<1> QED BY <1>1, <1>2

LEMMA ListStep ==
  ASSUME ListInv, List!Next
  PROVE  ListInv'
<1> USE ListAssumption DEF ListConstants, ListInv, ListTypes, OneCounts, CountsForThePage, List!ListIsOfItsFilters
<1>1. CASE List!RunEffect
  <2> DEFINE new == [filters |-> filters, ignored |-> FALSE, reply |-> None]
  <2>1. new \in ListRequests /\ new.filters = filters /\ new.reply = None /\ ~new.ignored
    BY DEF ListRequests
  <2>2. ASSUME NEW r \in asked
        PROVE  /\ [r EXCEPT !.ignored = TRUE, !.reply = None] \in ListRequests
               /\ [r EXCEPT !.ignored = TRUE, !.reply = None].ignored
    BY DEF ListRequests
  <2>3. asked' = {[r EXCEPT !.ignored = TRUE, !.reply = None] : r \in asked} \cup {new}
    BY <1>1 DEF List!RunEffect, List!Dropped
  <2>4. UNCHANGED <<version, acked, filters, box, list, loading, error, saves>> /\ asks' = FALSE
    BY <1>1 DEF List!RunEffect
  <2> HIDE DEF new
  <2>5. \A r \in asked' : r \in ListRequests /\ (~r.ignored => r = new)
    BY <2>1, <2>2, <2>3
  <2>6. new \in asked'
    BY <2>3
  <2> QED BY <2>1, <2>4, <2>5, <2>6
<1>2. CASE List!Retry
  BY <1>2 DEF List!Retry, List!Reloaded
<1>3. CASE List!Refresh
  BY <1>3 DEF List!Refresh
<1>4. ASSUME NEW r \in asked, List!ReadList(r)
      PROVE  ListInv'
  <2>1. asked' \subseteq ListRequests
    BY <1>4 DEF List!ReadList, ListRequests
  <2> DEFINE read == [r EXCEPT !.reply = version]
  <2>2. read.filters = r.filters /\ read.ignored = r.ignored /\ read.reply = version
    BY DEF ListRequests
  <2>3. /\ asked' = (asked \ {r}) \cup {read}
        /\ UNCHANGED <<version, acked, filters, box, list, loading, error, asks, saves>>
    BY <1>4 DEF List!ReadList
  <2> HIDE DEF read
  <2>4. OneCounts' /\ CountsForThePage'
    BY <2>2, <2>3
  <2>5. List!ListIsOfItsFilters'
    BY <2>2, <2>3
  <2> QED BY <2>1, <2>3, <2>4, <2>5
<1>5. ASSUME NEW r \in asked, List!ListArrives(r)
      PROVE  ListInv'
  <2>1. asked' = asked \ {r} /\ UNCHANGED <<version, acked, filters, box, asks, saves>> /\ r.reply # None
        /\ List!Shows(r, r.reply, FALSE)
    BY <1>5 DEF List!ListArrives
  <2>2. r.reply \in Nat
    BY <2>1 DEF ListRequests
  <2>3. r.ignored \/ asks \/ r.reply >= acked
    BY <2>1
  <2> QED BY <2>1, <2>2, <2>3, ShownSettles
<1>14. ASSUME NEW r \in asked, List!ListLost(r)
       PROVE  ListInv'
  <2>1. asked' = asked \ {r} /\ UNCHANGED <<version, acked, filters, box, asks, saves>>
    BY <1>14 DEF List!ListLost
  <2>2. ASSUME NEW kept \in 0..version, List!Shows(r, kept, TRUE)
        PROVE  ListInv'
    <3>1. kept \in Nat /\ TRUE \in BOOLEAN
      OBVIOUS
    <3> QED BY <2>1, <2>2, <3>1, ShownSettles
  <2>3. CASE List!Fails(r)
    BY <2>1, <2>3 DEF List!Fails
  <2> QED BY <1>14, <2>2, <2>3 DEF List!ListLost
<1>6. ASSUME NEW new \in List!Filters, List!SetFilters(new)
      PROVE  ListInv'
  BY <1>6 DEF List!SetFilters, List!Reloaded, List!Filters
<1>7. ASSUME NEW text \in Texts, List!TypeSymbol(text)
      PROVE  ListInv'
  BY <1>7 DEF List!TypeSymbol
<1>8. CASE List!PassOn
  <2>1. [filters EXCEPT !.symbol = box] \in List!Filters
    BY DEF List!Filters
  <2> QED BY <1>8, <1>6, <2>1 DEF List!PassOn
<1>9. CASE List!ClearFilters
  BY <1>9, <1>6 DEF List!ClearFilters, List!NoFilters, List!Filters
<1>10. ASSUME NEW action \in Actions, List!PickAction(action)
       PROVE  ListInv'
  <2>1. [filters EXCEPT !.action = action] \in List!Filters
    BY DEF List!Filters
  <2> QED BY <1>10, <1>6, <2>1 DEF List!PickAction
<1>11. CASE List!Save
  BY <1>11 DEF List!Save
<1>12. CASE List!Record
  <2>1. version' = version + 1 /\ UNCHANGED <<acked, filters, box, list, loading, error, asks, asked>>
    BY <1>12 DEF List!Record
  <2>2. saves' \subseteq saves \cup {version + 1}
    BY <1>12 DEF List!Record
  <2>3. version' \in Nat /\ acked' <= version'
    BY <2>1
  <2>4. saves' \subseteq Nat \cup {None}
    BY <2>1, <2>2, <2>3
  <2>5. \A s \in saves' : s # None => s <= version'
    BY <2>1, <2>2
  <2>6. ListTypes'
    BY <2>1, <2>3, <2>4, <2>5
  <2> QED BY <2>1, <2>6
<1>13. ASSUME NEW s \in saves, List!SaveArrives(s)
       PROVE  ListInv'
  <2>1. saves' = saves \ {s} /\ UNCHANGED <<version, filters, box, list, error, asked>>
    BY <1>13 DEF List!SaveArrives
  <2>2. CASE s # None /\ acked' = (IF s > acked THEN s ELSE acked) /\ List!Reloaded
    <3>1. s \in Nat /\ s <= version
      BY <2>2
    <3>2. acked' \in Nat /\ acked' <= version
      BY <2>2, <3>1
    <3> QED BY <2>1, <2>2, <3>2 DEF List!Reloaded
  <2>3. CASE UNCHANGED <<acked, loading, asks>>
    BY <2>1, <2>3
  <2> QED BY <1>13, <2>2, <2>3 DEF List!SaveArrives
<1> QED BY <1>1, <1>2, <1>3, <1>4, <1>5, <1>7, <1>8, <1>9, <1>10, <1>11, <1>12, <1>13,
           <1>14 DEF List!Next

LEMMA ListIdleStep ==
  ASSUME ListInv, UNCHANGED listVars
  PROVE  ListInv'
BY DEF listVars, ListInv, ListTypes, OneCounts, CountsForThePage, List!ListIsOfItsFilters

LEMMA ListPart == PagesSpec => [](part = "list" => ListInv)
<1>1. PagesInit => (part = "list" => ListInv)
  BY InitListInv DEF PagesInit
<1>2. (part = "list" => ListInv) /\ [PagesNext]_pageVars => (part = "list" => ListInv)'
  <2> SUFFICES ASSUME part = "list" => ListInv, [PagesNext]_pageVars, part' = "list"
               PROVE  ListInv'
    OBVIOUS
  <2>1. part = "list" /\ ListInv /\ (List!Next \/ UNCHANGED listVars)
    BY PartsMove
  <2> QED BY <2>1, ListStep, ListIdleStep
<1> QED BY <1>1, <1>2, PTL DEF PagesSpec

(* Whatever replies come late, are lost or overtaken, and whatever other   *)
(* devices change: once nothing is asked for any more, the list is that of *)
(* the filters shown, and no change the page was told of is missing unless *)
(* no answer came and the list is the app's saved copy of it (the effect   *)
(* of TransactionPage.jsx, the fallback of services/api.js).               *)
THEOREM TheListSettles == PagesSpec => []ListIsOfItsFilters
<1>1. (part = "list" => ListInv) => ListIsOfItsFilters
  BY DEF ListInv, ListIsOfItsFilters
<1> QED BY <1>1, ListPart, PTL

-----------------------------------------------------------------------------
(* The dialog that adds a trade.                                           *)

AnyAsset == UNION {Adding!Assets(k) : k \in Adding!Kinds}

AddForms == [asset : AnyAsset, scan : Nat]

AddSearches == [kind : Adding!Kinds, newest : BOOLEAN]

(* The form saves the asset picked, or a coin of the same ticker.           *)
Saves(asset, picking, n) == asset = picking \/ (n = 0 /\ Adding!Twins(asset, picking))

AddTypes ==
  /\ scans \in Nat /\ kind \in Adding!Kinds /\ searching \in BOOLEAN
  /\ searches \subseteq AddSearches
  /\ added \in AddForms \cup {None}

(* What is listed is of the kind searched for, and so is the search that   *)
(* counts; there is one while the dialog says it is searching.             *)
OneSearch ==
  /\ results # None => results = kind
  /\ \A q \in searches : q.newest => q.kind = kind
  /\ \A q, r \in searches : q.newest /\ r.newest => q = r
  /\ searching = (\E q \in searches : q.newest)

(* The form is there while the dialog is at it, for the pick and its scan. *)
OneForm ==
  /\ (added # None) = (step = "create")
  /\ added # None => added.scan = scan /\ added.scan <= scans /\ Saves(added.asset, pick, scan)

AddInv == AddTypes /\ OneSearch /\ OneForm

LEMMA InitAddInv == Adding!Init => AddInv
<1> SUFFICES ASSUME Adding!Init PROVE AddInv
  OBVIOUS
<1>1. step = "closed" /\ added = None /\ scans = 0 /\ searches = {}
  BY DEF Adding!Init
<1>2. kind = "stock" /\ searching = FALSE /\ results = None
  BY DEF Adding!Init, Adding!NoSearch
<1>3. AddTypes
  BY <1>1, <1>2 DEF AddTypes, Adding!Kinds
<1>4. OneSearch
  BY <1>1, <1>2 DEF OneSearch
<1> QED BY <1>1, <1>3, <1>4 DEF AddInv, OneForm

(* Only coins share a ticker.                                              *)
LEMMA SharedTicker ==
  ASSUME NEW a \in AnyAsset, NEW b \in AnyAsset, a.api_id = b.api_id
  PROVE  a = b \/ Adding!Twins(a, b)
<1>1. ASSUME NEW x \in AnyAsset
      PROVE  \/ \E t \in Stocks : x = [kind |-> "stock", api_id |-> t, coin_id |-> None]
             \/ \E c \in Coins : x = [kind |-> "crypto", api_id |-> TickerOf[c], coin_id |-> c]
  BY DEF AnyAsset, Adding!Kinds, Adding!Assets, Adding!Asset
<1>2. CASE a.kind = "stock" \/ b.kind = "stock"
  <2>1. a.api_id \in Stocks
    BY <1>1, <1>2
  <2>2. PICK t \in Stocks, u \in Stocks :
          a = [kind |-> "stock", api_id |-> t, coin_id |-> None] /\ b = [kind |-> "stock", api_id |-> u, coin_id |-> None]
    BY <1>1, <2>1, AddAssumption DEF AddConstants
  <2> QED BY <2>2
<1>3. CASE a.kind = "crypto" /\ b.kind = "crypto"
  BY <1>3 DEF Adding!Twins
<1>4. a.kind \in {"stock", "crypto"} /\ b.kind \in {"stock", "crypto"}
  BY <1>1
<1> QED BY <1>2, <1>3, <1>4

(* A new form is the one picked, and a form that is kept has its key, which*)
(* no screenshot had before.                                               *)
LEMMA Mounted ==
  ASSUME AddInv, NEW asset \in AnyAsset, NEW n \in Nat, n = 0 \/ n > scans, Adding!Mount(asset, n)
  PROVE  added' \in AddForms /\ added'.scan = n /\ Saves(added'.asset, asset, n)
<1>1. CASE added # None /\ Adding!Key(added.asset, added.scan) = Adding!Key(asset, n)
  <2>1. added' = added /\ added \in AddForms
    BY <1>1 DEF Adding!Mount, AddInv, AddTypes
  <2>2. added.asset.api_id = asset.api_id /\ added.scan = n
    BY <1>1 DEF Adding!Key
  <2>3. n = 0
    BY <1>1, <2>2 DEF AddInv, AddTypes, OneForm
  <2>4. added.asset = asset \/ Adding!Twins(added.asset, asset)
    BY <2>1, <2>2, SharedTicker DEF AddForms
  <2> QED BY <2>1, <2>2, <2>3, <2>4 DEF Saves
<1>2. CASE ~(added # None /\ Adding!Key(added.asset, added.scan) = Adding!Key(asset, n))
  <2>1. added' = [asset |-> asset, scan |-> n]
    BY <1>2 DEF Adding!Mount
  <2> QED BY <2>1 DEF AddForms, Saves
<1> QED BY <1>1, <1>2

(* Once searchId moved on no search counts.                                *)
LEMMA NoneNewest ==
  ASSUME NEW S \in SUBSET AddSearches
  PROVE  /\ Adding!Superseded(S) \subseteq AddSearches
         /\ \A q \in Adding!Superseded(S) : ~q.newest
<1>1. ASSUME NEW q \in S
      PROVE  [q EXCEPT !.newest = FALSE] \in AddSearches /\ ~[q EXCEPT !.newest = FALSE].newest
  BY DEF AddSearches
<1> QED BY <1>1 DEF Adding!Superseded

(* Both ways to a form, and the dialog closing.                            *)
LEMMA PickedForm ==
  ASSUME AddInv, NEW asset \in AnyAsset, NEW n \in Nat, n = 0 \/ n > scans, Adding!Picked(asset, n)
  PROVE  /\ scans' \in Nat /\ added' \in AddForms \cup {None} /\ results' = None
         /\ OneForm'
<1>1. step' = "create" /\ pick' = asset /\ scan' = n /\ results' = None
  BY DEF Adding!Picked
<1>2. added' \in AddForms /\ added'.scan = n /\ Saves(added'.asset, asset, n)
  BY Mounted DEF Adding!Picked
<1>3. added' # None
  BY <1>2, AddAssumption DEF AddConstants, AddForms, AnyAsset
<1>4. scans' \in Nat /\ n <= scans'
  BY DEF Adding!Picked, AddInv, AddTypes
<1> QED BY <1>1, <1>2, <1>3, <1>4 DEF OneForm

LEMMA ClosedInv ==
  ASSUME AddInv, Adding!Closed, UNCHANGED scans
  PROVE  AddInv'
<1>1. /\ step' = "closed" /\ kind' = "stock" /\ searching' = FALSE /\ results' = None
      /\ added' = None /\ searches' = Adding!Superseded(searches)
  BY DEF Adding!Closed
<1>2. searches' \subseteq AddSearches /\ \A q \in searches' : ~q.newest
  BY <1>1, NoneNewest DEF AddInv, AddTypes
<1> QED BY <1>1, <1>2 DEF AddInv, AddTypes, OneSearch, OneForm, Adding!Kinds

LEMMA AddStep ==
  ASSUME AddInv, Adding!Next
  PROVE  AddInv'
<1> USE DEF AddInv
<1>1. CASE Adding!Open
  BY <1>1 DEF Adding!Open, AddTypes, OneSearch, OneForm
<1>2. CASE Adding!Shortcut
  BY <1>2 DEF Adding!Shortcut, Adding!Unmount, AddTypes, OneSearch, OneForm
<1>3. CASE Adding!Close
  BY <1>3, ClosedInv DEF Adding!Close
<1>4. CASE Adding!RequestClose
  BY <1>3, <1>4 DEF Adding!RequestClose, AddTypes, OneSearch, OneForm
<1>5. ASSUME NEW text \in BOOLEAN, Adding!TypeQuery(text)
      PROVE  AddInv'
  BY <1>5 DEF Adding!TypeQuery, AddTypes, OneSearch, OneForm
<1>6. ASSUME NEW k \in Adding!Kinds, Adding!ChangeKind(k) \/ Adding!ScanNotFound(k)
      PROVE  AddInv'
  <2>1. /\ kind' = k /\ searching' = FALSE /\ results' = None /\ searches' = Adding!Superseded(searches)
        /\ UNCHANGED <<step, pick, scan, scans, added>>
    BY <1>6 DEF Adding!ChangeKind, Adding!ScanNotFound
  <2>2. searches' \subseteq AddSearches /\ \A q \in searches' : ~q.newest
    BY <2>1, NoneNewest DEF AddTypes
  <2> QED BY <2>1, <2>2 DEF AddTypes, OneSearch, OneForm
<1>7. CASE Adding!Search
  <2> DEFINE new == [kind |-> kind, newest |-> TRUE]
  <2>1. new \in AddSearches /\ new.newest /\ new.kind = kind
    BY DEF AddTypes, AddSearches
  <2>2. searches' = Adding!Superseded(searches) \cup {new} /\ searching' = TRUE
        /\ UNCHANGED <<step, pick, scan, kind, results, scans, added>>
    BY <1>7 DEF Adding!Search
  <2> HIDE DEF new
  <2>3. searches' \subseteq AddSearches /\ \A q \in searches' : q.newest => q = new
    BY <2>1, <2>2, NoneNewest DEF AddTypes
  <2> QED BY <2>1, <2>2, <2>3 DEF AddTypes, OneSearch, OneForm
<1>8. ASSUME NEW q \in searches, Adding!SearchArrives(q)
      PROVE  AddInv'
  <2>1. searches' = searches \ {q} /\ UNCHANGED <<step, pick, scan, kind, scans, added>>
    BY <1>8 DEF Adding!SearchArrives
  <2>2. CASE q.newest
    <3>1. searching' = FALSE /\ results' \in {q.kind, results}
      BY <1>8, <2>2 DEF Adding!SearchArrives
    <3>2. \A r \in searches' : ~r.newest
      BY <2>1, <2>2 DEF OneSearch
    <3> QED BY <2>1, <2>2, <3>1, <3>2 DEF AddTypes, OneSearch, OneForm
  <2>3. CASE ~q.newest
    <3>1. UNCHANGED <<searching, results>>
      BY <1>8, <2>3 DEF Adding!SearchArrives
    <3>2. (\E r \in searches' : r.newest) = (\E r \in searches : r.newest)
      BY <2>1, <2>3
    <3> QED BY <2>1, <3>1, <3>2 DEF AddTypes, OneSearch, OneForm
  <2> QED BY <2>2, <2>3
<1>9. ASSUME NEW k \in Adding!Kinds, NEW asset \in Adding!Assets(k), Adding!Select(asset)
      PROVE  AddInv'
  <2>1. asset \in AnyAsset
    BY DEF AnyAsset
  <2>2. PICK n \in Nat : Adding!Picked(asset, n) /\ (n = 0 \/ n > scans)
    BY <1>9 DEF Adding!Select, AddTypes
  <2>3. UNCHANGED <<kind, searching, searches>>
    BY <1>9 DEF Adding!Select
  <2> QED BY <2>1, <2>2, <2>3, PickedForm DEF AddTypes, OneSearch
<1>10. ASSUME NEW k \in Adding!Kinds, NEW asset \in Adding!Assets(k), Adding!ScanFound(asset)
       PROVE  AddInv'
  <2>1. asset \in AnyAsset /\ asset.kind \in Adding!Kinds
    BY DEF AnyAsset, Adding!Assets, Adding!Asset
  <2>2. PICK n \in Nat : Adding!Picked(asset, n) /\ (n = 0 \/ n > scans)
    BY <1>10 DEF Adding!ScanFound, AddTypes
  <2>3. kind' = asset.kind /\ searching' = FALSE /\ searches' = Adding!Superseded(searches)
    BY <1>10 DEF Adding!ScanFound
  <2>4. searches' \subseteq AddSearches /\ \A q \in searches' : ~q.newest
    BY <2>3, NoneNewest DEF AddTypes
  <2> QED BY <2>1, <2>2, <2>3, <2>4, PickedForm DEF AddTypes, OneSearch
<1>11. CASE Adding!StartScan \/ Adding!ScanEnds \/ Adding!Save \/ \E s \in creates : Adding!NotSaved(s)
  <2>1. UNCHANGED <<step, pick, scan, kind, searching, results, searches, scans, added>>
    BY <1>11 DEF Adding!StartScan, Adding!ScanEnds, Adding!Save, Adding!NotSaved
  <2> QED BY <2>1 DEF AddTypes, OneSearch, OneForm
<1>12. ASSUME NEW s \in creates, Adding!Saved(s)
       PROVE  AddInv'
  BY <1>12, ClosedInv DEF Adding!Saved
<1> QED BY <1>1, <1>2, <1>3, <1>4, <1>5, <1>6, <1>7, <1>8, <1>9, <1>10, <1>11, <1>12 DEF Adding!Next

LEMMA AddIdleStep ==
  ASSUME AddInv, UNCHANGED addVars
  PROVE  AddInv'
BY DEF addVars, AddInv, AddTypes, OneSearch, OneForm

LEMMA AddPart == PagesSpec => [](part = "add" => AddInv)
<1>1. PagesInit => (part = "add" => AddInv)
  BY InitAddInv DEF PagesInit
<1>2. (part = "add" => AddInv) /\ [PagesNext]_pageVars => (part = "add" => AddInv)'
  <2> SUFFICES ASSUME part = "add" => AddInv, [PagesNext]_pageVars, part' = "add"
               PROVE  AddInv'
    OBVIOUS
  <2>1. part = "add" /\ AddInv /\ (Adding!Next \/ UNCHANGED addVars)
    BY PartsMove
  <2> QED BY <2>1, AddStep, AddIdleStep
<1> QED BY <1>1, <1>2, PTL DEF PagesSpec

(* However late searches answer, scans end and saves are answered: what is *)
(* listed is of the kind searched for, the form has the values of the      *)
(* screenshot the pick came with, and saves the asset picked, unless that  *)
(* is a coin picked while the form of another with its ticker was open     *)
(* (TransactionSymbolSearch.jsx, the form's key).                          *)
THEOREM TheFormIsOfThePick == PagesSpec => []FormFollowsPick
<1>1. (part = "add" => AddInv) => FormFollowsPick
  BY DEF AddInv, OneSearch, OneForm, Saves, FormFollowsPick, Adding!FormFollowsPick
<1> QED BY <1>1, AddPart, PTL

-----------------------------------------------------------------------------
(* The screenshot reader.                                                  *)

ScanRuns == [shot : Nat, stage : Scanning!Stages, aborted : BOOLEAN]

Boxes == [busy : BOOLEAN, error : BOOLEAN, offer : BOOLEAN, asking : BOOLEAN, several : BOOLEAN]

ScanTypes ==
  /\ picked \in Nat /\ image \in Nat
  /\ runs \subseteq ScanRuns
  /\ scanBox \in Boxes
  /\ worker \in {"none", "starting", "ready"} /\ timer \in BOOLEAN

(* One scan is not cancelled, of the screenshot picked last, whose image   *)
(* is kept once it is shrunk; one that is cancelled shrinks or draws.      *)
OneScan == \A r, q \in runs : ~r.aborted /\ ~q.aborted => r = q

OfTheNewest ==
  \A r \in runs : ~r.aborted => r.shot = picked /\ (r.stage # "shrinking" => image = picked)

CancelledWait == \A r \in runs : r.aborted => r.stage \in {"shrinking", "preparing"}

(* The idle timer runs only while no scan that counts is reading.          *)
TimerWaits == timer => \A r \in runs : ~r.aborted => r.stage \notin Scanning!Tesseract

(* What the box offers to do goes with the image kept.                     *)
OffersTheNewest == scanBox.asking \/ scanBox.offer \/ scanBox.several => image = picked

BusyScanning == scanBox.busy = (\E r \in runs : ~r.aborted /\ r.stage # "options")

WorkerInv == CancelledWait /\ TimerWaits /\ Scanning!WorkerServesScans

BoxInv == OneScan /\ OfTheNewest /\ OffersTheNewest /\ BusyScanning

ScanInv == ScanTypes /\ WorkerInv /\ BoxInv

LEMMA InitScanInv == Scanning!Init => ScanInv
<1> SUFFICES ASSUME Scanning!Init PROVE ScanInv
  OBVIOUS
<1>1. picked = 0 /\ image = 0 /\ runs = {} /\ worker = "none" /\ timer = FALSE /\ scanBox = Scanning!Blank
  BY DEF Scanning!Init
<1>2. scanBox \in Boxes /\ scanBox.busy = FALSE
  BY <1>1 DEF Boxes, Scanning!Blank
<1>3. ScanTypes
  BY <1>1, <1>2 DEF ScanTypes
<1>4. WorkerInv
  BY <1>1 DEF WorkerInv, CancelledWait, TimerWaits, Scanning!WorkerServesScans
<1> QED BY <1>1, <1>2, <1>3, <1>4 DEF ScanInv, BoxInv, OneScan, OfTheNewest, OffersTheNewest, BusyScanning

(* What was under way is cancelled, and what is left to notice it.         *)
LEMMA Aborting ==
  ASSUME ScanInv, Scanning!AbortRuns, NEW R \in SUBSET ScanRuns, runs' = Scanning!StillRunning \cup R,
         \A r \in R : ~r.aborted /\ r.stage \notin Scanning!Tesseract
  PROVE  /\ runs' \subseteq ScanRuns
         /\ \A r \in runs' : ~r.aborted => r \in R
         /\ worker' \in {"none", "starting", "ready"} /\ timer' \in BOOLEAN
         /\ WorkerInv'
<1> DEFINE cut(r) == [r EXCEPT !.aborted = TRUE]
<1>1. ASSUME NEW r \in runs
      PROVE  cut(r) \in ScanRuns /\ cut(r).aborted /\ cut(r).stage = r.stage
  BY DEF ScanInv, ScanTypes, ScanRuns
<1>2. Scanning!StillRunning = {cut(r) : r \in {q \in runs : q.stage \in {"shrinking", "preparing"}}}
  BY DEF Scanning!StillRunning
<1> HIDE DEF cut
<1>3. \A r \in Scanning!StillRunning : r \in ScanRuns /\ r.aborted /\ r.stage \in {"shrinking", "preparing"}
  BY <1>1, <1>2
<1>4. runs' \subseteq ScanRuns /\ \A r \in runs' : ~r.aborted => r \in R
  BY <1>3
<1>5. CancelledWait'
  BY <1>3 DEF CancelledWait
<1>6. CASE Scanning!Reading(Scanning!Cancelled) # {}
  <2>1. worker' = "none" /\ timer' = FALSE
    BY <1>6 DEF Scanning!AbortRuns
  <2> QED BY <1>4, <1>5, <2>1 DEF WorkerInv, TimerWaits, Scanning!WorkerServesScans, Scanning!Tesseract
<1>7. CASE Scanning!Reading(Scanning!Cancelled) = {}
  <2>1. worker' = worker /\ timer' = timer
    BY <1>7 DEF Scanning!AbortRuns
  <2>2. ASSUME worker # "none", Scanning!Reading(runs') = {}
        PROVE  timer
    <3>1. SUFFICES ASSUME NEW r \in runs, r.stage \in Scanning!Tesseract PROVE FALSE
      BY <2>2 DEF ScanInv, WorkerInv, Scanning!WorkerServesScans, Scanning!Reading
    <3>2. r.aborted
      BY <1>7, <3>1 DEF Scanning!Reading, Scanning!Cancelled
    <3>3. r.stage = "preparing"
      BY <3>1, <3>2 DEF ScanInv, WorkerInv, CancelledWait, Scanning!Tesseract
    <3>4. cut(r) \in runs' /\ cut(r).stage = "preparing"
      BY <1>1, <1>2, <3>3
    <3> QED BY <2>2, <3>4 DEF Scanning!Reading, Scanning!Tesseract
  <2>3. TimerWaits'
    BY <1>4 DEF TimerWaits
  <2>4. Scanning!WorkerServesScans'
    BY <1>4, <2>1, <2>2 DEF Scanning!WorkerServesScans, Scanning!Tesseract
  <2> QED BY <1>4, <1>5, <2>1, <2>3, <2>4 DEF WorkerInv, ScanInv, ScanTypes
<1> QED BY <1>6, <1>7

(* A scan begins anew: it is the one that counts.                          *)
LEMMA Freshly ==
  ASSUME ScanInv, NEW n \in Nat, NEW stage \in {"shrinking", "ai", "looking"},
         Scanning!Fresh(Scanning!Run(n, stage)), n = picked', image' \in Nat,
         stage # "shrinking" => image' = picked', scanBox' \in Boxes, scanBox'.busy, OffersTheNewest'
  PROVE  ScanInv'
<1> DEFINE run == Scanning!Run(n, stage)
<1>1. run \in ScanRuns /\ run.shot = n /\ run.stage = stage /\ ~run.aborted /\ stage \notin Scanning!Tesseract
  BY DEF Scanning!Run, ScanRuns, Scanning!Stages, Scanning!Tesseract
<1>2. Scanning!AbortRuns /\ runs' = Scanning!StillRunning \cup {run}
  BY DEF Scanning!Fresh
<1> HIDE DEF run
<1>3. PICK R \in SUBSET ScanRuns : R = {run}
  BY <1>1
<1>4. /\ runs' \subseteq ScanRuns
      /\ \A r \in runs' : ~r.aborted => r = run
      /\ worker' \in {"none", "starting", "ready"} /\ timer' \in BOOLEAN
      /\ WorkerInv'
  BY <1>1, <1>2, <1>3, Aborting
<1>5. run \in runs'
  BY <1>2
<1>6. BoxInv'
  BY <1>1, <1>4, <1>5 DEF BoxInv, OneScan, OfTheNewest, BusyScanning, Boxes
<1> QED BY <1>4, <1>6 DEF ScanInv, ScanTypes

(* Nothing is begun: nothing counts any more.                              *)
LEMMA Stopped ==
  ASSUME ScanInv, Scanning!AbortRuns, runs' = Scanning!StillRunning, picked' \in Nat, image' \in Nat,
         scanBox' \in Boxes, ~scanBox'.busy, OffersTheNewest'
  PROVE  ScanInv'
<1>1. PICK R \in SUBSET ScanRuns : R = {}
  OBVIOUS
<1>2. /\ runs' \subseteq ScanRuns
      /\ \A r \in runs' : r.aborted
      /\ worker' \in {"none", "starting", "ready"} /\ timer' \in BOOLEAN
      /\ WorkerInv'
  BY <1>1, Aborting
<1>3. BoxInv'
  BY <1>2 DEF BoxInv, OneScan, OfTheNewest, BusyScanning, Boxes
<1> QED BY <1>2, <1>3 DEF ScanInv, ScanTypes

(* The scan that counts goes on, and is the only one that does.            *)
LEMMA GoesOn ==
  ASSUME ScanInv, NEW r \in runs, NEW stage \in Scanning!Stages, Scanning!Goes(r, stage)
  PROVE  /\ runs' \subseteq ScanRuns
         /\ \E s \in runs' :
              /\ s.shot = r.shot /\ s.stage = stage /\ s.aborted = r.aborted
              /\ runs' = (runs \ {r}) \cup {s}
<1> DEFINE s == [r EXCEPT !.stage = stage]
<1>1. s \in ScanRuns /\ s.shot = r.shot /\ s.stage = stage /\ s.aborted = r.aborted
  BY DEF ScanInv, ScanTypes, ScanRuns
<1>2. runs' = (runs \ {r}) \cup {s}
  BY DEF Scanning!Goes
<1> HIDE DEF s
<1> QED BY <1>1, <1>2 DEF ScanInv, ScanTypes

LEMMA StageOn ==
  ASSUME ScanInv, NEW r \in runs, ~r.aborted, NEW stage \in Scanning!Stages \ {"shrinking"},
         Scanning!Goes(r, stage), picked' = picked, image' = picked,
         scanBox' \in Boxes, scanBox'.busy = (stage # "options"), OffersTheNewest',
         worker' \in {"none", "starting", "ready"}, timer' \in BOOLEAN,
         stage = "starting" => worker' # "none",
         stage \in {"preparing", "recognizing"} => worker' = "ready",
         timer' => stage \notin Scanning!Tesseract,
         (worker # "none" /\ Scanning!Reading(runs) = {} => timer)'
  PROVE  ScanInv'
<1>1. PICK s \in runs' : /\ s.shot = r.shot /\ s.stage = stage /\ s.aborted = r.aborted
                         /\ runs' = (runs \ {r}) \cup {s} /\ runs' \subseteq ScanRuns
  BY GoesOn
<1>2. \A q \in runs' : ~q.aborted => q = s
  BY <1>1 DEF ScanInv, BoxInv, OneScan
<1>3. s.shot = picked /\ ~s.aborted
  BY <1>1 DEF ScanInv, BoxInv, OfTheNewest
<1>4. ScanTypes'
  BY <1>1 DEF ScanInv, ScanTypes
<1>5. CancelledWait'
  BY <1>1, <1>3 DEF ScanInv, WorkerInv, CancelledWait
<1>6. TimerWaits'
  BY <1>1, <1>2 DEF TimerWaits
<1>7. Scanning!WorkerServesScans'
  BY <1>1, <1>2 DEF Scanning!WorkerServesScans
<1>8. OneScan' /\ OfTheNewest'
  BY <1>2, <1>3 DEF OneScan, OfTheNewest
<1>9. BusyScanning'
  BY <1>1, <1>2, <1>3 DEF BusyScanning
<1> QED BY <1>4, <1>5, <1>6, <1>7, <1>8, <1>9 DEF ScanInv, WorkerInv, BoxInv

(* The scan that counts is over.                                           *)
LEMMA ScanOver ==
  ASSUME ScanInv, NEW r \in runs, ~r.aborted, r.stage \notin Scanning!Tesseract, Scanning!Ends(r),
         picked' = picked, image' \in Nat, scanBox' \in Boxes, ~scanBox'.busy, OffersTheNewest',
         UNCHANGED <<worker, timer>>
  PROVE  ScanInv'
<1>1. runs' = runs \ {r}
  BY DEF Scanning!Ends
<1>2. \A q \in runs' : q.aborted
  BY <1>1 DEF ScanInv, BoxInv, OneScan, ScanTypes, ScanRuns
<1>3. Scanning!Reading(runs') = Scanning!Reading(runs)
  BY <1>1 DEF Scanning!Reading
<1>4. WorkerInv'
  BY <1>1, <1>2, <1>3 DEF ScanInv, WorkerInv, CancelledWait, TimerWaits, Scanning!WorkerServesScans
<1>5. BoxInv'
  BY <1>2 DEF BoxInv, OneScan, OfTheNewest, BusyScanning, Boxes
<1> QED BY <1>1, <1>4, <1>5 DEF ScanInv, ScanTypes

(* A cancelled scan notices it.                                            *)
LEMMA CancelledOver ==
  ASSUME ScanInv, NEW r \in runs, r.aborted, Scanning!Ends(r), UNCHANGED <<picked, image, scanBox, worker>>,
         timer' = (timer \/ Scanning!StopsReading(runs \ {r}, worker))
                  \/ (r.stage = "shrinking" /\ UNCHANGED timer)
  PROVE  ScanInv'
<1>1. runs' = runs \ {r}
  BY DEF Scanning!Ends
<1>2. timer' \in BOOLEAN /\ (timer' => timer \/ Scanning!Reading(runs') = {})
  <2>1. timer \in BOOLEAN
    BY DEF ScanInv, ScanTypes
  <2>2. CASE timer' = (timer \/ Scanning!StopsReading(runs \ {r}, worker))
    BY <1>1, <2>1, <2>2 DEF Scanning!StopsReading
  <2>3. CASE timer' = timer
    BY <2>1, <2>3
  <2> QED BY <2>2, <2>3
<1>3. ASSUME worker # "none", Scanning!Reading(runs') = {}
      PROVE  timer'
  <2>1. CASE timer' = (timer \/ Scanning!StopsReading(runs \ {r}, worker))
    BY <1>1, <1>3, <2>1 DEF Scanning!StopsReading
  <2>2. CASE r.stage = "shrinking" /\ UNCHANGED timer
    <3>1. Scanning!Reading(runs') = Scanning!Reading(runs)
      BY <1>1, <2>2 DEF Scanning!Reading, Scanning!Tesseract
    <3> QED BY <1>3, <2>2, <3>1 DEF ScanInv, WorkerInv, Scanning!WorkerServesScans
  <2> QED BY <2>1, <2>2
<1>4. \A q \in runs' : q \in runs
  BY <1>1
<1>5. \A q \in runs : ~q.aborted => q \in runs'
  BY <1>1
<1>6. TimerWaits'
  BY <1>2, <1>4 DEF ScanInv, WorkerInv, TimerWaits, Scanning!Reading
<1>7. Scanning!WorkerServesScans'
  BY <1>3, <1>4 DEF ScanInv, WorkerInv, Scanning!WorkerServesScans
<1>8. BoxInv'
  BY <1>4, <1>5 DEF ScanInv, BoxInv, OneScan, OfTheNewest, OffersTheNewest, BusyScanning
<1> QED BY <1>1, <1>2, <1>4, <1>6, <1>7, <1>8 DEF ScanInv, ScanTypes, WorkerInv, CancelledWait


(* A box with some of its fields set is a box.                             *)
LEMMA BoxSet ==
  ASSUME NEW b \in Boxes
  PROVE  /\ [b EXCEPT !.busy = FALSE] \in Boxes
         /\ [b EXCEPT !.busy = FALSE, !.error = TRUE] \in Boxes
         /\ [b EXCEPT !.busy = FALSE, !.several = TRUE] \in Boxes
         /\ [b EXCEPT !.busy = TRUE, !.error = FALSE] \in Boxes
         /\ [b EXCEPT !.busy = TRUE, !.error = FALSE, !.offer = FALSE] \in Boxes
         /\ [b EXCEPT !.busy = TRUE, !.error = FALSE, !.offer = FALSE, !.asking = FALSE] \in Boxes
         /\ [b EXCEPT !.error = FALSE, !.offer = FALSE] \in Boxes
         /\ [b EXCEPT !.asking = TRUE] \in Boxes /\ [b EXCEPT !.asking = FALSE] \in Boxes
         /\ \A x \in BOOLEAN : [b EXCEPT !.offer = x] \in Boxes
BY DEF Boxes

(* A scan that counts fails, finds nothing, or has one trade or several.   *)
LEMMA ScanFails ==
  ASSUME ScanInv, NEW r \in runs, ~r.aborted, r.stage \notin Scanning!Tesseract, Scanning!Failed(r),
         UNCHANGED <<picked, image, worker, timer>>
  PROVE  ScanInv'
<1>1. Scanning!Ends(r) /\ scanBox' = [scanBox EXCEPT !.busy = FALSE, !.error = TRUE]
  BY DEF Scanning!Failed
<1>2. scanBox \in Boxes /\ image \in Nat
  BY DEF ScanInv, ScanTypes
<1>3. scanBox' \in Boxes /\ ~scanBox'.busy
  <2>1. scanBox' \in Boxes
    BY <1>1, <1>2, BoxSet
  <2>2. ~scanBox'.busy
    BY <1>1, <1>2 DEF Boxes
  <2> QED BY <2>1, <2>2
<1>4. OffersTheNewest'
  BY <1>1, <1>2 DEF ScanInv, BoxInv, OffersTheNewest, Boxes
<1> QED BY <1>1, <1>2, <1>3, <1>4, ScanOver

LEMMA NothingFound ==
  ASSUME ScanInv, NEW r \in runs, ~r.aborted, r.stage # "shrinking", Scanning!NotFound(r),
         UNCHANGED <<picked, image>>, worker' \in {"none", "starting", "ready"}, timer' \in BOOLEAN,
         (worker # "none" /\ Scanning!Reading(runs) = {} => timer)'
  PROVE  ScanInv'
<1>1. Scanning!Goes(r, "options") /\ scanBox' = [scanBox EXCEPT !.busy = FALSE, !.error = TRUE]
  BY DEF Scanning!NotFound
<1>2. scanBox \in Boxes /\ image' = picked
  BY DEF ScanInv, ScanTypes, BoxInv, OfTheNewest
<1>3. scanBox' \in Boxes /\ scanBox'.busy = ("options" # "options")
  <2>1. scanBox' \in Boxes
    BY <1>1, <1>2, BoxSet
  <2>2. scanBox'.busy = FALSE
    BY <1>1, <1>2 DEF Boxes
  <2> QED BY <2>1, <2>2
<1>4. OffersTheNewest'
  BY <1>2 DEF OffersTheNewest
<1>5. "options" \in Scanning!Stages \ {"shrinking"} /\ "options" \notin Scanning!Tesseract
  BY DEF Scanning!Stages, Scanning!Tesseract
<1> QED BY <1>1, <1>2, <1>3, <1>4, <1>5, StageOn

LEMMA TradesShown ==
  ASSUME ScanInv, NEW r \in runs, ~r.aborted, r.stage \in {"checking", "ai"}, Scanning!Show(r),
         UNCHANGED <<picked, image, worker, timer>>
  PROVE  ScanInv'
<1>1. scanBox \in Boxes /\ image \in Nat /\ image = picked /\ scanBox.busy = TRUE
  BY DEF ScanInv, ScanTypes, BoxInv, OfTheNewest, BusyScanning
<1>2. CASE Scanning!Goes(r, "looking") /\ UNCHANGED scanBox
  <2>1. Scanning!Reading(runs') = Scanning!Reading(runs)
    <3>1. PICK s \in runs' : s.stage = "looking" /\ runs' = (runs \ {r}) \cup {s}
      BY <1>2, GoesOn DEF Scanning!Stages
    <3> QED BY <3>1 DEF Scanning!Reading, Scanning!Tesseract
  <2>2. OffersTheNewest'
    BY <1>1 DEF OffersTheNewest
  <2>3. "looking" \in Scanning!Stages \ {"shrinking"} /\ "looking" \notin Scanning!Tesseract
    BY DEF Scanning!Stages, Scanning!Tesseract
  <2>4. (worker # "none" /\ Scanning!Reading(runs) = {} => timer)'
    BY <2>1 DEF ScanInv, WorkerInv, Scanning!WorkerServesScans
  <2>5. worker' \in {"none", "starting", "ready"} /\ timer' \in BOOLEAN
    BY DEF ScanInv, ScanTypes
  <2> QED BY <1>1, <1>2, <2>2, <2>3, <2>4, <2>5, StageOn
<1>3. CASE Scanning!Ends(r) /\ scanBox' = [scanBox EXCEPT !.busy = FALSE, !.several = TRUE]
  <2>1. scanBox' \in Boxes /\ ~scanBox'.busy
    <3>1. scanBox' \in Boxes
      BY <1>1, <1>3, BoxSet
    <3>2. ~scanBox'.busy
      BY <1>1, <1>3 DEF Boxes
    <3> QED BY <3>1, <3>2
  <2>2. OffersTheNewest'
    BY <1>1 DEF OffersTheNewest
  <2>3. r.stage \notin Scanning!Tesseract
    BY DEF Scanning!Tesseract
  <2> QED BY <1>1, <1>3, <2>1, <2>2, <2>3, ScanOver
<1> QED BY <1>2, <1>3 DEF Scanning!Show

(* Only the box changes.                                                   *)
LEMMA BoxOnly ==
  ASSUME ScanInv, UNCHANGED <<picked, image, runs, worker, timer>>, scanBox' \in Boxes,
         scanBox'.busy = scanBox.busy, OffersTheNewest'
  PROVE  ScanInv'
BY DEF ScanInv, ScanTypes, WorkerInv, CancelledWait, TimerWaits, Scanning!WorkerServesScans, BoxInv, OneScan,
       OfTheNewest, BusyScanning

(* The text of a screenshot, by Apple Vision or Tesseract.                 *)
LEMMA TextParsed ==
  ASSUME ScanInv, NEW r \in runs, ~r.aborted, r.stage \in {"vision", "recognizing"}, Scanning!Parsed(r),
         UNCHANGED <<picked, image, worker>>,
         timer' = timer \/ timer' = (timer \/ Scanning!StopsReading(runs', worker)),
         r.stage = "recognizing" => timer' = (timer \/ Scanning!StopsReading(runs', worker))
  PROVE  ScanInv'
<1>1. scanBox \in Boxes /\ image' = picked /\ scanBox.busy = TRUE /\ timer \in BOOLEAN
      /\ worker' \in {"none", "starting", "ready"}
  BY DEF ScanInv, ScanTypes, BoxInv, OfTheNewest, BusyScanning
<1>2. timer' \in BOOLEAN
  <2>1. CASE timer' = timer
    BY <1>1, <2>1
  <2>2. CASE timer' = (timer \/ Scanning!StopsReading(runs', worker))
    BY <1>1, <2>2 DEF Scanning!StopsReading
  <2> QED BY <2>1, <2>2
<1>3. ASSUME NEW stage \in {"checking", "options"}, Scanning!Goes(r, stage)
      PROVE  (worker # "none" /\ Scanning!Reading(runs) = {} => timer)'
  <2> SUFFICES ASSUME worker # "none", Scanning!Reading(runs') = {} PROVE timer'
    OBVIOUS
  <2>1. CASE r.stage = "recognizing"
    BY <2>1 DEF Scanning!StopsReading
  <2>2. CASE r.stage = "vision"
    <3>1. PICK s \in runs' : s.stage = stage /\ runs' = (runs \ {r}) \cup {s}
      BY <1>3, GoesOn DEF Scanning!Stages
    <3>2. Scanning!Reading(runs) = {}
      BY <2>2, <3>1 DEF Scanning!Reading, Scanning!Tesseract
    <3>3. timer
      BY <3>2 DEF ScanInv, WorkerInv, Scanning!WorkerServesScans
    <3> QED BY <1>1, <3>3
  <2> QED BY <2>1, <2>2
<1>4. CASE Scanning!Goes(r, "checking") /\ UNCHANGED scanBox
  <2>1. OffersTheNewest'
    BY <1>1 DEF OffersTheNewest
  <2>2. "checking" \in Scanning!Stages \ {"shrinking"} /\ "checking" \notin Scanning!Tesseract
    BY DEF Scanning!Stages, Scanning!Tesseract
  <2>3. (worker # "none" /\ Scanning!Reading(runs) = {} => timer)'
    BY <1>3, <1>4
  <2> QED BY <1>1, <1>2, <1>4, <2>1, <2>2, <2>3, StageOn
<1>5. CASE Scanning!NotFound(r)
  <2>1. (worker # "none" /\ Scanning!Reading(runs) = {} => timer)'
    BY <1>3, <1>5 DEF Scanning!NotFound
  <2> QED BY <1>1, <1>2, <1>5, <2>1, NothingFound
<1> QED BY <1>4, <1>5 DEF Scanning!Parsed

LEMMA ReadingStarts ==
  ASSUME ScanInv, NEW r \in runs, ~r.aborted, r.stage \in {"shrinking", "vision"}, Scanning!StartsReading(r),
         picked' = picked, image' = picked
  PROVE  ScanInv'
<1>1. /\ Scanning!Goes(r, "starting") /\ timer' = FALSE /\ scanBox' = scanBox
      /\ worker' = IF worker = "none" THEN "starting" ELSE worker
  BY DEF Scanning!StartsReading
<1>2. worker' \in {"none", "starting", "ready"} /\ worker' # "none"
  BY <1>1 DEF ScanInv, ScanTypes
<1>3. scanBox' \in Boxes /\ scanBox'.busy = TRUE
  BY <1>1 DEF ScanInv, ScanTypes, BoxInv, BusyScanning
<1>4. PICK s \in runs' : s.stage = "starting"
  BY <1>1, GoesOn DEF Scanning!Stages
<1>5. Scanning!Reading(runs') # {}
  BY <1>4 DEF Scanning!Reading, Scanning!Tesseract
<1>6. OffersTheNewest'
  BY DEF OffersTheNewest
<1>7. "starting" \in Scanning!Stages \ {"shrinking"}
  BY DEF Scanning!Stages
<1> QED BY <1>1, <1>2, <1>3, <1>5, <1>6, <1>7, StageOn


LEMMA ScanStep ==
  ASSUME ScanInv, Scanning!Next
  PROVE  ScanInv'
<1>0. /\ picked \in Nat /\ image \in Nat /\ scanBox \in Boxes /\ OffersTheNewest
      /\ worker \in {"none", "starting", "ready"} /\ timer \in BOOLEAN
  BY DEF ScanInv, ScanTypes, BoxInv
<1>1. CASE Scanning!Start
  <2>1. UNCHANGED <<picked, image, runs, worker, timer>>
        /\ scanBox' = [scanBox EXCEPT !.error = FALSE, !.offer = FALSE]
    BY <1>1 DEF Scanning!Start
  <2>2. scanBox' \in Boxes
    BY <1>0, <2>1, BoxSet
  <2>3. scanBox'.busy = scanBox.busy /\ OffersTheNewest'
    BY <1>0, <2>1 DEF Boxes, OffersTheNewest
  <2> QED BY <2>1, <2>2, <2>3, BoxOnly
<1>2. CASE Scanning!PickFile
  <2>1. /\ picked' = picked + 1 /\ image' = 0 /\ scanBox' = [Scanning!Blank EXCEPT !.busy = TRUE]
        /\ Scanning!Fresh(Scanning!Run(picked + 1, "shrinking"))
    BY <1>2 DEF Scanning!PickFile
  <2>2. scanBox' \in Boxes /\ scanBox'.busy /\ OffersTheNewest'
    BY <2>1 DEF Scanning!Blank, Boxes, OffersTheNewest
  <2>3. PICK n \in Nat : n = picked + 1
    BY <1>0
  <2> QED BY <2>1, <2>2, <2>3, Freshly
<1>3. CASE Scanning!Cancel
  <2>1. /\ Scanning!AbortRuns /\ runs' = Scanning!StillRunning /\ scanBox' = [scanBox EXCEPT !.busy = FALSE]
        /\ UNCHANGED <<picked, image>>
    BY <1>3 DEF Scanning!Cancel
  <2>2. scanBox' \in Boxes
    BY <1>0, <2>1, BoxSet
  <2>3. ~scanBox'.busy /\ OffersTheNewest'
    BY <1>0, <2>1 DEF Boxes, OffersTheNewest
  <2> QED BY <1>0, <2>1, <2>2, <2>3, Stopped
<1>4. CASE Scanning!Unmount
  <2>1. /\ Scanning!AbortRuns /\ runs' = Scanning!StillRunning /\ scanBox' = Scanning!Blank
        /\ picked' = picked /\ image' = 0
    BY <1>4 DEF Scanning!Unmount
  <2>2. scanBox' \in Boxes /\ ~scanBox'.busy /\ OffersTheNewest'
    BY <2>1 DEF Scanning!Blank, Boxes, OffersTheNewest
  <2> QED BY <1>0, <2>1, <2>2, Stopped
<1>5. CASE Scanning!WorkerStarts
  <2>0. worker = "starting" /\ UNCHANGED <<picked, image, timer>>
    BY <1>5 DEF Scanning!WorkerStarts
  <2>1. CASE worker' = "ready" /\ UNCHANGED <<runs, scanBox>>
    <3>1. WorkerInv'
      BY <2>0, <2>1 DEF ScanInv, WorkerInv, CancelledWait, TimerWaits, Scanning!WorkerServesScans
    <3> QED BY <2>0, <2>1, <3>1
        DEF ScanInv, ScanTypes, BoxInv, OneScan, OfTheNewest, OffersTheNewest, BusyScanning
  <2>2. ASSUME worker' = "none", NEW r \in runs, ~r.aborted, r.stage = "starting", Scanning!NotFound(r)
        PROVE  ScanInv'
    <3>1. timer' \in BOOLEAN
      BY <1>0, <2>0
    <3> QED BY <2>0, <2>2, <3>1, NothingFound
  <2>3. CASE worker' = "none" /\ ~(\E r \in runs : ~r.aborted /\ r.stage = "starting") /\ UNCHANGED <<runs, scanBox>>
    <3>1. WorkerInv'
      BY <2>0, <2>3 DEF ScanInv, WorkerInv, CancelledWait, TimerWaits, Scanning!WorkerServesScans
    <3> QED BY <2>0, <2>3, <3>1
        DEF ScanInv, ScanTypes, BoxInv, OneScan, OfTheNewest, OffersTheNewest, BusyScanning
  <2> QED BY <1>5, <2>1, <2>2, <2>3 DEF Scanning!WorkerStarts
<1>6. CASE Scanning!IdleClose
  <2>1. timer /\ timer' = FALSE /\ worker' = "none" /\ UNCHANGED <<picked, runs, scanBox, image>>
    BY <1>6 DEF Scanning!IdleClose
  <2>2. WorkerInv'
    BY <2>1 DEF ScanInv, WorkerInv, CancelledWait, TimerWaits, Scanning!WorkerServesScans, Scanning!Tesseract
  <2> QED BY <2>1, <2>2 DEF ScanInv, ScanTypes, BoxInv, OneScan, OfTheNewest, OffersTheNewest, BusyScanning
<1>7. CASE Scanning!TryAi
  <2>1. UNCHANGED <<picked, image>> /\ image = picked
    BY <1>0, <1>7 DEF Scanning!TryAi, Scanning!CanTryAi, OffersTheNewest
  <2>2. CASE consent
    <3>1. /\ Scanning!Fresh(Scanning!Run(image, "ai"))
          /\ scanBox' = [scanBox EXCEPT !.busy = TRUE, !.error = FALSE, !.offer = FALSE]
      BY <1>7, <2>2 DEF Scanning!TryAi, Scanning!SendToAi
    <3>2. scanBox' \in Boxes
      BY <1>0, <3>1, BoxSet
    <3>3. scanBox'.busy /\ OffersTheNewest'
      BY <1>0, <2>1, <3>1 DEF Boxes, OffersTheNewest
    <3> QED BY <1>0, <2>1, <3>1, <3>2, <3>3, Freshly
  <2>3. CASE ~consent
    <3>1. scanBox' = [scanBox EXCEPT !.asking = TRUE] /\ UNCHANGED <<runs, worker, timer>>
      BY <1>7, <2>3 DEF Scanning!TryAi
    <3>2. scanBox' \in Boxes
      BY <1>0, <3>1, BoxSet
    <3>3. scanBox'.busy = scanBox.busy /\ OffersTheNewest'
      BY <1>0, <2>1, <3>1 DEF Boxes, OffersTheNewest
    <3> QED BY <2>1, <3>1, <3>2, <3>3, BoxOnly
  <2> QED BY <2>2, <2>3
<1>8. CASE Scanning!Agree
  <2>1. /\ scanBox.asking /\ Scanning!Fresh(Scanning!Run(image, "ai")) /\ UNCHANGED <<picked, image>>
        /\ scanBox' = [scanBox EXCEPT !.busy = TRUE, !.error = FALSE, !.offer = FALSE, !.asking = FALSE]
    BY <1>8 DEF Scanning!Agree, Scanning!SendToAi
  <2>2. image = picked /\ OffersTheNewest'
    BY <1>0, <2>1 DEF OffersTheNewest
  <2>3. scanBox' \in Boxes
    BY <1>0, <2>1, BoxSet
  <2>4. scanBox'.busy
    BY <1>0, <2>1 DEF Boxes
  <2> QED BY <1>0, <2>1, <2>2, <2>3, <2>4, Freshly
<1>9. CASE Scanning!Decline
  <2>1. scanBox' = [scanBox EXCEPT !.asking = FALSE] /\ UNCHANGED <<picked, runs, image, worker, timer>>
    BY <1>9 DEF Scanning!Decline
  <2>2. scanBox' \in Boxes
    BY <1>0, <2>1, BoxSet
  <2>3. scanBox'.busy = scanBox.busy /\ OffersTheNewest'
    BY <1>0, <2>1 DEF Boxes, OffersTheNewest
  <2> QED BY <2>1, <2>2, <2>3, BoxOnly
<1>10. CASE Scanning!PickChoice
  <2>1. /\ scanBox.several /\ Scanning!Fresh(Scanning!Run(image, "looking")) /\ UNCHANGED <<picked, image>>
        /\ scanBox' = [scanBox EXCEPT !.busy = TRUE, !.error = FALSE]
    BY <1>10 DEF Scanning!PickChoice, Scanning!CanPick
  <2>2. image = picked /\ OffersTheNewest'
    BY <1>0, <2>1 DEF OffersTheNewest
  <2>3. scanBox' \in Boxes
    BY <1>0, <2>1, BoxSet
  <2>4. scanBox'.busy
    BY <1>0, <2>1 DEF Boxes
  <2> QED BY <1>0, <2>1, <2>2, <2>3, <2>4, Freshly
<1>11. ASSUME NEW r \in runs, Scanning!Shrunk(r)
       PROVE  ScanInv'
  <2>0. r.stage = "shrinking" /\ picked' = picked /\ r.stage \notin Scanning!Tesseract
    BY <1>11 DEF Scanning!Shrunk, Scanning!Tesseract
  <2>1. CASE r.aborted /\ Scanning!Ends(r) /\ UNCHANGED <<scanBox, image, worker, timer>>
    BY <2>0, <2>1, CancelledOver
  <2>2. CASE Scanning!Failed(r) /\ UNCHANGED <<image, worker, timer>>
    <3>1. CASE r.aborted
      BY <2>0, <2>2, <3>1, CancelledOver DEF Scanning!Failed
    <3>2. CASE ~r.aborted
      BY <2>0, <2>2, <3>2, ScanFails
    <3> QED BY <3>1, <3>2
  <2>3. CASE ~r.aborted /\ image' = r.shot /\ Scanning!Goes(r, "vision") /\ UNCHANGED <<scanBox, worker, timer>>
    <3>1. image' = picked /\ scanBox' \in Boxes /\ scanBox'.busy = ("vision" # "options")
      BY <1>0, <2>0, <2>3 DEF ScanInv, BoxInv, OfTheNewest, BusyScanning
    <3>2. OffersTheNewest'
      BY <2>0, <3>1 DEF OffersTheNewest
    <3>3. PICK s \in runs' : s.stage = "vision" /\ runs' = (runs \ {r}) \cup {s}
      BY <2>3, GoesOn DEF Scanning!Stages
    <3>4. Scanning!Reading(runs') = Scanning!Reading(runs)
      BY <2>0, <3>3 DEF Scanning!Reading, Scanning!Tesseract
    <3>5. (worker # "none" /\ Scanning!Reading(runs) = {} => timer)'
      BY <2>3, <3>4 DEF ScanInv, WorkerInv, Scanning!WorkerServesScans
    <3>6. "vision" \in Scanning!Stages \ {"shrinking"} /\ "vision" \notin Scanning!Tesseract
      BY DEF Scanning!Stages, Scanning!Tesseract
    <3>7. worker' \in {"none", "starting", "ready"} /\ timer' \in BOOLEAN
      BY <1>0, <2>3
    <3> QED BY <2>0, <2>3, <3>1, <3>2, <3>5, <3>6, <3>7, StageOn
  <2>4. CASE ~r.aborted /\ image' = r.shot /\ Scanning!StartsReading(r)
    <3>1. image' = picked
      BY <2>4 DEF ScanInv, BoxInv, OfTheNewest
    <3> QED BY <2>0, <2>4, <3>1, ReadingStarts
  <2> QED BY <1>11, <2>1, <2>2, <2>3, <2>4 DEF Scanning!Shrunk
<1>12. ASSUME NEW r \in runs, r.stage \notin {"shrinking", "preparing"}
       PROVE  ~r.aborted /\ image = picked
  BY <1>12 DEF ScanInv, WorkerInv, CancelledWait, BoxInv, OfTheNewest
<1>13. ASSUME NEW r \in runs, Scanning!Vision(r)
       PROVE  ScanInv'
  <2>1. r.stage = "vision" /\ UNCHANGED <<picked, image>>
    BY <1>13 DEF Scanning!Vision
  <2>2. ~r.aborted /\ image = picked
    BY <1>12, <2>1
  <2>3. CASE Scanning!Parsed(r) /\ UNCHANGED <<worker, timer>>
    BY <2>1, <2>2, <2>3, TextParsed
  <2>4. CASE Scanning!StartsReading(r)
    BY <2>1, <2>2, <2>4, ReadingStarts
  <2> QED BY <1>13, <2>3, <2>4 DEF Scanning!Vision
<1>14. ASSUME NEW r \in runs, Scanning!GetWorker(r)
       PROVE  ScanInv'
  <2>1. /\ r.stage = "starting" /\ worker = "ready" /\ Scanning!Goes(r, "preparing")
        /\ UNCHANGED <<picked, scanBox, image, worker, timer>>
    BY <1>14 DEF Scanning!GetWorker
  <2>2. ~r.aborted /\ image = picked
    BY <1>12, <2>1
  <2>3. PICK s \in runs' : s.stage = "preparing"
    BY <2>1, GoesOn DEF Scanning!Stages
  <2>4. Scanning!Reading(runs') # {}
    BY <2>3 DEF Scanning!Reading, Scanning!Tesseract
  <2>5. ~timer
    BY <2>1, <2>2 DEF ScanInv, WorkerInv, TimerWaits, Scanning!Tesseract
  <2>6. scanBox'.busy = ("preparing" # "options") /\ OffersTheNewest'
    BY <1>0, <2>1, <2>2 DEF ScanInv, BoxInv, BusyScanning, OffersTheNewest, Boxes
  <2>7. "preparing" \in Scanning!Stages \ {"shrinking"}
    BY DEF Scanning!Stages
  <2>8. image' = picked /\ scanBox' \in Boxes /\ worker' = "ready" /\ timer' = FALSE
    BY <1>0, <2>1, <2>2, <2>5
  <2>9. (worker # "none" /\ Scanning!Reading(runs) = {} => timer)'
    BY <2>4
  <2> QED BY <2>1, <2>2, <2>6, <2>7, <2>8, <2>9, StageOn
<1>15. ASSUME NEW r \in runs, Scanning!Prepared(r)
       PROVE  ScanInv'
  <2>1. r.stage = "preparing" /\ UNCHANGED <<picked, scanBox, image, worker>>
    BY <1>15 DEF Scanning!Prepared
  <2>2. CASE r.aborted
    <3>1. Scanning!Ends(r) /\ timer' = (timer \/ Scanning!StopsReading(runs \ {r}, worker))
      BY <1>15, <2>2 DEF Scanning!Prepared
    <3> QED BY <2>1, <2>2, <3>1, CancelledOver
  <2>3. CASE ~r.aborted
    <3>1. Scanning!Goes(r, "recognizing") /\ UNCHANGED timer
      BY <1>15, <2>3 DEF Scanning!Prepared
    <3>2. image = picked /\ worker = "ready" /\ ~timer
      BY <2>1, <2>3
      DEF ScanInv, WorkerInv, TimerWaits, Scanning!Tesseract, Scanning!WorkerServesScans, BoxInv, OfTheNewest
    <3>3. PICK s \in runs' : s.stage = "recognizing"
      BY <3>1, GoesOn DEF Scanning!Stages
    <3>4. Scanning!Reading(runs') # {}
      BY <3>3 DEF Scanning!Reading, Scanning!Tesseract
    <3>5. scanBox'.busy = ("recognizing" # "options") /\ OffersTheNewest'
      BY <1>0, <2>1, <2>3, <3>2 DEF ScanInv, BoxInv, BusyScanning, OffersTheNewest, Boxes
    <3>6. "recognizing" \in Scanning!Stages \ {"shrinking"}
      BY DEF Scanning!Stages
    <3>7. image' = picked /\ scanBox' \in Boxes /\ worker' = "ready" /\ timer' = FALSE
      BY <1>0, <2>1, <3>1, <3>2
    <3>8. (worker # "none" /\ Scanning!Reading(runs) = {} => timer)'
      BY <3>4
    <3> QED BY <2>1, <2>3, <3>1, <3>5, <3>6, <3>7, <3>8, StageOn
  <2> QED BY <2>2, <2>3
<1>16. ASSUME NEW r \in runs, Scanning!Recognized(r)
       PROVE  ScanInv'
  <2>1. /\ r.stage = "recognizing" /\ Scanning!Parsed(r) /\ UNCHANGED <<picked, image, worker>>
        /\ timer' = (timer \/ Scanning!StopsReading(runs', worker))
    BY <1>16 DEF Scanning!Recognized
  <2>2. ~r.aborted
    BY <1>12, <2>1
  <2> QED BY <2>1, <2>2, TextParsed
<1>17. ASSUME NEW r \in runs, Scanning!Checked(r)
       PROVE  ScanInv'
  <2>1. /\ r.stage = "checking" /\ UNCHANGED <<picked, image, worker, timer>>
        /\ Scanning!Show(r) \/ Scanning!NotFound(r) \/ Scanning!Failed(r)
    BY <1>17 DEF Scanning!Checked
  <2>2. ~r.aborted /\ r.stage \notin Scanning!Tesseract
    BY <1>12, <2>1 DEF Scanning!Tesseract
  <2>3. CASE Scanning!NotFound(r)
    <3>1. PICK s \in runs' : s.stage = "options" /\ runs' = (runs \ {r}) \cup {s}
      BY <2>3, GoesOn DEF Scanning!NotFound, Scanning!Stages
    <3>2. Scanning!Reading(runs') = Scanning!Reading(runs)
      BY <2>1, <3>1 DEF Scanning!Reading, Scanning!Tesseract
    <3>3. (worker # "none" /\ Scanning!Reading(runs) = {} => timer)'
      BY <2>1, <3>2 DEF ScanInv, WorkerInv, Scanning!WorkerServesScans
    <3>4. worker' \in {"none", "starting", "ready"} /\ timer' \in BOOLEAN
      BY <1>0, <2>1
    <3> QED BY <2>1, <2>2, <2>3, <3>3, <3>4, NothingFound
  <2> QED BY <2>1, <2>2, <2>3, TradesShown, ScanFails
<1>18. ASSUME NEW r \in runs, Scanning!Options(r)
       PROVE  ScanInv'
  <2>1. /\ r.stage = "options" /\ Scanning!Ends(r) /\ UNCHANGED <<picked, image, worker, timer>>
        /\ scanBox' = [scanBox EXCEPT !.offer = ai /\ image # 0]
    BY <1>18 DEF Scanning!Options
  <2>2. ~r.aborted /\ image = picked /\ r.stage \notin Scanning!Tesseract
    BY <1>12, <2>1 DEF Scanning!Tesseract
  <2>3. PICK x \in BOOLEAN : x = (ai /\ image # 0)
    OBVIOUS
  <2>4. scanBox' \in Boxes
    BY <1>0, <2>1, <2>3, BoxSet
  <2>5. ~scanBox.busy
    BY <2>1, <2>2 DEF ScanInv, BoxInv, OneScan, BusyScanning
  <2>6. ~scanBox'.busy /\ OffersTheNewest'
    BY <1>0, <2>1, <2>2, <2>5 DEF Boxes, OffersTheNewest
  <2> QED BY <1>0, <2>1, <2>2, <2>4, <2>6, ScanOver
<1>19. ASSUME NEW r \in runs, Scanning!AiRead(r)
       PROVE  ScanInv'
  <2>1. /\ r.stage = "ai" /\ UNCHANGED <<picked, image, worker, timer>>
        /\ Scanning!Show(r) \/ Scanning!Failed(r)
    BY <1>19 DEF Scanning!AiRead
  <2>2. ~r.aborted /\ r.stage \notin Scanning!Tesseract
    BY <1>12, <2>1 DEF Scanning!Tesseract
  <2> QED BY <2>1, <2>2, TradesShown, ScanFails
<1>20. ASSUME NEW r \in runs, Scanning!LookedUp(r)
       PROVE  ScanInv'
  <2>1. r.stage = "looking" /\ UNCHANGED <<picked, worker, timer>>
    BY <1>20 DEF Scanning!LookedUp
  <2>2. ~r.aborted /\ r.stage \notin Scanning!Tesseract
    BY <1>12, <2>1 DEF Scanning!Tesseract
  <2>3. CASE Scanning!Ends(r) /\ scanBox' = Scanning!Blank /\ image' = 0
    <3>1. scanBox' \in Boxes /\ ~scanBox'.busy /\ OffersTheNewest'
      BY <2>3 DEF Scanning!Blank, Boxes, OffersTheNewest
    <3> QED BY <2>1, <2>2, <2>3, <3>1, ScanOver
  <2>4. CASE Scanning!Failed(r) /\ UNCHANGED image
    BY <2>1, <2>2, <2>4, ScanFails
  <2> QED BY <1>20, <2>3, <2>4 DEF Scanning!LookedUp
<1> QED BY <1>1, <1>2, <1>3, <1>4, <1>5, <1>6, <1>7, <1>8, <1>9, <1>10, <1>11, <1>13, <1>14, <1>15, <1>16, <1>17,
           <1>18, <1>19, <1>20 DEF Scanning!Next

LEMMA ScanIdleStep ==
  ASSUME ScanInv, UNCHANGED scanVars
  PROVE  ScanInv'
BY DEF scanVars, ScanInv, ScanTypes, WorkerInv, CancelledWait, TimerWaits, Scanning!WorkerServesScans, BoxInv,
       OneScan, OfTheNewest, OffersTheNewest, BusyScanning

LEMMA ScanPart == PagesSpec => [](part = "scan" => ScanInv)
<1>1. PagesInit => (part = "scan" => ScanInv)
  BY InitScanInv DEF PagesInit
<1>2. (part = "scan" => ScanInv) /\ [PagesNext]_pageVars => (part = "scan" => ScanInv)'
  <2> SUFFICES ASSUME part = "scan" => ScanInv, [PagesNext]_pageVars, part' = "scan"
               PROVE  ScanInv'
    OBVIOUS
  <2>1. part = "scan" /\ ScanInv /\ (Scanning!Next \/ UNCHANGED scanVars)
    BY PartsMove
  <2> QED BY <2>1, ScanStep, ScanIdleStep
<1> QED BY <1>1, <1>2, PTL DEF PagesSpec

LEMMA SameCount == \A S : Scanning!Cardinality(S) = Cardinality(S)
BY DEF Scanning!Cardinality, Cardinality

LEMMA OneCounted ==
  ASSUME OneScan
  PROVE  Scanning!Cardinality({r \in runs : ~r.aborted}) <= 1
<1> DEFINE S == {r \in runs : ~r.aborted}
<1>1. CASE S = {}
  BY <1>1, FS_EmptySet, SameCount
<1>2. CASE S # {}
  <2>1. PICK r \in S : TRUE
    BY <1>2
  <2>2. S = {r}
    BY <2>1 DEF OneScan
  <2>3. Cardinality({r}) = 1
    BY FS_Singleton
  <2>4. Cardinality(S) = 1
    BY <2>2, <2>3
  <2>5. Scanning!Cardinality(S) = 1
    BY <2>4, SameCount
  <2> QED BY <2>5
<1> QED BY <1>1, <1>2

(* Whatever is picked, cancelled, read or answered when: the text worker   *)
(* is there for the scan that reads with it, one nobody reads with is      *)
(* about to be closed, and the box is busy with the screenshot picked last *)
(* (textReader.js, TradeScan.jsx).                                         *)
THEOREM TheReaderKeepsUp == PagesSpec => []ScansKeepUp
<1>1. (part = "scan" => ScanInv) => ScansKeepUp
  <2> SUFFICES ASSUME ScanInv PROVE Scanning!ScansKeepUp
    BY DEF ScansKeepUp
  <2>1. Scanning!BusyWithTheNewest
    BY OneCounted DEF ScanInv, BoxInv, OfTheNewest, OffersTheNewest, BusyScanning, Scanning!BusyWithTheNewest
  <2> QED BY <2>1 DEF ScanInv, WorkerInv, Scanning!ScansKeepUp
<1> QED BY <1>1, ScanPart, PTL


-----------------------------------------------------------------------------
(* The import section.                                                     *)

Previews == [status : [FileRows -> {"error", "duplicate", "ok"}], account : BOOLEAN, id : Nat]

Tries ==
  [number : Nat, id : Nat, rows : SUBSET FileRows, anyway : SUBSET FileRows, adds : SUBSET FileRows,
   waited : BOOLEAN, answer : {"none", "working", "saved", "again", "refused"}]

ImportTypes ==
  /\ imported \in [FileRows -> Nat] /\ meant \in [FileRows -> Nat] /\ crossed \in [FileRows -> Nat]
  /\ rowsOf \in BOOLEAN /\ ids \in Nat
  /\ preview \in Previews \cup {None}
  /\ tries \subseteq Tries /\ IsFiniteSet(tries)
  /\ told \subseteq FileRows

(* A row with a problem is never ticked, and so never sent.                *)
BadStayOut ==
  /\ busy = "confirming" => preview # None
  /\ preview # None => \A r \in FileRows \cap BadRows : preview.status[r] = "error"
  /\ \A r \in BadRows : \A t \in tries : r \notin t.rows

(* The imports not answered yet that are to save a row anyway.             *)
ToCome(r) == {t \in tries : t.answer \in {"none", "working"} /\ r \in t.anyway}

(* Those that read the trades without it, and are to save it.              *)
AsNew(r) == {t \in tries : t.answer = "working" /\ r \in t.adds /\ r \notin t.anyway}

(* Each may add a copy, for which the row was ticked once, or counted as   *)
(* read by two at once, the first excepted.                                *)
EachTickedOnce ==
  \A r \in FileRows :
    /\ Cardinality(ToCome(r)) <= meant[r]
    /\ imported[r] + Cardinality(ToCome(r)) + Cardinality(AsNew(r)) <= 1 + meant[r] + crossed[r]

(* What an answer stands for is among the trades.                          *)
AnswersHold ==
  /\ \A t \in tries : t.answer = "saved" => \A r \in t.rows : imported[r] > 0
  /\ \A t \in tries : t.answer = "working" => \A r \in t.rows \ t.adds : imported[r] > 0
  /\ \A t \in tries : t.answer = "again" => t.id \in answers
  /\ \A id \in answers : \E t \in tries : t.id = id /\ t.answer = "saved"
  /\ \A r \in told : imported[r] > 0

ImportInv == ImportTypes /\ BadStayOut /\ EachTickedOnce /\ AnswersHold

LEMMA InitImportInv == Section!Init => ImportInv
<1> SUFFICES ASSUME Section!Init PROVE ImportInv
  OBVIOUS
<1>1. /\ imported \in [FileRows -> {0, 1}] /\ answers = {} /\ rowsOf \in BOOLEAN /\ preview = None /\ busy = "no"
      /\ ids = 0 /\ tries = {} /\ meant = [r \in FileRows |-> 0] /\ crossed = [r \in FileRows |-> 0]
      /\ told = {}
  BY DEF Section!Init
<1>2. imported \in [FileRows -> Nat] /\ \A r \in FileRows : imported[r] <= 1
  BY <1>1
<1>3. ImportTypes
  BY <1>1, <1>2, FS_EmptySet DEF ImportTypes
<1>4. \A r \in FileRows : ToCome(r) = {} /\ AsNew(r) = {}
  BY <1>1 DEF ToCome, AsNew
<1>5. EachTickedOnce
  BY <1>1, <1>2, <1>4, FS_EmptySet DEF EachTickedOnce
<1> QED BY <1>1, <1>3, <1>5 DEF ImportInv, BadStayOut, AnswersHold

LEMMA SectionCount == \A S : Section!Cardinality(S) = Cardinality(S)
BY DEF Section!Cardinality, Cardinality

LEMMA ToComeFinite ==
  ASSUME IsFiniteSet(tries), NEW r
  PROVE  /\ IsFiniteSet(ToCome(r)) /\ Cardinality(ToCome(r)) \in Nat
         /\ IsFiniteSet(AsNew(r)) /\ Cardinality(AsNew(r)) \in Nat
<1>1. ToCome(r) \subseteq tries /\ AsNew(r) \subseteq tries
  BY DEF ToCome, AsNew
<1> QED BY <1>1, FS_Subset, FS_CardinalityType

LEMMA ToComeFiniteNext ==
  ASSUME IsFiniteSet(tries'), NEW r
  PROVE  /\ IsFiniteSet(ToCome(r)') /\ Cardinality(ToCome(r)') \in Nat
         /\ IsFiniteSet(AsNew(r)') /\ Cardinality(AsNew(r)') \in Nat
<1>1. ToCome(r)' \subseteq tries' /\ AsNew(r)' \subseteq tries'
  BY DEF ToCome, AsNew
<1> QED BY <1>1, FS_Subset, FS_CardinalityType

(* One takes another's place: as many are left, or one less, or one more.  *)
LEMMA OneForAnother ==
  ASSUME NEW S, IsFiniteSet(S), NEW t, NEW u, NEW N, N \subseteq (S \ {t}) \cup {u}
  PROVE  /\ (u \in N => t \in S) => Cardinality(N) <= Cardinality(S)
         /\ u \notin N /\ t \in S => Cardinality(N) + 1 <= Cardinality(S)
         /\ Cardinality(N) <= Cardinality(S) + 1
<1>1. Cardinality(S) \in Nat
  BY FS_CardinalityType
<1>2. /\ IsFiniteSet(S \ {t}) /\ Cardinality(S \ {t}) \in Nat
      /\ Cardinality(S \ {t}) = IF t \in S THEN Cardinality(S) - 1 ELSE Cardinality(S)
  BY <1>1, FS_RemoveElement, FS_CardinalityType
<1>3. IsFiniteSet((S \ {t}) \cup {u}) /\ Cardinality((S \ {t}) \cup {u}) <= Cardinality(S \ {t}) + 1
      /\ Cardinality((S \ {t}) \cup {u}) \in Nat
  <2>1. PICK A : A = S \ {t}
    OBVIOUS
  <2>2. IsFiniteSet(A \cup {u}) /\ Cardinality(A \cup {u}) = IF u \in A THEN Cardinality(A) ELSE Cardinality(A) + 1
    BY <1>2, <2>1, FS_AddElement
  <2>3. Cardinality(A \cup {u}) \in Nat
    BY <2>2, FS_CardinalityType
  <2> QED BY <1>2, <2>1, <2>2, <2>3
<1>4. IsFiniteSet(N) /\ Cardinality(N) \in Nat /\ Cardinality(N) <= Cardinality((S \ {t}) \cup {u})
  BY <1>3, FS_Subset, FS_CardinalityType
<1>5. u \notin N => Cardinality(N) <= Cardinality(S \ {t})
  <2> SUFFICES ASSUME u \notin N PROVE Cardinality(N) <= Cardinality(S \ {t})
    OBVIOUS
  <2>1. N \subseteq S \ {t}
    OBVIOUS
  <2> QED BY <1>2, <2>1, FS_Subset
<1>6. (u \in N => t \in S) => Cardinality(N) <= Cardinality(S)
  BY <1>1, <1>2, <1>3, <1>4, <1>5
<1>7. u \notin N /\ t \in S => Cardinality(N) + 1 <= Cardinality(S)
  BY <1>1, <1>2, <1>4, <1>5
<1>8. Cardinality(N) <= Cardinality(S) + 1
  BY <1>1, <1>2, <1>3, <1>4
<1> QED BY <1>6, <1>7, <1>8

(* One try takes another's place.                                          *)
LEMMA Replaced ==
  ASSUME IsFiniteSet(tries), NEW t \in tries, NEW u, tries' = (tries \ {t}) \cup {u}, NEW r
  PROVE  /\ IsFiniteSet(tries')
         /\ (u \in ToCome(r)' => t \in ToCome(r)) => Cardinality(ToCome(r)') <= Cardinality(ToCome(r))
         /\ u \notin ToCome(r)' /\ t \in ToCome(r) => Cardinality(ToCome(r)') + 1 <= Cardinality(ToCome(r))
         /\ (u \in AsNew(r)' => t \in AsNew(r)) => Cardinality(AsNew(r)') <= Cardinality(AsNew(r))
         /\ u \notin AsNew(r)' /\ t \in AsNew(r) => Cardinality(AsNew(r)') + 1 <= Cardinality(AsNew(r))
         /\ Cardinality(AsNew(r)') <= Cardinality(AsNew(r)) + 1
<1>1. IsFiniteSet(tries')
  BY FS_RemoveElement, FS_AddElement
<1>2. IsFiniteSet(ToCome(r)) /\ IsFiniteSet(AsNew(r))
  BY ToComeFinite
<1>3. ToCome(r)' \subseteq (ToCome(r) \ {t}) \cup {u}
  BY DEF ToCome
<1>4. AsNew(r)' \subseteq (AsNew(r) \ {t}) \cup {u}
  BY DEF AsNew
<1>5. PICK C, CN, A, AN : C = ToCome(r) /\ CN = ToCome(r)' /\ A = AsNew(r) /\ AN = AsNew(r)'
  OBVIOUS
<1>6. /\ (u \in CN => t \in C) => Cardinality(CN) <= Cardinality(C)
      /\ u \notin CN /\ t \in C => Cardinality(CN) + 1 <= Cardinality(C)
  BY <1>2, <1>3, <1>5, OneForAnother
<1>7. /\ (u \in AN => t \in A) => Cardinality(AN) <= Cardinality(A)
      /\ u \notin AN /\ t \in A => Cardinality(AN) + 1 <= Cardinality(A)
      /\ Cardinality(AN) <= Cardinality(A) + 1
  BY <1>2, <1>4, <1>5, OneForAnother
<1> QED BY <1>1, <1>5, <1>6, <1>7

(* Only the page changes.                                                  *)
LEMMA PageOnly ==
  ASSUME ImportInv, UNCHANGED <<imported, answers, tries, meant, crossed>>, told' \subseteq told, rowsOf' \in BOOLEAN,
         ids' \in Nat, preview' \in Previews \cup {None}, busy' = "confirming" => preview' # None,
         preview' # None => \A r \in FileRows \cap BadRows : preview'.status[r] = "error"
  PROVE  ImportInv'
BY DEF ImportInv, ImportTypes, BadStayOut, EachTickedOnce, ToCome, AsNew, AnswersHold

(* A try that is not waited for any more.                                  *)
LEMMA NotWaited ==
  ASSUME ImportInv, NEW t \in tries, tries' = (tries \ {t}) \cup {[t EXCEPT !.waited = FALSE]},
         UNCHANGED <<imported, answers, meant, crossed, rowsOf, ids>>, preview' \in {preview, None}, busy' = "no",
         told' \subseteq FileRows, \A r \in told' : imported[r] > 0
  PROVE  ImportInv'
<1> DEFINE u == [t EXCEPT !.waited = FALSE]
<1>1. u \in Tries /\ u.id = t.id /\ u.rows = t.rows /\ u.anyway = t.anyway /\ u.adds = t.adds
      /\ u.answer = t.answer
  BY DEF ImportInv, ImportTypes, Tries
<1>2. tries' = (tries \ {t}) \cup {u}
  OBVIOUS
<1> HIDE DEF u
<1>3. IsFiniteSet(tries)
  BY DEF ImportInv, ImportTypes
<1>4. ASSUME NEW r
      PROVE  /\ IsFiniteSet(tries') /\ Cardinality(ToCome(r)') <= Cardinality(ToCome(r))
             /\ Cardinality(AsNew(r)') <= Cardinality(AsNew(r))
  <2>1. (u \in ToCome(r)' => t \in ToCome(r)) /\ (u \in AsNew(r)' => t \in AsNew(r))
    BY <1>1 DEF ToCome, AsNew
  <2> QED BY <1>2, <1>3, <2>1, Replaced
<1>5. ImportTypes'
  BY <1>1, <1>2, <1>4 DEF ImportInv, ImportTypes
<1>6. BadStayOut'
  BY <1>1, <1>2 DEF ImportInv, BadStayOut
<1>7. EachTickedOnce'
  <2> SUFFICES ASSUME NEW r \in FileRows
               PROVE  (/\ Cardinality(ToCome(r)) <= meant[r]
                       /\ imported[r] + Cardinality(ToCome(r)) + Cardinality(AsNew(r)) <= 1 + meant[r] + crossed[r])'
    BY DEF EachTickedOnce
  <2>1. /\ Cardinality(ToCome(r)) <= meant[r]
        /\ imported[r] + Cardinality(ToCome(r)) + Cardinality(AsNew(r)) <= 1 + meant[r] + crossed[r]
    BY DEF ImportInv, EachTickedOnce
  <2>2. /\ Cardinality(ToCome(r)) \in Nat /\ Cardinality(ToCome(r)') \in Nat
        /\ Cardinality(AsNew(r)) \in Nat /\ Cardinality(AsNew(r)') \in Nat
    BY <1>3, <1>4, ToComeFinite, ToComeFiniteNext
  <2>3. imported[r] \in Nat /\ meant[r] \in Nat /\ crossed[r] \in Nat
    BY DEF ImportInv, ImportTypes
  <2> QED BY <1>4, <2>1, <2>2, <2>3
<1>8. AnswersHold'
  BY <1>1, <1>2 DEF ImportInv, AnswersHold
<1> QED BY <1>5, <1>6, <1>7, <1>8 DEF ImportInv

(* The server saves what a try is to add, or answers without saving.       *)
LEMMA Answers ==
  ASSUME ImportInv, NEW t \in tries, t.answer \in {"none", "working"}, NEW answer \in {"saved", "again", "refused"},
         tries' = (tries \ {t}) \cup {[t EXCEPT !.answer = answer, !.adds = {}]},
         UNCHANGED <<meant, crossed, rowsOf, ids, preview, busy, told>>,
         \/ answer # "saved" /\ UNCHANGED <<imported, answers>>
         \/ /\ answer = "saved" /\ answers' = answers \cup {t.id} /\ t.answer = "working"
            /\ imported' = [r \in FileRows |-> imported[r] + IF r \in t.adds THEN 1 ELSE 0],
         answer = "again" => t.id \in answers
  PROVE  ImportInv'
<1> DEFINE u == [t EXCEPT !.answer = answer, !.adds = {}]
<1>1. u \in Tries /\ u.id = t.id /\ u.rows = t.rows /\ u.anyway = t.anyway /\ u.answer = answer
  BY DEF ImportInv, ImportTypes, Tries
<1>2. tries' = (tries \ {t}) \cup {u}
  OBVIOUS
<1> HIDE DEF u
<1>3. /\ IsFiniteSet(tries) /\ imported \in [FileRows -> Nat] /\ meant \in [FileRows -> Nat]
      /\ crossed \in [FileRows -> Nat] /\ t.rows \subseteq FileRows /\ t.anyway \subseteq FileRows
      /\ t.adds \subseteq FileRows
  BY DEF ImportInv, ImportTypes, Tries
<1>4. ASSUME NEW r
      PROVE  /\ IsFiniteSet(tries') /\ Cardinality(ToCome(r)) \in Nat /\ Cardinality(ToCome(r)') \in Nat
             /\ Cardinality(AsNew(r)) \in Nat /\ Cardinality(AsNew(r)') \in Nat
             /\ Cardinality(ToCome(r)') <= Cardinality(ToCome(r)) /\ Cardinality(AsNew(r)') <= Cardinality(AsNew(r))
             /\ t \in ToCome(r) => Cardinality(ToCome(r)') + 1 <= Cardinality(ToCome(r))
             /\ t \in AsNew(r) => Cardinality(AsNew(r)') + 1 <= Cardinality(AsNew(r))
  <2>1. u \notin ToCome(r)' /\ u \notin AsNew(r)'
    BY <1>1 DEF ToCome, AsNew
  <2>2. IsFiniteSet(tries')
    BY <1>2, <1>3, Replaced
  <2>3. /\ Cardinality(ToCome(r)') <= Cardinality(ToCome(r)) /\ Cardinality(AsNew(r)') <= Cardinality(AsNew(r))
        /\ t \in ToCome(r) => Cardinality(ToCome(r)') + 1 <= Cardinality(ToCome(r))
        /\ t \in AsNew(r) => Cardinality(AsNew(r)') + 1 <= Cardinality(AsNew(r))
    BY <1>2, <1>3, <2>1, Replaced
  <2> QED BY <1>3, <2>2, <2>3, ToComeFinite, ToComeFiniteNext
<1>5. ASSUME NEW r \in FileRows
      PROVE  /\ imported'[r] \in Nat /\ imported[r] <= imported'[r]
             /\ Cardinality(ToCome(r)') <= meant[r]
             /\ imported'[r] + Cardinality(ToCome(r)') + Cardinality(AsNew(r)') <= 1 + meant[r] + crossed[r]
             /\ answer = "saved" /\ r \in t.adds => imported'[r] > 0
  <2> DEFINE came == Cardinality(ToCome(r))
             comes == Cardinality(ToCome(r)')
             had_ == Cardinality(AsNew(r))
             has == Cardinality(AsNew(r)')
  <2>1. came <= meant[r] /\ imported[r] + came + had_ <= 1 + meant[r] + crossed[r]
    BY DEF ImportInv, EachTickedOnce
  <2>2. imported[r] \in Nat /\ meant[r] \in Nat /\ crossed[r] \in Nat
    BY <1>3
  <2>3. /\ came \in Nat /\ comes \in Nat /\ comes <= came /\ had_ \in Nat /\ has \in Nat /\ has <= had_
        /\ t \in ToCome(r) => comes + 1 <= came
        /\ t \in AsNew(r) => has + 1 <= had_
    BY <1>4
  <2>4. t.answer = "working" /\ r \in t.adds => t \in ToCome(r) \/ t \in AsNew(r)
    BY DEF ToCome, AsNew
  <2> HIDE DEF came, comes, had_, has
  <2>5. CASE answer # "saved" /\ UNCHANGED <<imported, answers>>
    <3>1. imported'[r] = imported[r]
      BY <2>5
    <3>2. imported'[r] + comes + has <= 1 + meant[r] + crossed[r] /\ comes <= meant[r]
      BY <2>1, <2>2, <2>3, <3>1
    <3> QED BY <2>2, <2>5, <3>1, <3>2 DEF comes, has
  <2>6. CASE answer = "saved"
    <3>1. imported'[r] = imported[r] + (IF r \in t.adds THEN 1 ELSE 0) /\ t.answer = "working"
      BY <2>6
    <3>2. CASE r \in t.adds
      <4>1. imported'[r] = imported[r] + 1 /\ comes + has + 1 <= came + had_
        BY <2>3, <2>4, <3>1, <3>2
      <4>2. imported'[r] + comes + has <= 1 + meant[r] + crossed[r] /\ comes <= meant[r]
        BY <2>1, <2>2, <2>3, <4>1
      <4> QED BY <2>2, <4>1, <4>2 DEF comes, has
    <3>3. CASE r \notin t.adds
      <4>1. imported'[r] = imported[r]
        BY <2>2, <3>1, <3>3
      <4>2. imported'[r] + comes + has <= 1 + meant[r] + crossed[r] /\ comes <= meant[r]
        BY <2>1, <2>2, <2>3, <4>1
      <4> QED BY <2>2, <3>3, <4>1, <4>2 DEF comes, has
    <3> QED BY <3>2, <3>3
  <2> QED BY <2>5, <2>6
<1>6. EachTickedOnce'
  BY <1>5 DEF EachTickedOnce
<1>7. ImportTypes'
  <2>1. imported' \in [FileRows -> Nat]
    <3>1. CASE answer # "saved"
      BY <1>3, <3>1
    <3>2. CASE answer = "saved"
      <4>1. imported' = [r \in FileRows |-> imported[r] + IF r \in t.adds THEN 1 ELSE 0]
        BY <3>2
      <4> QED BY <1>3, <4>1
    <3> QED BY <3>1, <3>2
  <2>2. IsFiniteSet(tries')
    BY <1>4
  <2> QED BY <1>1, <1>2, <2>1, <2>2 DEF ImportInv, ImportTypes
<1>8. BadStayOut'
  BY <1>1, <1>2 DEF ImportInv, BadStayOut
<1>9. AnswersHold'
  <2>1. \A q \in tries : q.rows \subseteq FileRows
    BY DEF ImportInv, ImportTypes, Tries
  <2>2. ASSUME NEW q \in tries', NEW r \in q.rows,
               q.answer = "saved" \/ (q.answer = "working" /\ r \notin q.adds)
        PROVE  imported'[r] > 0
    <3>1. CASE q = u
      <4>1. r \in t.rows /\ answer = "saved" /\ t.answer = "working"
        BY <1>1, <2>2, <3>1
      <4>2. r \in t.adds \/ imported[r] > 0
        BY <4>1 DEF ImportInv, AnswersHold
      <4> QED BY <1>3, <1>5, <4>1, <4>2
    <3>2. CASE q \in tries
      <4>1. r \in FileRows /\ imported[r] > 0
        BY <2>1, <2>2, <3>2 DEF ImportInv, AnswersHold
      <4> QED BY <1>3, <1>5, <4>1
    <3> QED BY <1>2, <3>1, <3>2
  <2>3. answers' \subseteq answers \cup {t.id} /\ answers \subseteq answers' /\ (answer # "saved" => answers' = answers)
    OBVIOUS
  <2>4. \A q \in tries' : q.answer = "again" => q.id \in answers'
    BY <1>1, <1>2, <2>3 DEF ImportInv, AnswersHold
  <2>5. \A id \in answers' : \E q \in tries' : q.id = id /\ q.answer = "saved"
    <3> SUFFICES ASSUME NEW id \in answers' PROVE \E q \in tries' : q.id = id /\ q.answer = "saved"
      OBVIOUS
    <3>1. CASE id \in answers
      BY <1>2, <3>1 DEF ImportInv, AnswersHold
    <3>2. CASE answer = "saved" /\ id = t.id
      BY <1>1, <1>2, <3>2
    <3> QED BY <2>3, <3>1, <3>2
  <2>6. \A r \in told : r \in FileRows /\ imported[r] > 0
    BY DEF ImportInv, ImportTypes, AnswersHold
  <2>7. \A r \in told' : imported'[r] > 0
    BY <1>3, <1>5, <2>6
  <2> QED BY <2>2, <2>4, <2>5, <2>7 DEF AnswersHold
<1> QED BY <1>6, <1>7, <1>8, <1>9 DEF ImportInv

(* The trades are read for a try: what it is to add is counted where       *)
(* another is to add it as new too.                                        *)
LEMMA Read ==
  ASSUME ImportInv, NEW t \in tries, Section!ReadSaved(t)
  PROVE  ImportInv'
<1> DEFINE adds == Section!Adds(t)
           u == [t EXCEPT !.answer = "working", !.adds = adds]
<1>1. /\ t.answer = "none" /\ tries' = (tries \ {t}) \cup {u}
      /\ crossed' = [r \in FileRows |-> crossed[r] + IF r \in adds /\ Section!NewToAnother(r) THEN 1 ELSE 0]
      /\ UNCHANGED <<imported, answers, rowsOf, preview, busy, ids, meant, told>>
  BY DEF Section!ReadSaved
<1>2. \A r : r \in adds <=> r \in t.rows /\ (imported[r] = 0 \/ r \in t.anyway)
  BY DEF Section!Adds
<1>3. \A r : Section!NewToAnother(r) <=>
                imported[r] = 0 /\ \E q \in tries : q.answer = "working" /\ r \in q.adds
  BY DEF Section!NewToAnother
<1>4. /\ IsFiniteSet(tries) /\ imported \in [FileRows -> Nat] /\ meant \in [FileRows -> Nat]
      /\ crossed \in [FileRows -> Nat] /\ t \in Tries /\ t.rows \subseteq FileRows
  BY DEF ImportInv, ImportTypes, Tries
<1> HIDE DEF adds
<1>5. adds \subseteq FileRows
  BY <1>2, <1>4
<1>6. u \in Tries /\ u.id = t.id /\ u.rows = t.rows /\ u.anyway = t.anyway /\ u.answer = "working" /\ u.adds = adds
  BY <1>4, <1>5 DEF Tries
<1> HIDE DEF u
<1>7. IsFiniteSet(tries') /\ crossed' \in [FileRows -> Nat]
  <2>1. IsFiniteSet(tries')
    BY <1>1, <1>4, Replaced
  <2>2. crossed' \in [FileRows -> Nat]
    BY <1>1, <1>4
  <2> QED BY <2>1, <2>2
<1>8. ImportTypes'
  BY <1>1, <1>6, <1>7 DEF ImportInv, ImportTypes
<1>9. BadStayOut'
  BY <1>1, <1>6 DEF ImportInv, BadStayOut
<1>10. AnswersHold'
  <2>1. ASSUME NEW q \in tries', NEW r \in q.rows,
               q.answer = "saved" \/ (q.answer = "working" /\ r \notin q.adds)
        PROVE  imported'[r] > 0
    <3>1. CASE q = u
      <4>1. r \in t.rows /\ r \notin adds /\ r \in FileRows
        BY <1>4, <1>6, <2>1, <3>1
      <4>2. imported[r] # 0 /\ imported[r] \in Nat
        BY <1>2, <1>4, <4>1
      <4> QED BY <1>1, <4>2
    <3>2. CASE q \in tries
      BY <1>1, <2>1, <3>2 DEF ImportInv, AnswersHold
    <3> QED BY <1>1, <3>1, <3>2
  <2>2. \A q \in tries' : q.answer = "again" => q.id \in answers'
    BY <1>1, <1>6 DEF ImportInv, AnswersHold
  <2>3. \A id \in answers' : \E q \in tries' : q.id = id /\ q.answer = "saved"
    BY <1>1 DEF ImportInv, AnswersHold
  <2>4. \A r \in told' : imported'[r] > 0
    BY <1>1 DEF ImportInv, AnswersHold
  <2> QED BY <2>1, <2>2, <2>3, <2>4 DEF AnswersHold
<1>11. EachTickedOnce'
  <2> SUFFICES ASSUME NEW r \in FileRows
               PROVE  (/\ Cardinality(ToCome(r)) <= meant[r]
                       /\ imported[r] + Cardinality(ToCome(r)) + Cardinality(AsNew(r)) <= 1 + meant[r] + crossed[r])'
    BY DEF EachTickedOnce
  <2> DEFINE came == Cardinality(ToCome(r))
             comes == Cardinality(ToCome(r)')
             had_ == Cardinality(AsNew(r))
             has == Cardinality(AsNew(r)')
  <2>1. came <= meant[r] /\ imported[r] + came + had_ <= 1 + meant[r] + crossed[r]
    BY DEF ImportInv, EachTickedOnce
  <2>2. /\ imported[r] \in Nat /\ meant[r] \in Nat /\ crossed[r] \in Nat
        /\ imported'[r] = imported[r] /\ meant'[r] = meant[r]
        /\ crossed'[r] = crossed[r] + IF r \in adds /\ Section!NewToAnother(r) THEN 1 ELSE 0
    BY <1>1, <1>4
  <2>3. came \in Nat /\ comes \in Nat /\ had_ \in Nat /\ has \in Nat
    BY <1>4, <1>7, ToComeFinite, ToComeFiniteNext
  <2>4. comes <= came /\ has <= had_ + 1 /\ (u \notin AsNew(r)' => has <= had_)
    <3>1. u \in ToCome(r)' => t \in ToCome(r)
      BY <1>1, <1>6 DEF ToCome
    <3> QED BY <1>1, <1>4, <3>1, Replaced
  <2>5. crossed'[r] \in Nat /\ crossed'[r] >= crossed[r]
    BY <2>2
  <2>6. CASE u \notin AsNew(r)'
    <3> HIDE DEF came, comes, had_, has
    <3>1. comes <= meant'[r] /\ imported'[r] + comes + has <= 1 + meant'[r] + crossed'[r]
      BY <2>1, <2>2, <2>3, <2>4, <2>5, <2>6
    <3> QED BY <3>1 DEF comes, has
  <2>7. CASE u \in AsNew(r)'
    <3>1. r \in adds /\ imported[r] = 0
      BY <1>2, <1>6, <2>7 DEF AsNew
    <3>2. CASE AsNew(r) = {}
      <4>1. had_ = 0
        BY <3>2, FS_EmptySet
      <4> HIDE DEF came, comes, had_, has
      <4>2. comes <= meant'[r] /\ imported'[r] + comes + has <= 1 + meant'[r] + crossed'[r]
        BY <2>1, <2>2, <2>3, <2>4, <2>5, <3>1, <4>1
      <4> QED BY <4>2 DEF comes, has
    <3>3. CASE AsNew(r) # {}
      <4>1. Section!NewToAnother(r)
        BY <1>3, <3>1, <3>3 DEF AsNew
      <4>2. crossed'[r] = crossed[r] + 1
        BY <2>2, <3>1, <4>1
      <4> HIDE DEF came, comes, had_, has
      <4>3. comes <= meant'[r] /\ imported'[r] + comes + has <= 1 + meant'[r] + crossed'[r]
        BY <2>1, <2>2, <2>3, <2>4, <4>2
      <4> QED BY <4>3 DEF comes, has
    <3> QED BY <3>2, <3>3
  <2> QED BY <2>6, <2>7
<1> QED BY <1>8, <1>9, <1>10, <1>11 DEF ImportInv

(* The rows ticked are sent, once more those that are duplicates.          *)
LEMMA Sent ==
  ASSUME ImportInv, Section!RunImport
  PROVE  ImportInv'
<1> DEFINE rows == Section!RowsToImport
           u == [number |-> Section!Cardinality(tries) + 1, id |-> preview.id, rows |-> rows,
                 anyway |-> Section!Anyway(rows), adds |-> {}, waited |-> TRUE, answer |-> "none"]
<1>1. /\ busy = "confirming" /\ busy' = "importing" /\ tries' = tries \cup {u}
      /\ UNCHANGED <<imported, answers, rowsOf, preview, ids, crossed, told>>
      /\ meant' = [r \in FileRows |-> meant[r] + IF r \in rows /\ preview.status[r] = "duplicate" THEN 1 ELSE 0]
  BY DEF Section!RunImport
<1>2. preview \in Previews /\ IsFiniteSet(tries) /\ imported \in [FileRows -> Nat] /\ meant \in [FileRows -> Nat]
      /\ crossed \in [FileRows -> Nat]
  BY <1>1 DEF ImportInv, ImportTypes, BadStayOut
<1>3. /\ rows \subseteq FileRows /\ rows \cap BadRows = {}
      /\ \A r : r \in Section!Anyway(rows) => r \in rows /\ preview.status[r] = "duplicate"
  BY <1>1, <1>2
  DEF Section!RowsToImport, Section!IsIncluded, Section!Anyway, ImportInv, BadStayOut
<1>4. u \in Tries
  <2>1. Section!Cardinality(tries) + 1 \in Nat
    BY <1>2, SectionCount, FS_CardinalityType
  <2>2. Section!Anyway(rows) \subseteq FileRows /\ preview.id \in Nat
    BY <1>2, <1>3 DEF Previews
  <2> QED BY <1>3, <2>1, <2>2 DEF Tries
<1>5. u.rows = rows /\ u.anyway = Section!Anyway(rows) /\ u.answer = "none"
  OBVIOUS
<1> HIDE DEF u, rows
<1>6. IsFiniteSet(tries')
  BY <1>1, <1>2, FS_AddElement
<1>7. ImportTypes'
  <2>1. meant' \in [FileRows -> Nat]
    BY <1>1, <1>2
  <2> QED BY <1>1, <1>4, <1>6, <2>1 DEF ImportInv, ImportTypes
<1>8. BadStayOut'
  BY <1>1, <1>3, <1>5 DEF ImportInv, BadStayOut
<1>9. AnswersHold'
  BY <1>1, <1>5 DEF ImportInv, AnswersHold
<1>10. EachTickedOnce'
  <2> SUFFICES ASSUME NEW r \in FileRows
               PROVE  (/\ Cardinality(ToCome(r)) <= meant[r]
                       /\ imported[r] + Cardinality(ToCome(r)) + Cardinality(AsNew(r)) <= 1 + meant[r] + crossed[r])'
    BY DEF EachTickedOnce
  <2>1. /\ Cardinality(ToCome(r)) <= meant[r]
        /\ imported[r] + Cardinality(ToCome(r)) + Cardinality(AsNew(r)) <= 1 + meant[r] + crossed[r]
    BY DEF ImportInv, EachTickedOnce
  <2>2. imported[r] \in Nat /\ meant[r] \in Nat /\ crossed[r] \in Nat /\ imported'[r] = imported[r] /\ crossed'[r] = crossed[r]
    BY <1>1, <1>2
  <2>3. Cardinality(ToCome(r)) \in Nat /\ IsFiniteSet(ToCome(r)) /\ Cardinality(AsNew(r)) \in Nat
    BY <1>2, ToComeFinite
  <2>4. Cardinality(AsNew(r)') = Cardinality(AsNew(r))
    <3>1. AsNew(r)' = AsNew(r)
      BY <1>1, <1>5 DEF AsNew
    <3> QED BY <3>1
  <2>5. CASE r \in Section!Anyway(rows)
    <3>1. meant'[r] = meant[r] + 1
      BY <1>1, <1>2, <1>3, <2>5
    <3>2. ToCome(r)' = ToCome(r) \cup {u}
      BY <1>1, <1>5, <2>5 DEF ToCome
    <3>3. PICK A : A = ToCome(r) /\ ToCome(r)' = A \cup {u}
      BY <3>2
    <3>4. Cardinality(A \cup {u}) = IF u \in A THEN Cardinality(A) ELSE Cardinality(A) + 1
      BY <2>3, <3>3, FS_AddElement
    <3>5. Cardinality(A \cup {u}) <= Cardinality(A) + 1 /\ Cardinality(A \cup {u}) \in Nat
      BY <2>3, <3>3, <3>4
    <3> QED BY <2>1, <2>2, <2>3, <2>4, <3>1, <3>3, <3>5
  <2>6. CASE r \notin Section!Anyway(rows)
    <3>1. ToCome(r)' = ToCome(r)
      BY <1>1, <1>5, <2>6 DEF ToCome
    <3>2. meant'[r] >= meant[r] /\ meant'[r] \in Nat
      BY <1>1, <2>2
    <3> QED BY <2>1, <2>2, <2>3, <2>4, <3>1, <3>2
  <2> QED BY <2>5, <2>6
<1> QED BY <1>7, <1>8, <1>9, <1>10 DEF ImportInv

LEMMA ImportStep ==
  ASSUME ImportInv, Section!Next
  PROVE  ImportInv'
<1>0. /\ rowsOf \in BOOLEAN /\ ids \in Nat /\ preview \in Previews \cup {None} /\ told \subseteq FileRows
      /\ busy = "confirming" => preview # None
      /\ preview # None => \A r \in FileRows \cap BadRows : preview.status[r] = "error"
  BY DEF ImportInv, ImportTypes, BadStayOut
<1>1. CASE Section!ChooseFile
  BY <1>0, <1>1, PageOnly DEF Section!ChooseFile
<1>2. CASE Section!PreviewAgain
  BY <1>0, <1>2, PageOnly DEF Section!PreviewAgain
<1>3. CASE Section!BadFile
  BY <1>0, <1>3, PageOnly DEF Section!BadFile
<1>4. CASE Section!PreviewArrives
  <2>1. busy' = "no" /\ UNCHANGED <<imported, answers, rowsOf, tries, meant, crossed, told>>
    BY <1>4 DEF Section!PreviewArrives
  <2>2. CASE /\ ids' = ids + 1
             /\ preview' = [status |-> [r \in FileRows |-> Section!Status(r)], account |-> rowsOf, id |-> ids + 1]
    <3>1. [r \in FileRows |-> Section!Status(r)] \in [FileRows -> {"error", "duplicate", "ok"}]
      BY DEF Section!Status
    <3>2. preview' \in Previews
      BY <1>0, <2>2, <3>1 DEF Previews
    <3>3. preview'.status = [r \in FileRows |-> Section!Status(r)]
      BY <2>2
    <3>4. \A r \in FileRows \cap BadRows : preview'.status[r] = "error"
      BY <3>3 DEF Section!Status
    <3>5. ids' \in Nat
      BY <1>0, <2>2
    <3> QED BY <1>0, <2>1, <3>2, <3>4, <3>5, PageOnly
  <2>3. CASE preview' = None /\ UNCHANGED <<ids, toggled>>
    BY <1>0, <2>1, <2>3, PageOnly
  <2> QED BY <1>4, <2>2, <2>3 DEF Section!PreviewArrives
<1>5. CASE Section!PickAccount
  <2>1. rowsOf' \in BOOLEAN /\ UNCHANGED <<imported, answers, preview, busy, ids, tries, meant, crossed, told>>
    BY <1>0, <1>5 DEF Section!PickAccount
  <2> QED BY <1>0, <2>1, PageOnly
<1>6. CASE Section!StartOver
  <2>1. preview' = None /\ busy' = "no" /\ UNCHANGED <<imported, answers, rowsOf, ids, tries, meant, crossed, told>>
    BY <1>6 DEF Section!StartOver, Section!Cleared
  <2> QED BY <1>0, <2>1, PageOnly
<1>7. CASE Section!AskToImport
  BY <1>0, <1>7, PageOnly DEF Section!AskToImport, Section!CanImport
<1>8. CASE Section!NotNow
  BY <1>0, <1>8, PageOnly DEF Section!NotNow
<1>9. CASE Section!RunImport
  BY <1>9, Sent
<1>10. ASSUME NEW r \in FileRows, Section!Toggle(r)
       PROVE  ImportInv'
  BY <1>0, <1>10, PageOnly DEF Section!Toggle
<1>11. ASSUME NEW t \in tries, Section!ReadSaved(t)
       PROVE  ImportInv'
  BY <1>11, Read
<1>14. ASSUME NEW t \in tries, Section!Insert(t)
       PROVE  ImportInv'
  <2>1. /\ t.answer = "working" /\ UNCHANGED <<rowsOf, preview, busy, ids, meant, crossed, told>>
        /\ imported' = [r \in FileRows |-> imported[r] + IF r \in t.adds THEN 1 ELSE 0]
        /\ answers' = answers \cup {t.id} /\ tries' = Section!Answered(t, "saved")
    BY <1>14 DEF Section!Insert
  <2> QED BY <2>1, Answers DEF Section!Answered
<1>15. ASSUME NEW t \in tries, Section!Refuse(t)
       PROVE  ImportInv'
  <2>1. /\ t.answer \in {"none", "working"} /\ tries' = Section!Answered(t, "refused")
        /\ UNCHANGED <<imported, answers, rowsOf, preview, busy, ids, meant, crossed, told>>
    BY <1>15 DEF Section!Refuse
  <2> QED BY <2>1, Answers DEF Section!Answered
<1>16. ASSUME NEW t \in tries, Section!AnswerAgain(t)
       PROVE  ImportInv'
  <2>1. /\ t.answer = "none" /\ t.id \in answers /\ tries' = Section!Answered(t, "again")
        /\ UNCHANGED <<imported, answers, rowsOf, preview, busy, ids, meant, crossed, told>>
    BY <1>16 DEF Section!AnswerAgain
  <2> QED BY <2>1, Answers DEF Section!Answered
<1>12. ASSUME NEW t \in tries, Section!ImportArrives(t)
       PROVE  ImportInv'
  <2>1. /\ tries' = (tries \ {t}) \cup {[t EXCEPT !.waited = FALSE]} /\ busy' = "no"
        /\ UNCHANGED <<imported, answers, meant, crossed, rowsOf, ids>>
    BY <1>12 DEF Section!ImportArrives
  <2>2. \A r \in told : imported[r] > 0
    BY DEF ImportInv, AnswersHold
  <2>3. CASE t.answer \in {"saved", "again"}
    <3>1. preview' = None /\ told' = IF \A q \in Section!FirstOfId(t) : q.rows = t.rows THEN t.rows ELSE {}
      BY <1>12, <2>3 DEF Section!ImportArrives, Section!Cleared
    <3>2. t.rows \subseteq FileRows
      BY DEF ImportInv, ImportTypes, Tries
    <3>3. PICK q \in tries : q.id = t.id /\ q.answer = "saved"
      BY <2>3 DEF ImportInv, AnswersHold
    <3>4. q \in Section!FirstOfId(t) /\ \A r \in q.rows : imported[r] > 0
      BY <3>3 DEF Section!FirstOfId, ImportInv, AnswersHold
    <3>5. \A r \in told' : imported[r] > 0
      BY <3>1, <3>4
    <3> QED BY <2>1, <3>1, <3>2, <3>5, NotWaited
  <2>4. CASE t.answer \notin {"saved", "again"}
    <3>1. UNCHANGED <<preview, told>>
      BY <1>12, <2>4 DEF Section!ImportArrives
    <3> QED BY <1>0, <2>1, <2>2, <3>1, NotWaited
  <2> QED BY <2>3, <2>4
<1>13. ASSUME NEW t \in tries, Section!ImportLost(t)
       PROVE  ImportInv'
  <2>1. \A r \in told : imported[r] > 0
    BY DEF ImportInv, AnswersHold
  <2> QED BY <1>0, <1>13, <2>1, NotWaited DEF Section!ImportLost
<1> QED BY <1>1, <1>2, <1>3, <1>4, <1>5, <1>6, <1>7, <1>8, <1>9, <1>10, <1>11, <1>12, <1>13, <1>14, <1>15, <1>16 DEF Section!Next

LEMMA ImportIdleStep ==
  ASSUME ImportInv, UNCHANGED importVars
  PROVE  ImportInv'
BY DEF importVars, ImportInv, ImportTypes, BadStayOut, EachTickedOnce, ToCome, AsNew, AnswersHold

LEMMA ImportPart == PagesSpec => [](part = "import" => ImportInv)
<1>1. PagesInit => (part = "import" => ImportInv)
  BY InitImportInv DEF PagesInit
<1>2. (part = "import" => ImportInv) /\ [PagesNext]_pageVars => (part = "import" => ImportInv)'
  <2> SUFFICES ASSUME part = "import" => ImportInv, [PagesNext]_pageVars, part' = "import"
               PROVE  ImportInv'
    OBVIOUS
  <2>1. part = "import" /\ ImportInv /\ (Section!Next \/ UNCHANGED importVars)
    BY PartsMove
  <2> QED BY <2>1, ImportStep, ImportIdleStep
<1> QED BY <1>1, <1>2, PTL DEF PagesSpec

(* However answers are lost and imports tried again: a row is among the    *)
(* trades once, once more only for each time its duplicate was ticked, and *)
(* for each time the server read the trades without it while another       *)
(* import had, and not saved it yet (routes/imports.py, 299-300); what the *)
(* page says it imported is there; a row with a problem is never sent      *)
(* (ImportSection.jsx, commitRows).                                        *)
THEOREM RowsAreSavedAsTicked == PagesSpec => []SavedAsTicked
<1>1. (part = "import" => ImportInv) => SavedAsTicked
  <2> SUFFICES ASSUME ImportInv PROVE Section!SavedAsTicked
    BY DEF SavedAsTicked
  <2>1. ASSUME NEW r \in FileRows
        PROVE  imported[r] <= 1 + meant[r] + crossed[r]
    <3>1. Cardinality(ToCome(r)) \in Nat /\ Cardinality(AsNew(r)) \in Nat
      BY ToComeFinite DEF ImportInv, ImportTypes
    <3>2. /\ imported[r] + Cardinality(ToCome(r)) + Cardinality(AsNew(r)) <= 1 + meant[r] + crossed[r]
          /\ imported[r] \in Nat /\ meant[r] \in Nat /\ crossed[r] \in Nat
      BY DEF ImportInv, ImportTypes, EachTickedOnce
    <3> QED BY <3>1, <3>2
  <2> QED BY <2>1 DEF ImportInv, BadStayOut, AnswersHold, Section!SavedAsTicked
<1> QED BY <1>1, ImportPart, PTL

-----------------------------------------------------------------------------
(* What is read off a screenshot.                                          *)

Kinds == {"exchange", "quantity", "total", "date", "fee", "ignore"}

(* What the rows of brokers have in common: a bare label has no amounts    *)
(* beside it, and a row read as a sentence or an amount has no label.      *)
LEMMA RowFacts ==
  ASSUME NEW c \in Reading!Rows
  PROVE  /\ c.label # None => c.label.kind \in Kinds /\ c.label.priority \in Nat
         /\ c.bare => c.label # None /\ ~c.units /\ ~c.money /\ c.shape = "text"
         /\ c.units \/ c.shape \in {"sentence", "amount"} => c.label = None
<1> USE TextAssumption DEF TextConstants, Kinds
<1> DEFINE Fine(r) ==
       /\ r.label # None => r.label.kind \in Kinds /\ r.label.priority \in Nat
       /\ r.bare => r.label # None /\ ~r.units /\ ~r.money /\ r.shape = "text"
       /\ r.units \/ r.shape \in {"sentence", "amount"} => r.label = None
<1>1. ASSUME NEW k \in Kinds, NEW p \in Nat
      PROVE  /\ [kind |-> k, priority |-> p] # None
             /\ Reading!Label(k, p) = [Reading!Row EXCEPT !.label = [kind |-> k, priority |-> p]]
  BY DEF Reading!Label
<1>2. \A k \in Kinds : /\ Fine([Reading!Label(k, 1) EXCEPT !.word = TRUE])
                       /\ Fine([Reading!Label(k, 1) EXCEPT !.number = TRUE])
                       /\ Fine([Reading!Label(k, 1) EXCEPT !.money = TRUE])
                       /\ Fine([Reading!Label(k, 1) EXCEPT !.bare = TRUE])
                       /\ Fine([Reading!Label(k, 0) EXCEPT !.day = TRUE])
  BY <1>1 DEF Reading!Row
<1>3. /\ Fine([Reading!Row EXCEPT !.shape = "sentence", !.word = TRUE, !.asset = TRUE, !.units = TRUE])
      /\ Fine([Reading!Row EXCEPT !.shape = "header", !.word = TRUE, !.asset = TRUE])
      /\ Fine([Reading!Row EXCEPT !.shape = "title", !.asset = TRUE, !.money = TRUE])
      /\ Fine([Reading!Row EXCEPT !.shape = "bought", !.word = TRUE])
      /\ Fine([Reading!Row EXCEPT !.shape = "amount", !.asset = TRUE, !.units = TRUE])
      /\ Fine([Reading!Row EXCEPT !.shape = "money", !.money = TRUE])
      /\ Fine([Reading!Row EXCEPT !.shape = "dividend", !.money = TRUE])
      /\ Fine([Reading!Row EXCEPT !.shape = "day", !.day = TRUE])
      /\ Fine([Reading!Row EXCEPT !.shape = "cancelled"])
  BY DEF Reading!Row
<1>4. Fine(c)
  <2> HIDE DEF Fine
  <2> QED BY <1>2, <1>3 DEF Reading!Rows
<1> QED BY <1>4

(* A fee or an order number, the row that its value is on where that is    *)
(* the row below, and a row that gives an amount of its own.               *)
SkippedRow(i) == shot[i].label # None /\ shot[i].label.kind \in Reading!Skipped

UnderSkipped(first, i) ==
  /\ i > first /\ ~Reading!LabelWorks(shot[i])
  /\ shot[i - 1].bare /\ shot[i - 1].label.kind \in Reading!Skipped

OwnAmount(first, i) == ~SkippedRow(i) /\ ~UnderSkipped(first, i)

(* What has been found is on the rows first..last, its amounts on rows of  *)
(* their own.                                                              *)
Own(found, first, last) ==
  /\ found \in [Reading!Fields -> [row : Nat, priority : Nat]]
  /\ \A f \in Reading!Fields : found[f].row # 0 => found[f].row \in first..last
  /\ \A f \in {"quantity", "total"} : found[f].row # 0 => OwnAmount(first, found[f].row)

LEMMA SetKeepsOwn ==
  ASSUME NEW first \in Nat, NEW last \in Nat, NEW found, Own(found, first, last),
         NEW f \in Reading!Fields, NEW holds, NEW row, NEW priority \in Nat,
         holds => row \in first..last,
         holds /\ f \in {"quantity", "total"} => OwnAmount(first, row)
  PROVE  Own(Reading!Set(found, f, holds, row, priority), first, last)
<1>1. CASE holds /\ priority < found[f].priority
  <2> DEFINE new == [row |-> row, priority |-> priority]
             set == [found EXCEPT ![f] = new]
  <2>1. Reading!Set(found, f, holds, row, priority) = set
    BY <1>1 DEF Reading!Set
  <2>2. new \in [row : Nat, priority : Nat] /\ new.row = row
    BY <1>1
  <2> HIDE DEF new
  <2>3. set \in [Reading!Fields -> [row : Nat, priority : Nat]] /\ set[f] = new
    BY <2>2 DEF Own
  <2>4. \A g \in Reading!Fields : g # f => set[g] = found[g]
    BY DEF Own
  <2>5. "quantity" \in Reading!Fields /\ "total" \in Reading!Fields
    BY DEF Reading!Fields
  <2> HIDE DEF set
  <2>6. \A g \in Reading!Fields : set[g].row # 0 => set[g].row \in first..last
    BY <1>1, <2>2, <2>3, <2>4 DEF Own
  <2>7. \A g \in {"quantity", "total"} : set[g].row # 0 => OwnAmount(first, set[g].row)
    <3> SUFFICES ASSUME NEW g \in {"quantity", "total"}, set[g].row # 0 PROVE OwnAmount(first, set[g].row)
      OBVIOUS
    <3> QED BY <1>1, <2>2, <2>3, <2>4, <2>5 DEF Own
  <2> QED BY <2>1, <2>3, <2>6, <2>7 DEF Own
<1>2. CASE ~(holds /\ priority < found[f].priority)
  BY <1>2 DEF Reading!Set
<1> QED BY <1>1, <1>2

LEMMA FieldFacts ==
  ASSUME NEW sort, NEW c
  PROVE  /\ Reading!FieldOf(sort, c) \in {"quantity", "total", "date", "none"}
         /\ Reading!FieldOf(sort, c) \in {"quantity", "total"} => sort \notin Reading!Skipped
         /\ sort \in Reading!Skipped => Reading!Usable(sort, c)
BY DEF Reading!FieldOf, Reading!Usable, Reading!Skipped

(* The labels of the rows first..k have been read: no label that works is  *)
(* another's value; a fee or an order number, and the row below that it    *)
(* takes, are marked.                                                      *)
TakesBelow(i, last) == SkippedRow(i) /\ shot[i].bare /\ i < last /\ ~Reading!LabelWorks(shot[i + 1])

Marked(s, i, last) ==
  /\ SkippedRow(i) /\ ~shot[i].bare => s.kinds[i] \in Reading!Skipped
  /\ TakesBelow(i, last) => i + 1 \in s.used /\ s.kinds[i + 1] \in Reading!Skipped

LabelsRead(s, first, last, k) ==
  /\ Own(s.found, first, last)
  /\ s.kinds \in [first..last -> Kinds \cup {"none"}]
  /\ \A u \in s.used : u \in first..last /\ ~Reading!LabelWorks(shot[u])
  /\ \A i \in first..k : Marked(s, i, last)

LEMMA LabelStep ==
  ASSUME shot \in Seq(Reading!Rows), NEW first \in 1..Len(shot), NEW last \in first..Len(shot),
         NEW k \in first..last, NEW s, LabelsRead(s, first, last, k - 1)
  PROVE  LabelsRead(Reading!ReadLabel(s, k, last), first, last, k)
<1> DEFINE c == shot[k]
           v == Reading!ValueRow(k, last, s.used)
           field == Reading!FieldOf(c.label.kind, shot[v])
           t == Reading!ReadLabel(s, k, last)
           reads == k \notin s.used /\ c.label # None /\ v # 0 /\ Reading!Usable(c.label.kind, shot[v])
<1>0. Len(shot) \in Nat /\ first \in Nat /\ last \in Nat /\ k \in Nat /\ k \in 1..Len(shot)
  OBVIOUS
<1>1. c \in Reading!Rows
  BY <1>0
<1>2. v = 0 \/ (v = k /\ ~c.bare) \/ (v = k + 1 /\ c.bare /\ k < last /\ ~Reading!LabelWorks(shot[k + 1]))
  BY DEF Reading!ValueRow
<1>3. SkippedRow(k) => k \notin s.used
  BY FieldFacts DEF SkippedRow, Reading!LabelWorks, LabelsRead
<1>4. \A i \in first..k : i = k \/ i \in first..k - 1
  BY <1>0
<1>5. CASE ~reads
  <2>1. t = s
    BY <1>5 DEF Reading!ReadLabel
  <2>2. Marked(s, k, last)
    <3>1. SkippedRow(k) => v = 0
      BY <1>3, <1>5, FieldFacts DEF SkippedRow
    <3>2. ~c.bare => v = k
      BY DEF Reading!ValueRow
    <3>3. TakesBelow(k, last) => v = k + 1
      BY DEF TakesBelow, Reading!ValueRow
    <3> QED BY <1>0, <3>1, <3>2, <3>3 DEF Marked, TakesBelow
  <2> QED BY <1>4, <2>1, <2>2 DEF LabelsRead
<1>6. CASE reads
  <2> DEFINE sort == c.label.kind
             found == IF field = "none" THEN s.found ELSE Reading!Set(s.found, field, TRUE, v, c.label.priority)
             kinds == [s.kinds EXCEPT ![k] = sort, ![v] = sort]
  <2>1. t = [found |-> found, used |-> s.used \cup ({v} \ {k}), kinds |-> kinds]
    BY <1>6 DEF Reading!ReadLabel
  <2>2. t.found = found /\ t.used = s.used \cup ({v} \ {k}) /\ t.kinds = kinds
    BY <2>1
  <2>3. sort \in Kinds /\ c.label.priority \in Nat
    BY <1>1, <1>6, RowFacts
  <2>4. v \in first..last /\ v \in Nat /\ (v = k \/ v = k + 1)
    BY <1>0, <1>2, <1>6
  <2>5. Own(t.found, first, last)
    <3>1. CASE field = "none"
      BY <2>2, <3>1 DEF LabelsRead
    <3>2. CASE field # "none"
      <4>1. field \in Reading!Fields
        BY <3>2, FieldFacts DEF Reading!Fields
      <4>2. field \in {"quantity", "total"} => OwnAmount(first, v)
        <5> SUFFICES ASSUME field \in {"quantity", "total"} PROVE OwnAmount(first, v)
          OBVIOUS
        <5>1. sort \notin Reading!Skipped
          BY FieldFacts
        <5>2. CASE v = k
          <6>1. Reading!LabelWorks(shot[k])
            BY <1>6, <5>2 DEF Reading!LabelWorks
          <6> QED BY <5>1, <5>2, <6>1 DEF OwnAmount, SkippedRow, UnderSkipped
        <5>3. CASE v = k + 1
          <6>1. ~Reading!LabelWorks(shot[v]) /\ v - 1 = k
            BY <1>0, <1>2, <1>6, <5>3
          <6>2. ~SkippedRow(v)
            BY <6>1, FieldFacts DEF SkippedRow, Reading!LabelWorks
          <6> QED BY <5>1, <6>1, <6>2 DEF OwnAmount, UnderSkipped
        <5> QED BY <2>4, <5>2, <5>3
      <4>3. t.found = Reading!Set(s.found, field, TRUE, v, c.label.priority)
        BY <2>2, <3>2
      <4>4. Own(s.found, first, last)
        BY DEF LabelsRead
      <4> HIDE DEF t, field, v, c
      <4> QED BY <1>0, <2>3, <2>4, <4>1, <4>2, <4>3, <4>4, SetKeepsOwn
    <3> QED BY <3>1, <3>2
  <2>6. t.kinds \in [first..last -> Kinds \cup {"none"}]
    BY <2>2, <2>3 DEF LabelsRead
  <2>7. \A u \in t.used : u \in first..last /\ ~Reading!LabelWorks(shot[u])
    <3>1. v # k => ~Reading!LabelWorks(shot[v])
      BY <1>0, <1>2, <1>6
    <3> QED BY <2>2, <2>4, <3>1 DEF LabelsRead
  <2>8. /\ t.kinds[k] = sort /\ t.kinds[v] = sort
        /\ \A i \in first..last : i # k /\ i # v => t.kinds[i] = s.kinds[i]
    BY <2>2, <2>4 DEF LabelsRead
  <2>9. Marked(t, k, last)
    <3>1. SkippedRow(k) => sort \in Reading!Skipped
      BY DEF SkippedRow
    <3>2. TakesBelow(k, last) => v = k + 1 /\ v \in t.used /\ SkippedRow(k)
      BY <1>0, <2>2 DEF TakesBelow, Reading!ValueRow
    <3> HIDE DEF v, t, c, sort
    <3> QED BY <2>8, <3>1, <3>2 DEF Marked
  <2>10. ASSUME NEW i \in first..k - 1 PROVE Marked(t, i, last)
    <3>1. Marked(s, i, last) /\ s.used \subseteq t.used
      BY <2>2 DEF LabelsRead
    <3>2. i \in first..last /\ i < k /\ i # k /\ i # v
      BY <1>0, <2>4
    <3>3. TakesBelow(i, last) => i + 1 # k
      BY <1>6, <3>1 DEF Marked
    <3>4. i + 1 # k => i + 1 \in first..last /\ i + 1 # v
      BY <1>0, <2>4, <3>2
    <3> HIDE DEF v, t, c, sort
    <3> QED BY <2>8, <3>1, <3>2, <3>3, <3>4 DEF Marked
  <2>11. \A i \in first..k : Marked(t, i, last)
    <3> HIDE DEF t
    <3> QED BY <1>4, <2>9, <2>10
  <2>12. LabelsRead(t, first, last, k)
    <3> HIDE DEF t
    <3> QED BY <2>5, <2>6, <2>7, <2>11 DEF LabelsRead
  <2> QED BY <2>12
<1> QED BY <1>5, <1>6

(* A set of numbers that has any has a smallest one; with a first one and, *)
(* with each, the next, it has them all.                                   *)
LEMMA SmallestOf ==
  ASSUME NEW S, S \subseteq Nat, S # {}
  PROVE  \E m \in S : \A n \in S : m <= n
<1>1. PICK m \in S : \A n \in S : ~(<<n, m>> \in OpToRel(<, Nat))
  BY NatLessThanWellFounded, WFMin
<1>2. \A n \in S : n < m => <<n, m>> \in OpToRel(<, Nat)
  BY DEF OpToRel
<1>3. \A n \in S : n \in Nat /\ m \in Nat
  OBVIOUS
<1>4. \A n \in S : ~(n < m)
  BY <1>1, <1>2
<1> QED BY <1>3, <1>4

LEMMA UpFrom ==
  ASSUME NEW first \in Nat, NEW last \in Nat, NEW S, first - 1 \in S,
         \A i \in first..last : i - 1 \in S => i \in S
  PROVE  \A i \in first - 1 .. last : i \in S
<1> SUFFICES ASSUME NEW j \in first - 1 .. last, j \notin S PROVE FALSE
  OBVIOUS
<1> DEFINE Missing == {n \in Nat : n + first - 1 \in first - 1 .. last /\ n + first - 1 \notin S}
<1>1. j + 1 - first \in Missing
  OBVIOUS
<1>2. PICK m \in Missing : \A n \in Missing : m <= n
  <2>1. Missing \subseteq Nat /\ Missing # {}
    BY <1>1
  <2> HIDE DEF Missing
  <2> QED BY <2>1, SmallestOf
<1>3. m # 0
  OBVIOUS
<1>4. m - 1 \in Nat /\ m + first - 1 \in first..last
  BY <1>3
<1>5. (m + first - 1) - 1 \notin S /\ (m - 1) + first - 1 = (m + first - 1) - 1
  BY <1>4
<1>6. m - 1 \in Missing
  BY <1>4, <1>5
<1> QED BY <1>2, <1>4, <1>6

(* The labels are read row by row.                                         *)
LEMMA LabelsGoOn ==
  ASSUME NEW first \in Nat, NEW last \in Nat, first <= last
  PROVE  /\ Reading!LabelsUpTo(first, last)[first - 1] =
              [found |-> Reading!Nothing, used |-> {}, kinds |-> [i \in first..last |-> "none"]]
         /\ \A i \in first..last :
              Reading!LabelsUpTo(first, last)[i] =
                Reading!ReadLabel(Reading!LabelsUpTo(first, last)[i - 1], i, last)
<1> DEFINE none == [found |-> Reading!Nothing, used |-> {}, kinds |-> [i \in first..last |-> "none"]]
           Rest == first - 1 .. last
           next(g, a) == IF a = first - 1 THEN none ELSE Reading!ReadLabel(g[a - 1], a, last)
           goes(g, n) == \A a \in first - 1 .. n : g[a] = next(g, a)
           S == {n \in Rest : \E g : goes(g, n)}
<1> HIDE DEF none
<1>1. first - 1 \in S
  <2> DEFINE u == [a \in first - 1 .. first - 1 |-> none]
  <2>1. \A a \in first - 1 .. first - 1 : a = first - 1 /\ u[a] = none
    OBVIOUS
  <2>2. goes(u, first - 1)
    <3> HIDE DEF u
    <3> QED BY <2>1
  <2>3. first - 1 \in Rest
    OBVIOUS
  <2> HIDE DEF u, goes, Rest
  <2> QED BY <2>2, <2>3
<1>2. ASSUME NEW i \in first..last, i - 1 \in S PROVE i \in S
  <2>1. PICK g : goes(g, i - 1)
    BY <1>2
  <2> DEFINE u == [a \in first - 1 .. i |-> IF a = i THEN Reading!ReadLabel(g[i - 1], i, last) ELSE g[a]]
  <2>2. ASSUME NEW a \in first - 1 .. i PROVE u[a] = next(u, a)
    <3>1. CASE a = i
      <4>1. a # first - 1 /\ a - 1 \in first - 1 .. i /\ a - 1 # i
        BY <3>1
      <4>2. u[a] = Reading!ReadLabel(g[i - 1], i, last) /\ u[a - 1] = g[i - 1]
        BY <3>1, <4>1
      <4> QED BY <3>1, <4>1, <4>2
    <3>2. CASE a # i
      <4>1. a \in first - 1 .. i - 1 /\ (a # first - 1 => a - 1 \in first - 1 .. i /\ a - 1 # i)
        BY <3>2
      <4>2. u[a] = g[a] /\ (a # first - 1 => u[a - 1] = g[a - 1])
        BY <3>2, <4>1
      <4>3. g[a] = next(g, a)
        BY <2>1, <4>1
      <4> QED BY <4>2, <4>3
    <3> QED BY <3>1, <3>2
  <2>3. goes(u, i)
    <3> HIDE DEF u, next
    <3> QED BY <2>2
  <2>4. i \in Rest
    OBVIOUS
  <2> HIDE DEF u, goes, Rest
  <2> QED BY <2>3, <2>4
<1>3. PICK g : goes(g, last)
  <2>1. last \in Rest
    OBVIOUS
  <2>2. \A n \in Rest : n \in S
    <3> HIDE DEF S
    <3> QED BY <1>1, <1>2, UpFrom
  <2> QED BY <2>1, <2>2
<1> DEFINE reads(u) == u = [a \in first - 1 .. last |->
                              IF a = first - 1 THEN none ELSE Reading!ReadLabel(u[a - 1], a, last)]
<1>4. reads([a \in Rest |-> g[a]])
  <2> DEFINE u == [a \in Rest |-> g[a]]
  <2>1. ASSUME NEW a \in Rest PROVE u[a] = next(u, a)
    <3>1. g[a] = next(g, a) /\ u[a] = g[a]
      BY <1>3
    <3>2. a # first - 1 => a - 1 \in Rest /\ u[a - 1] = g[a - 1]
      OBVIOUS
    <3> QED BY <3>1, <3>2
  <2> QED BY <2>1
<1>5. Reading!LabelsUpTo(first, last) = CHOOSE u : reads(u)
  BY DEF Reading!LabelsUpTo, none
<1>6. reads(Reading!LabelsUpTo(first, last))
  <2> HIDE DEF reads
  <2> QED BY <1>4, <1>5
<1> DEFINE u == Reading!LabelsUpTo(first, last)
<1>7. u = [a \in Rest |-> next(u, a)]
  BY <1>6
<1>8. \A a \in Rest : u[a] = next(u, a)
  <2> HIDE DEF u, next
  <2> QED BY <1>7
<1>9. first - 1 \in Rest /\ \A i \in first..last : i \in Rest /\ i # first - 1
  OBVIOUS
<1> HIDE DEF u
<1> QED BY <1>8, <1>9 DEF u, none

(* So is the free text, with all labels read.                              *)
LEMMA TextGoesOn ==
  ASSUME NEW first \in Nat, NEW last \in Nat, first <= last, NEW listed
  PROVE  /\ Reading!TextUpTo(first, last, listed)[first - 1] = Reading!Labels(first, last).found
         /\ \A i \in first..last :
              Reading!TextUpTo(first, last, listed)[i] =
                Reading!ReadText(Reading!Labels(first, last), Reading!TextUpTo(first, last, listed)[i - 1],
                                 i, last, listed)
<1> DEFINE all == Reading!Labels(first, last)
           none == all.found
           Rest == first - 1 .. last
           next(g, a) == IF a = first - 1 THEN none ELSE Reading!ReadText(all, g[a - 1], a, last, listed)
           goes(g, n) == \A a \in first - 1 .. n : g[a] = next(g, a)
           S == {n \in Rest : \E g : goes(g, n)}
<1> HIDE DEF none, all
<1>1. first - 1 \in S
  <2> DEFINE u == [a \in first - 1 .. first - 1 |-> none]
  <2>1. \A a \in first - 1 .. first - 1 : a = first - 1 /\ u[a] = none
    OBVIOUS
  <2>2. goes(u, first - 1)
    <3> HIDE DEF u
    <3> QED BY <2>1
  <2>3. first - 1 \in Rest
    OBVIOUS
  <2> HIDE DEF u, goes, Rest
  <2> QED BY <2>2, <2>3
<1>2. ASSUME NEW i \in first..last, i - 1 \in S PROVE i \in S
  <2>1. PICK g : goes(g, i - 1)
    BY <1>2
  <2> DEFINE u == [a \in first - 1 .. i |-> IF a = i THEN Reading!ReadText(all, g[i - 1], i, last, listed) ELSE g[a]]
  <2>2. ASSUME NEW a \in first - 1 .. i PROVE u[a] = next(u, a)
    <3>1. CASE a = i
      <4>1. a # first - 1 /\ a - 1 \in first - 1 .. i /\ a - 1 # i
        BY <3>1
      <4>2. u[a] = Reading!ReadText(all, g[i - 1], i, last, listed) /\ u[a - 1] = g[i - 1]
        BY <3>1, <4>1
      <4> QED BY <3>1, <4>1, <4>2
    <3>2. CASE a # i
      <4>1. a \in first - 1 .. i - 1 /\ (a # first - 1 => a - 1 \in first - 1 .. i /\ a - 1 # i)
        BY <3>2
      <4>2. u[a] = g[a] /\ (a # first - 1 => u[a - 1] = g[a - 1])
        BY <3>2, <4>1
      <4>3. g[a] = next(g, a)
        BY <2>1, <4>1
      <4> QED BY <4>2, <4>3
    <3> QED BY <3>1, <3>2
  <2>3. goes(u, i)
    <3> HIDE DEF u, next
    <3> QED BY <2>2
  <2>4. i \in Rest
    OBVIOUS
  <2> HIDE DEF u, goes, Rest
  <2> QED BY <2>3, <2>4
<1>3. PICK g : goes(g, last)
  <2>1. last \in Rest
    OBVIOUS
  <2>2. \A n \in Rest : n \in S
    <3> HIDE DEF S
    <3> QED BY <1>1, <1>2, UpFrom
  <2> QED BY <2>1, <2>2
<1> DEFINE reads(u) == u = [a \in first - 1 .. last |->
                              IF a = first - 1 THEN none ELSE Reading!ReadText(all, u[a - 1], a, last, listed)]
<1>4. reads([a \in Rest |-> g[a]])
  <2> DEFINE u == [a \in Rest |-> g[a]]
  <2>1. ASSUME NEW a \in Rest PROVE u[a] = next(u, a)
    <3>1. g[a] = next(g, a) /\ u[a] = g[a]
      BY <1>3
    <3>2. a # first - 1 => a - 1 \in Rest /\ u[a - 1] = g[a - 1]
      OBVIOUS
    <3> QED BY <3>1, <3>2
  <2> QED BY <2>1
<1>5. Reading!TextUpTo(first, last, listed) = CHOOSE u : reads(u)
  BY DEF Reading!TextUpTo, none, all
<1>6. reads(Reading!TextUpTo(first, last, listed))
  <2> HIDE DEF reads
  <2> QED BY <1>4, <1>5
<1> DEFINE u == Reading!TextUpTo(first, last, listed)
<1>7. u = [a \in Rest |-> next(u, a)]
  BY <1>6
<1>8. \A a \in Rest : u[a] = next(u, a)
  <2> HIDE DEF u, next
  <2> QED BY <1>7
<1>9. first - 1 \in Rest /\ \A i \in first..last : i \in Rest /\ i # first - 1
  OBVIOUS
<1> HIDE DEF u
<1> QED BY <1>8, <1>9 DEF u, none, all

(* With the labels of all rows read, fees and order numbers are marked.    *)
LEMMA LabelsAreRead ==
  ASSUME shot \in Seq(Reading!Rows), NEW first \in 1..Len(shot), NEW last \in first..Len(shot)
  PROVE  LabelsRead(Reading!Labels(first, last), first, last, last)
<1> DEFINE read == Reading!LabelsUpTo(first, last)
           S == {k \in first - 1 .. last : LabelsRead(read[k], first, last, k)}
<1>1. first \in Nat /\ last \in Nat /\ first <= last /\ Len(shot) \in Nat
  OBVIOUS
<1>2. first - 1 \in S
  <2> DEFINE none == [found |-> Reading!Nothing, used |-> {}, kinds |-> [i \in first..last |-> "none"]]
  <2>1. read[first - 1] = none
    BY <1>1, LabelsGoOn
  <2>2. none.found = Reading!Nothing /\ none.used = {} /\ none.kinds = [i \in first..last |-> "none"]
    OBVIOUS
  <2>3. Reading!Nothing \in [Reading!Fields -> [row : Nat, priority : Nat]]
    BY DEF Reading!Nothing
  <2>4. \A f \in Reading!Fields : Reading!Nothing[f].row = 0
    BY DEF Reading!Nothing
  <2>5. Own(Reading!Nothing, first, last)
    BY <2>3, <2>4 DEF Own, Reading!Fields
  <2>6. first..first - 1 = {} /\ first - 1 \in first - 1 .. last
    BY <1>1
  <2>7. LabelsRead(none, first, last, first - 1)
    <3> HIDE DEF none
    <3> QED BY <2>2, <2>5, <2>6 DEF LabelsRead
  <2> HIDE DEF none, read
  <2> QED BY <2>1, <2>6, <2>7
<1>3. ASSUME NEW k \in first..last, k - 1 \in S PROVE k \in S
  <2>1. read[k] = Reading!ReadLabel(read[k - 1], k, last)
    BY <1>1, LabelsGoOn
  <2>2. LabelsRead(read[k], first, last, k)
    <3>1. LabelsRead(read[k - 1], first, last, k - 1)
      BY <1>3
    <3> HIDE DEF read
    <3> QED BY <2>1, <3>1, LabelStep
  <2>3. k \in first - 1 .. last
    BY <1>1
  <2> HIDE DEF read
  <2> QED BY <2>2, <2>3
<1>4. \A k \in first - 1 .. last : k \in S
  <2> HIDE DEF S
  <2> QED BY <1>1, <1>2, <1>3, UpFrom
<1>5. last \in first - 1 .. last
  BY <1>1
<1> QED BY <1>4, <1>5 DEF Reading!Labels

LEMMA SentenceKeepsOwn ==
  ASSUME NEW first \in Nat, NEW last \in Nat, NEW found, Own(found, first, last), NEW row \in first..last, NEW at,
         at # 0 => at \in first..last /\ OwnAmount(first, at)
  PROVE  Own(Reading!Sentence(found, row, at), first, last)
<1> DEFINE f1 == Reading!Set(found, "action", at # 0, row, 2)
           f2 == Reading!Set(f1, "symbol", at # 0, at, 2)
           f3 == Reading!Set(f2, "quantity", at # 0, at, 2)
<1>1. "action" \in Reading!Fields /\ "symbol" \in Reading!Fields /\ "quantity" \in Reading!Fields
  BY DEF Reading!Fields
<1>2. Own(f1, first, last)
  BY <1>1, SetKeepsOwn
<1>3. Own(f2, first, last)
  <2> HIDE DEF f1
  <2> QED BY <1>1, <1>2, SetKeepsOwn
<1>4. Own(f3, first, last)
  <2> HIDE DEF f2
  <2> QED BY <1>1, <1>3, SetKeepsOwn
<1> QED BY <1>4 DEF Reading!Sentence

LEMMA WordsKeepOwn ==
  ASSUME NEW first \in Nat, NEW last \in Nat, NEW found, Own(found, first, last), NEW i \in first..last, NEW c
  PROVE  Own(Reading!LooseWords(found, c, i), first, last)
<1> DEFINE f1 == Reading!Set(found, "action", c.shape = "header", i, 3)
           f2 == Reading!Set(f1, "symbol", c.shape = "header", i, 3)
           f3 == Reading!Set(f2, "action", c.word, i, 6)
           f4 == Reading!Set(f3, "date", c.day, i, 6)
           f5 == Reading!Set(f4, "symbol", c.shape = "title", i, 7)
<1>1. "action" \in Reading!Fields /\ "symbol" \in Reading!Fields /\ "date" \in Reading!Fields
  BY DEF Reading!Fields
<1>2. Own(f1, first, last)
  BY <1>1, SetKeepsOwn
<1>3. Own(f2, first, last)
  <2> HIDE DEF f1
  <2> QED BY <1>1, <1>2, SetKeepsOwn
<1>4. Own(f3, first, last)
  <2> HIDE DEF f2
  <2> QED BY <1>1, <1>3, SetKeepsOwn
<1>5. Own(f4, first, last)
  <2> HIDE DEF f3
  <2> QED BY <1>1, <1>4, SetKeepsOwn
<1>6. Own(f5, first, last)
  <2> HIDE DEF f4
  <2> QED BY <1>1, <1>5, SetKeepsOwn
<1> QED BY <1>6 DEF Reading!LooseWords

LEMMA AmountsKeepOwn ==
  ASSUME NEW first \in Nat, NEW last \in Nat, NEW found, Own(found, first, last), NEW i \in first..last, NEW c,
         NEW sort, NEW listed, c.units \/ c.money => OwnAmount(first, i)
  PROVE  Own(Reading!LooseAmounts(found, c, i, sort, listed), first, last)
<1> DEFINE f1 == Reading!Set(found, "quantity", c.units /\ sort \notin {"total", "date"}, i, 4)
           f2 == Reading!Set(f1, "symbol", c.units /\ c.asset /\ sort \notin {"total", "date"}, i, 5)
           f3 == Reading!Set(f2, "total", listed /\ sort = "none" /\ c.money, i, 8)
<1>1. "quantity" \in Reading!Fields /\ "symbol" \in Reading!Fields /\ "total" \in Reading!Fields
  BY DEF Reading!Fields
<1>2. Own(f1, first, last)
  BY <1>1, SetKeepsOwn
<1>3. Own(f2, first, last)
  <2> HIDE DEF f1
  <2> QED BY <1>1, <1>2, SetKeepsOwn
<1>4. Own(f3, first, last)
  <2> HIDE DEF f2
  <2> QED BY <1>1, <1>3, SetKeepsOwn
<1> QED BY <1>4 DEF Reading!LooseAmounts

(* Free text of a row that is not marked gives an amount of its own.       *)
LEMMA TextStep ==
  ASSUME shot \in Seq(Reading!Rows), NEW first \in 1..Len(shot), NEW last \in first..Len(shot),
         NEW i \in first..last, NEW s, LabelsRead(s, first, last, last), NEW listed,
         NEW found, Own(found, first, last)
  PROVE  Own(Reading!ReadText(s, found, i, last, listed), first, last)
<1> DEFINE c == shot[i]
           joins == i < last /\ i + 1 \notin s.used
           at == Reading!SentenceRow(i, joins)
<1>0. Len(shot) \in Nat /\ first \in Nat /\ last \in Nat /\ i \in Nat /\ i \in 1..Len(shot)
  OBVIOUS
<1>1. CASE Reading!LeavesOut(s, i)
  BY <1>1 DEF Reading!ReadText
<1>2. CASE ~Reading!LeavesOut(s, i)
  <2>1. s.kinds[i] \notin Reading!Skipped
    BY <1>2 DEF Reading!LeavesOut
  <2>2. ~UnderSkipped(first, i)
    <3> SUFFICES ASSUME UnderSkipped(first, i) PROVE FALSE
      OBVIOUS
    <3>1. i - 1 \in first..last /\ i - 1 \in 1..Len(shot) /\ (i - 1) + 1 = i /\ i - 1 < last
      BY <1>0 DEF UnderSkipped
    <3>2. SkippedRow(i - 1)
      BY <3>1, RowFacts DEF UnderSkipped, SkippedRow
    <3>3. TakesBelow(i - 1, last)
      BY <3>1, <3>2 DEF TakesBelow, UnderSkipped
    <3>4. Marked(s, i - 1, last)
      BY <3>1 DEF LabelsRead
    <3> QED BY <2>1, <3>1, <3>3, <3>4 DEF Marked
  <2>3. c \in Reading!Rows
    BY <1>0
  <2>4. c.units \/ c.money => OwnAmount(first, i)
    <3>1. Marked(s, i, last)
      BY <1>0 DEF LabelsRead
    <3>2. c.units => ~SkippedRow(i)
      BY <2>3, RowFacts DEF SkippedRow
    <3>3. c.money => ~SkippedRow(i)
      BY <2>1, <2>3, <3>1, RowFacts DEF Marked
    <3> QED BY <2>2, <3>2, <3>3 DEF OwnAmount
  <2>5. at # 0 => at \in first..last /\ OwnAmount(first, at)
    <3>1. CASE c.shape = "sentence"
      <4>1. at = i /\ ~SkippedRow(i)
        BY <2>3, <3>1, RowFacts DEF Reading!SentenceRow, SkippedRow
      <4> QED BY <2>2, <4>1 DEF OwnAmount
    <3>2. CASE c.shape = "bought" /\ joins /\ shot[i + 1].shape = "amount"
      <4>1. at = i + 1 /\ i + 1 \in first..last /\ i + 1 \in 1..Len(shot) /\ (i + 1) - 1 = i
        BY <1>0, <3>2 DEF Reading!SentenceRow
      <4>2. shot[i + 1] \in Reading!Rows
        BY <4>1
      <4>3. ~SkippedRow(i + 1)
        BY <3>2, <4>2, RowFacts DEF SkippedRow
      <4>4. ~c.bare
        BY <2>3, <3>2, RowFacts
      <4>5. ~UnderSkipped(first, i + 1)
        BY <4>1, <4>4 DEF UnderSkipped
      <4> QED BY <4>1, <4>3, <4>5 DEF OwnAmount
    <3>3. CASE c.shape # "sentence" /\ ~(c.shape = "bought" /\ joins /\ shot[i + 1].shape = "amount")
      BY <3>3 DEF Reading!SentenceRow
    <3> QED BY <3>1, <3>2, <3>3
  <2> DEFINE f1 == Reading!Sentence(found, i, at)
             f2 == Reading!LooseWords(f1, c, i)
             f3 == Reading!LooseAmounts(f2, c, i, s.kinds[i], listed)
  <2>6. Reading!ReadText(s, found, i, last, listed) = f3
    BY <1>2 DEF Reading!ReadText
  <2>7. Own(f1, first, last)
    <3> HIDE DEF at
    <3> QED BY <1>0, <2>5, SentenceKeepsOwn
  <2>8. Own(f2, first, last)
    <3> HIDE DEF f1, c
    <3> QED BY <1>0, <2>7, WordsKeepOwn
  <2>9. Own(f3, first, last)
    <3> HIDE DEF f2, c
    <3> QED BY <1>0, <2>4, <2>8, AmountsKeepOwn
  <2> QED BY <2>6, <2>9
<1> QED BY <1>1, <1>2

(* What readTrade() finds is on the rows it reads, but for a day above.    *)
LEMMA TradeReadsItsOwn ==
  ASSUME shot \in Seq(Reading!Rows), NEW first \in 1..Len(shot), NEW last \in first..Len(shot),
         NEW heading, NEW listed
  PROVE  /\ \A f \in {"quantity", "total"} :
              LET i == Reading!ReadTrade(first, last, heading, listed)[f].row
              IN  i # 0 => i \in first..last /\ OwnAmount(first, i)
         /\ LET d == Reading!ReadTrade(first, last, heading, listed)["date"].row
            IN  d # 0 => d \in first..last \/ (heading # 0 /\ d = heading)
<1> DEFINE text == Reading!TextUpTo(first, last, listed)
           labels == Reading!Labels(first, last)
           S == {k \in first - 1 .. last : Own(text[k], first, last)}
           read == Reading!ReadTrade(first, last, heading, listed)
<1>1. first \in Nat /\ last \in Nat /\ first <= last /\ Len(shot) \in Nat
  OBVIOUS
<1>2. LabelsRead(labels, first, last, last)
  BY LabelsAreRead
<1>3. first - 1 \in S
  <2>1. text[first - 1] = labels.found
    BY <1>1, TextGoesOn
  <2>2. first - 1 \in first - 1 .. last
    BY <1>1
  <2> HIDE DEF text, labels
  <2> QED BY <1>2, <2>1, <2>2 DEF LabelsRead
<1>4. ASSUME NEW k \in first..last, k - 1 \in S PROVE k \in S
  <2>1. text[k] = Reading!ReadText(labels, text[k - 1], k, last, listed)
    BY <1>1, TextGoesOn
  <2>2. Own(text[k - 1], first, last)
    BY <1>4
  <2>3. k \in first - 1 .. last
    BY <1>1
  <2> HIDE DEF text, labels
  <2>4. Own(text[k], first, last)
    BY <1>2, <2>1, <2>2, TextStep
  <2> QED BY <2>3, <2>4
<1>5. \A k \in first - 1 .. last : k \in S
  <2> HIDE DEF S
  <2> QED BY <1>1, <1>3, <1>4, UpFrom
<1> DEFINE found == text[last]
<1>6. Own(found, first, last)
  <2>1. last \in first - 1 .. last
    BY <1>1
  <2> QED BY <1>5, <2>1
<1>7. read = Reading!Set(found, "date", heading # 0, heading, 9)
  BY DEF Reading!ReadTrade
<1> HIDE DEF found, read
<1>8. read = found \/ (heading # 0 /\ read = [found EXCEPT !["date"] = [row |-> heading, priority |-> 9]])
  BY <1>7 DEF Reading!Set
<1>9. \A f \in Reading!Fields : f # "date" => read[f] = found[f]
  BY <1>6, <1>8 DEF Own
<1>10. read["date"] = found["date"] \/ (heading # 0 /\ read["date"].row = heading)
  BY <1>6, <1>8 DEF Own, Reading!Fields
<1>11. "quantity" \in Reading!Fields /\ "total" \in Reading!Fields /\ "date" \in Reading!Fields
  BY DEF Reading!Fields
<1>12. ASSUME NEW f \in {"quantity", "total"}, read[f].row # 0
       PROVE  read[f].row \in first..last /\ OwnAmount(first, read[f].row)
  <2>1. f \in Reading!Fields /\ read[f] = found[f]
    BY <1>9, <1>11
  <2> QED BY <1>6, <1>12, <2>1 DEF Own
<1>13. read["date"].row # 0 => read["date"].row \in first..last \/ (heading # 0 /\ read["date"].row = heading)
  BY <1>6, <1>10, <1>11 DEF Own
<1> QED BY <1>12, <1>13 DEF read

(* An item of a list has its anchor on its rows, and no other after it; no *)
(* dividend and no day heading either.                                     *)
LEMMA ItemStart ==
  ASSUME NEW a \in Nat, a # 0
  PROVE  /\ Reading!Start(a) \in 1..a
         /\ \A i \in Reading!Start(a)..a - 1 : i \notin Reading!Anchors
<1> DEFINE goesUp(s) == \A i \in s..a - 1 : shot[i].shape \in {"title", "day"} /\ i \notin Reading!Anchors
           S == {s \in Nat : s \in 1..a /\ goesUp(s)}
           starts(s) == goesUp(s) /\ (s = 1 \/ ~goesUp(s - 1))
<1>1. a \in S
  OBVIOUS
<1>2. PICK s \in S : \A r \in S : s <= r
  <2>1. S \subseteq Nat /\ S # {}
    BY <1>1
  <2> HIDE DEF S
  <2> QED BY <2>1, SmallestOf
<1>3. s \in 1..a /\ goesUp(s)
  OBVIOUS
<1>4. s = 1 \/ ~goesUp(s - 1)
  <2> HIDE DEF goesUp
  <2> QED BY <1>2, <1>3
<1>5. Reading!Start(a) = CHOOSE r \in 1..a : starts(r)
  BY DEF Reading!Start
<1>6. Reading!Start(a) \in 1..a /\ starts(Reading!Start(a))
  <2>1. starts(s)
    BY <1>3, <1>4
  <2> HIDE DEF starts
  <2> QED BY <1>3, <1>5, <2>1
<1> QED BY <1>6

LEMMA ItemEnd ==
  ASSUME Len(shot) \in Nat, NEW a \in 1..Len(shot)
  PROVE  /\ Reading!LastRow(a) \in a..Len(shot)
         /\ \A j \in a + 1 .. Reading!LastRow(a) : ~Reading!Ends(a, j)
<1> DEFINE n == Len(shot)
           S == {e \in Nat : e \in a + 1 .. n + 1 /\ Reading!Ends(a, e)}
           last(i) == Reading!Ends(a, i + 1) /\ \A j \in a + 1 .. i : ~Reading!Ends(a, j)
<1>1. n + 1 \in S
  BY DEF Reading!Ends
<1>2. PICK e \in S : \A d \in S : e <= d
  <2>1. S \subseteq Nat /\ S # {}
    BY <1>1
  <2> HIDE DEF S
  <2> QED BY <2>1, SmallestOf
<1>3. e - 1 \in a..n /\ (e - 1) + 1 = e
  OBVIOUS
<1>4. last(e - 1)
  <2>1. \A j \in a + 1 .. e - 1 : j \in Nat /\ j \in a + 1 .. n + 1 /\ ~(e <= j)
    OBVIOUS
  <2>2. \A j \in a + 1 .. e - 1 : ~Reading!Ends(a, j)
    BY <1>2, <2>1
  <2> QED BY <1>3, <2>2
<1>5. Reading!LastRow(a) = CHOOSE i \in a..n : last(i)
  BY DEF Reading!LastRow
<1>6. Reading!LastRow(a) \in a..n /\ last(Reading!LastRow(a))
  <2> HIDE DEF last
  <2> QED BY <1>3, <1>4, <1>5
<1> QED BY <1>6

LEMMA ItemIsOfItsAnchor ==
  ASSUME shot \in Seq(Reading!Rows), NEW a \in Reading!Anchors
  PROVE  /\ a \in 1..Len(shot) /\ Reading!Start(a) \in 1..a /\ Reading!LastRow(a) \in a..Len(shot)
         /\ ~Reading!DayRow(a)
         /\ \A j \in a + 1 .. Reading!LastRow(a) :
              j \notin Reading!Anchors /\ shot[j].shape # "dividend" /\ ~Reading!DayRow(j)
<1>1. Len(shot) \in Nat /\ Reading!Anchors \subseteq 1..Len(shot) /\ a \in 1..Len(shot) /\ a # 0 /\ a \in Nat
  BY DEF Reading!Anchors
<1>2. ~Reading!DayRow(a)
  BY DEF Reading!Anchors, Reading!IsAnchor, Reading!SentenceRow, Reading!DayRow
<1>3. Reading!LastRow(a) \in a..Len(shot) /\ \A j \in a + 1 .. Reading!LastRow(a) : ~Reading!Ends(a, j)
  BY <1>1, ItemEnd
<1>4. ASSUME NEW j \in a + 1 .. Reading!LastRow(a), j \in Reading!Anchors
      PROVE  FALSE
  <2>1. j \in Nat /\ j # 0 /\ j > a
    BY <1>1, <1>3
  <2>2. Reading!Start(j) \in 1..j /\ \A i \in Reading!Start(j)..j - 1 : i \notin Reading!Anchors
    BY <2>1, ItemStart
  <2>3. Reading!Start(j) > a
    BY <1>1, <2>1, <2>2
  <2>4. Reading!Ends(a, Reading!Start(j))
    BY <1>4, <2>1 DEF Reading!Ends
  <2>5. Reading!Start(j) \in a + 1 .. Reading!LastRow(a)
    BY <1>1, <1>3, <2>1, <2>2, <2>3
  <2> QED BY <1>3, <2>4, <2>5
<1>5. \A j \in a + 1 .. Reading!LastRow(a) : shot[j].shape # "dividend" /\ ~Reading!DayRow(j)
  BY <1>3 DEF Reading!Ends
<1> QED BY <1>1, <1>2, <1>3, <1>4, <1>5, ItemStart

(* The heading an item takes its day from is the nearest above.            *)
LEMMA NearestHeading ==
  ASSUME NEW a \in Nat, Reading!HeadingAbove(a) # 0
  PROVE  /\ Reading!HeadingAbove(a) \in 1..a /\ Reading!DayRow(Reading!HeadingAbove(a))
         /\ \A j \in Reading!HeadingAbove(a) + 1 .. a : ~Reading!DayRow(j)
<1> DEFINE days == {i \in 1..a : Reading!DayRow(i)}
           above == {k \in Nat : a - k \in days}
           nearest(i) == \A j \in days : j <= i
<1>1. days # {}
  BY DEF Reading!HeadingAbove
<1>2. PICK k \in above : \A l \in above : k <= l
  <2>1. PICK i \in days : TRUE
    BY <1>1
  <2>2. a - i \in above /\ above \subseteq Nat
    BY <2>1
  <2> HIDE DEF above
  <2> QED BY <2>2, SmallestOf
<1>3. a - k \in days
  OBVIOUS
<1>4. nearest(a - k)
  <2> SUFFICES ASSUME NEW j \in days PROVE j <= a - k
    OBVIOUS
  <2>1. a - j \in above /\ j \in Nat
    OBVIOUS
  <2>2. k <= a - j /\ k \in Nat
    BY <1>2, <2>1
  <2> QED BY <2>1, <2>2
<1>5. Reading!HeadingAbove(a) = CHOOSE i \in days : nearest(i)
  BY <1>1 DEF Reading!HeadingAbove
<1>6. Reading!HeadingAbove(a) \in days /\ nearest(Reading!HeadingAbove(a))
  <2> HIDE DEF days, nearest
  <2> QED BY <1>3, <1>4, <1>5
<1>7. ASSUME NEW j \in Reading!HeadingAbove(a) + 1 .. a, Reading!DayRow(j) PROVE FALSE
  <2>1. j \in days
    BY <1>6, <1>7
  <2> QED BY <1>6, <2>1
<1> QED BY <1>6, <1>7

LEMMA TradesAreTheirOwn ==
  ASSUME shot \in Seq(Reading!Rows)
  PROVE  Reading!ReadFromItsOwn
<1> DEFINE AmountsOwn(item) ==
       \A f \in {"quantity", "total"} :
         LET i == item.read[f].row
         IN  i # 0 =>
               /\ ~(shot[i].label # None /\ shot[i].label.kind \in Reading!Skipped)
               /\ ~Reading!UnderSkipped(item, i)
               /\ item.anchor # 0 =>
                    \A j \in item.anchor + 1 .. i : j \notin Reading!Anchors /\ shot[j].shape # "dividend"
           DayOwn(item) ==
       LET d == item.read["date"].row
       IN  item.anchor # 0 /\ d # 0 =>
             \/ ~Reading!DayRow(d)
             \/ /\ d < item.anchor
                /\ \A j \in d + 1 .. item.anchor - 1 : Reading!DayRow(j) => j \in item.first .. item.anchor
<1>1. ASSUME NEW item, NEW i, item.first \in Nat, OwnAmount(item.first, i)
      PROVE  /\ ~(shot[i].label # None /\ shot[i].label.kind \in Reading!Skipped)
             /\ ~Reading!UnderSkipped(item, i)
  BY <1>1 DEF OwnAmount, SkippedRow, UnderSkipped, Reading!UnderSkipped
<1>2. ASSUME shot # << >>, NEW item, item = Reading!Item(1, Len(shot), 0, 0, FALSE)
      PROVE  AmountsOwn(item) /\ DayOwn(item)
  <2> DEFINE last == Len(shot)
             read == Reading!ReadTrade(1, last, 0, FALSE)
  <2>1. 1 \in 1..Len(shot) /\ last \in 1..Len(shot)
    BY <1>2
  <2>2. item.first = 1 /\ item.anchor = 0 /\ item.read = read
    BY <1>2 DEF Reading!Item
  <2>3. \A f \in {"quantity", "total"} : read[f].row # 0 => OwnAmount(1, read[f].row)
    <3> HIDE DEF last
    <3> QED BY <2>1, TradeReadsItsOwn
  <2>4. AmountsOwn(item)
    <3> HIDE DEF read
    <3> SUFFICES ASSUME NEW f \in {"quantity", "total"}, read[f].row # 0
                 PROVE  /\ ~(shot[read[f].row].label # None /\ shot[read[f].row].label.kind \in Reading!Skipped)
                        /\ ~Reading!UnderSkipped(item, read[f].row)
      BY <2>2
    <3>1. OwnAmount(item.first, read[f].row) /\ item.first \in Nat
      BY <2>2, <2>3
    <3> QED BY <1>1, <3>1
  <2>5. DayOwn(item)
    BY <2>2
  <2> QED BY <2>4, <2>5
<1>3. ASSUME NEW a \in Reading!Anchors, NEW item,
             item = Reading!Item(Reading!Start(a), Reading!LastRow(a), a, Reading!HeadingAbove(a), TRUE)
      PROVE  AmountsOwn(item) /\ DayOwn(item)
  <2> DEFINE first == Reading!Start(a)
             last == Reading!LastRow(a)
             heading == Reading!HeadingAbove(a)
             read == Reading!ReadTrade(first, last, heading, TRUE)
  <2>1. item.first = first /\ item.anchor = a /\ item.read = read
    BY <1>3 DEF Reading!Item
  <2>2. /\ a \in 1..Len(shot) /\ first \in 1..a /\ last \in a..Len(shot) /\ ~Reading!DayRow(a)
        /\ \A j \in a + 1 .. last : j \notin Reading!Anchors /\ shot[j].shape # "dividend" /\ ~Reading!DayRow(j)
    BY ItemIsOfItsAnchor
  <2>3. heading # 0 => /\ heading \in 1..a /\ Reading!DayRow(heading)
                       /\ \A j \in heading + 1 .. a : ~Reading!DayRow(j)
    BY <2>2, NearestHeading
  <2> HIDE DEF first, last, heading
  <2>4. first \in 1..Len(shot) /\ last \in first..Len(shot) /\ first \in Nat /\ last \in Nat /\ a \in Nat
    BY <2>2
  <2>5. /\ \A f \in {"quantity", "total"} :
             read[f].row # 0 => read[f].row \in first..last /\ OwnAmount(first, read[f].row)
        /\ read["date"].row # 0 => read["date"].row \in first..last \/ (heading # 0 /\ read["date"].row = heading)
    BY <2>4, TradeReadsItsOwn
  <2> HIDE DEF read
  <2>6. AmountsOwn(item)
    <3> SUFFICES ASSUME NEW f \in {"quantity", "total"}, read[f].row # 0
                 PROVE  /\ ~(shot[read[f].row].label # None /\ shot[read[f].row].label.kind \in Reading!Skipped)
                        /\ ~Reading!UnderSkipped(item, read[f].row)
                        /\ \A j \in a + 1 .. read[f].row : j \notin Reading!Anchors /\ shot[j].shape # "dividend"
      BY <2>1
    <3>1. read[f].row \in first..last /\ OwnAmount(first, read[f].row)
      BY <2>5
    <3>2. \A j \in a + 1 .. read[f].row : j \in a + 1 .. last
      BY <2>4, <3>1
    <3> QED BY <1>1, <2>1, <2>2, <2>4, <3>1, <3>2
  <2>7. DayOwn(item)
    <3> DEFINE d == read["date"].row
    <3> HIDE DEF d
    <3> SUFFICES ASSUME d # 0, Reading!DayRow(d)
                 PROVE  d < a /\ \A j \in d + 1 .. a - 1 : Reading!DayRow(j) => j \in first..a
      BY <2>1 DEF d
    <3>1. CASE d \in first..last
      <4>1. d # a /\ d \notin a + 1 .. last
        BY <2>2
      <4> QED BY <2>4, <3>1, <4>1
    <3>2. CASE heading # 0 /\ d = heading
      <4>1. d \in 1..a /\ d # a
        BY <2>2, <2>3, <3>2
      <4>2. \A j \in d + 1 .. a - 1 : j \in d + 1 .. a
        BY <2>4, <4>1
      <4> QED BY <2>3, <2>4, <3>2, <4>1, <4>2
    <3> QED BY <2>5, <3>1, <3>2 DEF d
  <2> QED BY <2>6, <2>7
<1>4. ASSUME NEW item \in Reading!Items PROVE AmountsOwn(item) /\ DayOwn(item)
  <2>1. \/ shot # << >> /\ item = Reading!Item(1, Len(shot), 0, 0, FALSE)
        \/ \E a \in Reading!Anchors :
             item = Reading!Item(Reading!Start(a), Reading!LastRow(a), a, Reading!HeadingAbove(a), TRUE)
    BY DEF Reading!Items
  <2> HIDE DEF AmountsOwn, DayOwn
  <2> QED BY <1>2, <1>3, <2>1
<1>5. Reading!Trades \subseteq Reading!Items
  BY DEF Reading!Trades
<1>6. \A item \in Reading!Trades : AmountsOwn(item) /\ DayOwn(item)
  <2> HIDE DEF AmountsOwn, DayOwn
  <2> QED BY <1>4, <1>5
<1> QED BY <1>6 DEF Reading!ReadFromItsOwn

LEMMA TextPart == PagesSpec => [](part = "text" => shot \in Seq(Reading!Rows))
<1>1. PagesInit => (part = "text" => shot \in Seq(Reading!Rows))
  BY DEF PagesInit, Reading!Init
<1>2. (part = "text" => shot \in Seq(Reading!Rows)) /\ [PagesNext]_pageVars
      => (part = "text" => shot \in Seq(Reading!Rows))'
  <2> SUFFICES ASSUME part = "text" => shot \in Seq(Reading!Rows), [PagesNext]_pageVars, part' = "text"
               PROVE  (shot \in Seq(Reading!Rows))'
    OBVIOUS
  <2>1. part = "text" /\ shot \in Seq(Reading!Rows) /\ (Reading!NextRow \/ UNCHANGED shot)
    BY PartsMove
  <2>2. (Reading!Rows)' = Reading!Rows
    BY DEF Reading!Rows, Reading!Row, Reading!Label
  <2>3. shot' \in Seq(Reading!Rows)
    BY <2>1 DEF Reading!NextRow
  <2> QED BY <2>2, <2>3
<1> QED BY <1>1, <1>2, PTL DEF PagesSpec

(* However long the text: an amount of a trade is neither a fee nor an     *)
(* order number, beside its label or below it, nor of the next trade of a  *)
(* list, and its day is not one below it (tradeTextParser.js).             *)
THEOREM TradesAreReadFromTheirOwn == PagesSpec => []ReadFromItsOwn
<1>1. (part = "text" => shot \in Seq(Reading!Rows)) => ReadFromItsOwn
  BY TradesAreTheirOwn DEF ReadFromItsOwn
<1> QED BY <1>1, TextPart, PTL

=============================================================================
