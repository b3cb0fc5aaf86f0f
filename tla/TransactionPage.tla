--------------------------- MODULE TransactionPage ---------------------------
(***************************************************************************)
(* The list of trades (pages/TransactionPage.jsx), its filters             *)
(* (Transactions/TransactionFilter.jsx) and what a save does to it. A      *)
(* reply may come late or be lost, other devices of the account change the *)
(* ledger too, and React runs the effect that asks for the list some time  *)
(* after the change that calls for it. The app keeps an answer to each     *)
(* choice of filters and shows it when no other comes (services/api.js,    *)
(* native/offlineCache.js). Which trades a filter lists is left out: a     *)
(* list is known by the filters it was asked with and the version of the   *)
(* ledger it was read from.                                                *)
(***************************************************************************)
EXTENDS Naturals, FiniteSets

CONSTANTS
  None,
  Texts,        \* what may be typed into the symbol filter; "" shows every trade
  Actions,      \* the choices of the other filters; "any" shows every trade
  MaxChanges,   \* bound: changes of the ledger
  MaxRequests   \* bound: list requests on their way

VARIABLES
  version,      \* server: the ledger's version
  acked,        \* the version of the newest change this page was told of
  filters,      \* the page's filters: [symbol, action]
  box,          \* what the symbol box shows; TransactionFilter passes it on later
  list,         \* the list last received: [filters, version, copied], or None
  loading,
  error,
  asks,         \* the effect is still to run for what changed
  requests,     \* list requests: [filters, ignored, reply]
  saves         \* this page's changes on their way: the versions they made, or None

pvars == <<version, acked, filters, box, list, loading, error, asks, requests, saves>>

NoFilters == [symbol |-> "", action |-> "any"]

Filters == [symbol : Texts, action : Actions]

Init ==
  /\ version = 0
  /\ acked = 0
  /\ filters = NoFilters
  /\ box = NoFilters.symbol
  /\ list = None
  /\ loading = TRUE
  /\ error = FALSE
  /\ asks = TRUE
  /\ requests = {}
  /\ saves = {}

-----------------------------------------------------------------------------
(* A slip: replies of requests before still count.                         *)
NothingDropped(asked) == asked

(* The effect's cleanup: the replies of requests before are dropped,       *)
(* whatever they are.                                                      *)
Dropped(asked) == {[r EXCEPT !.ignored = TRUE, !.reply = None] : r \in asked}

RunEffect ==
  /\ asks
  /\ Cardinality(requests) < MaxRequests
  /\ asks' = FALSE
  /\ requests' = Dropped(requests) \cup {[filters |-> filters, ignored |-> FALSE, reply |-> None]}
  /\ UNCHANGED <<version, acked, filters, box, list, loading, error, saves>>

ReadList(r) ==
  /\ r.reply = None /\ ~r.ignored
  /\ requests' = (requests \ {r}) \cup {[r EXCEPT !.reply = version]}
  /\ UNCHANGED <<version, acked, filters, box, list, loading, error, asks, saves>>

Shows(r, read, copied) ==
  IF r.ignored THEN UNCHANGED <<list, loading, error>>
  ELSE /\ list' = [filters |-> r.filters, version |-> read, copied |-> copied]
       /\ loading' = FALSE /\ error' = FALSE

Fails(r) ==
  IF r.ignored THEN UNCHANGED <<list, loading, error>>
  ELSE loading' = FALSE /\ error' = TRUE /\ UNCHANGED list

ListArrives(r) ==
  /\ r.reply # None
  /\ requests' = requests \ {r}
  /\ Shows(r, r.reply, FALSE)
  /\ UNCHANGED <<version, acked, filters, box, asks, saves>>

(* No answer in time: the app shows, without an error, the list it kept of *)
(* the same filters, of any version there was: what it keeps is            *)
(* OfflineCopy's. Or an error: the server's, on the website, or when no    *)
(* copy is kept. An answer lost on its way back is as good as none read,   *)
(* and a dropped request ends here however it was answered.                *)
ListLost(r) ==
  /\ r.reply = None
  /\ requests' = requests \ {r}
  /\ Fails(r) \/ \E kept \in 0..version : Shows(r, kept, TRUE)
  /\ UNCHANGED <<version, acked, filters, box, asks, saves>>

Reloaded ==
  /\ loading' = TRUE
  /\ asks' = TRUE

(* "Try again", shown with the error.                                      *)
Retry ==
  /\ error /\ ~(loading /\ list = None)
  /\ Reloaded
  /\ UNCHANGED <<version, acked, filters, box, list, error, requests, saves>>

(* The app's refresh leaves the list as it is meanwhile.                   *)
Refresh ==
  /\ asks' = TRUE
  /\ UNCHANGED <<version, acked, filters, box, list, loading, error, requests, saves>>

-----------------------------------------------------------------------------
(* The filters. The symbol box is passed on a moment after the last key;   *)
(* a symbol changed from outside shows in the box.                         *)
SetFilters(new) ==
  /\ filters' = new
  /\ box' = IF new.symbol # filters.symbol THEN new.symbol ELSE box
  /\ Reloaded
  /\ UNCHANGED <<version, acked, list, error, requests, saves>>

TypeSymbol(text) ==
  /\ box' = text
  /\ UNCHANGED <<version, acked, filters, list, loading, error, asks, requests, saves>>

PassOn ==
  /\ box # filters.symbol
  /\ SetFilters([filters EXCEPT !.symbol = box])

PickAction(action) == action # filters.action /\ SetFilters([filters EXCEPT !.action = action])

ClearFilters == filters # NoFilters /\ SetFilters(NoFilters)

-----------------------------------------------------------------------------
(* A trade is added, edited or deleted: by this page, or elsewhere.        *)
Save ==
  /\ None \notin saves
  /\ saves' = saves \cup {None}
  /\ UNCHANGED <<version, acked, filters, box, list, loading, error, asks, requests>>

Record ==
  /\ version < MaxChanges
  /\ version' = version + 1
  /\ \/ None \in saves /\ saves' = (saves \ {None}) \cup {version + 1}
     \/ UNCHANGED saves
  /\ UNCHANGED <<acked, filters, box, list, loading, error, asks, requests>>

(* Its answer reloads the list; a refusal, or no answer, does not.         *)
SaveArrives(s) ==
  /\ saves' = saves \ {s}
  /\ \/ /\ s # None
        /\ acked' = IF s > acked THEN s ELSE acked
        /\ Reloaded
     \/ UNCHANGED <<acked, loading, asks>>
  /\ UNCHANGED <<version, filters, box, list, error, requests>>

Next ==
  \/ RunEffect \/ Retry \/ Refresh
  \/ \E r \in requests : ReadList(r) \/ ListArrives(r) \/ ListLost(r)
  \/ \E text \in Texts : TypeSymbol(text)
  \/ PassOn \/ ClearFilters
  \/ \E action \in Actions : PickAction(action)
  \/ Save \/ Record
  \/ \E s \in saves : SaveArrives(s)

Spec == Init /\ [][Next]_pvars

-----------------------------------------------------------------------------
(* Once nothing asked for is still to come, the list shown is the list of  *)
(* the filters shown and no longer says it is loading: no late reply has   *)
(* won. It has every change this page was told was saved, unless no answer *)
(* came and it is the app's saved copy, which may be from before them.     *)
ListIsOfItsFilters ==
  ~asks /\ (\A r \in requests : r.ignored) =>
    /\ ~loading
    /\ error \/ (list.filters = filters /\ (list.copied \/ list.version >= acked))

=============================================================================
