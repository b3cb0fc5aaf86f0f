------------------------------ MODULE MCMoves ------------------------------
(***************************************************************************)
(* Small instances of trades that move between symbols (MCLedger), of the  *)
(* form that edits one (TransactionEdit), and of the caches a trade's rate *)
(* comes from (RatesCache, SeriesCache). A behaviour is one of them moving *)
(* while the others wait with no state at all: they are explored one by    *)
(* one, and the state spaces add up instead of multiplying.                *)
(***************************************************************************)
EXTENDS MCLedger

CONSTANTS
  None, k1, k2,
  TradeFields, TradeValues, FirstValue, MaxChanges, MaxWrites,                    \* TransactionEdit
  Askers, FreshFor, RetryAfter, ColdFailure, RatesUntil,                         \* RatesCache
  Keys, KeepFor, EmptyFor, FailureFor, StaleFor, MaxEntries, Tasks, SeriesUntil  \* SeriesCache

PartsAlike == {f @@ g : f \in BothAlike, g \in Permutations({k1, k2})}

VARIABLES
  part,                                                    \* the part that moves
  trade, elsewhere, listed, mode, form, failed, writes,    \* TransactionEdit
  clock,                                                   \* both caches
  rates, retryAt, failedAt, line, at, since, last,         \* RatesCache
  cache, tasks, inflight, good                             \* SeriesCache

editVars   == <<trade, elsewhere, listed, mode, form, failed, writes>>
ratesVars  == <<clock, rates, retryAt, failedAt, line, at, since, last>>
seriesVars == <<cache, tasks, inflight, good>>

Editing == INSTANCE TransactionEdit WITH
  Fields <- TradeFields, Values <- TradeValues

Rates == INSTANCE RatesCache WITH Procs <- Askers, MaxClock <- RatesUntil, pc <- at

Series == INSTANCE SeriesCache WITH MaxClock <- SeriesUntil

(* The variables of a part that does not move.                             *)
EditIdle ==
  /\ trade = None /\ elsewhere = None /\ listed = None /\ mode = None /\ form = None
  /\ failed = None /\ writes = None

RatesIdle ==
  /\ rates = None /\ retryAt = None /\ failedAt = None /\ line = None /\ at = None
  /\ since = None /\ last = None

SeriesIdle == cache = None /\ tasks = None /\ inflight = None /\ good = None

MovesInit ==
  /\ part \in {"ledger", "edit", "rates", "series"}
  /\ Init
  /\ part = "rates" => Rates!Init
  /\ part = "series" => Series!Init
  /\ part # "rates" => RatesIdle
  /\ part # "series" => SeriesIdle
  /\ part \notin {"rates", "series"} => clock = None
  /\ IF part = "edit" THEN Editing!Init /\ trade = [f \in TradeFields |-> FirstValue] ELSE EditIdle

TradesMove  == part = "ledger" /\ Next         /\ UNCHANGED <<part, editVars, ratesVars, seriesVars>>
EditMoves   == part = "edit"   /\ Editing!Next /\ UNCHANGED <<part, vars, ratesVars, seriesVars>>
RatesMove   == part = "rates"  /\ Rates!Next   /\ UNCHANGED <<part, vars, editVars, seriesVars>>
SeriesMoves == part = "series" /\ Series!Next
               /\ UNCHANGED <<part, vars, editVars, rates, retryAt, failedAt, line, at, since, last>>

MovesNext == TradesMove \/ EditMoves \/ RatesMove \/ SeriesMoves

MovesSpec == MovesInit /\ [][MovesNext]_<<part, vars, editVars, ratesVars, seriesVars>>

-----------------------------------------------------------------------------
(* What the proofs assume of the constants: that None, which stands for    *)
(* nothing at all, is neither a time nor a task, and that times are        *)
(* numbers.                                                                *)
RatesConstants ==
  /\ None \notin Int
  /\ FreshFor \in Int /\ RetryAfter \in Int /\ ColdFailure \in Int

ASSUME RatesAssumption == RatesConstants

SeriesConstants ==
  /\ None \notin Int /\ None \notin Tasks
  /\ StaleFor \in Int

ASSUME SeriesAssumption == SeriesConstants

-----------------------------------------------------------------------------
(* Saving an edit leaves alone what was not typed in it (updatePayload).   *)
OthersChangesStay == [][part = "edit" => Editing!OthersStay]_editVars

(* An outside source is asked by one request at a time, the rates not      *)
(* again before their answer is used up, and what was good outlasts a      *)
(* failure (get_all_conversion_rates, _cached_series).                     *)
AskedOnceAndKept ==
  /\ part = "rates" => Rates!AskedOnce
  /\ part = "series" => Series!OneFetch /\ Series!GoodStays

=============================================================================
