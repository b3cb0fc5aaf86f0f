------------------------------- MODULE Ledger -------------------------------
(***************************************************************************)
(* One user's trades and the requests that change them                     *)
(* (backend/routes/assets.py: make_transaction, update_transaction_with_id *)
(* and delete_transaction_with_id).                                        *)
(*                                                                         *)
(* A request is a coroutine with a database session of its own. Every      *)
(* SELECT before its first write reads what is committed at that moment    *)
(* (SQLite begins a transaction at the first write), and the requests      *)
(* interleave at every await. The first write takes SQLite's only write    *)
(* lock, held until commit or rollback: `writer` holds it, `draft` is what *)
(* that session has written so far. A trade a session has loaded stays as  *)
(* it was loaded (`seen`): later SELECTs decide which rows come back and   *)
(* in which order, but do not refresh it.                                  *)
(***************************************************************************)
EXTENDS LedgerOps

CONSTANTS
  Procs,            (* the requests being served at once                   *)
  NoProc,           (* nobody: the write lock is free                      *)
  NoTrade,          (* nothing loaded                                      *)
  NoRequest,
  Ids,              (* trade ids (uuids): natural numbers, never reused.   *)
                    (* Bounds the trades ever logged.                      *)
  Symbols, Apis,    (* names of assets: what is shown, what is priced      *)
  Templates,        (* the trades requests log (their id is not used)      *)
  Edits,            (* the edits requests send: [fields, to]               *)
  Histories,        (* the sets of trades the user may start from          *)
  MaxTransactions,  (* MAX_TRANSACTIONS_PER_USER                           *)
  MaxSymbols,       (* MAX_SYMBOLS_PER_USER                                *)
  EditsOverlap      (* may two requests work on one trade at once?         *)

Fields == {"action", "qty", "price", "at", "symbol", "api", "account"}

Trade == [id : Ids, action : {"BUY", "SELL"}, qty : Nat \ {0}, price : Nat, at : Nat,
          symbol : Symbols, api : Apis, account : Accounts]

Edit == [fields : SUBSET Fields, to : Trade]

Requests == [kind : {"create"}, trade : Templates]
            \cup [kind : {"edit"}, id : Ids, edit : Edits]
            \cup [kind : {"delete"}, id : Ids]

UniqueIds(T) == \A t, u \in T : t.id = u.id => t = u

Assets(T) == {t.api : t \in T}

ASSUME ProcsAssumption == NoProc \notin Procs
ASSUME ProcsFinite == IsFiniteSet(Procs) /\ Procs # {}
ASSUME IdsAssumption == Ids \subseteq Nat
ASSUME NoTradeAssumption == NoTrade \notin Trade
ASSUME NoRequestAssumption == NoRequest \notin Requests
ASSUME TemplatesAssumption == Templates \subseteq Trade
ASSUME EditsAssumption == Edits \subseteq Edit
ASSUME HistoriesAssumption ==
  \A T \in Histories :
    T \subseteq Trade /\ UniqueIds(T) /\ IsFiniteSet(T) /\ Cardinality(T) <= MaxTransactions
ASSUME AssetsAssumption == \A T \in Histories : Cardinality(Assets(T)) <= MaxSymbols
ASSUME LimitsAssumption == MaxTransactions \in Nat /\ MaxSymbols \in Nat
ASSUME OverlapAssumption == EditsOverlap \in BOOLEAN

VARIABLES
  trades,   (* the committed rows                                          *)
  profit,   (* their profit column: a function of the ids                  *)
  issued,   (* the ids given out so far                                    *)
  writer,   (* who holds SQLite's write lock                               *)
  draft,    (* the rows as the writer's open transaction has them          *)
  pc,       (* where each request waits                                    *)
  req,      (* what each request asks for                                  *)
  seen,     (* the trade each request has loaded, as it was then           *)
  had,      (* the profit that trade had then                              *)
  before,   (* the account shortfalls each request has read                *)
  missed    (* history: the trades an edit has left without their profit   *)

vars == <<trades, profit, issued, writer, draft, pc, req, seen, had, before, missed>>

-----------------------------------------------------------------------------
(* What the queries and the checks see.                                    *)

Row(T, id) == CHOOSE t \in T : t.id = id

Exists(T, id) == \E t \in T : t.id = id

OfSymbol(T, s) == {t \in T : t.symbol = s}

(* The trade with `names` of its fields overwritten by an edit.            *)
Overwritten(t, e, names) ==
  [id      |-> t.id,
   action  |-> IF "action"  \in names THEN e.to.action  ELSE t.action,
   qty     |-> IF "qty"     \in names THEN e.to.qty     ELSE t.qty,
   price   |-> IF "price"   \in names THEN e.to.price   ELSE t.price,
   at      |-> IF "at"      \in names THEN e.to.at      ELSE t.at,
   symbol  |-> IF "symbol"  \in names THEN e.to.symbol  ELSE t.symbol,
   api     |-> IF "api"     \in names THEN e.to.api     ELSE t.api,
   account |-> IF "account" \in names THEN e.to.account ELSE t.account]

OversoldIn(T, s, loaded) == Replay(Loaded(OfSymbol(T, s), loaded)).oversold

Oversold(T, s) == OversoldIn(T, s, {})

NeverOversells(T) == \A s \in Symbols : ~Oversold(T, s)

(* The shortfalls of one holding's sells.                                  *)
HoldingShort(history, symbol, api) ==
  AccountSplit(SelectSeq(history, LAMBDA t : t.symbol = symbol /\ t.api = api)).short

(* {sell id: shortfall} over the trades of some symbols, each holding by   *)
(* itself (account_shortfalls).                                            *)
Shortfalls(T, symbols, loaded) ==
  LET some == {t \in T : t.symbol \in symbols}
      object(id) == AsLoaded(Row(some, id), loaded)
      short(id) == HoldingShort(Loaded(some, loaded), object(id).symbol, object(id).api)
  IN  [id \in {t.id : t \in {u \in some : u.id \in DOMAIN short(u.id)}} |-> short(id)[id]]

(* A slip: one asset too many.                                             *)
SymbolLimitPassed(T, api) ==
  /\ ~\E t \in T : t.api = api
  /\ Cardinality(Assets(T)) > MaxSymbols

(* check_symbol_limit: an asset already traded is always fine.             *)
SymbolLimitReached(T, api) ==
  /\ ~\E t \in T : t.api = api
  /\ Cardinality(Assets(T)) >= MaxSymbols

(* An edit that works out the CAD price again waits for exchange rates:    *)
(* a new price always, a new date when the trade has a price as typed      *)
(* (older ones do not: either may happen).                                 *)
MayAwaitRates(e) == "price" \in e.fields \/ "at" \in e.fields
MustAwaitRates(e) == "price" \in e.fields

(* The columns an UPDATE writes: those whose value is not the loaded one.  *)
Changed(e, t) == {f \in e.fields : e.to[f] # t[f]}

(* The trade a request has loaded, with the edit's values once it has set  *)
(* them.                                                                   *)
Object(p) ==
  CASE req[p].kind = "create" -> {}
    [] req[p].kind = "delete" -> {seen[p]}
    [] req[p].kind = "edit"   -> {Overwritten(seen[p], req[p].edit, req[p].edit.fields)}

(* A slip: an edit checks only the symbol the trade ends up in.            *)
AffectedByResult(p) ==
  IF req[p].kind = "create" THEN {req[p].trade.symbol} ELSE {o.symbol : o \in Object(p)}

(* The symbols whose history a request replays and compares.               *)
Affected(p) ==
  IF req[p].kind = "create" THEN {req[p].trade.symbol}
  ELSE {seen[p].symbol} \cup {o.symbol : o \in Object(p)}

(* A slip: a new trade is only checked as a whole, not by account.         *)
ChecksAccountsOfOld(p) == CASE req[p].kind = "create" -> FALSE
                            [] req[p].kind = "delete" -> seen[p].action # "SELL"
                            [] req[p].kind = "edit"   -> TRUE

(* No per-account check for a new buy or a deleted sell: it only leaves    *)
(* more shares.                                                            *)
ChecksAccounts(p) == CASE req[p].kind = "create" -> req[p].trade.action = "SELL"
                       [] req[p].kind = "delete" -> seen[p].action # "SELL"
                       [] req[p].kind = "edit"   -> TRUE

-----------------------------------------------------------------------------
(* Steps of a request.                                                     *)

Init ==
  /\ trades \in {T \in Histories : NeverOversells(T)}
  /\ profit = [id \in {t.id : t \in trades} |->
                 Replay(History(OfSymbol(trades, Row(trades, id).symbol))).profit[id]]
  /\ issued = {t.id : t \in trades}
  /\ writer = NoProc
  /\ draft = {}
  /\ pc = [p \in Procs |-> "idle"]
  /\ req = [p \in Procs |-> NoRequest]
  /\ seen = [p \in Procs |-> NoTrade]
  /\ had = [p \in Procs |-> NoProfit]
  /\ before = [p \in Procs |-> << >>]
  /\ missed = {}

database == <<trades, profit, issued, writer, draft, missed>>

(* The request p is answered: its session is closed, what it read is gone. *)
End(p) ==
  /\ pc' = [pc EXCEPT ![p] = "idle"]
  /\ req' = [req EXCEPT ![p] = NoRequest]
  /\ seen' = [seen EXCEPT ![p] = NoTrade]
  /\ had' = [had EXCEPT ![p] = NoProfit]
  /\ before' = [before EXCEPT ![p] = << >>]

Begin(p, request, where, object) ==
  /\ pc' = [pc EXCEPT ![p] = where]
  /\ req' = [req EXCEPT ![p] = request]
  /\ seen' = [seen EXCEPT ![p] = object]
  /\ had' = [had EXCEPT ![p] = IF object = NoTrade THEN NoProfit ELSE profit[object.id]]
  /\ UNCHANGED before

SymbolsOnly(t) == SymbolLimitReached(trades, t.api)   (* a slip: no limit on trades *)

(* make_transaction, up to the first await that reads shortfalls: both     *)
(* limits are checked here, on what is committed now.                      *)
LimitReached(t) ==
  \/ Cardinality(trades) >= MaxTransactions
  \/ SymbolLimitReached(trades, t.api)

StartCreate(p, t) ==
  /\ pc[p] = "idle"
  /\ ~LimitReached(t)
  /\ Begin(p, [kind |-> "create", trade |-> t],
           IF t.action = "SELL" THEN "before" ELSE "flush", NoTrade)
  /\ UNCHANGED database

RefuseCreate(p, t) ==
  /\ pc[p] = "idle"
  /\ LimitReached(t)
  /\ End(p)
  /\ UNCHANGED database

(* What a team can rule out by having one tab edit a trade at a time: two  *)
(* edits of one trade at once, or a delete of a trade an edit is moving to *)
(* another symbol.                                                         *)
WorksOn(q, id) == pc[q] # "idle" /\ req[q].kind # "create" /\ req[q].id = id

MovesSymbol(request) == request.kind = "edit" /\ "symbol" \in request.edit.fields

Apart(request) ==
  \A q \in Procs : WorksOn(q, request.id) =>
    /\ ~(request.kind = "edit" /\ req[q].kind = "edit")
    /\ ~MovesSymbol(request) /\ ~MovesSymbol(req[q])

(* update_transaction_with_id loads the trade and, for a new asset, checks *)
(* the symbol limit without it.                                            *)
NeedsNewSymbol(e, t) ==
  /\ "api" \in e.fields /\ e.to.api # t.api
  /\ SymbolLimitReached(trades \ {t}, e.to.api)

StartEdit(p, id, e) ==
  LET request == [kind |-> "edit", id |-> id, edit |-> e]
      t == Row(trades, id)
  IN  /\ pc[p] = "idle"
      /\ Exists(trades, id)
      /\ EditsOverlap \/ Apart(request)
      /\ ~NeedsNewSymbol(e, t)
      /\ \/ MayAwaitRates(e) /\ Begin(p, request, "rates", t)
         \/ ~MustAwaitRates(e) /\ Begin(p, request, "before", t)
      /\ UNCHANGED database

RefuseEdit(p, id, e) ==
  /\ pc[p] = "idle"
  /\ Exists(trades, id)
  /\ NeedsNewSymbol(e, Row(trades, id))
  /\ End(p)
  /\ UNCHANGED database

StartDelete(p, id) ==
  LET request == [kind |-> "delete", id |-> id]
      t == Row(trades, id)
  IN  /\ pc[p] = "idle"
      /\ Exists(trades, id)
      /\ EditsOverlap \/ Apart(request)
      /\ Begin(p, request, IF t.action = "SELL" THEN "flush" ELSE "before", t)
      /\ UNCHANGED database

(* An edit or a delete of a trade that is not there (any more).            *)
NotFound(p, id) ==
  /\ pc[p] = "idle"
  /\ id \in issued /\ ~Exists(trades, id)
  /\ End(p)
  /\ UNCHANGED database

(* The rates are loaded: the edit loads its trade again.                   *)
Reload(p) ==
  /\ pc[p] = "rates"
  /\ IF Exists(trades, req[p].id)
     THEN /\ pc' = [pc EXCEPT ![p] = "before"]
          /\ seen' = [seen EXCEPT ![p] = Row(trades, req[p].id)]
          /\ had' = [had EXCEPT ![p] = profit[req[p].id]]
          /\ UNCHANGED <<req, before>>
     ELSE End(p)
  /\ UNCHANGED database

(* account_shortfalls before the change. An edit has not changed its trade *)
(* in memory yet.                                                          *)
ReadBefore(p) ==
  /\ pc[p] = "before"
  /\ before' = [before EXCEPT ![p] = Shortfalls(trades, Affected(p), {seen[p]} \ {NoTrade})]
  /\ pc' = [pc EXCEPT ![p] = "flush"]
  /\ UNCHANGED <<database, req, seen, had>>

(* The first write: waits for the write lock, then INSERT, DELETE or       *)
(* UPDATE. A DELETE of a row that is gone deletes nothing; an UPDATE of one*)
(* is a StaleDataError (404); an edit that changes nothing of a row that is*)
(* gone fails when it is refreshed at the end.                             *)
Write(p, T) ==
  /\ writer' = p
  /\ draft' = T
  /\ pc' = [pc EXCEPT ![p] = "settle"]
  /\ UNCHANGED <<trades, profit, req, seen, had, before, missed>>

FlushCreate(p) ==
  /\ pc[p] = "flush" /\ req[p].kind = "create"
  /\ writer = NoProc
  /\ \E id \in Ids \ issued :
       /\ Write(p, trades \cup {[req[p].trade EXCEPT !.id = id]})
       /\ issued' = issued \cup {id}

FlushDelete(p) ==
  /\ pc[p] = "flush" /\ req[p].kind = "delete"
  /\ writer = NoProc
  /\ Write(p, {t \in trades : t.id # req[p].id})
  /\ UNCHANGED issued

FlushEdit(p) ==
  LET e == req[p].edit
      t == Row(trades, req[p].id)
  IN  /\ pc[p] = "flush" /\ req[p].kind = "edit"
      /\ writer = NoProc
      /\ Exists(trades, req[p].id)
      /\ Write(p, (trades \ {t}) \cup {Overwritten(t, e, Changed(e, seen[p]))})
      /\ UNCHANGED issued

StaleEdit(p) ==
  /\ pc[p] = "flush" /\ req[p].kind = "edit"
  /\ writer = NoProc
  /\ ~Exists(trades, req[p].id)
  /\ End(p)
  /\ UNCHANGED database

(* With the lock held: replay the affected symbols, compare the account    *)
(* shortfalls, then commit or roll back.                                   *)
OversoldBeforeFlush(p) ==   (* a slip: replayed before the trade is written *)
  \E s \in Affected(p) : OversoldIn(trades, s, Object(p))

OversoldDraft(p) == \E s \in Affected(p) : OversoldIn(draft, s, Object(p))

AccountsWorse(p) ==
  /\ ChecksAccounts(p)
  /\ OversellAdded(before[p], Shortfalls(draft, Affected(p), Object(p)))

(* The profit each row of some symbols is given, from the replay of its    *)
(* own symbol (rebuild_symbol_ledger); rows behind an oversold one are not *)
(* reached.                                                                *)
Stored(id) == IF id \in DOMAIN profit THEN profit[id] ELSE NoProfit

ProfitsOf(p, symbols) ==
  [id \in {t.id : t \in {u \in draft : u.symbol \in symbols}} |->
     LET replay == Replay(Loaded(OfSymbol(draft, Row(draft, id).symbol), Object(p)))
     IN  IF replay.oversold /\ id \notin DOMAIN replay.profit THEN Stored(id) ELSE replay.profit[id]]

RebuiltOfResult(p) == ProfitsOf(p, AffectedByResult(p))   (* a slip: the symbol a trade left keeps its profits *)

Rebuilt(p) == ProfitsOf(p, Affected(p))

(* Only a changed column is written. The rows are loaded for the replay,   *)
(* with the lock held, all but the edited trade: given the profit it had   *)
(* when the edit loaded it, its column is left as it is now.               *)
LeavesProfit(p, id) ==
  req[p].kind = "edit" /\ id = req[p].id /\ Rebuilt(p)[id] = had[p]

(* The profit column once p has committed.                                 *)
Committed(p) ==
  [id \in {t.id : t \in draft} |->
     IF id \in DOMAIN Rebuilt(p) /\ ~LeavesProfit(p, id) THEN Rebuilt(p)[id] ELSE profit[id]]

(* The rows whose profit is not the one they were given: another request   *)
(* had changed it since the edit loaded it. A later replay puts it right.  *)
Missed(p) ==
  (missed \ DOMAIN Rebuilt(p)) \cup {id \in DOMAIN Rebuilt(p) : LeavesProfit(p, id) /\ profit[id] # had[p]}

Release == writer' = NoProc /\ draft' = {}

RefuseOversold(p) ==   (* a slip: refused without a rollback *)
  /\ pc[p] = "settle"
  /\ OversoldDraft(p)
  /\ End(p)
  /\ UNCHANGED database

RollbackOversold(p) ==
  /\ pc[p] = "settle"
  /\ OversoldDraft(p)
  /\ Release
  /\ End(p)
  /\ UNCHANGED <<trades, profit, issued, missed>>

RollbackAccount(p) ==
  /\ pc[p] = "settle"
  /\ ~OversoldDraft(p) /\ AccountsWorse(p)
  /\ Release
  /\ End(p)
  /\ UNCHANGED <<trades, profit, issued, missed>>

Commit(p) ==
  /\ pc[p] = "settle"
  /\ ~OversoldDraft(p) /\ ~AccountsWorse(p)
  /\ trades' = draft
  /\ profit' = Committed(p)
  /\ missed' = Missed(p)
  /\ Release
  /\ End(p)
  /\ UNCHANGED issued

(* No exchange rates (503), or the lock did not come within busy_timeout   *)
(* (500): nothing was written yet.                                         *)
Fail(p) ==
  /\ \/ pc[p] = "rates"
     \/ pc[p] = "flush" /\ req[p].kind = "create"
     \/ pc[p] = "flush" /\ writer # NoProc
  /\ End(p)
  /\ UNCHANGED database

(* The server stops and starts: SQLite drops the open transaction.         *)
Crash ==
  /\ Release
  /\ pc' = [p \in Procs |-> "idle"]
  /\ req' = [p \in Procs |-> NoRequest]
  /\ seen' = [p \in Procs |-> NoTrade]
  /\ had' = [p \in Procs |-> NoProfit]
  /\ before' = [p \in Procs |-> << >>]
  /\ UNCHANGED <<trades, profit, issued, missed>>

Settle(p) == RollbackOversold(p) \/ RollbackAccount(p) \/ Commit(p)

Flush(p) == FlushCreate(p) \/ FlushDelete(p) \/ FlushEdit(p) \/ StaleEdit(p)

Start(p) ==
  \/ \E t \in Templates : StartCreate(p, t) \/ RefuseCreate(p, t)
  \/ \E id \in Ids : StartDelete(p, id) \/ NotFound(p, id)
  \/ \E id \in Ids, e \in Edits : StartEdit(p, id, e) \/ RefuseEdit(p, id, e)

Next ==
  \/ \E p \in Procs : Start(p) \/ Reload(p) \/ ReadBefore(p) \/ Flush(p) \/ Settle(p) \/ Fail(p)
  \/ Crash

Spec == Init /\ [][Next]_vars

-----------------------------------------------------------------------------
(* Properties.                                                             *)

(* What a request holds fits where it waits.                               *)
FitsPlace(p) ==
  /\ pc[p] = "idle" <=> req[p] = NoRequest
  /\ pc[p] = "idle" => seen[p] = NoTrade
  /\ pc[p] # "idle" /\ req[p].kind = "create" => seen[p] = NoTrade
  /\ pc[p] # "idle" /\ req[p].kind # "create" =>
       seen[p] \in Trade /\ seen[p].id = req[p].id /\ req[p].id \in issued
  /\ pc[p] = "rates" => req[p].kind = "edit"
  /\ pc[p] = "settle" <=> writer = p

(* Every variable keeps its type: the committed and the uncommitted rows   *)
(* have an id each that was given out, and what a request holds fits where *)
(* it waits (the columns of Transaction and the locals of the handlers).   *)
TypeOK ==
  /\ trades \subseteq Trade /\ UniqueIds(trades)
  /\ issued \subseteq Ids /\ \A t \in trades \cup draft : t.id \in issued
  /\ DOMAIN profit = {t.id : t \in trades}
  /\ writer \in Procs \cup {NoProc}
  /\ draft \subseteq Trade /\ UniqueIds(draft)
  /\ pc \in [Procs -> {"idle", "rates", "before", "flush", "settle"}]
  /\ req \in [Procs -> Requests \cup {NoRequest}]
  /\ seen \in [Procs -> Trade \cup {NoTrade}]
  /\ \A p \in Procs : FitsPlace(p)

(* No committed history sells more of a symbol than was owned at that      *)
(* moment, whichever requests ran together (the 409 of the trade routes,   *)
(* rebuild_symbol_ledger).                                                 *)
NeverOversold == NeverOversells(trades)

(* The profit stored with every trade is the one its symbol's committed    *)
(* history gives: an edit or a move to another symbol leaves none behind.  *)
(* It is not, until the symbol is replayed again, exactly where a trade's  *)
(* own edit gave it the profit it had loaded, after another request had    *)
(* committed a different one: the ORM then has nothing to write            *)
(* (update_transaction_with_id, rebuild_symbol_ledger).                    *)
ProfitsFollowHistory ==
  \A t \in trades :
    t.id \notin missed <=> profit[t.id] = Replay(History(OfSymbol(trades, t.symbol))).profit[t.id]

(* A sell that is new takes at most its own account's and the untagged     *)
(* shares (over the tolerance), whatever was committed while its rates     *)
(* were loading.                                                           *)
NewSellsWithinAccount ==
  [][\A t \in trades' :
       (t.action = "SELL" /\ ~Exists(trades, t.id)) =>
         ~(ShortOf(Shortfalls(trades', {t.symbol}, {}), t.id) > 1)]_vars

(* A new buy and the delete of a sell only leave more shares: they are     *)
(* never refused as overselling, wherever in the history they fall.        *)
HarmlessChangesSaved ==
  [][\A p \in Procs : RollbackOversold(p) =>
       /\ ~(req[p].kind = "create" /\ req[p].trade.action = "BUY")
       /\ ~(req[p].kind = "delete" /\ \E t \in trades : t.id = req[p].id /\ t.action = "SELL")]_vars

(* A change is refused for an account only when it makes some sell's       *)
(* shortfall bigger than it was before (the rule above account_split).     *)
RefusedOnlyWhenWorse ==
  [][\A p \in Procs : RollbackAccount(p) =>
       OversellAdded(Shortfalls(trades, Affected(p), {}), Shortfalls(draft, Affected(p), {}))]_vars

(* The limits are read before the rates load and not again, so requests    *)
(* that run together can pass them. The trades by one for each request but *)
(* one; the assets by one for each: an edit is let through with as many    *)
(* assets as are allowed when its trade is the last of its own, and while  *)
(* it waits another request may log a trade of that asset again.           *)
TradesBounded == Cardinality(trades) <= MaxTransactions + Cardinality(Procs) - 1

AssetsBounded == Cardinality(Assets(trades)) <= MaxSymbols + Cardinality(Procs)

LimitsBounded == TradesBounded /\ AssetsBounded

(* The user's trades are a valid ledger that changes one trade at a time,  *)
(* however the requests interleave (the three trade routes).               *)
Promised == INSTANCE ValidLedger WITH Valid <- NeverOversells
ImplementsValidLedger == Promised!Spec

=============================================================================
