# Zenith Wallet Tracker: specifications

TLA+ models of the parts of Zenith whose correctness depends on *when* things happen: requests that
interleave, answers that come late or never, retries, restarts, replays of a history that must agree with
each other. Every module is written from the source; `PROJECT.json` names, for each definition, the lines it
stands for.

Zenith is a FastAPI server (one process, asyncio, SQLite in WAL mode through async SQLAlchemy), a React
site and an iOS app around the same pages. A request on the server is a coroutine with a database session of
its own; it runs alone between two `await`s and interleaves with the others at each of them. A page is a set
of React components whose state changes in event handlers, effects and answers, one at a time but in any
order.

## Inventory

| Component | State | Operations | What is hard | What makes it correct |
|---|---|---|---|---|
| Trade ledger (`routes/assets.py`, `services/asset_services.py`) | the `transactions` rows and the profit stored with each | log, edit, delete a trade | three awaits between loading a trade and committing; a loaded object is not refreshed; only changed columns are written; one write lock; an edit may move a trade to another symbol | no committed history sells more than was owned; stored profits follow the history; a sell fits its account; limits hold |
| Holding replays (`asset_services.py`, `services/allocation.py`, `utils/accounts.js`) | none: computed from the trades | ledger check, holdings and chart, account split, allocation, the form's own hint | replays written separately, with a rounding tolerance each | they agree |
| CSV import, saving (`routes/imports.py`) | running ids and their events, kept answers, import times (memory); trades | commit an import, retry it | retries that overlap, fail or come after a restart; rows read before they are compared and inserted | rows are saved once per id; whoever waits is answered; quota |
| CSV import, the page (`Import/ImportSection.jsx`) | preview, ticks, the id of an import | preview, tick, import, try again | a lost answer while the server goes on; a new id for the same file | a row is saved once, and again only where its duplicate was ticked |
| Market analyst (`analyst/service.py`) | cached reports, locks and their users, slots per user and for everyone | get, refresh, forget a user | a clock read before a wait; slots given back by requests that fail; locks dropped when nobody has them | one report of an asset at a time, none too early, limits hold, everyone is answered |
| Analyst panel (`Analyst/*.jsx`, `useAnalystReport.js`) | the report shown, the clock's offset, the button | load, retry, refresh, count down | device clocks that are wrong; an answer for an asset left meanwhile | the button offers no refresh the server would refuse, and never spins for ever |
| Accounts (`routes/assets.py`, `authentication/`, `routes/oauth.py`, `pages/UserPage.jsx`) | the account, its version, the tokens of its devices | sign up, verify, log in, renew, change or reset the password, change the email, Google, sign out everywhere, delete | a hash in a thread between a check and its save; two commits of one request | a sign in that works was proved with the password in use, after the last sign out everywhere |
| Sweep of unconfirmed sign ups (`authentication/cleanup.py`) | - | select, then delete by id | a confirmation in between, itself two saves | no confirmed account is swept |
| API client and shared profile (`services/api.js`, `context/UserContext.jsx`) | the token, the requests on their way, the user | request, renew, save settings or password, sign out | refusals and new tokens for a token replaced meanwhile; profiles in any order | nobody is signed out whose token works; a saved currency is not undone |
| Offline copy (`native/offlineCache.js`) | scope, index, saved replies | remember, recall, forget | answers after a sign out or a currency change; a full storage | no one sees another's numbers, nor amounts of before a change of the currency the phone knew; what was used last is kept |
| App lock, app start, Keychain (`native/AppLock.jsx`, `lockRules.js`, `biometric.js`, `bootstrap.js`, `secureToken.js`) | locked, the sheet, the mirror of the token | leave, return, check, restore | events in any order; storage that iOS clears; Keychain calls that fail or answer late | nothing is shown unchecked; the Keychain holds the sign in |
| Dashboard (`pages/DashboardPage.jsx`, `dashboardCache.js`) | amounts shown, a minute's cache | load, refresh, switch range | loads that overlap; a currency changed elsewhere | amounts stand under the name of their currency, but for changes not learned of |
| Holdings, search, chart, reports screens | what is selected and shown, requests | load, retry, refresh, select | answers in any order | no spinner for nothing, no step back to older numbers |
| Transaction list and edit form (`pages/TransactionPage.jsx`, `Transactions/TransactionEdit.jsx`, ...) | list, filters, form | filter, edit, delete | late and lost lists; other devices | the list is of its filters; what was not typed is not sent |
| Add trade dialog (`TransactionCreate.jsx`, `TransactionSymbolSearch.jsx`, ...) | step, pick, form, scan | search, pick, back, close, save | late searches and saves; coins that share a ticker | the form is of the asset and the screenshot picked |
| Screenshot scan (`Transactions/TradeScan.jsx`, `textReader.js`) | one shared worker, the box | pick, read, cancel, ask the AI | scans cancelled at any wait; an idle timer | the worker serves the scan under way, the box shows the newest |
| Trade text reader (`Transactions/tradeTextParser.js`) | none | read rows, numbers, days, times | headings, fees, dividends between trades; 1,234 and 1.234,56 | a trade gets its own amounts; what is written is what is read |
| Exchange rates and price histories (`services/asset_services.py`) | rates, histories, when they were asked for, failures (memory) | get, share a fetch, fall back, prune | everyone notices the expiry at once; callbacks that run after the next request; fetches nobody waits for any more | an outside source is asked by one request at a time and not too soon; good answers outlast failures |
| CSV parsing, capital gains, analyst engine, rate limits, deploy scripts, iOS shell, legal pages | | | | not modelled, see below |

Interactions: the import writes the same `transactions` rows as the trade routes and is checked by the same
replay; the replays read what both commit; the pages reach all of it through the API client, whose replies
the offline copy keeps; the account's version decides which of the client's tokens work, the Keychain mirrors
the token, and the lock stands before the pages.

The hazards are listed with their lines in `PROJECT.json`; all but a few have a property below.

## Modules

On the server:

| Module | Models | Uses |
|---|---|---|
| `LedgerOps` | ledger order, `sell_tolerance`, `_replay_ledger`, `apply_trade`, `account_split`, `account_oversell_added`, a session's view of loaded trades | |
| `Ledger` | `make_transaction`, `update_transaction_with_id`, `delete_transaction_with_id` as interleaving requests | `LedgerOps`, `ValidLedger` (refinement) |
| `ValidLedger` | abstract: one trade changes at a time, always into a valid history | |
| `Holdings` | the replays of one holding, trade by trade | `LedgerOps` |
| `ImportCommit` | `commit_import`, `_commit` and what they keep in memory | |
| `AnalystReports` | `get_report`, `_asset_lock`, the slots, `forget_user` | |
| `Accounts` | one account, the handlers that change it, the devices signed in to it, and the sweep | |
| `RatesCache` | `get_all_conversion_rates`: the rates in memory, the lock, the pauses after a failure | |
| `SeriesCache` | `_cached_series`, `_fill_series`, `_series_fetch_done`: histories in memory, one fetch for all who wait | |

In the browser and the app:

| Module | Models |
|---|---|
| `Session` | token, requests, refusals, renewals, the shared profile; whose replies the offline copy keeps |
| `OfflineCopy` | the limits of the offline copy, its order of use, a full storage |
| `AppLock` | the app's start, the Keychain, the lock, the Face ID sheet |
| `Dashboard`, `Screens`, `AnalystPanel` | the screens that show numbers |
| `TransactionPage`, `TransactionEdit`, `AddTrade`, `ImportPage` | the pages that fill the ledger |
| `TradeScan`, `TradeText`, `WrittenValues` | from a screenshot to trades: the reader and its worker; the rows; the numbers, days and times |

Instances and proofs: `MCLedger`, `MCImportCommit` and `MCAnalystReports` have the constants of one module
each. `MCMoves`, `MCPages`, `MCPortfolio` and `MCAccount` also hold instances of the modules above that are
checked in the same run: the variable `part` picks one of them, which then moves alone, while every other
part's variables are `None` and stay so. The parts are explored one after the other, so their state spaces
add up, and a property `part = "x" => X!P` says of that part just what `P` says of its module. Parts are
never composed this way where they interact: `Ledger` with its replays, `Session` with whose replies are
saved, `AppLock` with the Keychain, `Accounts` with its devices are one module each.
`LedgerProofs`, `AnalystProofs`, `AccountsProofs`, `SessionProofs`, `MCAccountProofs`, `MCPortfolioProofs`,
`MCMovesProofs` and `MCPagesProofs` have the theorems: a module of one component about that component, a
module of a host about the parts it holds and about the specification its run checks. A host declares the
constants of its parts, with what the proofs assume of them, and the `.cfg` gives them their values; so the
theorems are about any values, and TLC evaluates the assumptions for the ones it runs with.

### Ledger

`trades` and `profit` are the committed rows; `writer` holds SQLite's write lock and `draft` is what its
transaction has written. `pc[p]` says at which await a request is: `rates` (exchange rates are loading),
`before` (shortfalls are about to be read), `flush` (about to take the lock), `settle` (written, replaying).
`seen[p]` is the trade as the session loaded it. Two library facts carry the model, both external:

- a `SELECT` never overwrites an object the session has already loaded (`AsLoaded`), so a replay uses the
  database's *other* rows and the session's own copy of this one;
- an `UPDATE` writes only columns whose value differs from the loaded one (`Changed`, and `LeavesProfit` for the
  profit the replay computes; `had` is the profit an edit has loaded).

The replay loads the other rows afresh, as nothing keeps the objects an earlier query of the session returned, so
only the edited trade keeps an old profit. `missed` is history: the trades an edit had nothing to write for although
another request had changed the column. Amounts the replay computes are compared with the column as numbers that
fit it: one that the column rounds is always written, which `Amount` has by giving a value one form.

The replay and the comparison run under the write lock, which is why they are one step (`Settle`); every
await before the lock is a step of its own. An edit that changes nothing takes no lock in the code and does
here: it then writes the row it found. Prices and profits are in one currency; names, notes, asset type and
coin ids are left out. A trade's quantity is a number of the smallest step; `ToleranceScale` is the
relative tolerance of `sell_tolerance`, whose other half is one step.

`EditsOverlap` says whether two requests may edit one trade at once (or delete one that is being moved to
another symbol). Run `ledger_overlap` allows it and shows what goes wrong; the other runs and two theorems
are about the system without it. This is an assumption about the users, not a promise of the code.

### Holdings

One step is the next trade of a history the ledger accepted. `ledger`, `owned`, `split` and `alloc` are what
the four replays have after it; `dust` adds up the tolerances of the sells of everything. `alloc` keeps, as
the code's dictionary does, only the accounts that hold something, and draws them down in its own loop;
`split` comes from `account_split`, written from that function. The hint of the add and edit forms
(`utils/accounts.js`) is a fifth replay, in the browser. Nothing makes them the same but the code.

### ImportCommit

`running`, `finished` and `counted` are the module-level dictionaries; a restart empties them and leaves
`saved`. A request waits for the event of a running id, is woken, and looks again. Reading the saved trades
(`ReadSaved`) and inserting (`Save`) are two steps, because the comparison runs in a thread between them.
Whether the rows are valid is a free choice (`Refuse`): that check is Ledger's. Kept answers may be
forgotten at any time (their lifetime and their number are limited in the code). The separate limit on
attempts is left out: it refuses before anything changes. A row ticked "import even if a duplicate" is exempt
from `NoExtraCopies`: sent again after a restart it is saved again, since the kept answers are in memory by
design.

### AnalystReports

`lockOf` and `lockUsers` are `_locks` and `_lock_users`; `queue` is who has a lock object, the holder first
(`asyncio.Lock` is first come, first served). `Older` is how many times `_drop_older_than` takes off the
front, which is not the same as taking out whatever is too old. A lock object outlives its entry, so dropping an entry too
early would be seen as two objects for one asset. `started` is `now`, read before the wait. The slots are
sequences of times, and `Refund` removes the newest of each, as the code does. `spent` is a history
variable: the requests that kept their slot. Collecting, building, rewording and saving are one stretch of
work that ends in `Save`, `NoData` (the slot is given back) or `Break` (any other error: it is not). The
sweep of idle users at ten thousand entries removes only windows whose slots have all expired and is left
out.

### Accounts

One account and several devices. A handler is three steps: `Load` (it reads the account and checks), `Save` (after the
hash in a thread, the account's row and its version change), `Finish` (the answer, with a token or none). A reset and
a confirmation save twice, in two commits, and other requests or a stop may come between: a confirmation sets
`verified` (is_verified) in `Save` and `confirmed` (ever_verified) in `Finish`. Google's callback is more steps: its
person is known when the request is sent, `Load` looks the account up, `Save` replaces a password and signs out
everywhere, `Link` reads the account again and links or makes it, and `GoogleEnds` saves what is left to be said of it
and writes the token. `since` and `password` of a token are history: the version and the password of when the person
proved who they are, for Google before the callback did anything. `stale` is the sweep between its select and its
delete.

### RatesCache and SeriesCache

The dictionaries of `asset_services.py` and what is served from them when an outside source fails. Time is
counted in ticks, the lifetimes are constants. In `RatesCache` a request looks, queues for the lock, looks
again and asks; `GiveUp` is `wait_for` cancelling it at either wait, `Restart` empties the memory. `last` is
history: how and when the last ask ended. In `SeriesCache` requests have no state, as a fetch is a task of
its own that goes on when its waiters are gone; a task ends (`BringSeries`, `BringNothing`, `FailFetch`) and
its callback runs later (`Forget`), so a request can come between the two. A failed fetch updates the entry
*object* it found, which may have been dropped from the dictionary meanwhile: an entry is known by the task
that made it. `good` is history: when the last good fetch of a key began. The answers themselves, the size of
the rates, the table of cross rates (the same double-checked refresh) and listing currencies are left out.

### Session and OfflineCopy

The code tells requests apart by counters and strings it only compares for equality: a request carries the result of
that comparison (`valid`: no sign out since; `current`: sent with the token in use; `newest`: the newest request for
the profile; `mounted`: its page is still there). The server answers, refuses, or takes its time (`Serve`); every
answer may come late, in any order, fail, or be given up on (`Unreachable`, which falls back to the saved copy). An
account's settings of its currency are numbered, so that "older" can be said, but what the code compares is the name
of the currency each setting chose (`Chosen`, `SameScope`), and a currency may be chosen again. `asked` of a copy is
history: the setting the phone knew when it asked. `Restart` is iOS stopping the app. `OfflineCopy` forgets whose the
replies are and counts room: the index, the limit of one screen, the limit of all, and a storage that refuses.

### AppLock

`start` is where `initNative` is, `lock` is the state of the component and its ref, `sheets` the Face ID
sheets that have not ended, `writes` the Keychain calls on their way, in order. Of time only two lengths
matter: whether the app was away longer than the grace period, and whether the sheet's own pause and resume
events are still expected. The restore goes from one await to the next (`LookUp`, `Clear` and `Mark` on a fresh
install, `KeychainAnswers`, `Restore`), and after the Keychain has answered it stores what was found whatever is in
storage by then; sign ins, sign outs, the lock and iOS come in between, and any of its calls may fail. `switching` are
the settings the preferences are about to save. `owed`, `late`, `quick`, `torn` and `lockedWhenLeft` are history,
explained at `Init`. An account page opened anew while a setting is still being saved is left out.

### The pages

A page's state is what its hooks hold; an effect and its cleanup are the `live`, `ignored` or `newest` of the request it
made. `Dashboard` counts time in lives of a cache entry and takes the first of a load's three answers for all; it keys
loads by the name of the currency, as the page does. `Screens` has one screen open at a time. `AnalystPanel` counts
minutes, with a device clock that may be wrong by any of `Skews`. `TransactionPage` knows a list by its filters and the
ledger's version; a list that gets no answer is an error or, in the app, a saved copy of the same filters of any version
(`ListLost`); what a dropped request is answered is forgotten, as nobody looks at it; `TransactionEdit` a trade by its
fields. `AddTrade` knows an asset by kind, api_id and, for a coin, its id; the form is kept while its key, the api_id
and the scan, stays. In `ImportPage` the server reads the saved trades and inserts in two steps (`ReadSaved`, `Insert`),
and imports under other ids go on in between; kept answers stay, as forgetting them and restarts are `ImportCommit`'s.
`AddTrade` and `TradeScan` share nothing but the screenshot that is picked. `TradeText` knows a row of a screenshot by
what the patterns find in it, and a value by the row it was read from, so that whose amount a trade was given can be
said; its `shot` grows row by row and everything else is an operator on it. `WrittenValues` writes numbers, days and
times in the styles of `Wholes`, `Days` and the code's patterns, and reads them back.

## Runs

Every `.cfg` has `CHECK_DEADLOCK FALSE`: ids, sends, trades, requests or ticks run out in a small instance,
and then nothing more may happen. In the code they do not.

| Run | Shows | Bounds, and why they do |
|---|---|---|
| `ledger` | types; no oversold history; a new sell fits its account; the routes implement `ValidLedger` | two requests, three ids, two symbols of which one may be held at a time, at most three trades; starting histories with a sell tagged to another account than its buy. Two requests are enough for every pair of awaits; a third id lets a trade be logged between the two there are; both limits are met by creates and by edits |
| `ledger_moves` | profits follow the history and harmless changes are saved while trades move between two symbols; the edit form sends only what was typed; and outside sources are asked once and not too soon | ledger: two symbols, a move, a new price, a dearer buy in the middle. Form: two fields of two values, one change elsewhere, two writes on their way, a trade that starts with the same value in both fields. Rates: three requests over seven ticks, fresh for three, two between failures, one when there is nothing: an expiry, a failure with old rates and one without, each with someone asking, someone waiting and someone coming. Histories: two keys, one entry before old ones are dropped, four task names, lives of one, a copy good for two, three ticks: a copy is dropped, and one is too old to fall back on |
| `ledger_limits` | the limit on trades is passed by at most one for each request but one, the limit on assets by at most one for each; and the pages that fill the ledger | ledger: limits of 3 trades and 1 asset with 5 ids and 4 assets, a user at the limit on assets, edits to two other assets. List: two texts, two actions, two requests. Dialog: a stock and two coins of one ticker, two each of searches, scans and saves. Scan: three screenshots, two scans not yet stopped, with and without Apple's reader. Text: every screen of up to four of the rows listed. Values: two on a screen, days around leap days and year ends. Import: three rows, of which one is saved already and one has a problem, two previews, three sends |
| `ledger_overlap` | **violated**: two edits of one trade commit an oversold history | one edit to a sell, one of the quantity |
| `ledger_refusal` | **violated**: a sell is refused though it makes no shortfall bigger | five trades whose untagged sells draw from the larger account; deleting one shifts the next |
| `holdings` | the replays agree, own account first; and what stands between the server and its screens | replays: up to six trades of 1, 2, 4 or 6 steps, two accounts and the untagged shares, `ToleranceScale` 3: positions on both sides of where the relative tolerance takes over, sells of exactly, nearly and just over everything. Session: two people, of whom one changes the currency there and back, one path, two requests at once of five: a sign out, a sign in and a late reply of before need three. Offline copy: five keys with room for less. Dashboard: two ranges, two currencies, each account changing there and back, two loads at once. Screens: two values of each choice, five requests. Analyst: clocks two minutes slow to three fast, a cooldown of three, seven minutes |
| `import_retries` | saved once per id, no extra copies, waiters answered | one id, three requests at once, four sends, a row that is twice in the file and one that is ticked: a first, a waiter, one that takes over, and one after a restart |
| `import_quota` | the quota is passed by at most the number of requests less one; and what stands in front of an account | quota: two ids and none, three at once, quota 1, four sends. Account: a phone with the app and a laptop, three requests, two of them at once, one new email: every pair of handlers crosses, a third request sees what they left; clicks on the links of confirmations are not counted. Lock: one new sign in beside an earlier one, one stop of the app or one call that fails, the lock on unless the app is newly installed |
| `import_two_tabs` | **violated**: one file under two ids is saved twice | two sends |
| `analyst` | one report of an asset at a time, entries counted, slots given back, no early replacement, waiters answered | two requests, two assets, two ticks; the time of a report is two, of a refresh one, a window one: a report can be young, refreshable and out of time, a slot can count and not. One user, so the two windows have the same limit |
| `analyst_hourly` | **violated**: a failure makes room for one report too many | a window and reports of two ticks, three ticks, two slots |
| `app_lock_return` | **violated**: a quick return opens a lock that was closed when the app was left | one sign in, the app never stopped, no call fails |

Symmetry is used for interchangeable requests, histories (`ledger_moves`) and the two assets trades are moved to
(`ledger_limits`), in runs without liveness properties.

### What the properties say

The ledger and its replays:

- `NeverOversold`: replaying any symbol's committed trades in ledger order never sells more than is there.
- `ImplementsValidLedger`: with `trades` as the abstract state, every step is one trade logged, amended or
  discarded into a valid history, or changes nothing that is committed.
- `NewSellsWithinAccount`: a newly logged sell has, in the history it is committed into, no shortfall over
  the tolerance, although the trades it was first compared with may have changed.
- `ProfitsFollowHistory`: the stored profit of a trade is what its symbol's history gives now, exactly unless an
  edit of it had nothing to write although another request had changed the column.
- `HarmlessChangesSaved`: a new buy and a deleted sell are never refused as overselling.
- `LimitsBounded`: by how much requests that run together can pass the limits (`TradesBounded` and `AssetsBounded`).
  The asset bound is one more than that of trades: an edit may be let through with all the assets that are allowed, if
  its trade is the last of its own asset, and while it waits another request logs a trade of that asset again. Two
  requests reach this bound when two assets are allowed; the run allows one, and so stays one below it.
- `SplitsAgree`, `LedgerCoversHolding`, `HintAgreesWithServer`, `OwnAccountFirst`: how the replays relate.

Imports and the analyst:

- `SavedOncePerId`, `NoExtraCopies`, `QuotaOvershootBounded`: the two guards of an import, and its quota.
- `SavedAsTicked`: seen from the page, a row is saved once, and once more for each time its duplicate was
  ticked and each time two imports under different ids both read it as new, however often answers are lost.
- `OneAtATime`, `ReplacedWhenDue`, `SlotsGivenBack`: the analyst's lock, second look and windows.
- `WaitersAnswered` (imports and analyst): whoever waits is answered.
- `AskedOnceAndKept`: when the rates expire or a history is missing, one request asks and nobody asks again
  before its outcome is used up, be it a failure; one history is never fetched twice at a time, and no failure
  takes the place of a good one of less than a day, also when entries are dropped during the fetch.
- `ButtonKeepsItsWord`: the panel's button against the server's cooldown and the device's clock.

Accounts, session, lock:

- `SessionsOfThePassword`: a sign in that works was proved with the password in use, after the last sign out
  everywhere, whatever was being served meanwhile; its three exceptions are below. `SweptNeverConfirmed`: the sweep,
  and a confirmation with its two saves.
- `CopiesFaithful`, `SavedSettingsStay`, `EndsOnlyRevoked`: the offline copy, the shared profile and the
  refusals, with answers in any order. A copy in another currency than the one it is filed under was computed after a
  change the phone did not know of when it asked. `KeptAreRecent`: what a full offline copy gives up.
- `ShownOnlyWhenChecked`, `KeychainFollows`: the lock, and what iOS clears. The unchecked show that
  `QuickReturnOpensOnlyUnlocked` finds is an exception of the first, `history.quick`.

The pages:

- `AmountsNotOlderThanSymbol`, `ScreensKeepUp`, `ListIsOfItsFilters`, `FormFollowsPick`, `ScansKeepUp`,
  `OthersChangesStay`: late, lost and overtaken answers. The dashboard's amounts are, like the copies, in the currency
  of the symbol or of after a change the page had not learned of; the list has what was saved or is a saved copy; the
  form saves the very asset picked, but for the coins of one ticker below.
- `ReadFromItsOwn`, `ReadAsWritten`: what is read off a screenshot.

One `TypeOK` each for `Ledger`, `ImportCommit` and `AnalystReports`; they also say who holds the lock, which
ids are marked as running, and which assets have a lock. The invariants proved of `Accounts` and `Session`
contain their types.

### Fairness

`ImportCommit!FairSpec` and `AnalystReports!FairSpec` assume weak fairness of each request's own steps: the
event loop runs every ready task, `httpx`, `wait_for` and SQLite's busy timeout end what a task waits for,
and `asyncio.Lock` and `Event` wake their waiters. Nothing is assumed of arrivals, deletes, time, forgotten
answers or restarts. In `import_retries` a waiter could be overtaken for ever by new sends that fail; the
bound on sends rules that out, so the property there says that the waiters are woken and answered once the
page stops sending. Everything else is safety. "No spinner for nothing" is a safety property here: an answer
that will be let through is on its way; that it comes is up to the network.

## What the violated runs show

1. `ledger_overlap` (`routes/assets.py:240`): two edits of one trade load it before either writes. The
   second writes only the columns it changed onto a row other than the one it replays.
2. `ledger_refusal` (`routes/assets.py:323`): `make_transaction` reads the shortfalls before it waits for
   the rates, and compares a history that changed meanwhile with them.
3. `import_two_tabs` (`routes/imports.py:300`): imports with different ids do not wait for each other, and
   both read the saved trades before either inserts.
4. `analyst_hourly` (`analyst/service.py:152`): the slot given back is the newest one, not the request's.
5. `app_lock_return` (`native/AppLock.jsx:131`): `unlockedWhenLeft` is of the last pause and never cleared.
   Left unlocked, Face ID cancelled on the return, then Control Center flicked down and up, which sends a
   resume without a pause: the lock opens without a check.

## What the properties leave out

Met while modelling, and excepted by name or by a history variable where a property would fail on it:

- **Ledger.** An edit whose replay gives the trade the profit it had loaded writes none, also when another request
  has committed a different one since (`assets.py:240-254`, `asset_services.py:1048-1055`): the other's stays until
  the symbol is replayed again (`missed`).
- **Session.** `changePassword` saves its token unconditionally (`api.js:734`, where a renewal looks first, 621), so a
  late answer brings a session back that was signed out meanwhile (`history.revived`). A profile answered late names
  the scope of the saved replies again (`offlineCache.js:106`), and scopes are compared by the currency's name (109).
  A reply asked under CAD and computed after a change to USD that the phone had not learned of is therefore filed
  under CAD, and recalled as CAD once the currency is changed back, although lines 7-8 say that a currency change
  never shows numbers saved for something else. A password change revokes the token other requests of the page were
  sent with; their refusal arriving first signs out.
- **Accounts.** A password change that crosses another sign out everywhere keeps its session
  (`history.crossed`). A Google sign in reads the account only after Google's proof (`oauth.py:126`, 163, 178), so it
  survives a sign out everywhere that was served in between (`history.outlived`). A reset cut between its two commits
  leaves old sessions alive (`history.stopped`). A confirmation commits is_verified and then ever_verified
  (`db_models/assets.py:218-220`): when the server stops in between, or the email is changed, the account counts as
  never confirmed once it has another email, and is swept (`history.halfway`), although `cleanup.py:6-7` says that
  accounts verified once are kept. The sweep also deletes an account confirmed between its select and its delete
  (`history.late`). Late answers of
  "log out everywhere", a new email or a deletion call `logout()` and sign out whoever signed in meanwhile
  (`UserPage.jsx:120,149,186`).
- **AppLock.** The lock lets the portfolio be seen unchecked in these cases. A check that succeeds in the background,
  or a Keychain that answers after the lock has stopped waiting, opens it; and a lock turned on just before the app is
  left does not cover it, as it hears of the setting only when the preferences have saved it (`biometric.js:67-72`):
  the app is then on the screen however long it was away (`history.late`). And a quick return opens a lock that was
  closed when the app was left, which is run `app_lock_return` (`history.quick`). The Keychain does not follow when the
  call of the last sign in or out fails, which is swallowed (`secureToken.js:48`), is lost with the app, or meets a
  restore still waiting: `secureToken.js:33-35` looks at storage, waits for the Keychain and then stores what it found,
  over a sign in that came meanwhile on the login page a slow start shows (`history.torn`).
- **Dashboard.** A load begun on an earlier stay is ignored when it answers, and returning within the minute skips a
  new one (`DashboardPage.jsx:90`): if the earlier one failed, the skeleton stays. Until the page learns of a currency
  change elsewhere, newer amounts stand under the older symbol; and as loads are kept by the name of the currency (71,
  75, 102), amounts computed in USD under a load asked for in CAD are shown as CAD again when the currency is changed
  back within the stay or the minute of the cache, although the comment at 76-77 says otherwise.
- **List.** In the app a list that gets no answer is the saved copy of these filters (`api.js:163-169`,
  `offlineCache.js:14`): after a save, a lost reload shows the list of before it, without an error and as loaded. A
  banner says that saved data is shown, until any next answer from the server takes it away (`connectivity.js:48-50`).
- **Screens and panel.** A refresh of the chart's own range that fails offers no "Try again" (`HoldingsChart.jsx:75`);
  a failed refresh of a report without sales shows no error (`ReportsPage.jsx:98`); an earlier year's error stays
  while another loads. A cached report tells nothing about the device's clock: a fast one offers Refresh early, and
  the server's 429 is shown.
- **Add trade.** The form keeps the coin it was opened with (`TransactionCreate.jsx:27-30`) while its key is the
  ticker (`TransactionPage.jsx:263`): a coin picked while the form of another coin of that ticker is open is saved as
  the first, although `tradeForm.js:66-67` says that the id has to come along. A late answer to a save closes a dialog
  opened again meanwhile (`TransactionPage.jsx:268`); a trade whose answer was lost and that is saved again is logged
  twice.
- **Scan and text.** A cancelled reading that is still preparing its image clears the progress of the next
  (`textReader.js`). A screen with a single trade is not cut at dividend rows or day headings below it
  (`tradeTextParser.js:1110`). "mar. 30 oct." without a year is read as March 30. On a French screen without
  cents anywhere 0,125 reads 125, and 12.40 reads 0 or 12, as the fourth alternative of the pattern at 441
  is never tried.
- **Import.** A file chosen again after a lost answer gets a new id. When the first import has read the saved trades
  and not inserted yet, the second finds no duplicates and the rows are saved twice, as in `import_two_tabs`
  (`imports.py:299-300`, `crossed`). Ticks changed after a lost answer are sent under the same id and get the first answer
  (`ImportSection.jsx:94`).
- **Analyst.** A forced refresh checks the cooldown before it waits for the lock and not after, so two
  refreshes may follow each other at once; an error other than missing data or a timeout keeps its slot.

## Theorems

All are proved by TLAPS for every value of the constants the named assumptions allow.

| Theorem | Statement | Assumes besides the constants' types |
|---|---|---|
| `LedgerProofs!TypeCorrect` | `Spec => []TypeOK` | |
| `LedgerProofs!LedgerNeverOversold` | `Spec => []NeverOversold` | `EditsOverlap = FALSE` |
| `LedgerProofs!LedgerRefinement` | `Spec => ImplementsValidLedger` | `EditsOverlap = FALSE` |
| `LedgerProofs!StoredProfitsFollowHistory` | `Spec => []ProfitsFollowHistory` | `EditsOverlap = FALSE` |
| `LedgerProofs!TradesLimit` | `Spec => []TradesBounded` | |
| `LedgerProofs!AssetsLimit` | `Spec => []AssetsBounded` | |
| `LedgerProofs!LimitsHold` | `Spec => []LimitsBounded`, of the two above | |
| `LedgerProofs!NewSellsFit` | `Spec => NewSellsWithinAccount` | |
| `LedgerProofs!HarmlessAreSaved` | `Spec => HarmlessChangesSaved` | `EditsOverlap = FALSE` |
| `MCAccountProofs!TypeCorrect` | `Spec => []TypeOK` | |
| `MCAccountProofs!SavedOnce` | `Spec => []SavedOncePerId` | |
| `MCAccountProofs!QuotaOvershoot` | `Spec => []QuotaOvershootBounded` | |
| `MCAccountProofs!RetriesLeaveNoCopies` | `Spec => []NoExtraCopies` | every request carries one and the same id |
| `AnalystProofs!TypeCorrect` | `Spec => []TypeOK` | |
| `AnalystProofs!OneReportAtATime` | `Spec => []OneAtATime` | |
| `AnalystProofs!NotReplacedEarly` | `Spec => ReplacedWhenDue` | |
| `AnalystProofs!SlotsAreGivenBack` | `Spec => []SlotsGivenBack` | |
| `AccountsProofs!WorkingSessionsAreOfThePassword` | `Spec => []SessionsOfThePassword` | |
| `AccountsProofs!SweptNeverConfirmedAnAddress` | `Spec => []SweptNeverConfirmed` | |
| `SessionProofs!CopiesStayFaithful` | `Spec => []CopiesFaithful` | `None` is not a token |
| `SessionProofs!SavedSettingsAreKept` | `Spec => []SavedSettingsStay` | `None` is not a token |
| `SessionProofs!RefusalEndsOnlyRevoked` | `Spec => []EndsOnlyRevoked` | `None` is not a token |
| `MCAccountProofs!LockIsSafe` | `Lock!Spec => [](Lock!ShownOnlyWhenChecked /\ Lock!KeychainFollows)` | |
| `MCAccountProofs!NothingIsShownUnchecked` | `AccountSpec => []ShownOnlyWhenChecked` | |
| `MCAccountProofs!TheKeychainFollowsTheSignIn` | `AccountSpec => []KeychainFollows` | |
| `MCAccountProofs!SessionsAreOfThePassword` | `AccountSpec => []SessionsOfThePassword` | |
| `MCAccountProofs!TheSweepSparesTheConfirmed` | `AccountSpec => []SweptNeverConfirmed` | |
| `MCPortfolioProofs!LedgerCovers` | `Spec => []LedgerCoversHolding` | |
| `MCPortfolioProofs!TheSplitsAgree` | `Spec => []SplitsAgree` | |
| `MCPortfolioProofs!TheHintAgrees` | `Spec => []HintAgreesWithServer` | |
| `MCPortfolioProofs!OwnAccountComesFirst` | `Spec => OwnAccountFirst` | |
| `MCPortfolioProofs!TheReplaysAgree` | the four above, of `PortfolioSpec` | |
| `MCPortfolioProofs!CopiesStayFaithful` | `PortfolioSpec => []CopiesFaithful` | |
| `MCPortfolioProofs!SavedSettingsAreKept` | `PortfolioSpec => []SavedSettingsStay` | |
| `MCPortfolioProofs!RefusalEndsOnlyRevoked` | `PortfolioSpec => []EndsOnlyRevoked` | |
| `MCPortfolioProofs!TheButtonKeepsItsWord` | `PortfolioSpec => []ButtonKeepsItsWord` | |
| `MCPortfolioProofs!TheDashboardShowsItsCurrency` | `PortfolioSpec => []AmountsNotOlderThanSymbol` | there is a range |
| `MCPortfolioProofs!TheScreensKeepUp` | `PortfolioSpec => []ScreensKeepUp` | finitely many years |
| `MCPortfolioProofs!TheLatestAreKept` | `PortfolioSpec => []KeptAreRecent` | one reply is kept of a screen at least |
| `MCMovesProofs!HistoriesAreKept` | `Series!Spec => [](Series!OneFetch /\ Series!GoodStays)` | |
| `MCMovesProofs!RatesAreAskedOnce` | `Rates!Spec => []Rates!AskedOnce` | |
| `MCMovesProofs!SourcesAreAskedOnce` | `MovesSpec => []AskedOnceAndKept` | |
| `MCMovesProofs!TheFormSparesOthers` | `MovesSpec => OthersChangesStay` | |
| `MCPagesProofs!TheListSettles` | `PagesSpec => []ListIsOfItsFilters` | |
| `MCPagesProofs!TheFormIsOfThePick` | `PagesSpec => []FormFollowsPick` | |
| `MCPagesProofs!TheReaderKeepsUp` | `PagesSpec => []ScansKeepUp` | |
| `MCPagesProofs!TradesAreReadFromTheirOwn` | `PagesSpec => []ReadFromItsOwn` | |
| `MCPagesProofs!RowsAreSavedAsTicked` | `PagesSpec => []SavedAsTicked` | |

The types of the constants include that `None` and its likes, which stand for nothing at all, are none of the
values they stand beside. What a host's theorems need of this is its `ASSUME`s (`SessionAssumption`,
`PanelAssumption`, `HomeAssumption`, `ScreensAssumption`, `OfflineAssumption`, `RatesAssumption`, `SeriesAssumption`,
`ListAssumption`, `AddAssumption`, `TextAssumption`).

A part of a host moves alone, so its invariant `I` is proved as `part = "x" => I`: a step of the part keeps
`I`, and a step of another leaves the part's variables. Where a component has a proof module of its own
(`AccountsProofs`, `SessionProofs`), the host takes that module as an instance and cites its lemmas.

**The ledger.** `NeverOversold` is not inductive: a commit replays the *session's* view of the trade, and
only what is known of that view ties it to the rows. The invariant adds `KeptApart` (no two requests work
on one trade in a way that matters) and, for each request, `Known`: between its load and its write an
edited trade is in the database as it was loaded or not at all, a deleted one still has the symbol it was
loaded with, and in `settle` the draft differs from the committed rows by this request's one trade. Then
the session's view of every affected symbol *is* the draft's, the symbols not affected are unchanged, and
the refusal in the code is the refusal the property needs. Here `Replay` is never unfolded: the
proof shows that the code replays the right history, for any replay.

**A new buy, a deleted sell.** That neither is ever refused is about the replay itself. The history that is compared
is the committed one with a buy put in or a sell left out (the draft, from the invariant above). Ledger order is
order by rank (`LedgerOrderSorts`), so the other trades keep their order (`PutIn`, `OrderWithout`); by induction over
the history, the replay with one buy more or one sell less owns at least as much at each of them
(`StepKeepsMore`). So no shortfall is new or larger, and nothing is refused (`HarmlessTrade`).

**A new sell.** Shortfalls that a request has read are of trades it has read, all logged before (`BeforeIssued`), and
only a create puts in a trade that it has not read (`DraftOfNew`). So the commit compared the new sell with no
shortfall at all, and saved it only without one worth a refusal. This holds with overlapping edits too.

**Stored profits.** The invariant beside the above is the property itself. A commit stores, for every trade of
an affected symbol but the one an edit has nothing to write for, what a replay of the session's view of that symbol
gives it, and that view is the written rows (`ObjectIsWritten`, the fact above). What is left is right exactly when it is
what was loaded, since the replay gave just that. The rows of every other symbol, their profits and whether they were
missed are as they were.

**The limits.** The count of trades can rise only by requests already past the check; the invariant bounds
the committed trades plus those on their way (`Room`), with a case for the one that is in the draft. Deletes
and edits can also take an asset away, so for assets it is the set that counts: the assets traded together with
those the running requests are to trade (`Held`) grow only when a request is let through, and then no more than
`MaxSymbols` are traded and no more than one is wanted by each request. A draft has nothing that is not in it.

**The holdings.** The ledger is ahead of the page by at most `dust`; a sell of everything on the page leaves
at most the tolerance more in the ledger. For the two splits (`SplitInv`): the accounts the allocation has are
those the account check gives some, with as much, and they add up to what is owned. A sell keeps this because both
draw down in one order (`DrawOrderSorts`: putting the accounts by rank sorts them) and, draw by draw, what the
allocation still has to take is what the check's closed form leaves after the accounts drawn before (`OneDraw`,
`DrawsAgree`). That sums move as one of their accounts does (`TotalMoves`) is by induction. The hint of the add form
is the allocation's, so it is the check's shares once the two agree, and less than the ledger's only by `dust`. The
accounts a sell has no need of come after those that suffice, so nothing is left to take from them
(`OthersAreSpared`).

**Imports.** At most one request per id is inside `_commit`; an id inside has no kept answer; an id whose rows were
saved has its answer kept or is about to have it. For `NoExtraCopies`: while a request is inside, nobody else can
insert (all carry one id) and deletes only lower the count, so what it has read is never less than what is saved, and
what it adds never more than what is missing. For the quota, imports counted plus those inside and past the check stay
within the bound.

**The analyst.** A busy request's lock object is the one registered for its asset; the line of an object has
busy requests that have it, once each; the count is the number of busy requests, so a count of one means
that nobody else is busy and dropping the entry strands no one; whoever works is at the head of the line,
and the report is still due. Two workers of one asset then have one lock and one head.

**The slots.** A refund removes the newest slot, which may be another request's, and of each window another's.
So slots cannot be matched with requests one by one, and `SlotsGivenBack` is not inductive: it counts from one
time only, the beginning of the window. The invariant (`SlotsInv`) says the same of *every* time from there on:
in a window that is in time order, there are no more slots from `c` on than requests that work on a slot from
`c` on or kept theirs. A refund by a request whose slot is from `c` on takes a slot from `c` on if there is
any; a refund by another only lowers the count; a new slot is the newest, so it raises the count at exactly the
times its request is counted at. Expired entries are dropped in front, and in time order that is all of them
(`OlderFits`, `CountUnexpired`). The lemmas `Count...` say how many entries of a sequence are in a set as it is
appended to, shortened at its end and dropped from at its front.

**Accounts.** A token says which version it is of, and history says with which password. Neither the property
nor the types are inductive: a request in the middle of its work holds what it has *seen* of the account, and
may yet turn it into a token. The invariant says of every token, of what every request carries, has seen and
is about to be given, that it is of one moment (`Current`): no newer than the account, and if of its version
then of its password, unless a reset is between its saves or the account is gone; a Google request carries what was
true at its proof, and has seen the account again by the time it has a token. A step that changes the
password changes the version with it, or is the second half of a reset; every other step leaves both, so
`Current` holds of everything still on its way. It fails only for the exceptions of the property. That the
sweep's read was of an account that never confirmed (`Unconfirmed`) is kept until something confirms it, which
`history.late` records. For an account it has yet to read: one whose address was confirmed is marked so, or it still
counts as verified and a request is between the two saves of a confirmation (`Marked`, `Confirming`), so that the sweep
passes it over either way; a stop or a change of the email ends that, and is `history.halfway`.

**The session.** The properties speak of the copies and the user shown; why they hold is in the requests still on
their way. `SentNow`: a request that is still current was sent with the token in use, and shares its fate, so a
refusal of a current request is a refusal of that token (`Answered`), and nobody is signed out otherwise. `Own`: a
request still valid, mounted or newest was asked for by who is signed in now, under a scope of theirs no newer than
the setting it was or will be answered under, and the newest profile request answers with nothing older than what was
saved. `OwnCopies`: a copy was computed under the setting it was asked under, and then its currency is the one that
names its place, or under a later one. A sign out takes all three flags from every request (`LogOutStep`), a settings
answer takes `newest` from the others, and a new request is like the state it was sent in. Most actions only take
requests away or attend to them less (`Fewer`); two lemmas (`SteadyStep`, `QuietStep`) deal with all of those, and the
others have one of their own. A password change that revives a session ends these facts, which is why the properties
except it: the invariant is `history.revived \/ AllOwn`, while types, `SentNow` and `~history.cut` hold throughout.

**The offline copy.** The index is in the order of use as far as it goes (`Kept`), has nothing twice and, with the
replies, fits the storage (`KeptWithin`). Whatever goes, from a full storage or beyond a limit, is the first of its
screen in the index (`OldestOfScreen`), so it was used before what stays; the key in use is the last and never goes
(`EvictsOldest`). Only an index that cannot be written could put the order at risk: then the key was not in it
before, as an index of the same keys would have fitted (`NoneTwiceIsShorter`, by counting).

**The lock.** Open, the app is open because of a check, because the setting is off, or for one of the
exceptions, and a lock that opens on a quick return was open by one of these when the app was left
(`OpenWhenChecked`, `QuickOpensChecked`). The Keychain's calls end in the order they began, so what it will
hold is what the last of them tells it: the token in use (`Follows`). While the restore waits for the Keychain nobody
is signed in and no call is on its way, and what it was told is what the Keychain has; a sign in at that time is
one of the exceptions, as are the calls that fail or are lost.

**The panel.** The device's clock is ahead by `skew`, and the offset a report tells is at least that, or the
most that is made up for, because an answer is never from the future (`NotAhead`, `OffsetCovers`); and a
request on its way belongs to the panel that is shown (`AsksOfPanel`), so the button is not left spinning.

**The dashboard.** An entry under a key is of the account whose token the key names, and computed under the setting it
was asked under, whose currency is the key's, or under a later one, wherever it is: saved, shown, or still to be
answered (`Right`, `PageRight`, `LoadRight`, `CacheRight`). The page shows an entry only under the key of what it
knows to be selected.

**The screens.** Requests are numbered as they are sent and of a kind at most one is attended to (`Orderly`);
each screen's waits are tied to that request (`HoldingsWait`, `ChartWait`, `SearchWait`, `ReportWait`); what is
loaded has a lower number than whatever still counts (`Newer`), so no answer steps back.

**The exchange rates.** The line has everyone who waits or asks, once each, and only its head asks (`Lined`).
What is in memory is of the last ask (`Remembered`): after a good answer the rates are fresh, after a failure the
pause is set, whichever kind of failure it was. So who finds nothing of use at the head of the line asks when the
last outcome is used up (`AsksDue`), although the clock it compares was read before it waited.

**The edit form.** A write on its way has only fields that were typed into (`EditInv`), as the form compares
with what it was opened with.

**The list.** At most one request still counts (`OneCounts`), and unless the effect is about to send another it is of
the filters shown and, if read, read after every change the page was told of (`CountsForThePage`). So what arrives and
counts is the list the page should show. A saved copy is of the same filters, and says that it is one. That a request
overtaken by a newer one no longer counts is the cleanup of the effect, and only the step that sends a request needs
it.

**The add dialog.** At most one search is the newest, it is of the kind the search is set to, and the dialog says
it is searching exactly while there is one (`OneSearch`); the form is there while the dialog is at its step, and is
of the scan the pick came with and of the pick itself, or of a coin with its ticker (`OneForm`, `Saves`): a new pick makes
a new form unless both have one key, and a stock is told from a coin by its api_id (`AddAssumption`).

**The reader.** A scan that is cancelled goes on only to shrink or draw its image, which nobody can stop
(`CancelledWait`), and the idle timer runs only while no scan that counts reads (`TimerWaits`); with these the
worker's part is inductive (`WorkerInv`). The box's part (`BoxInv`): one scan at most is not cancelled, it is of the
screenshot picked last, and once its image is shrunk that is the image kept (`OneScan`, `OfTheNewest`); what the box
offers to do goes with that image (`OffersTheNewest`), and it is busy exactly while there is such a scan that is
not waiting for a choice (`BusyScanning`).

**The text.** The state is the rows alone; what is read of them is two recursions over a range of rows, the labels
and the free text. Along the first (`LabelsRead`), no label that works is another's value, so a fee or an order
number is read when its row comes and marks its row, and the row below that it takes (`Marked`). So the free text
leaves both out, and what it finds on the other rows is their own; along both, what has been found is on the rows
read (`Own`). No other anchor is between an item's start and its own, so the next item starts after this anchor and
ends this item; so do a dividend and a day heading (`ItemIsOfItsAnchor`). A day heading can then only be one above
the anchor, among the item's rows or the nearest (`NearestHeading`).

**The import page.** `SavedAsTicked` speaks of what is saved; a row may also be on its way, in a try that is not
answered yet, and be saved later. `EachTickedOnce` bounds all of it together: the copies saved of a row, the tries
still to come that save it even as a duplicate (`ToCome`) and those that have read the trades without it and are about
to insert it (`AsNew`) are no more than one, the times it was ticked and the times it was read as new by two at once.
A try that comes after another under the same id adds nothing, and a second one joins `AsNew` only where `crossed`
counts it. What an answer stands for is saved (`AnswersHold`), and a row with a problem is in no try (`BadStayOut`).

**The price histories.** A task that is not finished is the one registered for its key (`Registered`), although
finished tasks may be forgotten after another has taken their place: so there is one. For `GoodStays`: a key whose
last good history is recent still has it in the cache (`KeptFor`), since what is dropped was not even looked at for as
long; a fetch that found nothing to fall back on therefore began long after the last good one, and what another found
is there still or was dropped (`FoundFits`). So a failure is stored only where no recent good history was.

Induction is used where recursive functions are (replays, the sums of the splits, the draws of a sell, filtered
keys, rows of text): the lemma `Induction` (or `UpFrom`) says it of sets of numbers, as a formula cannot be a
parameter, and follows from `WFMin` of the library. `SmallestOf`, `Largest` and `OlderFits` find an extreme element
the same way.

### Model-checked only

- Liveness (`WaitersAnswered`).
- `ReadAsWritten`: numbers are put together by folds and days found by `SelectInSeq`, which take an operator that no
  prover here can instantiate. Its amounts, days and styles are a fixed handful, and TLC goes through them all.

## Not modelled

- **CSV parsing** (`services/imports.py`): detecting columns and reading cells is text; what the preview marks
  as a duplicate is the comparison `ImportCommit` saves by.
- **Typed currencies, capital gains, reports**: sums of products with rates of many days in floating point;
  small integers would show nothing of what could be wrong.
- **Cross rates, listing currencies, search, charts on the server**: views of outside services over dictionaries in
  memory; cross rates are refreshed the way `RatesCache` has it. The ledger waits for rates without looking at them.
- **Analyst engine**: scores and wording from price series, in floating point.
- **Rate limits**: refuse before anything changes; every model lets a request be refused.
- **Scan on the server, password hashing, emails**: outside services; their answers, errors and delays are
  choices of the models.
- **Deploy, backup and restore scripts, schema migrations**: run by hand or once at a start.
- **Layout, legal pages, haptics, the network banner, the iOS shell**: no state of the program's own logic.

What would come next: the website's swap in `deploy.sh` with a stop between any two commands.

## Reading and running

Start with `Ledger.tla` and `ValidLedger.tla`, then `LedgerProofs.tla`; for the app with `Session.tla`, then
`SessionProofs.tla` and `MCPortfolioProofs.tla`. The runs with several parts are read from the module of the part; the
host only picks its constants.

    tlc -workers 2 -config MCLedger.cfg MCLedger
    tlc -workers 2 -config MCPortfolio.cfg MCPortfolio
    tlapm SessionProofs.tla
