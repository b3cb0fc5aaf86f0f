----------------------------- MODULE Dashboard -----------------------------
(***************************************************************************)
(* The dashboard (pages/DashboardPage.jsx) and the minute's cache behind   *)
(* it (Dashboard/dashboardCache.js): the value card, the chart and the     *)
(* allocation of one range, loaded together, kept by session, currency and *)
(* range. The currency may be changed elsewhere at any moment, and the     *)
(* token renewed or replaced by someone else's sign in.                    *)
(*                                                                         *)
(* A load asks for three things at once. The server computes them one      *)
(* after the other, so the currency of the first is the oldest of the      *)
(* three and stands for all (`made`). An account's settings of its         *)
(* currency are numbered in their order; the same currency may come back,  *)
(* and the code only ever compares the currencies themselves (CurrencyOf). *)
(* What the offline copy may answer instead is Session's. Time is counted  *)
(* in lives of a cache entry.                                              *)
(***************************************************************************)
EXTENDS Naturals, FiniteSets

CONSTANTS
  None,
  Ranges,
  Currencies,
  MaxCurrency,  \* bound: settings of its currency each account makes, from 0
  Chosen,       \* [accounts -> [0..MaxCurrency -> Currencies]]: what they are, in order
  MaxLoads,     \* bound: loads ever started
  MaxRefresh,   \* bound: refreshes and retries
  MaxTime

VARIABLES
  session,      \* [number, who]: the token in localStorage and whose it is
  currency,     \* server: [accounts -> number of the current setting]
  cache,        \* [Keys -> None or [entry, at]], module level: outlives the page
  known,        \* number of the setting UserContext has, None until the profile is there
  page,         \* the page's state, None while another page is shown
  flight,       \* loads on their way
  asked,
  now

dvars == <<session, currency, cache, known, page, flight, asked, now>>

Who == {0, 1}

Keys == [session : 0..1, currency : Currencies, range : Ranges]

CurrencyOf(w, setting) == Chosen[w][setting]

-----------------------------------------------------------------------------
(* dashboardKey: none until the user's currency is known.                  *)
KeyIn(c, p) ==
  IF c = None THEN None
  ELSE [session |-> session.number, currency |-> CurrencyOf(session.who, c), range |-> p.range]

Key(p) == KeyIn(known, p)

(* readDashboardCache: saved less than a minute before `at`.               *)
Cached(saved, key, at) ==
  IF key # None /\ saved[key] # None /\ saved[key].at >= at THEN saved[key].entry ELSE None

(* writeDashboardCache: saves one and drops the expired.                   *)
Written(key, entry) ==
  [k \in Keys |-> IF k = key THEN [entry |-> entry, at |-> now]
                  ELSE IF cache[k] # None /\ cache[k].at < now THEN None ELSE cache[k]]

(* What is on screen: the selected range, or meanwhile the newest loaded   *)
(* one, if it is in this currency.                                         *)
Current(p) ==
  IF Key(p) = None THEN None
  ELSE IF p.loaded[Key(p)] # None THEN p.loaded[Key(p)] ELSE Cached(cache, Key(p), p.clock)

Previous(p) == IF Key(p) = None \/ p.shownKey = None THEN None ELSE p.loaded[p.shownKey]

(* A slip: the range shown before may be of another currency. *)
AnyPrevious(p) == IF Current(p) # None THEN Current(p) ELSE Previous(p)

Shown(p) ==
  IF Current(p) # None THEN Current(p)
  ELSE IF Previous(p) # None /\ Previous(p).currency = CurrencyOf(session.who, known) THEN Previous(p) ELSE None

-----------------------------------------------------------------------------
(* The effect, after a render in which the key, a refresh or "Try again"   *)
(* changed. A load of the last render may no longer report its failure. A  *)
(* range fetched on this visit, for this refresh, is good for a minute. A  *)
(* load's `under` is history: the setting that was known when it began.    *)
Left == {[l EXCEPT !.ignored = TRUE] : l \in flight}

NeedsLoad(key, p) ==
  /\ key # None
  /\ ~(Cached(cache, key, now) # None /\ p.fetched[key] = p.refresh)

Render(key, p, setting) ==
  IF NeedsLoad(key, p)
  THEN /\ asked < MaxLoads
       /\ asked' = asked + 1
       /\ page' = [p EXCEPT !.fetched[key] = p.refresh]
       /\ flight' = Left \cup {[number |-> asked, key |-> key, who |-> session.who, made |-> None,
                                under |-> setting, ignored |-> FALSE, mounted |-> TRUE]}
  ELSE page' = p /\ flight' = Left /\ UNCHANGED asked

Opened ==
  [range |-> CHOOSE r \in Ranges : TRUE, clock |-> now, refresh |-> 0, failure |-> None,
   loaded |-> [k \in Keys |-> None], shownKey |-> None, fetched |-> [k \in Keys |-> None]]

Gone == {[l EXCEPT !.mounted = FALSE, !.ignored = TRUE] : l \in flight}

-----------------------------------------------------------------------------
Init ==
  /\ session = [number |-> 0, who |-> 0]
  /\ currency = [w \in Who |-> 0]
  /\ cache = [k \in Keys |-> None]
  /\ now = 0
  /\ known = None
  /\ page = Opened
  /\ flight = {}
  /\ asked = 0

(* UserContext learns the currency; only the newest answer counts, so it   *)
(* never goes back to an older setting. The same currency is the same key. *)
LearnCurrency ==
  /\ \E c \in (IF known = None THEN 0 ELSE known + 1)..currency[session.who] :
        /\ known' = c
        /\ IF page = None \/ KeyIn(c, page) = Key(page)
           THEN UNCHANGED <<page, flight, asked>> ELSE Render(KeyIn(c, page), page, c)
  /\ UNCHANGED <<session, currency, cache, now>>

SelectRange(range) ==
  /\ page # None
  /\ LET p == [page EXCEPT !.range = range, !.clock = now]
     IN IF range = page.range THEN page' = p /\ UNCHANGED <<flight, asked>> ELSE Render(Key(p), p, known)
  /\ UNCHANGED <<session, currency, cache, known, now>>

(* Pull to refresh, or the app coming back.                                *)
Refresh ==
  /\ page # None /\ page.refresh < MaxRefresh
  /\ Render(Key(page), [page EXCEPT !.refresh = @ + 1], known)
  /\ UNCHANGED <<session, currency, cache, known, now>>

Retry ==
  /\ page # None /\ page.failure # None /\ page.failure = Key(page)
  /\ Render(Key(page), [page EXCEPT !.failure = None], known)
  /\ UNCHANGED <<session, currency, cache, known, now>>

(* "Try again" of the allocation alone: its range is loaded again.         *)
RetryAllocation ==
  /\ page # None /\ Shown(page) # None /\ ~Shown(page).split
  /\ Render(Key(page), [page EXCEPT !.fetched[Key(page)] = None, !.clock = now], known)
  /\ UNCHANGED <<session, currency, cache, known, now>>

-----------------------------------------------------------------------------
(* The page is left and opened again, the cache is kept.                   *)
Leave ==
  /\ page # None
  /\ page' = None
  /\ flight' = Gone
  /\ UNCHANGED <<session, currency, cache, known, asked, now>>

Return ==
  /\ page = None
  /\ Render(Key(Opened), Opened, known)
  /\ UNCHANGED <<session, currency, cache, known, now>>

(* The app's token is renewed: the key of the next render is another one.  *)
Renew ==
  /\ session.number = 0 /\ page # None
  /\ session' = [session EXCEPT !.number = 1]
  /\ UNCHANGED <<currency, cache, known, page, flight, asked, now>>

(* Another account signs in, here or in another tab: every page mounts     *)
(* again without a user.                                                   *)
SwitchAccount ==
  /\ session = [number |-> 0, who |-> 0]
  /\ session' = [number |-> 1, who |-> 1]
  /\ known' = None
  /\ page' = Opened
  /\ flight' = Gone
  /\ UNCHANGED <<currency, cache, asked, now>>

(* The render after a renewed token runs the effect: its key changed.      *)
SeeRenewed ==
  /\ page # None /\ session.number = 1 /\ Key(page) # None
  /\ page.fetched[Key(page)] = None
  /\ Render(Key(page), page, known)
  /\ UNCHANGED <<session, currency, cache, known, now>>

-----------------------------------------------------------------------------
(* The server computes the first of the three replies.                     *)
Serve(l) ==
  /\ l.made = None
  /\ flight' = (flight \ {l}) \cup {[l EXCEPT !.made = currency[l.who]]}
  /\ UNCHANGED <<session, currency, cache, known, page, asked, now>>

(* All three are there; the allocation may have failed on its own. A range *)
(* the user has left meanwhile is kept too.                                *)
Arrive(l) ==
  /\ l.made # None
  /\ flight' = flight \ {l}
  /\ \E split \in BOOLEAN :
       LET entry == [currency |-> l.key.currency, made |-> l.made, under |-> l.under, who |-> l.who, split |-> split]
       IN /\ cache' = Written(l.key, entry)
          /\ page' = IF l.mounted
                     THEN [page EXCEPT !.loaded[l.key] = entry, !.shownKey = l.key,
                                       !.failure = IF @ = l.key THEN None ELSE @]
                     ELSE page
  /\ UNCHANGED <<session, currency, known, asked, now>>

Fail(l) ==
  /\ flight' = flight \ {l}
  /\ page' = IF l.mounted
             THEN [page EXCEPT !.fetched[l.key] = None, !.failure = IF l.ignored THEN @ ELSE l.key]
             ELSE page
  /\ UNCHANGED <<session, currency, cache, known, asked, now>>

ChangeCurrency ==
  /\ currency[session.who] < MaxCurrency
  /\ currency' = [currency EXCEPT ![session.who] = @ + 1]
  /\ UNCHANGED <<session, cache, known, page, flight, asked, now>>

Tick ==
  /\ now < MaxTime
  /\ now' = now + 1
  /\ UNCHANGED <<session, currency, cache, known, page, flight, asked>>

Next ==
  \/ LearnCurrency \/ Refresh \/ Retry \/ RetryAllocation
  \/ \E range \in Ranges : SelectRange(range)
  \/ Leave \/ Return \/ Renew \/ SwitchAccount \/ SeeRenewed
  \/ \E l \in flight : Serve(l) \/ Arrive(l) \/ Fail(l)
  \/ ChangeCurrency \/ Tick

Spec == Init /\ [][Next]_dvars

-----------------------------------------------------------------------------
(* Amounts in another currency than the symbol beside them were computed   *)
(* after a change the page had not learned of when it asked for them: none *)
(* of before a change it knows, nor anyone's under another account,        *)
(* whichever loads come in late, whatever the cache still holds.           *)
AmountsNotOlderThanSymbol ==
  page # None /\ Shown(page) # None =>
    LET shown == Shown(page)
    IN  /\ shown.who = session.who
        /\ CurrencyOf(shown.who, shown.made) # CurrencyOf(session.who, known) => shown.made > shown.under

=============================================================================
