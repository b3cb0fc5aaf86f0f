---------------------------- MODULE SeriesCache ----------------------------
(***************************************************************************)
(* The price histories in memory (_cached_series of asset_services.py):    *)
(* requests that miss together share one fetch, a fetch that brings        *)
(* nothing leaves the last good history of up to a day in place, and       *)
(* entries nobody has asked about for a day are dropped when the cache is  *)
(* full.                                                                   *)
(*                                                                         *)
(* A fetch is a task of its own, which a waiter that gives up does not     *)
(* stop (asyncio.shield): requests have no state here. When a task ends,   *)
(* the callback that forgets it is only scheduled: a request may come      *)
(* first, see that the task is done, and start another.                    *)
(***************************************************************************)
EXTENDS Integers, FiniteSets, Functions

CONSTANTS
  None,
  Keys,         (* the histories: source, ticker, period, interval         *)
  KeepFor,      (* ttl of a history (SERIES_CACHE_SECONDS)                 *)
  EmptyFor,     (* ttl of an empty answer (COINGECKO_EMPTY_SECONDS)        *)
  FailureFor,   (* FAILURE_SECONDS                                         *)
  StaleFor,     (* STALE_SECONDS                                           *)
  MaxEntries,   (* entries before old ones are dropped (5000)              *)
  Tasks,        (* names of tasks (numbers): bounds those alive at once    *)
  MaxClock      (* bounds the time                                         *)

VARIABLES
  clock,
  cache,      (* _series_cache: key -> entry, with the task that made it   *)
  tasks,      (* task -> its key, state, `now`, and the entry it found     *)
  inflight,   (* _series_inflight: key -> task                             *)
  good        (* history: when the last good fetch of each key began       *)

vars == <<clock, cache, tasks, inflight, good>>

-----------------------------------------------------------------------------
Init ==
  /\ clock = 0
  /\ cache = << >> /\ tasks = << >> /\ inflight = << >>
  /\ good = [k \in Keys |-> None]

With(f, x, v) == [y \in DOMAIN f \cup {x} |-> IF y = x THEN v ELSE f[y]]

Without(f, x) == Restrict(f, DOMAIN f \ {x})

(* Served, or its error raised again.                                      *)
Hit(k) ==
  /\ k \in DOMAIN cache /\ clock - cache[k].checked < cache[k].ttl
  /\ UNCHANGED vars

Miss(k) == k \in DOMAIN cache => clock - cache[k].checked >= cache[k].ttl

Running(k) == k \in DOMAIN inflight /\ tasks[inflight[k]].state # "done"

Join(k) ==
  /\ Miss(k) /\ Running(k)
  /\ UNCHANGED vars

(* The name of a task serves again when it is forgotten and no entry in    *)
(* the cache, or held by a task, is of its making.                         *)
Named == DOMAIN tasks \cup {cache[k].made : k \in DOMAIN cache} \cup {tasks[t].entry : t \in DOMAIN tasks}

StartFetch(k) ==
  LET task == CHOOSE t \in Tasks : t \notin Named
  IN  /\ Miss(k) /\ ~Running(k)
      /\ Tasks \ Named # {}
      /\ tasks' = With(tasks, task, [key |-> k, state |-> "new", now |-> None, entry |-> None])
      /\ inflight' = With(inflight, k, task)
      /\ UNCHANGED <<clock, cache, good>>

(* _fill_series up to the fetch: the entry, if its history is not too old. *)
Begin(t) ==
  LET k == tasks[t].key
      stale == k \in DOMAIN cache /\ cache[k].series = "good" /\ clock - cache[k].fetched < StaleFor
  IN  /\ tasks[t].state = "new"
      /\ tasks' = [tasks EXCEPT ![t].state = "fetching", ![t].now = clock,
                                ![t].entry = IF stale THEN cache[k].made ELSE None]
      /\ UNCHANGED <<clock, cache, inflight, good>>

EndTask(t) == tasks' = [tasks EXCEPT ![t].state = "done"]

(* entry.update: of the entry found, which may be in the cache no more.    *)
Touch(t) ==
  LET k == tasks[t].key
  IN  cache' = IF k \in DOMAIN cache /\ cache[k].made = tasks[t].entry
               THEN [cache EXCEPT ![k].checked = tasks[t].now, ![k].ttl = KeepFor]
               ELSE cache

Entry(t, series, ttl) ==
  [series |-> series, fetched |-> tasks[t].now, checked |-> tasks[t].now, ttl |-> ttl, made |-> t]

Pruned(now) ==
  IF Cardinality(DOMAIN cache) > MaxEntries
  THEN Restrict(cache, {k \in DOMAIN cache : now - cache[k].checked <= StaleFor})
  ELSE cache

BringSeries(t) ==
  /\ tasks[t].state = "fetching"
  /\ cache' = With(Pruned(tasks[t].now), tasks[t].key, Entry(t, "good", KeepFor))
  /\ good' = [good EXCEPT ![tasks[t].key] = tasks[t].now]
  /\ EndTask(t)
  /\ UNCHANGED <<clock, inflight>>

BringNothing(t) ==
  /\ tasks[t].state = "fetching"
  /\ IF tasks[t].entry # None
     THEN Touch(t)
     ELSE cache' = With(Pruned(tasks[t].now), tasks[t].key, Entry(t, "empty", EmptyFor))
  /\ EndTask(t)
  /\ UNCHANGED <<clock, inflight, good>>

FailFetch(t) ==
  /\ tasks[t].state = "fetching"
  /\ IF tasks[t].entry # None
     THEN Touch(t)
     ELSE cache' = With(cache, tasks[t].key, Entry(t, "error", FailureFor))
  /\ EndTask(t)
  /\ UNCHANGED <<clock, inflight, good>>

ForgetKey(t) ==   (* a slip: whichever task the key has now *)
  /\ tasks[t].state = "done"
  /\ tasks' = Without(tasks, t)
  /\ inflight' = Without(inflight, tasks[t].key)
  /\ UNCHANGED <<clock, cache, good>>

(* _series_fetch_done: only if the key still has this task.                *)
Forget(t) ==
  /\ tasks[t].state = "done"
  /\ tasks' = Without(tasks, t)
  /\ inflight' = IF <<tasks[t].key, t>> \in {<<k, inflight[k]>> : k \in DOMAIN inflight}
                 THEN Without(inflight, tasks[t].key) ELSE inflight
  /\ UNCHANGED <<clock, cache, good>>

Tick ==
  /\ clock < MaxClock
  /\ clock' = clock + 1
  /\ UNCHANGED <<cache, tasks, inflight, good>>

Next ==
  \/ \E k \in Keys : Hit(k) \/ Join(k) \/ StartFetch(k)
  \/ \E t \in DOMAIN tasks : Begin(t) \/ BringSeries(t) \/ BringNothing(t) \/ FailFetch(t) \/ Forget(t)
  \/ Tick

Spec == Init /\ [][Next]_vars

-----------------------------------------------------------------------------
(* One history is never fetched twice at a time, though requests come      *)
(* between the end of a task and its callback.                             *)
OneFetch ==
  \A t, u \in DOMAIN tasks :
    {tasks[t].state, tasks[u].state} \subseteq {"new", "fetching"} /\ tasks[t].key = tasks[u].key => t = u

(* After a good fetch no empty answer and no failure of the next StaleFor  *)
(* takes its place, whatever was dropped meanwhile (_fill_series).         *)
GoodStays ==
  \A k \in DOMAIN cache :
    cache[k].series # "good" /\ good[k] # None => cache[k].checked - good[k] >= StaleFor

=============================================================================
