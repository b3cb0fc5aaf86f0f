--------------------------- MODULE MCMovesProofs ---------------------------
(***************************************************************************)
(* Proofs about the caches a trade's rate comes from, for any number of    *)
(* requests, histories and tasks and any times to live: one fetch of a     *)
(* history at a time and good ones that outlast failures (SeriesCache),    *)
(* rates asked for by one request at a time and not too soon (RatesCache), *)
(* the form that edits a trade (TransactionEdit), and all in the           *)
(* composition MCMoves checks.                                             *)
(***************************************************************************)
EXTENDS MCMoves, SequenceTheorems, TLAPS

-----------------------------------------------------------------------------
(* The price histories.                                                    *)
Entries ==
  [series : {"good", "empty", "error"}, fetched : Int, checked : Int, ttl : {KeepFor, EmptyFor, FailureFor},
   made : Tasks]

TaskRecords ==
  [key : Keys, state : {"new", "fetching", "done"}, now : Int \cup {None}, entry : Tasks \cup {None}]

SeriesTypes ==
  /\ clock \in Int
  /\ DOMAIN cache \subseteq Keys /\ cache \in [DOMAIN cache -> Entries]
  /\ DOMAIN tasks \subseteq Tasks /\ tasks \in [DOMAIN tasks -> TaskRecords]
  /\ DOMAIN inflight \subseteq Keys /\ inflight \in [DOMAIN inflight -> Tasks]
  /\ good \in [Keys -> Int \cup {None}]

Unfinished(t) == tasks[t].state \in {"new", "fetching"}

Fetching(t) == tasks[t].state = "fetching"

(* A task that is not finished is the one its key has.                     *)
Registered ==
  \A t \in DOMAIN tasks : Unfinished(t) =>
    tasks[t].key \in DOMAIN inflight /\ inflight[tasks[t].key] = t

(* An entry is of the last good fetch, or of a later look.                 *)
EntryFits(k) ==
  /\ cache[k].fetched <= cache[k].checked /\ cache[k].checked <= clock
  /\ cache[k].series = "good" => good[k] = cache[k].fetched

(* A key whose last good history is recent has it in the cache.            *)
KeptFor(k) ==
  good[k] # None => (k \in DOMAIN cache /\ cache[k].series = "good") \/ clock - good[k] >= StaleFor

(* A fetch that found nothing to fall back on began long after the last    *)
(* good one; what another found is still there, or was dropped.            *)
FoundFits(t) ==
  LET k == tasks[t].key
  IN  /\ tasks[t].now \in Int /\ tasks[t].now <= clock
      /\ tasks[t].entry = None => good[k] = None \/ tasks[t].now - good[k] >= StaleFor
      /\ tasks[t].entry # None /\ k \in DOMAIN cache =>
           cache[k].series = "good" /\ cache[k].fetched <= tasks[t].now

SeriesInv ==
  /\ SeriesTypes /\ Registered /\ Series!GoodStays
  /\ \A k \in DOMAIN cache : EntryFits(k)
  /\ \A k \in Keys : KeptFor(k)
  /\ \A t \in DOMAIN tasks : Fetching(t) => FoundFits(t)

-----------------------------------------------------------------------------
LEMMA RegisteredOne == Registered => Series!OneFetch
BY DEF Registered, Series!OneFetch, Unfinished

(* Only tasks move: the cache is as it was.                                *)
LEMMA SameCache ==
  ASSUME SeriesConstants, SeriesInv, UNCHANGED <<clock, cache, good>>
  PROVE  Series!GoodStays' /\ (\A k \in DOMAIN cache' : EntryFits(k)') /\ (\A k \in Keys : KeptFor(k)')
BY DEF SeriesInv, Series!GoodStays, EntryFits, KeptFor

(* A task ends: it leaves the fetches of the other keys alone.             *)
LEMMA OthersFound ==
  ASSUME SeriesConstants, SeriesInv, NEW t \in DOMAIN tasks, Fetching(t), Series!EndTask(t), UNCHANGED <<clock, inflight>>,
         \A k \in Keys \ {tasks[t].key} :
           /\ good'[k] = good[k]
           /\ k \in DOMAIN cache' => k \in DOMAIN cache /\ cache'[k] = cache[k]
  PROVE  /\ DOMAIN tasks' \subseteq Tasks /\ tasks' \in [DOMAIN tasks' -> TaskRecords]
         /\ Registered' /\ \A u \in DOMAIN tasks' : Fetching(u)' => FoundFits(u)'
<1>1. DOMAIN tasks' = DOMAIN tasks /\ tasks'[t] = [tasks[t] EXCEPT !.state = "done"]
  BY DEF Series!EndTask, SeriesInv, SeriesTypes
<1>2. \A u \in DOMAIN tasks \ {t} : tasks'[u] = tasks[u]
  BY DEF Series!EndTask, SeriesInv, SeriesTypes
<1>3. tasks'[t] \in TaskRecords /\ tasks'[t].state = "done"
  BY <1>1 DEF SeriesInv, SeriesTypes, TaskRecords
<1>4. DOMAIN tasks' \subseteq Tasks /\ tasks' \in [DOMAIN tasks' -> TaskRecords]
  BY <1>1, <1>2, <1>3 DEF Series!EndTask, SeriesInv, SeriesTypes
<1>5. Registered'
  BY <1>1, <1>2, <1>3 DEF Registered, Unfinished, SeriesInv
<1>6. ASSUME NEW u \in DOMAIN tasks', Fetching(u)' PROVE FoundFits(u)'
  <2>1. u # t /\ u \in DOMAIN tasks /\ tasks'[u] = tasks[u] /\ Fetching(u)
    BY <1>1, <1>2, <1>3, <1>6 DEF Fetching
  <2>2. tasks[u].key # tasks[t].key /\ tasks[u].key \in Keys
    BY <2>1 DEF SeriesInv, Registered, Unfinished, Fetching, SeriesTypes, TaskRecords
  <2>3. FoundFits(u)
    BY <2>1 DEF SeriesInv
  <2> QED BY <2>1, <2>2, <2>3 DEF FoundFits
<1> QED BY <1>4, <1>5, <1>6

(* What is dropped was asked about too long ago to be of use.              *)
LEMMA PrunedFits ==
  ASSUME SeriesConstants, SeriesInv, NEW now \in Int, now <= clock
  PROVE  /\ DOMAIN Series!Pruned(now) \subseteq DOMAIN cache
         /\ \A k \in DOMAIN Series!Pruned(now) : Series!Pruned(now)[k] = cache[k]
         /\ \A k \in DOMAIN cache \ DOMAIN Series!Pruned(now) : now - cache[k].checked > StaleFor
<1> DEFINE recent == {k \in DOMAIN cache : now - cache[k].checked <= StaleFor}
<1>1. CASE Series!Pruned(now) = cache
  BY <1>1
<1>2. CASE Series!Pruned(now) = Series!Restrict(cache, recent)
  <2>1. Series!Pruned(now) = [k \in recent |-> cache[k]]
    BY <1>2 DEF Series!Restrict
  <2>2. \A k \in DOMAIN cache : now - cache[k].checked \in Int
    BY DEF SeriesInv, SeriesTypes, Entries
  <2> QED BY <2>1, <2>2 DEF SeriesConstants
<1> QED BY <1>1, <1>2 DEF Series!Pruned

(* A new entry of a key, whatever else is dropped.                         *)
LEMMA StoreFits ==
  ASSUME SeriesConstants, SeriesInv, NEW t \in DOMAIN tasks, Fetching(t), Series!EndTask(t), UNCHANGED <<clock, inflight>>,
         NEW base, DOMAIN base \subseteq DOMAIN cache, \A k \in DOMAIN base : base[k] = cache[k],
         \A k \in DOMAIN cache \ DOMAIN base : tasks[t].now - cache[k].checked > StaleFor,
         NEW series \in {"good", "empty", "error"}, NEW ttl \in {KeepFor, EmptyFor, FailureFor},
         cache' = Series!With(base, tasks[t].key, Series!Entry(t, series, ttl)),
         \/ series = "good" /\ good' = [good EXCEPT ![tasks[t].key] = tasks[t].now]
         \/ series # "good" /\ good' = good /\ tasks[t].entry = None
  PROVE  SeriesInv'
<1> DEFINE key == tasks[t].key
           now == tasks[t].now
           new == Series!Entry(t, series, ttl)
<1>1. key \in Keys /\ now \in Int /\ now <= clock /\ FoundFits(t)
  BY DEF SeriesInv, SeriesTypes, TaskRecords, FoundFits
<1>2. new \in Entries /\ new.series = series /\ new.fetched = now /\ new.checked = now
  BY <1>1 DEF Series!Entry, Entries, SeriesInv, SeriesTypes
<1>3. /\ DOMAIN cache' = DOMAIN base \cup {key} /\ cache'[key] = new
      /\ \A k \in DOMAIN base \ {key} : cache'[k] = cache[k]
      /\ cache' \in [DOMAIN cache' -> Entries]
  <2> HIDE DEF new, key
  <2>1. cache' = [y \in DOMAIN base \cup {key} |-> IF y = key THEN new ELSE base[y]]
    BY DEF Series!With, new, key
  <2>2. \A k \in DOMAIN base : base[k] \in Entries
    BY DEF SeriesInv, SeriesTypes
  <2> QED BY <1>2, <2>1, <2>2
<1>4. /\ good' \in [Keys -> Int \cup {None}] /\ \A k \in Keys \ {key} : good'[k] = good[k]
      /\ series = "good" => good'[key] = now
      /\ series # "good" => good'[key] = None \/ now - good'[key] >= StaleFor
  BY <1>1 DEF SeriesInv, SeriesTypes, FoundFits
<1> HIDE DEF new, key, now
<1>5. SeriesTypes' /\ Registered' /\ \A u \in DOMAIN tasks' : Fetching(u)' => FoundFits(u)'
  <2>1. \A k \in Keys \ {key} : k \in DOMAIN cache' => k \in DOMAIN cache /\ cache'[k] = cache[k]
    BY <1>3
  <2>2. /\ DOMAIN tasks' \subseteq Tasks /\ tasks' \in [DOMAIN tasks' -> TaskRecords]
        /\ Registered' /\ \A u \in DOMAIN tasks' : Fetching(u)' => FoundFits(u)'
    BY <1>4, <2>1, OthersFound DEF key
  <2> QED BY <1>1, <1>3, <1>4, <2>2 DEF SeriesInv, SeriesTypes
<1>6. ASSUME NEW k \in DOMAIN cache' PROVE EntryFits(k)'
  <2>1. CASE k = key
    BY <1>1, <1>2, <1>3, <1>4, <2>1 DEF EntryFits
  <2>2. CASE k # key
    BY <1>3, <1>4, <2>2 DEF EntryFits, SeriesInv, SeriesTypes
  <2> QED BY <2>1, <2>2
<1>7. Series!GoodStays'
  <2> SUFFICES ASSUME NEW k \in DOMAIN cache', cache'[k].series # "good", good'[k] # None
               PROVE  cache'[k].checked - good'[k] >= StaleFor
    BY DEF Series!GoodStays
  <2>1. CASE k = key
    BY <1>2, <1>3, <1>4, <2>1
  <2>2. CASE k # key
    BY <1>3, <1>4, <2>2 DEF Series!GoodStays, SeriesInv, SeriesTypes
  <2> QED BY <2>1, <2>2
<1>8. ASSUME NEW k \in Keys, good'[k] # None
      PROVE  (k \in DOMAIN cache' /\ cache'[k].series = "good") \/ clock - good'[k] >= StaleFor
  <2>0. good'[k] \in Int /\ clock \in Int /\ StaleFor \in Int
    BY <1>4, <1>8 DEF SeriesConstants, SeriesInv, SeriesTypes
  <2>1. CASE k = key
    <3>1. CASE series = "good"
      BY <1>2, <1>3, <2>1, <3>1
    <3>2. CASE series # "good"
      <4>1. now - good'[k] >= StaleFor
        BY <1>4, <1>8, <2>1, <3>2
      <4> QED BY <1>1, <2>0, <4>1
    <3> QED BY <3>1, <3>2
  <2>2. CASE k # key
    <3>1. good'[k] = good[k] /\ KeptFor(k)
      BY <1>4, <2>2 DEF SeriesInv
    <3>2. CASE k \in DOMAIN base
      BY <1>3, <1>8, <2>2, <3>1, <3>2 DEF KeptFor
    <3>3. CASE k \in DOMAIN cache \ DOMAIN base
      <4>1. now - cache[k].checked > StaleFor
        BY <3>3 DEF now
      <4>2. /\ cache[k].fetched \in Int /\ cache[k].checked \in Int
            /\ cache[k].fetched <= cache[k].checked
            /\ cache[k].series = "good" => good[k] = cache[k].fetched
        BY <3>3 DEF SeriesInv, SeriesTypes, Entries, EntryFits
      <4> QED BY <1>1, <1>8, <2>0, <3>1, <4>1, <4>2 DEF KeptFor
    <3>4. CASE k \notin DOMAIN cache
      BY <1>8, <3>1, <3>4 DEF KeptFor
    <3> QED BY <3>2, <3>3, <3>4
  <2> QED BY <2>1, <2>2
<1>9. \A k \in Keys : KeptFor(k)'
  BY <1>8 DEF KeptFor
<1> QED BY <1>5, <1>6, <1>7, <1>9 DEF SeriesInv

(* A fetch that brought nothing: the entry found is looked at again, or    *)
(* was dropped meanwhile.                                                  *)
LEMMA TouchFits ==
  ASSUME SeriesConstants, SeriesInv, NEW t \in DOMAIN tasks, Fetching(t), Series!EndTask(t), UNCHANGED <<clock, inflight, good>>,
         tasks[t].entry # None, Series!Touch(t)
  PROVE  SeriesInv'
<1> DEFINE key == tasks[t].key
           now == tasks[t].now
<1>1. key \in Keys /\ now \in Int /\ now <= clock /\ FoundFits(t) /\ clock \in Int
  BY DEF SeriesInv, SeriesTypes, TaskRecords, FoundFits
<1>2. CASE cache' = cache
  <2>1. /\ DOMAIN tasks' \subseteq Tasks /\ tasks' \in [DOMAIN tasks' -> TaskRecords]
        /\ Registered' /\ \A u \in DOMAIN tasks' : Fetching(u)' => FoundFits(u)'
    BY <1>2, OthersFound
  <2> QED BY <1>2, <2>1, SameCache DEF SeriesInv, SeriesTypes
<1>3. CASE key \in DOMAIN cache /\ cache' = [cache EXCEPT ![key].checked = now, ![key].ttl = KeepFor]
  <2>1. /\ cache[key] \in Entries /\ cache[key].series = "good" /\ cache[key].fetched <= now
        /\ EntryFits(key)
    BY <1>1, <1>3 DEF SeriesInv, SeriesTypes, FoundFits
  <2>2. /\ DOMAIN cache' = DOMAIN cache
        /\ cache'[key] = [cache[key] EXCEPT !.checked = now, !.ttl = KeepFor]
        /\ \A k \in DOMAIN cache \ {key} : cache'[k] = cache[k]
    BY <1>3 DEF SeriesInv, SeriesTypes
  <2>3. /\ cache'[key] \in Entries /\ cache'[key].series = "good" /\ cache'[key].checked = now
        /\ cache'[key].fetched = cache[key].fetched
    BY <1>1, <2>1, <2>2 DEF Entries
  <2>4. cache' \in [DOMAIN cache' -> Entries]
    BY <1>3, <2>2, <2>3 DEF SeriesInv, SeriesTypes
  <2> HIDE DEF key, now
  <2>5. /\ DOMAIN tasks' \subseteq Tasks /\ tasks' \in [DOMAIN tasks' -> TaskRecords]
        /\ Registered' /\ \A u \in DOMAIN tasks' : Fetching(u)' => FoundFits(u)'
    <3>1. \A k \in Keys \ {key} : k \in DOMAIN cache' => k \in DOMAIN cache /\ cache'[k] = cache[k]
      BY <2>2
    <3> QED BY <3>1, OthersFound DEF key
  <2>6. SeriesTypes'
    BY <2>2, <2>4, <2>5 DEF SeriesInv, SeriesTypes
  <2>7. ASSUME NEW k \in DOMAIN cache' PROVE EntryFits(k)'
    <3>1. CASE k = key
      BY <1>1, <2>1, <2>3, <3>1 DEF EntryFits
    <3>2. CASE k # key
      BY <2>2, <3>2 DEF EntryFits, SeriesInv
    <3> QED BY <3>1, <3>2
  <2>8. Series!GoodStays'
    <3>1. \A k \in DOMAIN cache' : cache'[k].series # "good" => k \in DOMAIN cache /\ cache'[k] = cache[k]
      BY <2>2, <2>3
    <3> QED BY <3>1 DEF Series!GoodStays, SeriesInv
  <2>9. \A k \in Keys : KeptFor(k)'
    <3>1. \A k \in DOMAIN cache : cache'[k].series = cache[k].series
      BY <2>1, <2>2, <2>3
    <3> QED BY <2>2, <3>1 DEF KeptFor, SeriesInv
  <2> QED BY <2>5, <2>6, <2>7, <2>8, <2>9 DEF SeriesInv
<1> QED BY <1>2, <1>3 DEF Series!Touch

LEMMA BringSeriesFits ==
  ASSUME SeriesConstants, SeriesInv, NEW t \in DOMAIN tasks, Series!BringSeries(t)
  PROVE  SeriesInv'
<1>1. Fetching(t) /\ tasks[t].now \in Int /\ tasks[t].now <= clock
  BY DEF Series!BringSeries, Fetching, SeriesInv, FoundFits
<1>2. /\ DOMAIN Series!Pruned(tasks[t].now) \subseteq DOMAIN cache
      /\ \A k \in DOMAIN Series!Pruned(tasks[t].now) : Series!Pruned(tasks[t].now)[k] = cache[k]
      /\ \A k \in DOMAIN cache \ DOMAIN Series!Pruned(tasks[t].now) : tasks[t].now - cache[k].checked > StaleFor
  BY <1>1, PrunedFits
<1> QED BY <1>1, <1>2, StoreFits DEF Series!BringSeries

LEMMA BringNothingFits ==
  ASSUME SeriesConstants, SeriesInv, NEW t \in DOMAIN tasks, Series!BringNothing(t)
  PROVE  SeriesInv'
<1>1. Fetching(t) /\ tasks[t].now \in Int /\ tasks[t].now <= clock
  BY DEF Series!BringNothing, Fetching, SeriesInv, FoundFits
<1>2. CASE tasks[t].entry # None
  BY <1>1, <1>2, TouchFits DEF Series!BringNothing
<1>3. CASE tasks[t].entry = None
  <2>1. /\ DOMAIN Series!Pruned(tasks[t].now) \subseteq DOMAIN cache
        /\ \A k \in DOMAIN Series!Pruned(tasks[t].now) : Series!Pruned(tasks[t].now)[k] = cache[k]
        /\ \A k \in DOMAIN cache \ DOMAIN Series!Pruned(tasks[t].now) : tasks[t].now - cache[k].checked > StaleFor
    BY <1>1, PrunedFits
  <2> QED BY <1>1, <1>3, <2>1, StoreFits DEF Series!BringNothing
<1> QED BY <1>2, <1>3

LEMMA FailFetchFits ==
  ASSUME SeriesConstants, SeriesInv, NEW t \in DOMAIN tasks, Series!FailFetch(t)
  PROVE  SeriesInv'
<1>1. Fetching(t)
  BY DEF Series!FailFetch, Fetching
<1>2. CASE tasks[t].entry # None
  BY <1>1, <1>2, TouchFits DEF Series!FailFetch
<1>3. CASE tasks[t].entry = None
  BY <1>1, <1>3, StoreFits DEF Series!FailFetch
<1> QED BY <1>2, <1>3

(* A task that is still to look at the cache is one more for its key only  *)
(* when the one before is done.                                            *)
LEMMA StartFetchFits ==
  ASSUME SeriesConstants, SeriesInv, NEW k \in Keys, Series!StartFetch(k)
  PROVE  SeriesInv'
<1> DEFINE task == CHOOSE t \in Tasks : t \notin Series!Named
           new == [key |-> k, state |-> "new", now |-> None, entry |-> None]
<1>1. task \in Tasks /\ task \notin DOMAIN tasks
  BY DEF Series!StartFetch, Series!Named
<1>2. /\ tasks' = Series!With(tasks, task, new) /\ inflight' = Series!With(inflight, k, task) /\ ~Series!Running(k)
      /\ UNCHANGED <<clock, cache, good>>
  BY DEF Series!StartFetch
<1>3. new \in TaskRecords /\ new.key = k /\ new.state = "new"
  BY DEF TaskRecords
<1> HIDE DEF task, new
<1>4. /\ DOMAIN tasks' = DOMAIN tasks \cup {task} /\ tasks'[task] = new
      /\ \A u \in DOMAIN tasks : tasks'[u] = tasks[u]
      /\ tasks' \in [DOMAIN tasks' -> TaskRecords]
  BY <1>1, <1>2, <1>3 DEF Series!With, SeriesInv, SeriesTypes
<1>5. /\ DOMAIN inflight' = DOMAIN inflight \cup {k} /\ inflight'[k] = task
      /\ \A j \in DOMAIN inflight \ {k} : inflight'[j] = inflight[j]
      /\ inflight' \in [DOMAIN inflight' -> Tasks]
  BY <1>1, <1>2 DEF Series!With, SeriesInv, SeriesTypes
<1>6. SeriesTypes'
  BY <1>1, <1>2, <1>4, <1>5 DEF SeriesInv, SeriesTypes
<1>7. ASSUME NEW u \in DOMAIN tasks, Unfinished(u) PROVE tasks[u].key # k
  BY <1>2, <1>7 DEF SeriesInv, Registered, Series!Running, Unfinished
<1>8. Registered'
  <2> SUFFICES ASSUME NEW u \in DOMAIN tasks', Unfinished(u)'
               PROVE  tasks'[u].key \in DOMAIN inflight' /\ inflight'[tasks'[u].key] = u
    BY DEF Registered
  <2>1. CASE u = task
    BY <1>3, <1>4, <1>5, <2>1
  <2>2. CASE u \in DOMAIN tasks
    <3>1. tasks'[u] = tasks[u] /\ Unfinished(u) /\ tasks[u].key # k
      BY <1>4, <1>7, <2>2 DEF Unfinished
    <3> QED BY <1>5, <2>2, <3>1 DEF SeriesInv, Registered
  <2> QED BY <1>4, <2>1, <2>2
<1>9. ASSUME NEW u \in DOMAIN tasks', Fetching(u)' PROVE FoundFits(u)'
  <2>1. u \in DOMAIN tasks /\ tasks'[u] = tasks[u] /\ Fetching(u)
    BY <1>3, <1>4, <1>9 DEF Fetching
  <2> QED BY <1>2, <2>1 DEF FoundFits, SeriesInv
<1> QED BY <1>2, <1>6, <1>8, <1>9, SameCache DEF SeriesInv

LEMMA BeginFits ==
  ASSUME SeriesConstants, SeriesInv, NEW t \in DOMAIN tasks, Series!Begin(t)
  PROVE  SeriesInv'
<1> DEFINE k == tasks[t].key
           stale == k \in DOMAIN cache /\ cache[k].series = "good" /\ clock - cache[k].fetched < StaleFor
           found == IF stale THEN cache[k].made ELSE None
<1>1. k \in Keys /\ tasks[t].state = "new" /\ UNCHANGED <<clock, cache, inflight, good>> /\ tasks[t] \in TaskRecords
  BY DEF Series!Begin, SeriesInv, SeriesTypes, TaskRecords
<1>2. /\ DOMAIN tasks' = DOMAIN tasks /\ \A u \in DOMAIN tasks \ {t} : tasks'[u] = tasks[u]
      /\ tasks'[t] = [tasks[t] EXCEPT !.state = "fetching", !.now = clock, !.entry = found]
      /\ tasks' \in [DOMAIN tasks -> {tasks'[u] : u \in DOMAIN tasks}]
  BY DEF Series!Begin, SeriesInv, SeriesTypes
<1>3. found \in Tasks \cup {None} /\ (found # None <=> stale)
  BY DEF SeriesInv, SeriesTypes, Entries, SeriesConstants
<1>4. /\ tasks'[t] \in TaskRecords /\ tasks'[t].key = k /\ tasks'[t].state = "fetching"
      /\ tasks'[t].now = clock /\ tasks'[t].entry = found
  BY <1>1, <1>2, <1>3 DEF TaskRecords, SeriesInv, SeriesTypes
<1>5. SeriesTypes'
  BY <1>1, <1>2, <1>4 DEF SeriesInv, SeriesTypes
<1>6. Registered'
  <2>1. Registered /\ Unfinished(t)
    BY <1>1 DEF SeriesInv, Unfinished
  <2>2. ASSUME NEW u \in DOMAIN tasks', Unfinished(u)'
        PROVE  u \in DOMAIN tasks /\ Unfinished(u) /\ tasks'[u].key = tasks[u].key
    <3>1. CASE u = t
      BY <2>1, <1>4, <3>1
    <3>2. CASE u # t
      BY <1>2, <2>2, <3>2 DEF Unfinished
    <3> QED BY <3>1, <3>2
  <2> HIDE DEF found, stale, k
  <2> QED BY <1>1, <2>1, <2>2 DEF Registered
<1>7. FoundFits(t)'
  <2>1. clock \in Int
    BY DEF SeriesInv, SeriesTypes
  <2>2. ASSUME ~stale, good[k] # None PROVE clock - good[k] >= StaleFor
    <3>1. CASE k \in DOMAIN cache /\ cache[k].series = "good"
      <4>1. good[k] = cache[k].fetched /\ cache[k].fetched \in Int
        BY <3>1 DEF SeriesInv, EntryFits, SeriesTypes, Entries
      <4> QED BY <2>1, <2>2, <3>1, <4>1 DEF SeriesConstants
    <3>2. CASE ~(k \in DOMAIN cache /\ cache[k].series = "good")
      BY <1>1, <2>2, <3>2 DEF SeriesInv, KeptFor
    <3> QED BY <3>1, <3>2
  <2>3. ASSUME stale PROVE cache[k].series = "good" /\ cache[k].fetched <= clock
    <3>1. cache[k].fetched \in Int /\ cache[k].checked \in Int /\ EntryFits(k)
      BY <2>3 DEF SeriesInv, SeriesTypes, Entries
    <3> QED BY <2>1, <2>3, <3>1 DEF EntryFits
  <2> HIDE DEF stale, found, k
  <2> QED BY <1>1, <1>3, <1>4, <2>1, <2>2, <2>3 DEF FoundFits
<1>8. ASSUME NEW u \in DOMAIN tasks', Fetching(u)' PROVE FoundFits(u)'
  <2>1. CASE u # t
    BY <1>1, <1>2, <1>8, <2>1 DEF FoundFits, Fetching, SeriesInv
  <2> QED BY <1>7, <2>1
<1> QED BY <1>1, <1>5, <1>6, <1>8, SameCache DEF SeriesInv

(* The callback takes the key's task away only if it is the one that       *)
(* ended.                                                                  *)
LEMMA ForgetFits ==
  ASSUME SeriesConstants, SeriesInv, NEW t \in DOMAIN tasks, Series!Forget(t)
  PROVE  SeriesInv'
<1>1. tasks[t].state = "done" /\ UNCHANGED <<clock, cache, good>>
  BY DEF Series!Forget
<1>2. /\ DOMAIN tasks' = DOMAIN tasks \ {t} /\ \A u \in DOMAIN tasks' : tasks'[u] = tasks[u]
      /\ tasks' \in [DOMAIN tasks' -> TaskRecords]
  BY DEF Series!Forget, Series!Without, Series!Restrict, SeriesInv, SeriesTypes
<1>3. /\ DOMAIN inflight' \subseteq DOMAIN inflight
      /\ \A k \in DOMAIN inflight : inflight[k] # t => k \in DOMAIN inflight'
      /\ \A k \in DOMAIN inflight' : inflight'[k] = inflight[k]
      /\ inflight' \in [DOMAIN inflight' -> Tasks]
  <2>1. CASE inflight' = inflight
    BY <2>1 DEF SeriesInv, SeriesTypes
  <2>2. CASE inflight' = Series!Without(inflight, tasks[t].key) /\ inflight[tasks[t].key] = t
    BY <2>2 DEF Series!Without, Series!Restrict, SeriesInv, SeriesTypes
  <2> QED BY <2>1, <2>2 DEF Series!Forget
<1>4. SeriesTypes'
  BY <1>1, <1>2, <1>3 DEF SeriesInv, SeriesTypes
<1>5. Registered'
  BY <1>1, <1>2, <1>3 DEF SeriesInv, Registered, Unfinished
<1>6. \A u \in DOMAIN tasks' : Fetching(u)' => FoundFits(u)'
  BY <1>1, <1>2 DEF SeriesInv, Fetching, FoundFits
<1> QED BY <1>1, <1>4, <1>5, <1>6, SameCache DEF SeriesInv

LEMMA TickFits ==
  ASSUME SeriesConstants, SeriesInv, Series!Tick
  PROVE  SeriesInv'
<1>1. clock' = clock + 1 /\ clock \in Int /\ UNCHANGED <<cache, tasks, inflight, good>>
  BY DEF Series!Tick, SeriesInv, SeriesTypes
<1>2. SeriesTypes' /\ Registered' /\ Series!GoodStays'
  BY <1>1 DEF SeriesInv, SeriesTypes, Registered, Unfinished, Series!GoodStays
<1>3. ASSUME NEW k \in DOMAIN cache PROVE EntryFits(k)'
  <2>1. cache[k].checked \in Int /\ EntryFits(k)
    BY DEF SeriesInv, SeriesTypes, Entries
  <2> QED BY <1>1, <2>1 DEF EntryFits
<1>4. ASSUME NEW k \in Keys PROVE KeptFor(k)'
  <2>1. KeptFor(k) /\ good[k] \in Int \cup {None}
    BY DEF SeriesInv, SeriesTypes
  <2> QED BY <1>1, <2>1 DEF KeptFor, SeriesConstants
<1>5. ASSUME NEW u \in DOMAIN tasks, Fetching(u) PROVE FoundFits(u)'
  <2>1. FoundFits(u)
    BY <1>5 DEF SeriesInv
  <2> QED BY <1>1, <2>1 DEF FoundFits
<1> QED BY <1>1, <1>2, <1>3, <1>4, <1>5 DEF SeriesInv, Fetching

LEMMA InitSeries ==
  ASSUME SeriesConstants, Series!Init
  PROVE  SeriesInv
<1>1. DOMAIN cache = {} /\ DOMAIN tasks = {} /\ DOMAIN inflight = {}
  BY DEF Series!Init
<1>2. cache \in [{} -> Entries] /\ tasks \in [{} -> TaskRecords] /\ inflight \in [{} -> Tasks]
  BY DEF Series!Init
<1>3. clock \in Int /\ good \in [Keys -> Int \cup {None}] /\ \A k \in Keys : good[k] = None
  BY DEF Series!Init
<1> QED BY <1>1, <1>2, <1>3 DEF SeriesInv, SeriesTypes, Registered, Series!GoodStays, KeptFor

LEMMA SeriesStays ==
  ASSUME SeriesInv, UNCHANGED <<clock, seriesVars>>
  PROVE  SeriesInv'
BY DEF seriesVars, SeriesInv, SeriesTypes, Registered, Unfinished, Series!GoodStays, EntryFits, KeptFor, Fetching,
       FoundFits

LEMMA SeriesStep ==
  ASSUME SeriesConstants, SeriesInv, Series!Next
  PROVE  SeriesInv'
<1>1. ASSUME NEW k \in Keys, Series!Hit(k) \/ Series!Join(k) PROVE SeriesInv'
  BY <1>1, SeriesStays DEF Series!Hit, Series!Join, Series!vars, seriesVars
<1> QED BY <1>1, StartFetchFits, BeginFits, BringSeriesFits, BringNothingFits, FailFetchFits, ForgetFits, TickFits
        DEF Series!Next

(* Of one history one fetch is under way at a time, however requests, ends *)
(* of fetches and their callbacks interleave (_cached_series,              *)
(* _series_fetch_done); and no failure and no empty answer takes the place *)
(* of a good history before StaleFor is over, whatever was dropped         *)
(* meanwhile (_fill_series).                                               *)
THEOREM HistoriesAreKept == Series!Spec => [](Series!OneFetch /\ Series!GoodStays)
<1> USE SeriesAssumption
<1>1. SeriesInv /\ [Series!Next]_(Series!vars) => SeriesInv'
  BY SeriesStep, SeriesStays DEF Series!vars, seriesVars
<1>2. Series!Init => SeriesInv
  BY InitSeries
<1>3. SeriesInv => Series!OneFetch /\ Series!GoodStays
  BY RegisteredOne DEF SeriesInv
<1> QED BY <1>1, <1>2, <1>3, PTL DEF Series!Spec

-----------------------------------------------------------------------------
(* The exchange rates. The line has everyone who waits or asks, once each, *)
(* and who asks is at its head; what is in memory is of the last ask, so   *)
(* whoever finds nothing of use there asks when that ask is used up.       *)
Outcomes == [outcome : {"none", "good", "kept", "cold"}, began : Nat, ended : Nat]

RatesTypes ==
  /\ clock \in Nat /\ rates \in Nat \cup {None} /\ retryAt \in Int /\ failedAt \in Int
  /\ line \in Seq(Askers) /\ at \in [Askers -> {"idle", "waiting", "asking"}]
  /\ since \in [Askers -> Nat] /\ last \in Outcomes

Once(s) == \A i, j \in 1..Len(s) : s[i] = s[j] => i = j

Among(p, s) == \E i \in 1..Len(s) : s[i] = p

Lined ==
  /\ Once(line)
  /\ \A p \in Askers : at[p] # "idle" <=> Among(p, line)
  /\ \A p \in Askers : at[p] = "asking" => line[1] = p

Remembered ==
  /\ last.outcome = "good" => rates = last.began
  /\ last.outcome = "kept" => rates # None /\ retryAt = last.began + RetryAfter
  /\ last.outcome = "cold" => rates = None /\ failedAt = last.ended

AsksDue == \A p \in Askers : at[p] = "asking" => since[p] >= Rates!DueAgain(last)

RatesInv == RatesTypes /\ Lined /\ Remembered /\ AsksDue

(* Who goes leaves the others in line as they are.                         *)
LEMMA OneLess ==
  ASSUME NEW S, NEW s \in Seq(S), Once(s), NEW i \in 1..Len(s), NEW r, r = Rates!RemoveAt(s, i)
  PROVE  /\ r \in Seq(S) /\ Once(r)
         /\ \A q : Among(q, r) <=> Among(q, s) /\ q # s[i]
         /\ \A q : Among(q, s) /\ q = s[1] /\ q # s[i] => r[1] = q
<1>1. /\ r \in Seq(S) /\ Len(r) = Len(s) - 1
      /\ \A j \in 1..Len(r) : r[j] = IF j < i THEN s[j] ELSE s[j + 1]
  <2> DEFINE a == SubSeq(s, 1, i - 1)
             b == SubSeq(s, i + 1, Len(s))
  <2>0. Len(s) \in Nat /\ i \in Int /\ 1 <= i /\ i <= Len(s)
    OBVIOUS
  <2>1. a \in Seq(S) /\ Len(a) = i - 1 /\ \A j \in 1..i - 1 : a[j] = s[j]
    <3>1. \A k \in 1..i - 1 : s[k] \in S
      BY <2>0
    <3> QED BY <2>0, <3>1, SubSeqProperties
  <2>2. b \in Seq(S) /\ Len(b) = Len(s) - i /\ \A j \in 1..Len(s) - i : b[j] = s[i + j]
    <3>1. \A k \in i + 1..Len(s) : s[k] \in S
      BY <2>0
    <3> QED BY <2>0, <3>1, SubSeqProperties
  <2>3. r = a \o b
    BY DEF Rates!RemoveAt
  <2> HIDE DEF a, b
  <2>4. /\ r \in Seq(S) /\ Len(r) = Len(a) + Len(b)
        /\ \A j \in 1..Len(a) + Len(b) : r[j] = IF j <= Len(a) THEN a[j] ELSE b[j - Len(a)]
    <3>1. a \in Seq(S) /\ b \in Seq(S)
      BY <2>1, <2>2
    <3>2. /\ a \o b \in Seq(S) /\ Len(a \o b) = Len(a) + Len(b)
          /\ \A j \in 1..Len(a) + Len(b) : (a \o b)[j] = IF j <= Len(a) THEN a[j] ELSE b[j - Len(a)]
      BY <3>1, ConcatProperties, Zenon
    <3> QED BY <2>3, <3>2, Zenon
  <2>5. ASSUME NEW j \in 1..Len(r) PROVE r[j] = IF j < i THEN s[j] ELSE s[j + 1]
    <3>1. CASE j < i
      BY <2>0, <2>1, <2>2, <2>4, <3>1
    <3>2. CASE j >= i
      <4>1. j - (i - 1) \in 1..Len(s) - i /\ i + (j - (i - 1)) = j + 1 /\ j <= Len(a) + Len(b) /\ j > Len(a)
        BY <2>0, <2>1, <2>2, <2>4, <3>2
      <4> QED BY <2>0, <2>1, <2>2, <2>4, <3>2, <4>1
    <3> QED BY <2>0, <3>1, <3>2
  <2> QED BY <2>0, <2>1, <2>2, <2>4, <2>5
<1>2. Len(s) \in Nat /\ Len(r) \in Nat /\ i \in Int
  OBVIOUS
<1>3. Once(r)
  <2> SUFFICES ASSUME NEW j \in 1..Len(r), NEW k \in 1..Len(r), r[j] = r[k] PROVE j = k
    BY DEF Once
  <2> DEFINE old(x) == IF x < i THEN x ELSE x + 1
  <2>1. old(j) \in 1..Len(s) /\ old(k) \in 1..Len(s) /\ r[j] = s[old(j)] /\ r[k] = s[old(k)]
    BY <1>1, <1>2
  <2>2. old(j) = old(k)
    BY <2>1 DEF Once
  <2> QED BY <1>2, <2>2
<1>4. ASSUME NEW q, Among(q, r) PROVE Among(q, s) /\ q # s[i]
  BY <1>1, <1>2, <1>4 DEF Among, Once
<1>5. ASSUME NEW q, Among(q, s), q # s[i] PROVE Among(q, r)
  <2>1. PICK k \in 1..Len(s) : s[k] = q
    BY <1>5 DEF Among
  <2>2. CASE k < i
    <3>1. k \in 1..Len(r) /\ r[k] = q
      BY <1>1, <1>2, <2>1, <2>2
    <3> QED BY <3>1 DEF Among
  <2>3. CASE k > i
    <3>1. k - 1 \in 1..Len(r) /\ r[k - 1] = q
      BY <1>1, <1>2, <2>1, <2>3
    <3> QED BY <3>1 DEF Among
  <2> QED BY <1>5, <2>1, <2>2, <2>3
<1>6. ASSUME NEW q, q = s[1], q # s[i] PROVE r[1] = q
  <2>1. i > 1 /\ 1 \in 1..Len(r)
    BY <1>1, <1>2, <1>6
  <2> QED BY <1>1, <1>6, <2>1
<1> QED BY <1>1, <1>3, <1>4, <1>5, <1>6

(* Leaving keeps the line in order; nobody else asks where one asked.      *)
LEMMA LeaveLine ==
  ASSUME RatesInv, NEW p \in Askers, at[p] # "idle", Rates!Leave(p)
  PROVE  /\ line' \in Seq(Askers) /\ at' \in [Askers -> {"idle", "waiting", "asking"}]
         /\ since' \in [Askers -> Nat] /\ clock' \in Nat
         /\ Lined'
         /\ \A q \in Askers : at'[q] = "asking" => at[q] = "asking" /\ since'[q] = since[q]
         /\ at[p] = "asking" => \A q \in Askers : at'[q] # "asking"
<1> DEFINE i == Rates!Place(p)
<1>0. line \in Seq(Askers) /\ at \in [Askers -> {"idle", "waiting", "asking"}] /\ since \in [Askers -> Nat]
      /\ clock \in Nat /\ Lined
  BY DEF RatesInv, RatesTypes
<1>1. DOMAIN line = 1..Len(line)
  BY <1>0
<1>2. i \in 1..Len(line) /\ line[i] = p
  BY <1>0, <1>1 DEF Lined, Among, Rates!Place
<1>3. /\ at' = [at EXCEPT ![p] = "idle"] /\ since' = [since EXCEPT ![p] = 0] /\ clock' = clock
      /\ line' = Rates!RemoveAt(line, i)
  BY DEF Rates!Leave
<1> HIDE DEF i
<1>4. /\ line' \in Seq(Askers) /\ Once(line')
      /\ \A q : Among(q, line') <=> Among(q, line) /\ q # p
      /\ \A q : Among(q, line) /\ q = line[1] /\ q # p => line'[1] = q
  BY <1>0, <1>2, <1>3, OneLess DEF Lined
<1>5. /\ at' \in [Askers -> {"idle", "waiting", "asking"}] /\ since' \in [Askers -> Nat]
      /\ at'[p] = "idle" /\ \A q \in Askers \ {p} : at'[q] = at[q] /\ since'[q] = since[q]
  BY <1>0, <1>3
<1>6. Lined'
  <2>1. \A q \in Askers : (at'[q] # "idle" <=> Among(q, line'))
    BY <1>0, <1>4, <1>5 DEF Lined
  <2>2. \A q \in Askers : at'[q] = "asking" => line'[1] = q
    BY <1>0, <1>4, <1>5 DEF Lined
  <2>3. Once(line)' /\ \A q \in Askers : (at[q] # "idle" <=> Among(q, line))'
    BY <1>4, <2>1 DEF Once, Among
  <2> QED BY <2>2, <2>3 DEF Lined
<1>7. at[p] = "asking" => \A q \in Askers : at'[q] # "asking"
  BY <1>0, <1>5 DEF Lined
<1> QED BY <1>0, <1>3, <1>4, <1>5, <1>6, <1>7

LEMMA InitRates ==
  ASSUME RatesConstants, Rates!Init
  PROVE  RatesInv
<1>1. line = << >> /\ line \in Seq(Askers) /\ Len(line) = 0 /\ \A p \in Askers : at[p] = "idle"
  BY DEF Rates!Init
<1>2. Lined
  BY <1>1 DEF Lined, Once, Among
<1>3. RatesTypes
  BY <1>1 DEF RatesConstants, RatesTypes, Rates!Init, Rates!LongAgo, Rates!NoAsk, Outcomes
<1>4. Remembered /\ AsksDue
  BY <1>1 DEF Remembered, AsksDue, Rates!Init, Rates!NoAsk
<1> QED BY <1>2, <1>3, <1>4 DEF RatesInv

LEMMA RatesStay ==
  ASSUME RatesInv, UNCHANGED ratesVars
  PROVE  RatesInv'
BY DEF ratesVars, RatesInv, RatesTypes, Outcomes, Lined, Once, Among, Remembered, AsksDue, Rates!DueAgain

LEMMA QueueStep ==
  ASSUME RatesConstants, RatesInv, NEW p \in Askers, Rates!Queue(p)
  PROVE  RatesInv'
<1>1. /\ at[p] = "idle" /\ at' = [at EXCEPT ![p] = "waiting"] /\ line' = Append(line, p)
      /\ UNCHANGED <<clock, rates, retryAt, failedAt, since, last>>
  BY DEF Rates!Queue
<1>2. line \in Seq(Askers) /\ at \in [Askers -> {"idle", "waiting", "asking"}] /\ Lined
  BY DEF RatesInv, RatesTypes
<1>3. /\ line' \in Seq(Askers) /\ Len(line') = Len(line) + 1 /\ Len(line) \in Nat
      /\ line'[Len(line) + 1] = p /\ \A i \in 1..Len(line) : line'[i] = line[i]
  BY <1>1, <1>2
<1>4. /\ at' \in [Askers -> {"idle", "waiting", "asking"}] /\ at'[p] = "waiting"
      /\ \A q \in Askers \ {p} : at'[q] = at[q]
  BY <1>1, <1>2
<1>5. ~Among(p, line)
  BY <1>1, <1>2 DEF Lined
<1>6. Once(line)'
  BY <1>2, <1>3, <1>5 DEF Lined, Once, Among
<1>7. ASSUME NEW q \in Askers PROVE (at[q] # "idle" <=> Among(q, line))'
  <2>1. CASE q = p
    <3>1. Len(line) + 1 \in 1..Len(line')
      BY <1>3
    <3> QED BY <1>3, <1>4, <2>1, <3>1 DEF Among
  <2>2. CASE q # p
    <3>1. Among(q, line)' <=> Among(q, line)
      BY <1>3, <2>2 DEF Among
    <3> QED BY <1>2, <1>4, <2>2, <3>1 DEF Lined
  <2> QED BY <2>1, <2>2
<1>8. ASSUME NEW q \in Askers, at'[q] = "asking" PROVE line'[1] = q
  <2>1. q # p /\ at[q] = "asking" /\ Among(q, line) /\ line[1] = q
    BY <1>2, <1>4, <1>8 DEF Lined
  <2>2. 1 \in 1..Len(line)
    BY <1>3, <2>1 DEF Among
  <2> QED BY <1>3, <2>1, <2>2
<1>9. Lined'
  BY <1>6, <1>7, <1>8 DEF Lined
<1>10. RatesTypes' /\ Remembered'
  BY <1>1, <1>3, <1>4 DEF RatesInv, RatesTypes, Remembered
<1>11. AsksDue'
  BY <1>1, <1>4 DEF RatesInv, AsksDue, Rates!DueAgain
<1> QED BY <1>9, <1>10, <1>11 DEF RatesInv

(* Whoever has the lock and finds nothing of use: the last ask is used up. *)
LEMMA UsedUp ==
  ASSUME RatesConstants, RatesInv, ~Rates!Usable, ~Rates!FailsFast
  PROVE  clock >= Rates!DueAgain(last)
<1>1. clock \in Nat /\ rates \in Nat \cup {None} /\ retryAt \in Int /\ failedAt \in Int /\ last \in Outcomes
      /\ Remembered
  BY DEF RatesInv, RatesTypes
<1>2. last.began \in Nat /\ last.ended \in Nat
  BY <1>1 DEF Outcomes
<1>3. CASE last.outcome = "none"
  BY <1>1, <1>3 DEF Rates!DueAgain
<1>4. CASE last.outcome = "good"
  BY <1>1, <1>2, <1>4 DEF Rates!DueAgain, Remembered, Rates!Usable, RatesConstants
<1>5. CASE last.outcome = "kept"
  BY <1>1, <1>2, <1>5 DEF Rates!DueAgain, Remembered, Rates!Usable, RatesConstants
<1>6. CASE last.outcome = "cold"
  BY <1>1, <1>2, <1>6 DEF Rates!DueAgain, Remembered, Rates!FailsFast, RatesConstants
<1> QED BY <1>1, <1>3, <1>4, <1>5, <1>6 DEF Outcomes

LEMMA AskStep ==
  ASSUME RatesConstants, RatesInv, NEW p \in Askers, Rates!Ask(p)
  PROVE  RatesInv'
<1>1. /\ at[p] = "waiting" /\ Head(line) = p /\ ~Rates!Usable /\ ~Rates!FailsFast
      /\ at' = [at EXCEPT ![p] = "asking"] /\ since' = [since EXCEPT ![p] = clock]
      /\ UNCHANGED <<clock, rates, retryAt, failedAt, line, last>>
  BY DEF Rates!Ask, Rates!HasLock, Rates!StartsAsking
<1>2. line \in Seq(Askers) /\ at \in [Askers -> {"idle", "waiting", "asking"}] /\ Lined /\ since \in [Askers -> Nat]
      /\ clock \in Nat
  BY DEF RatesInv, RatesTypes
<1>3. line[1] = p
  <2>1. Len(line) # 0
    BY <1>1, <1>2 DEF Lined, Among
  <2> QED BY <1>1, <1>2, <2>1
<1>4. /\ at' \in [Askers -> {"idle", "waiting", "asking"}] /\ at'[p] = "asking" /\ since' \in [Askers -> Nat]
      /\ since'[p] = clock /\ \A q \in Askers \ {p} : at'[q] = at[q]
  BY <1>1, <1>2
<1>5. \A q \in Askers : at'[q] = "asking" => q = p
  BY <1>1, <1>2, <1>3, <1>4 DEF Lined
<1>6. Lined'
  <2>1. \A q \in Askers : (at'[q] # "idle" <=> at[q] # "idle")
    BY <1>1, <1>4
  <2> QED BY <1>1, <1>2, <1>3, <1>5, <2>1 DEF Lined, Once, Among
<1>7. AsksDue'
  <2>1. Rates!DueAgain(last)' = Rates!DueAgain(last)
    BY <1>1 DEF Rates!DueAgain
  <2> QED BY <1>1, <1>4, <1>5, <2>1, UsedUp DEF AsksDue
<1>8. RatesTypes' /\ Remembered'
  BY <1>1, <1>4 DEF RatesInv, RatesTypes, Remembered
<1> QED BY <1>6, <1>7, <1>8 DEF RatesInv

(* Someone gives up, or is answered by what another brought.               *)
LEMMA LeaveStep ==
  ASSUME RatesConstants, RatesInv, NEW p \in Askers, at[p] # "idle", Rates!Leave(p),
         UNCHANGED <<rates, retryAt, failedAt, last>>
  PROVE  RatesInv'
<1>1. AsksDue'
  <2>1. Rates!DueAgain(last)' = Rates!DueAgain(last)
    BY DEF Rates!DueAgain
  <2> QED BY LeaveLine, <2>1 DEF AsksDue, RatesInv
<1>2. RatesTypes' /\ Remembered'
  BY LeaveLine DEF RatesInv, RatesTypes, Remembered
<1> QED BY <1>1, <1>2, LeaveLine DEF RatesInv

(* An ask ends, and nobody else is asking.                                 *)
LEMMA EndStep ==
  ASSUME RatesConstants, RatesInv, NEW p \in Askers, Rates!Bring(p) \/ Rates!Fail(p)
  PROVE  RatesInv'
<1>1. at[p] = "asking" /\ Rates!Leave(p)
  BY DEF Rates!Bring, Rates!Fail
<1>2. /\ line' \in Seq(Askers) /\ at' \in [Askers -> {"idle", "waiting", "asking"}]
      /\ since' \in [Askers -> Nat] /\ clock' \in Nat /\ Lined' /\ \A q \in Askers : at'[q] # "asking"
  BY <1>1, LeaveLine
<1>3. since[p] \in Nat /\ clock \in Nat /\ rates \in Nat \cup {None} /\ retryAt \in Int /\ failedAt \in Int
  BY DEF RatesInv, RatesTypes
<1>4. /\ rates' \in Nat \cup {None} /\ retryAt' \in Int /\ failedAt' \in Int /\ last' \in Outcomes
      /\ Remembered'
  <2>1. CASE Rates!Bring(p)
    BY <1>3, <2>1 DEF Rates!Bring, Rates!Ended, Rates!LongAgo, Outcomes, Remembered, RatesConstants
  <2>2. CASE Rates!Fail(p)
    BY <1>3, <2>2 DEF Rates!Fail, Rates!Ended, Outcomes, Remembered, RatesConstants
  <2> QED BY <2>1, <2>2
<1> QED BY <1>2, <1>4 DEF RatesInv, RatesTypes, AsksDue

LEMMA RatesStep ==
  ASSUME RatesConstants, RatesInv, Rates!Next
  PROVE  RatesInv'
<1>1. ASSUME NEW p \in Askers, Rates!AnswerAtOnce(p) PROVE RatesInv'
  BY <1>1, RatesStay DEF Rates!AnswerAtOnce, Rates!vars, ratesVars
<1>2. ASSUME NEW p \in Askers, Rates!AnswerAfterWait(p) \/ Rates!GiveUp(p) PROVE RatesInv'
  BY <1>2, LeaveStep DEF Rates!AnswerAfterWait, Rates!GiveUp, Rates!HasLock
<1>3. CASE Rates!Tick
  <2>1. clock' \in Nat /\ UNCHANGED <<rates, retryAt, failedAt, line, at, since, last>>
    BY <1>3 DEF Rates!Tick, RatesInv, RatesTypes
  <2> QED BY <2>1 DEF RatesInv, RatesTypes, Outcomes, Lined, Once, Among, Remembered, AsksDue, Rates!DueAgain
<1>4. CASE Rates!Restart
  <2>1. /\ line' = << >> /\ line' \in Seq(Askers) /\ Len(line') = 0 /\ clock' = clock
        /\ at' = [p \in Askers |-> "idle"] /\ since' = [p \in Askers |-> 0]
        /\ rates' = None /\ retryAt' = 0 /\ failedAt' = -ColdFailure
        /\ last' = [outcome |-> "none", began |-> 0, ended |-> 0]
    BY <1>4 DEF Rates!Restart, Rates!LongAgo, Rates!NoAsk
  <2>2. Lined'
    BY <2>1 DEF Lined, Once, Among
  <2>3. RatesTypes'
    BY <2>1 DEF RatesConstants, RatesInv, RatesTypes, Outcomes
  <2> QED BY <2>1, <2>2, <2>3 DEF RatesInv, Remembered, AsksDue
<1> QED BY <1>1, <1>2, <1>3, <1>4, QueueStep, AskStep, EndStep DEF Rates!Next

LEMMA RatesSafe == RatesInv => Rates!AskedOnce
BY DEF RatesInv, Lined, AsksDue, Rates!AskedOnce

(* When the rates expire many requests notice at once: one of them asks,   *)
(* and nobody asks again before what it brought, or the pause after its    *)
(* failure, is used up (get_all_conversion_rates), for any number of       *)
(* requests, any times to live, and requests given up at any time.         *)
THEOREM RatesAreAskedOnce == Rates!Spec => []Rates!AskedOnce
<1> USE RatesAssumption
<1>1. RatesInv /\ [Rates!Next]_(Rates!vars) => RatesInv'
  BY RatesStep, RatesStay DEF Rates!vars, ratesVars
<1>2. Rates!Init => RatesInv
  BY InitRates
<1> QED BY <1>1, <1>2, RatesSafe, PTL DEF Rates!Spec

-----------------------------------------------------------------------------
(* The same where the two caches are parts of the composition: no outside  *)
(* source is asked twice at a time, or too soon, and what was good         *)
(* outlasts a failure.                                                     *)
THEOREM SourcesAreAskedOnce == MovesSpec => []AskedOnceAndKept
<1> USE RatesAssumption, SeriesAssumption
<1> DEFINE I == (part = "rates" => RatesInv) /\ (part = "series" => SeriesInv)
<1>1. MovesInit => I
  BY InitRates, InitSeries DEF MovesInit
<1>2. I /\ [MovesNext]_<<part, vars, editVars, ratesVars, seriesVars>> => I'
  <2> SUFFICES ASSUME I, [MovesNext]_<<part, vars, editVars, ratesVars, seriesVars>> PROVE I'
    OBVIOUS
  <2>1. ASSUME part' = "rates" PROVE RatesInv'
    <3>1. part = "rates" /\ RatesInv /\ (Rates!Next \/ UNCHANGED ratesVars)
      BY <2>1 DEF MovesNext, TradesMove, EditMoves, RatesMove, SeriesMoves
    <3> QED BY <3>1, RatesStep, RatesStay
  <2>2. ASSUME part' = "series" PROVE SeriesInv'
    <3>1. part = "series" /\ SeriesInv /\ (Series!Next \/ UNCHANGED <<clock, seriesVars>>)
      BY <2>2 DEF MovesNext, TradesMove, EditMoves, RatesMove, SeriesMoves, ratesVars
    <3> QED BY <3>1, SeriesStep, SeriesStays
  <2> QED BY <2>1, <2>2
<1>3. I => AskedOnceAndKept
  BY RatesSafe, RegisteredOne DEF AskedOnceAndKept, SeriesInv
<1> QED BY <1>1, <1>2, <1>3, PTL DEF MovesSpec

-----------------------------------------------------------------------------
(* The edit form. What an edit on its way would change is what was typed   *)
(* in the form it was sent from, whatever was read or changed since.       *)
IsWrite(w) ==
  w = [kind |-> w.kind, changes |-> w.changes, typed |-> w.typed, open |-> w.open, reply |-> w.reply]

OnlyTyped(w) == IsWrite(w) /\ (w.kind = "edit" => DOMAIN w.changes = w.typed)

EditInv == \A w \in writes : OnlyTyped(w)

LEMMA Unopened ==
  ASSUME NEW w, OnlyTyped(w), NEW open
  PROVE  OnlyTyped([w EXCEPT !.open = open])
BY DEF OnlyTyped, IsWrite

LEMMA Replied ==
  ASSUME NEW w, OnlyTyped(w), NEW reply
  PROVE  OnlyTyped([w EXCEPT !.reply = reply])
BY DEF OnlyTyped, IsWrite

LEMMA SentIsTyped ==
  ASSUME NEW fields, NEW values
  PROVE  OnlyTyped(Editing!Sent("edit", fields, values, fields)) /\ OnlyTyped(Editing!Sent("delete", {}, values, {}))
BY DEF Editing!Sent, OnlyTyped, IsWrite

LEMMA EditStep ==
  ASSUME EditInv, Editing!Next
  PROVE  EditInv'
<1>1. ASSUME Editing!Left PROVE EditInv'
  BY <1>1, Unopened DEF EditInv, Editing!Left
<1>2. ASSUME writes' \subseteq writes PROVE EditInv'
  BY <1>2 DEF EditInv
<1>3. CASE Editing!SaveChanges
  <2>1. writes' = writes \cup {Editing!Sent("edit", {f \in TradeFields : form.now[f] # form.initial[f]}, form.now,
                                            {f \in TradeFields : form.now[f] # form.initial[f]})}
    BY <1>3 DEF Editing!SaveChanges, Editing!Changed
  <2> QED BY <2>1, SentIsTyped DEF EditInv
<1>4. CASE Editing!DeleteTrade
  BY <1>4, SentIsTyped DEF EditInv, Editing!DeleteTrade
<1>5. ASSUME NEW w \in writes, Editing!Answer(w) PROVE EditInv'
  BY <1>5, Replied DEF EditInv, Editing!Answer
<1>6. ASSUME NEW w \in writes, Editing!Arrive(w) \/ Editing!NoAnswer(w) PROVE EditInv'
  BY <1>2, <1>6 DEF Editing!Arrive, Editing!NoAnswer
<1>7. ASSUME Editing!ListRead \/ Editing!Reopen PROVE EditInv'
  BY <1>1, <1>2, <1>7 DEF Editing!ListRead, Editing!Reopen
<1>8. ASSUME \/ Editing!Cancel \/ Editing!Elsewhere \/ \E new \in {"edit", "delete"} : Editing!Open(new)
             \/ \E f \in TradeFields, v \in TradeValues : Editing!SetField(f, v)
      PROVE  EditInv'
  BY <1>2, <1>8 DEF Editing!Cancel, Editing!Elsewhere, Editing!Open, Editing!SetField
<1> QED BY <1>3, <1>4, <1>5, <1>6, <1>7, <1>8 DEF Editing!Next

LEMMA AnswerSparesOthers ==
  ASSUME EditInv
  PROVE  Editing!OthersStay
<1> SUFFICES ASSUME NEW w \in writes, Editing!Answer(w), w.kind = "edit", trade' # trade,
                    NEW f \in TradeFields \ w.typed
             PROVE  trade'[f] = trade[f]
  BY DEF Editing!OthersStay
<1>1. trade' = Editing!Saved(trade, w.changes)
  BY DEF Editing!Answer
<1>2. f \notin DOMAIN w.changes
  BY DEF EditInv, OnlyTyped
<1> QED BY <1>1, <1>2 DEF Editing!Saved

(* Saving an edit leaves alone what was not typed in it, whatever other    *)
(* devices changed while the form was open, for any fields and values and  *)
(* any number of saves on their way (updatePayload).                       *)
THEOREM TheFormSparesOthers == MovesSpec => OthersChangesStay
<1> DEFINE I == part = "edit" => EditInv
           allVars == <<part, vars, editVars, ratesVars, seriesVars>>
<1>1. MovesInit => I
  BY DEF MovesInit, Editing!Init, EditInv
<1>2. I /\ [MovesNext]_allVars => I'
  <2> SUFFICES ASSUME I, [MovesNext]_allVars, part' = "edit" PROVE EditInv'
    OBVIOUS
  <2>1. part = "edit" /\ EditInv /\ (Editing!Next \/ UNCHANGED writes)
    BY DEF MovesNext, TradesMove, EditMoves, RatesMove, SeriesMoves, editVars
  <2>2. UNCHANGED writes => EditInv'
    BY <2>1 DEF EditInv
  <2> QED BY <2>1, <2>2, EditStep
<1>3. I /\ [MovesNext]_allVars => [part = "edit" => Editing!OthersStay]_editVars
  BY AnswerSparesOthers
<1> QED BY <1>1, <1>2, <1>3, PTL DEF MovesSpec, OthersChangesStay

=============================================================================
