--------------------------- MODULE AnalystReports ---------------------------
(***************************************************************************)
(* Market analyst reports: a cached report per asset, a lock per asset     *)
(* that lives while somebody holds or waits for it, and sliding windows of *)
(* the fresh reports of each user and of everyone                          *)
(* (backend/analyst/service.py).                                           *)
(*                                                                         *)
(* The requests are coroutines of one process: they interleave at awaits.  *)
(* Time passes in ticks. A lock is an object that outlives its entry in    *)
(* _locks while a request still has it, so an entry dropped too early is   *)
(* visible: the next request makes a second lock.                          *)
(***************************************************************************)
EXTENDS Integers, Sequences, FiniteSets

CONSTANTS
  Procs,      (* the requests being served at once                         *)
  Users,
  Assets,     (* cache keys: asset, currency                               *)
  Locks,      (* names of the lock objects of one asset                    *)
  NoLock, NoRequest, Never,
  TTL,        (* CACHE_TTL                                                 *)
  Cooldown,   (* REFRESH_COOLDOWN                                          *)
  Window,     (* WINDOW_SECONDS                                            *)
  MaxWork,    (* the longest a report takes (COLLECT_TIMEOUT_SECONDS and   *)
              (* Gemini's own time limit)                                  *)
  PerUser,    (* GENERATIONS_PER_HOUR                                      *)
  Global,     (* GLOBAL_GENERATIONS_PER_HOUR                               *)
  MaxTime     (* bounds the clock                                          *)

Requests == [user : Users, asset : Assets, refresh : BOOLEAN]

ASSUME ProcsFinite == IsFiniteSet(Procs)
ASSUME LocksEnough == IsFiniteSet(Locks) /\ Cardinality(Locks) > Cardinality(Procs)
ASSUME NothingAssumption == NoLock \notin Assets \X Locks /\ NoRequest \notin Requests /\ Never \notin Nat
ASSUME TimesAssumption == {TTL, Cooldown, Window, MaxWork, MaxTime} \subseteq Nat
ASSUME LimitsAssumption == {PerUser, Global} \subseteq Nat

VARIABLES
  clock,
  cached,      (* when each asset's report was made                        *)
  lockOf,      (* _locks                                                   *)
  lockUsers,   (* _lock_users                                              *)
  queue,       (* who has each lock object: the holder, then who waits     *)
  mine,        (* the lock object each request has                         *)
  pc, req,
  started,     (* `now` of each request                                    *)
  slotAt,      (* when each request took its slot                          *)
  userSlots,   (* _user_generations                                        *)
  globalSlots, (* _global_generations                                      *)
  gone,        (* deleted accounts                                         *)
  spent        (* the requests that kept their slot, while it counts:      *)
               (* [user, at, made] (a history variable)                    *)

locking == <<lockOf, lockUsers, queue, mine>>
windows == <<userSlots, globalSlots>>
asking == <<pc, req, started, slotAt>>
vars == <<clock, cached, locking, asking, windows, gone, spent>>

Init ==
  /\ clock = 0
  /\ cached = [a \in Assets |-> Never]
  /\ lockOf = [a \in Assets |-> NoLock]
  /\ lockUsers = [a \in Assets |-> 0]
  /\ queue = [l \in Assets \X Locks |-> << >>]
  /\ mine = [p \in Procs |-> NoLock]
  /\ pc = [p \in Procs |-> "idle"]
  /\ req = [p \in Procs |-> NoRequest]
  /\ started = [p \in Procs |-> 0]
  /\ slotAt = [p \in Procs |-> 0]
  /\ userSlots = [u \in Users |-> << >>]
  /\ globalSlots = << >>
  /\ gone = {}
  /\ spent = << >>

(* How many times in front are from before the window (_drop_older_than).  *)
Older(times) ==
  CHOOSE n \in 0..Len(times) :
    (\A i \in 1..n : times[i] < clock - Window) /\ (n = Len(times) \/ times[n + 1] >= clock - Window)

Unexpired(times) == SubSeq(times, Older(times) + 1, Len(times))

StillCounts(entries) == SubSeq(entries, Older([i \in 1..Len(entries) |-> entries[i].at]) + 1, Len(entries))

Asset(p) == req[p].asset

Working(p) == pc[p] = "working"

Holds(p) == mine[p] # NoLock /\ queue[mine[p]] # << >> /\ Head(queue[mine[p]]) = p

-----------------------------------------------------------------------------
(* get_report up to the lock. A cached report that is fresh enough is      *)
(* served, a refresh too soon is refused, and nothing changes.             *)
YoungerThan(a, now, age) == cached[a] # Never /\ now - cached[a] < age

CacheAnswers(r) == YoungerThan(r.asset, clock, IF r.refresh THEN Cooldown ELSE TTL)

NewLock(a) == CHOOSE l \in {a} \X Locks : queue[l] = << >>

Ask(p, r) ==
  LET l == IF lockOf[r.asset] = NoLock THEN NewLock(r.asset) ELSE lockOf[r.asset]
  IN  /\ pc[p] = "idle"
      /\ r.user \notin gone
      /\ ~CacheAnswers(r)
      /\ lockOf' = [lockOf EXCEPT ![r.asset] = l]
      /\ lockUsers' = [lockUsers EXCEPT ![r.asset] = @ + 1]
      /\ queue' = [queue EXCEPT ![l] = Append(@, p)]
      /\ mine' = [mine EXCEPT ![p] = l]
      /\ pc' = [pc EXCEPT ![p] = "waiting"]
      /\ req' = [req EXCEPT ![p] = r]
      /\ started' = [started EXCEPT ![p] = clock]
      /\ UNCHANGED <<clock, cached, slotAt, windows, gone, spent>>

(* The lock is released to whoever waits longest; the last request to let  *)
(* go of it removes it from _locks.                                        *)
Done(p) ==
  /\ mine' = [mine EXCEPT ![p] = NoLock]
  /\ pc' = [pc EXCEPT ![p] = "idle"]
  /\ req' = [req EXCEPT ![p] = NoRequest]
  /\ started' = [started EXCEPT ![p] = 0]
  /\ slotAt' = [slotAt EXCEPT ![p] = 0]

LeaveDropping(p) ==   (* a slip: removed although others wait for it *)
  /\ queue' = [queue EXCEPT ![mine[p]] = Tail(@)]
  /\ lockUsers' = [lockUsers EXCEPT ![Asset(p)] = @ - 1]
  /\ lockOf' = [lockOf EXCEPT ![Asset(p)] = NoLock]
  /\ Done(p)

LeaveHolding(p) ==   (* a slip: not released *)
  /\ lockUsers' = [lockUsers EXCEPT ![Asset(p)] = @ - 1]
  /\ lockOf' = [lockOf EXCEPT ![Asset(p)] = IF lockUsers[Asset(p)] = 1 THEN NoLock ELSE @]
  /\ UNCHANGED queue
  /\ Done(p)

LeaveCounted(p) ==   (* a slip: an object nobody has stays in _locks *)
  /\ queue' = [queue EXCEPT ![mine[p]] = Tail(@)]
  /\ lockUsers' = [lockUsers EXCEPT ![Asset(p)] = @ - 1]
  /\ UNCHANGED lockOf
  /\ Done(p)

Leave(p) ==
  /\ queue' = [queue EXCEPT ![mine[p]] = Tail(@)]
  /\ lockUsers' = [lockUsers EXCEPT ![Asset(p)] = @ - 1]
  /\ lockOf' = [lockOf EXCEPT ![Asset(p)] =
                  IF lockUsers[Asset(p)] = 1 /\ @ = mine[p] THEN NoLock ELSE @]
  /\ Done(p)

-----------------------------------------------------------------------------
(* With the lock held.                                                     *)

DueAlways(p) == TRUE   (* a slip: no second look at the cache *)

(* Another request may have made the report meanwhile; a refresh does not  *)
(* look. The clock is the one read before the wait.                        *)
Due(p) == req[p].refresh \/ ~YoungerThan(Asset(p), started[p], TTL)

Full(p) ==
  \/ Len(Unexpired(userSlots[req[p].user])) >= PerUser
  \/ Len(Unexpired(globalSlots)) >= Global

Serve(p) ==
  /\ pc[p] = "waiting" /\ Holds(p)
  /\ ~Due(p)
  /\ Leave(p)
  /\ UNCHANGED <<clock, cached, windows, gone, spent>>

(* Over a limit: the older report, or a 429.                               *)
OverLimit(p) ==
  /\ pc[p] = "waiting" /\ Holds(p)
  /\ Due(p) /\ Full(p)
  /\ Leave(p)
  /\ userSlots' = [userSlots EXCEPT ![req[p].user] = Unexpired(@)]
  /\ globalSlots' = Unexpired(globalSlots)
  /\ UNCHANGED <<clock, cached, gone, spent>>

Take(p) ==
  /\ pc[p] = "waiting" /\ Holds(p)
  /\ Due(p) /\ ~Full(p)
  /\ userSlots' = [userSlots EXCEPT ![req[p].user] = Append(Unexpired(@), clock)]
  /\ globalSlots' = Append(Unexpired(globalSlots), clock)
  /\ pc' = [pc EXCEPT ![p] = "working"]
  /\ slotAt' = [slotAt EXCEPT ![p] = clock]
  /\ UNCHANGED <<clock, cached, locking, req, started, gone, spent>>

(* The newest slot of each window goes, whoever took it.                   *)
WithoutNewest(times) == IF times = << >> THEN times ELSE SubSeq(times, 1, Len(times) - 1)

KeepSlot(p) == UNCHANGED windows   (* a slip: nothing is given back *)

Refund(p) ==
  /\ userSlots' = [userSlots EXCEPT ![req[p].user] = WithoutNewest(@)]
  /\ globalSlots' = WithoutNewest(globalSlots)

(* No data, or none in time.                                               *)
NoData(p) ==
  /\ pc[p] = "working"
  /\ Refund(p)
  /\ Leave(p)
  /\ UNCHANGED <<clock, cached, gone, spent>>

Keep(p, made) ==
  spent' = Append(StillCounts(spent), [user |-> req[p].user, at |-> slotAt[p], made |-> made])

(* The data came: the report is built, reworded and saved. No other        *)
(* request sees anything of it before the save.                            *)
Save(p) ==
  /\ pc[p] = "working"
  /\ cached' = [cached EXCEPT ![Asset(p)] = clock]
  /\ Keep(p, TRUE)
  /\ Leave(p)
  /\ UNCHANGED <<clock, windows, gone>>

(* Any other error, while collecting or while saving: the slot stays taken.*)
Break(p) ==
  /\ pc[p] = "working"
  /\ Keep(p, FALSE)
  /\ Leave(p)
  /\ UNCHANGED <<clock, cached, windows, gone>>

-----------------------------------------------------------------------------
(* forget_user: the account is deleted. Its requests may still be running. *)
ForgetUser(u) ==
  /\ u \notin gone
  /\ gone' = gone \cup {u}
  /\ userSlots' = [userSlots EXCEPT ![u] = << >>]
  /\ UNCHANGED <<clock, cached, locking, asking, globalSlots, spent>>

(* Time does not pass a request that is out of time.                       *)
Tick ==
  /\ clock < MaxTime
  /\ \A p \in Procs : Working(p) => clock - slotAt[p] < MaxWork
  /\ clock' = clock + 1
  /\ UNCHANGED <<cached, locking, asking, windows, gone, spent>>

(* The server restarts: the reports are in the database, the rest is not.  *)
Restart ==
  /\ lockOf' = [a \in Assets |-> NoLock]
  /\ lockUsers' = [a \in Assets |-> 0]
  /\ queue' = [l \in Assets \X Locks |-> << >>]
  /\ mine' = [p \in Procs |-> NoLock]
  /\ pc' = [p \in Procs |-> "idle"]
  /\ req' = [p \in Procs |-> NoRequest]
  /\ started' = [p \in Procs |-> 0]
  /\ slotAt' = [p \in Procs |-> 0]
  /\ userSlots' = [u \in Users |-> << >>]
  /\ globalSlots' = << >>
  /\ spent' = << >>
  /\ UNCHANGED <<clock, cached, gone>>

Step(p) ==
  \/ Serve(p) \/ OverLimit(p) \/ Take(p)
  \/ NoData(p) \/ Save(p) \/ Break(p)

Next ==
  \/ \E p \in Procs : Step(p) \/ \E r \in Requests : Ask(p, r)
  \/ \E u \in Users : ForgetUser(u)
  \/ Tick
  \/ Restart

Spec == Init /\ [][Next]_vars

(* asyncio runs every ready task, and what a report waits for has a time   *)
(* limit (wait_for, the HTTP clients' timeouts).                           *)
FairSpec == Spec /\ \A p \in Procs : WF_vars(Step(p))

-----------------------------------------------------------------------------
(* What every variable holds; an asset has an entry in _locks exactly as   *)
(* long as a request holds or waits for it (_asset_lock), so entries do    *)
(* not pile up.                                                            *)
TypeOK ==
  /\ clock \in Nat
  /\ cached \in [Assets -> Nat \cup {Never}]
  /\ lockOf \in [Assets -> (Assets \X Locks) \cup {NoLock}]
  /\ lockUsers = [a \in Assets |-> Cardinality({p \in Procs : req[p] # NoRequest /\ Asset(p) = a})]
  /\ \A a \in Assets : lockOf[a] = NoLock <=> lockUsers[a] = 0
  /\ queue \in [Assets \X Locks -> Seq(Procs)]
  /\ mine \in [Procs -> (Assets \X Locks) \cup {NoLock}]
  /\ pc \in [Procs -> {"idle", "waiting", "working"}]
  /\ req \in [Procs -> Requests \cup {NoRequest}]
  /\ started \in [Procs -> Nat] /\ slotAt \in [Procs -> Nat]
  /\ userSlots \in [Users -> Seq(Nat)] /\ globalSlots \in Seq(Nat)
  /\ gone \subseteq Users
  /\ spent \in Seq([user : Users, at : Nat, made : BOOLEAN])

(* One report of an asset is made at a time (the comment above _locks).    *)
OneAtATime ==
  \A p, q \in Procs : Working(p) /\ Working(q) /\ Asset(p) = Asset(q) => p = q

(* A request that did not ask for a refresh only replaces a report whose   *)
(* time was up: those that waited together make one report between them.   *)
ReplacedWhenDue ==
  [][\A p \in Procs : Save(p) /\ ~req[p].refresh /\ cached[Asset(p)] # Never =>
       clock - cached[Asset(p)] >= TTL]_vars

(* A report without data does not use up a limit: no more slots are taken  *)
(* than there are requests working or that kept theirs.                    *)
TakenBy(U) ==
  Cardinality({i \in 1..Len(spent) : spent[i].user \in U /\ spent[i].at >= clock - Window})
    + Cardinality({p \in Procs : Working(p) /\ req[p].user \in U /\ slotAt[p] >= clock - Window})

SlotsGivenBack ==
  /\ \A u \in Users : Len(Unexpired(userSlots[u])) <= TakenBy({u})
  /\ Len(Unexpired(globalSlots)) <= TakenBy(Users)

(* A user gets at most PerUser fresh reports in a window, whatever fails   *)
(* in between (the comment at GENERATIONS_PER_HOUR).                       *)
HourlyLimit ==
  \A u \in Users \ gone :
    Cardinality({i \in 1..Len(spent) : spent[i].user = u /\ spent[i].made /\ spent[i].at >= clock - Window}) <= PerUser

(* Whoever waits for an asset's lock is answered, whichever way those      *)
(* before it end.                                                          *)
WaitersAnswered == \A p \in Procs : pc[p] = "waiting" ~> pc[p] = "idle"

=============================================================================
