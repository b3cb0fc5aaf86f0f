----------------------------- MODULE RatesCache -----------------------------
(***************************************************************************)
(* The exchange rates in memory (asset_services.py): kept for FreshFor,    *)
(* asked for again by one request at a time, and after a failure only      *)
(* after a while, with the last good ones served meanwhile.                *)
(*                                                                         *)
(* A request looks at the cache, waits for the lock, looks again, and asks *)
(* open.er-api. It may be given up while it waits or asks (the analyst's   *)
(* wait_for cancels it): the lock is let go and nothing is noted.          *)
(***************************************************************************)
EXTENDS Integers, Sequences, SequencesExt

CONSTANTS
  None,
  Procs,         (* the requests running at once                           *)
  FreshFor,      (* FX_CACHE_SECONDS                                       *)
  RetryAfter,    (* FX_RETRY_SECONDS                                       *)
  ColdFailure,   (* FX_COLD_FAILURE_SECONDS                                *)
  MaxClock       (* bounds the time                                        *)

VARIABLES
  clock,
  rates,      (* when the rates in memory were asked for, or None          *)
  retryAt,    (* not before this time after a failed refresh               *)
  failedAt,   (* when an ask failed with nothing in memory                 *)
  line,       (* asyncio.Lock: who holds it, then who waits for it         *)
  pc,         (* where each request is                                     *)
  since,      (* when it asked: `now` after its second look                *)
  last        (* history: how the last ask ended, when it began and ended  *)

vars == <<clock, rates, retryAt, failedAt, line, pc, since, last>>

-----------------------------------------------------------------------------
LongAgo == -ColdFailure

NoAsk == [outcome |-> "none", began |-> 0, ended |-> 0]

Init ==
  /\ clock = 0
  /\ rates = None
  /\ retryAt = 0
  /\ failedAt = LongAgo
  /\ line = << >>
  /\ pc = [p \in Procs |-> "idle"]
  /\ since = [p \in Procs |-> 0]
  /\ last = NoAsk

Usable == rates # None /\ (clock - rates < FreshFor \/ clock < retryAt)

FailsFast == rates = None /\ clock - failedAt < ColdFailure

(* In memory, or a 503 at once.                                            *)
AnswerAtOnce(p) ==
  /\ pc[p] = "idle"
  /\ Usable \/ FailsFast
  /\ UNCHANGED vars

Queue(p) ==
  /\ pc[p] = "idle"
  /\ ~Usable /\ ~FailsFast
  /\ pc' = [pc EXCEPT ![p] = "waiting"]
  /\ line' = Append(line, p)
  /\ UNCHANGED <<clock, rates, retryAt, failedAt, since, last>>

Place(p) == CHOOSE i \in DOMAIN line : line[i] = p

Leave(p) ==
  /\ pc' = [pc EXCEPT ![p] = "idle"]
  /\ line' = RemoveAt(line, Place(p))
  /\ since' = [since EXCEPT ![p] = 0]
  /\ UNCHANGED clock

HasLock(p) == pc[p] = "waiting" /\ Head(line) = p

(* The request it waited for brought the rates, or just failed.            *)
AnswerAfterWait(p) ==
  /\ HasLock(p)
  /\ Usable \/ FailsFast
  /\ Leave(p)
  /\ UNCHANGED <<rates, retryAt, failedAt, last>>

StartsAsking(p) ==
  /\ pc' = [pc EXCEPT ![p] = "asking"]
  /\ since' = [since EXCEPT ![p] = clock]
  /\ UNCHANGED <<clock, rates, retryAt, failedAt, line, last>>

AskAtOnce(p) ==   (* a slip: no second look *)
  HasLock(p) /\ StartsAsking(p)

Ask(p) == HasLock(p) /\ ~Usable /\ ~FailsFast /\ StartsAsking(p)

Ended(p, outcome) == last' = [outcome |-> outcome, began |-> since[p], ended |-> clock]

Bring(p) ==
  /\ pc[p] = "asking"
  /\ rates' = since[p]
  /\ retryAt' = 0
  /\ failedAt' = LongAgo
  /\ Leave(p)
  /\ Ended(p, "good")

(* No answer, or one without positive numbers.                             *)
Fail(p) ==
  /\ pc[p] = "asking"
  /\ IF rates # None
     THEN retryAt' = since[p] + RetryAfter /\ UNCHANGED failedAt /\ Ended(p, "kept")
     ELSE failedAt' = clock /\ UNCHANGED retryAt /\ Ended(p, "cold")
  /\ Leave(p)
  /\ UNCHANGED rates

GiveUp(p) ==
  /\ pc[p] # "idle"
  /\ Leave(p)
  /\ UNCHANGED <<rates, retryAt, failedAt, last>>

Tick ==
  /\ clock < MaxClock
  /\ clock' = clock + 1
  /\ UNCHANGED <<rates, retryAt, failedAt, line, pc, since, last>>

(* The server stops and starts: nothing is in memory.                      *)
Restart ==
  /\ rates' = None
  /\ retryAt' = 0
  /\ failedAt' = LongAgo
  /\ line' = << >>
  /\ pc' = [p \in Procs |-> "idle"]
  /\ since' = [p \in Procs |-> 0]
  /\ last' = NoAsk
  /\ UNCHANGED clock

Next ==
  \/ \E p \in Procs :
       \/ AnswerAtOnce(p) \/ Queue(p) \/ AnswerAfterWait(p) \/ Ask(p)
       \/ Bring(p) \/ Fail(p) \/ GiveUp(p)
  \/ Tick \/ Restart

Spec == Init /\ [][Next]_vars

-----------------------------------------------------------------------------
(* How long the outcome of an ask holds.                                   *)
DueAgain(ask) ==
  CASE ask.outcome = "none" -> 0
    [] ask.outcome = "good" -> ask.began + FreshFor
    [] ask.outcome = "kept" -> ask.began + RetryAfter
    [] ask.outcome = "cold" -> ask.ended + ColdFailure

(* When the rates expire many requests notice at once: one of them asks,   *)
(* and nobody asks again before what it brought is used up, also when it   *)
(* brought nothing (get_all_conversion_rates).                             *)
AskedOnce ==
  \A p \in Procs : pc[p] = "asking" =>
    /\ since[p] >= DueAgain(last)
    /\ \A q \in Procs \ {p} : pc[q] # "asking"

=============================================================================
