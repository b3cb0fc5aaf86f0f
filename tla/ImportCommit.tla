---------------------------- MODULE ImportCommit ----------------------------
(***************************************************************************)
(* Saving a CSV import once (backend/routes/imports.py, commit_import and  *)
(* _commit). The page makes an id per import and sends it with every       *)
(* retry; the server keeps, in memory, which ids are being saved and what  *)
(* the finished ones answered. Under that sits a second guard: rows that   *)
(* are already among the user's trades are skipped.                        *)
(*                                                                         *)
(* One user and one file. A row of the file is a member of Rows and may    *)
(* occur several times in it. Whether the ledger, the limits or a bad row  *)
(* refuse the import is left open: that check is module Ledger's.          *)
(***************************************************************************)
EXTENDS Integers, FiniteSets

CONSTANTS
  Procs,      (* the requests being served at once                         *)
  Keys,       (* import ids                                                *)
  NoKey,      (* a request without an id                                   *)
  Carried,    (* the ids (or NoKey) the requests sent carry                *)
  Rows,
  File,       (* how often each row is in the file                         *)
  Included,   (* the rows ticked "import even if a duplicate"              *)
  Quota,      (* IMPORT_RATE_LIMIT: imports that may go through per window *)
  MaxSent,    (* bounds the requests ever sent                             *)
  MaxCopies   (* bounds how often one row can be saved                     *)

ASSUME ProcsFinite == IsFiniteSet(Procs)
ASSUME NoKeyAssumption == NoKey \notin Keys
ASSUME CarriedAssumption == Carried \subseteq Keys \cup {NoKey}
ASSUME FileAssumption == File \in [Rows -> Nat]
ASSUME IncludedAssumption == Included \subseteq Rows
ASSUME BoundsAssumption == Quota \in Nat \ {0} /\ MaxSent \in Nat /\ MaxCopies \in Nat

VARIABLES
  saved,      (* how often each row is among the user's trades             *)
  running,    (* _running_imports: the ids being saved                     *)
  finished,   (* _finished_imports: the ids with a kept answer             *)
  counted,    (* _import_times: imports that went through in the window    *)
  pc,         (* where each request is                                     *)
  key,        (* the id each request carries                               *)
  existing,   (* the saved trades each request has read                    *)
  saves,      (* how often an id's rows were saved while its answer was    *)
              (* kept (a history variable)                                 *)
  sent        (* requests sent so far                                      *)

vars == <<saved, running, finished, counted, pc, key, existing, saves, sent>>

Nothing == [r \in Rows |-> 0]

Places == {"idle", "waiting", "woken", "rates", "matching", "saved"}

Init ==
  /\ saved = Nothing
  /\ running = {}
  /\ finished = {}
  /\ counted = 0
  /\ pc = [p \in Procs |-> "idle"]
  /\ key = [p \in Procs |-> NoKey]
  /\ existing = [p \in Procs |-> Nothing]
  /\ saves = [k \in Keys |-> 0]
  /\ sent = 0

(* p is inside _commit.                                                    *)
Saving(p) == pc[p] \in {"rates", "matching", "saved"}

-----------------------------------------------------------------------------
(* Entering _commit: the id is marked as running, and the attempt and      *)
(* import quotas are checked before the first await.                       *)
EnterPastQuota(p, k) ==   (* a slip: one import too many *)
  /\ counted <= Quota
  /\ running' = running \cup ({k} \ {NoKey})
  /\ pc' = [pc EXCEPT ![p] = "rates"]
  /\ UNCHANGED <<saved, finished, counted, existing, saves>>

Enter(p, k) ==
  /\ counted < Quota
  /\ running' = running \cup ({k} \ {NoKey})
  /\ pc' = [pc EXCEPT ![p] = "rates"]
  /\ UNCHANGED <<saved, finished, counted, existing, saves>>

Wait(p, k) ==
  /\ k \in running
  /\ pc' = [pc EXCEPT ![p] = "waiting"]
  /\ UNCHANGED <<saved, running, finished, counted, existing, saves>>

(* The loop over the running event, then the kept answer, then a new run.  *)
(* Over the quota the request is refused, and nothing has changed.         *)
ProceedAtOnce(p, k) == k \notin finished /\ Enter(p, k)   (* a slip: no waiting *)

Proceed(p, k) ==
  \/ Wait(p, k)
  \/ k \notin running /\ k \notin finished /\ Enter(p, k)

Answered(p) ==
  /\ pc' = [pc EXCEPT ![p] = "idle"]
  /\ existing' = [existing EXCEPT ![p] = Nothing]

Arrive(p, k) ==
  /\ pc[p] = "idle"
  /\ sent < MaxSent
  /\ sent' = sent + 1
  /\ key' = [key EXCEPT ![p] = k]
  /\ Proceed(p, k)

(* A waiter whose event was set looks again; the import may have finished, *)
(* failed, or been taken up by another request.                            *)
LookAgain(p) ==
  /\ pc[p] = "woken"
  /\ UNCHANGED <<key, sent>>
  /\ \/ Proceed(p, key[p])
     \/ /\ key[p] \notin running
        /\ key[p] \in finished \/ counted >= Quota
        /\ Answered(p)
        /\ UNCHANGED <<saved, running, finished, counted, saves>>

(* The rates are loaded; the saved trades are read, then compared with the *)
(* rows in a thread.                                                       *)
ReadSaved(p) ==
  /\ pc[p] = "rates"
  /\ existing' = [existing EXCEPT ![p] = saved]
  /\ pc' = [pc EXCEPT ![p] = "matching"]
  /\ UNCHANGED <<saved, running, finished, counted, key, saves, sent>>

(* mark_duplicates: each saved trade matches one row at most. A ticked row *)
(* is imported all the same.                                               *)
(* A slip: rows of one kind are skipped only when all of them are saved.   *)
ToAddWhole(p) ==
  [r \in Rows |-> IF existing[p][r] >= File[r] /\ r \notin Included THEN 0 ELSE File[r]]

ToAdd(p) ==
  [r \in Rows |-> IF r \in Included THEN File[r]
                  ELSE IF existing[p][r] >= File[r] THEN 0
                  ELSE File[r] - existing[p][r]]

(* The rows are inserted, checked and committed under SQLite's write lock, *)
(* all or none. The request itself goes on when the commit has returned.   *)
Save(p) ==
  /\ pc[p] = "matching"
  /\ \A r \in Rows : saved[r] + ToAdd(p)[r] <= MaxCopies
  /\ saved' = [r \in Rows |-> saved[r] + ToAdd(p)[r]]
  /\ saves' = [k \in Keys |-> IF k = key[p] /\ ToAdd(p) # Nothing THEN saves[k] + 1 ELSE saves[k]]
  /\ pc' = [pc EXCEPT ![p] = "saved"]
  /\ UNCHANGED <<running, finished, counted, key, existing, sent>>

(* The end of commit_import: the id is no longer running, and whoever      *)
(* waits for it is woken.                                                  *)
LeaveWaiting(p) ==   (* a slip: the event is not set *)
  /\ running' = running \ {key[p]}
  /\ pc' = [pc EXCEPT ![p] = "idle"]
  /\ existing' = [existing EXCEPT ![p] = Nothing]

LeaveRunning(p) ==   (* a slip: the id stays among the running ones *)
  /\ UNCHANGED running
  /\ pc' = [pc EXCEPT ![p] = "idle"]
  /\ existing' = [existing EXCEPT ![p] = Nothing]

Leave(p) ==
  /\ running' = running \ {key[p]}
  /\ pc' = [q \in Procs |-> IF q = p THEN "idle"
                            ELSE IF pc[q] = "waiting" /\ key[q] = key[p] THEN "woken"
                            ELSE pc[q]]
  /\ existing' = [existing EXCEPT ![p] = Nothing]

Answer(p) ==
  /\ pc[p] = "saved"
  /\ counted' = counted + 1
  /\ finished' = finished \cup ({key[p]} \ {NoKey})
  /\ Leave(p)
  /\ UNCHANGED <<saved, key, saves, sent>>

(* No rates (503), a bad row or a limit (422), oversold (409): rolled back.*)
Refuse(p) ==
  /\ pc[p] \in {"rates", "matching"}
  /\ Leave(p)
  /\ UNCHANGED <<saved, finished, counted, key, saves, sent>>

(* A kept answer runs out (IMPORT_ID_TTL) or makes room (IMPORT_ID_LIMIT). *)
(* A saved row is deleted by hand; the rate window moves on.               *)
Forget(k) ==
  /\ k \in finished
  /\ finished' = finished \ {k}
  /\ saves' = [saves EXCEPT ![k] = 0]
  /\ UNCHANGED <<saved, running, counted, pc, key, existing, sent>>

DeleteRow(r) ==
  /\ saved[r] > 0
  /\ saved' = [saved EXCEPT ![r] = @ - 1]
  /\ UNCHANGED <<running, finished, counted, pc, key, existing, saves, sent>>

WindowMoves ==
  /\ counted > 0
  /\ counted' = counted - 1
  /\ UNCHANGED <<saved, running, finished, pc, key, existing, saves, sent>>

(* The server restarts: everything in memory is gone.                      *)
Restart ==
  /\ running' = {} /\ finished' = {} /\ counted' = 0
  /\ pc' = [p \in Procs |-> "idle"]
  /\ key' = [p \in Procs |-> NoKey]
  /\ existing' = [p \in Procs |-> Nothing]
  /\ saves' = [k \in Keys |-> 0]
  /\ UNCHANGED <<saved, sent>>

Step(p) == LookAgain(p) \/ ReadSaved(p) \/ Save(p) \/ Answer(p) \/ Refuse(p)

Next ==
  \/ \E p \in Procs, k \in Carried : Arrive(p, k)
  \/ \E p \in Procs : Step(p)
  \/ \E k \in Keys : Forget(k)
  \/ \E r \in Rows : DeleteRow(r)
  \/ WindowMoves
  \/ Restart

(* A request whose event was set, whose rates came or whose commit         *)
(* returned goes on: asyncio runs every ready task.                        *)
Fairness == \A p \in Procs : WF_vars(Step(p))

Spec == Init /\ [][Next]_vars

FairSpec == Spec /\ Fairness

-----------------------------------------------------------------------------
(* What every variable holds; and the running ids are those of the         *)
(* requests inside _commit, whichever way those leave it (the finally).    *)
TypeOK ==
  /\ saved \in [Rows -> Nat]
  /\ running = {key[p] : p \in {q \in Procs : Saving(q)}} \ {NoKey}
  /\ finished \subseteq Keys
  /\ counted \in Nat
  /\ pc \in [Procs -> Places]
  /\ \A p \in Procs : pc[p] \in {"waiting", "woken"} => key[p] \in Keys
  /\ key \in [Procs -> Keys \cup {NoKey}]
  /\ existing \in [Procs -> [Rows -> Nat]]
  /\ saves \in [Keys -> Nat]
  /\ sent \in Nat

(* However often an import is retried, its rows are saved once while its   *)
(* answer is kept: a retry waits for the first or gets its answer.         *)
SavedOncePerId == \A k \in Keys : saves[k] <= 1

(* No row is among the trades more often than in the file, after retries,  *)
(* restarts, forgotten answers and deletes: the second guard.              *)
NoExtraCopies == \A r \in Rows \ Included : saved[r] <= File[r]

(* Only imports that went through count, and the quota is looked at when a *)
(* request enters: requests running together pass it by one each at most.  *)
QuotaOvershootBounded == counted <= Quota + Cardinality(Procs) - 1

(* A request that waits for another's import is answered: the event is set *)
(* however that import ends.                                               *)
WaitersAnswered == \A p \in Procs : pc[p] \in {"waiting", "woken"} ~> pc[p] = "idle"

=============================================================================
