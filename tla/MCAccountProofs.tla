-------------------------- MODULE MCAccountProofs --------------------------
(***************************************************************************)
(* Proofs about what MCAccount checks. The import (ImportCommit), for any  *)
(* number of requests, ids and rows: an import is saved once while its     *)
(* answer is kept, how far requests that run together pass the quota, and  *)
(* that retries of one import never leave a row saved more often than the  *)
(* file has it. What stands in front of an account: the app's lock and the *)
(* Keychain behind it (AppLock), for any number of sign ins and stops, and *)
(* the sign ins of AccountsProofs in the composition.                      *)
(***************************************************************************)
EXTENDS MCAccount, Sequences, FiniteSetTheorems, TLAPS

(* What makes an id's rows be saved once: at most one request per id is    *)
(* inside _commit, an id in there has no kept answer, and an id whose rows *)
(* were saved has its answer kept or about to be.                          *)
OneRunner ==
  \A p, q \in Procs :
    (p # q /\ Saving(p) /\ Saving(q) /\ key[p] = key[q]) => key[p] = NoKey

RunningUnanswered == running \cap finished = {}

SavedThenAnswered ==
  \A k \in Keys :
    \/ saves[k] = 0
    \/ /\ saves[k] = 1
       /\ k \in finished \/ \E p \in Procs : pc[p] = "saved" /\ key[p] = k

IInv == TypeOK /\ OneRunner /\ RunningUnanswered /\ SavedThenAnswered

-----------------------------------------------------------------------------
(* What a request has to add is a number of copies of each row.            *)
LEMMA ToAddType ==
  ASSUME NEW p \in Procs, existing \in [Procs -> [Rows -> Nat]]
  PROVE  ToAdd(p) \in [Rows -> Nat]
<1> USE FileAssumption
<1> SUFFICES ASSUME NEW r \in Rows
             PROVE  (IF r \in Included THEN File[r]
                     ELSE IF existing[p][r] >= File[r] THEN 0
                     ELSE File[r] - existing[p][r]) \in Nat
  BY DEF ToAdd
<1>1. File[r] \in Nat /\ existing[p][r] \in Nat
  OBVIOUS
<1> QED BY <1>1

LEMMA InitIInv == Init => IInv
<1> SUFFICES ASSUME Init PROVE IInv
  OBVIOUS
<1>1. TypeOK
  BY DEF Init, TypeOK, Nothing, Places, Saving
<1>2. OneRunner /\ RunningUnanswered /\ SavedThenAnswered
  BY DEF Init, OneRunner, RunningUnanswered, SavedThenAnswered, Saving
<1> QED BY <1>1, <1>2 DEF IInv

(* Entering _commit: the id was not running, so nobody else is in there    *)
(* with it, and it has no kept answer.                                     *)
LEMMA EnterIInv ==
  ASSUME IInv, NEW p \in Procs, NEW k \in Keys \cup {NoKey},
         pc[p] \in {"idle", "woken"}, key' = [key EXCEPT ![p] = k], sent' \in Nat,
         k \notin running, k \notin finished, Enter(p, k)
  PROVE  IInv'
<1> USE NoKeyAssumption
<1> USE DEF IInv
<1>0. pc' \in [Procs -> Places] /\ key' \in [Procs -> Keys \cup {NoKey}]
  BY DEF TypeOK, Enter, Places
<1>1. \A q \in Procs : /\ q # p => pc'[q] = pc[q] /\ key'[q] = key[q] /\ (Saving(q)' <=> Saving(q))
                       /\ q = p => pc'[q] = "rates" /\ key'[q] = k /\ ~Saving(q) /\ Saving(q)'
  BY DEF TypeOK, Enter, Saving
<1>2. running' = {key'[q] : q \in {x \in Procs : Saving(x)'}} \ {NoKey}
  <2>1. running = {key[q] : q \in {x \in Procs : Saving(x)}} \ {NoKey}
    BY DEF TypeOK
  <2>2. running' = running \cup ({k} \ {NoKey})
    BY DEF Enter
  <2> QED BY <1>1, <2>1, <2>2
<1>3. TypeOK'
  BY <1>0, <1>1, <1>2 DEF TypeOK, Enter
<1>4. OneRunner'
  <2>1. \A q \in Procs : q # p /\ Saving(q) /\ k # NoKey => key[q] # k
    BY DEF TypeOK
  <2> QED BY <1>1, <2>1 DEF OneRunner
<1>5. RunningUnanswered'
  BY DEF RunningUnanswered, Enter
<1>6. SavedThenAnswered'
  <2>1. \A q \in Procs : pc[q] = "saved" => q # p
    OBVIOUS
  <2> QED BY <1>1, <2>1 DEF SavedThenAnswered, Enter
<1> QED BY <1>3, <1>4, <1>5, <1>6

(* Leaving _commit: the id stops running together with its only request.   *)
LEMMA LeaveIInv ==
  ASSUME IInv, NEW p \in Procs, Saving(p), Leave(p), key' = key, sent' \in Nat,
         saved' \in [Rows -> Nat], counted' \in Nat, UNCHANGED saves,
         \/ pc[p] = "saved" /\ finished' = finished \cup ({key[p]} \ {NoKey})
         \/ pc[p] # "saved" /\ finished' = finished
  PROVE  IInv'
<1> USE NoKeyAssumption
<1> USE DEF IInv
<1>0. pc' \in [Procs -> Places]
  BY DEF TypeOK, Leave, Places
<1>1. \A q \in Procs : /\ Saving(q)' <=> q # p /\ Saving(q)
                       /\ pc'[q] = "saved" <=> q # p /\ pc[q] = "saved"
                       /\ pc'[q] \in {"waiting", "woken"} => key[q] \in Keys
  BY DEF TypeOK, Leave, Saving, Places
<1>2. running' = {key[q] : q \in {x \in Procs : Saving(x)'}} \ {NoKey}
  <2>1. running = {key[q] : q \in {x \in Procs : Saving(x)}} \ {NoKey}
    BY DEF TypeOK
  <2>2. running' = running \ {key[p]}
    BY DEF Leave
  <2>3. \A q \in Procs : q # p /\ Saving(q) /\ key[q] # NoKey => key[q] # key[p]
    BY DEF OneRunner
  <2> QED BY <1>1, <2>1, <2>2, <2>3
<1>3. TypeOK'
  <2>1. existing' \in [Procs -> [Rows -> Nat]]
    BY DEF TypeOK, Leave, Nothing
  <2>2. key' \in [Procs -> Keys \cup {NoKey}] /\ saves' \in [Keys -> Nat] /\ finished' \subseteq Keys
    BY DEF TypeOK
  <2> QED BY <1>0, <1>1, <1>2, <2>1, <2>2 DEF TypeOK
<1>4. OneRunner'
  BY <1>1 DEF OneRunner
<1>5. RunningUnanswered'
  BY DEF RunningUnanswered, Leave
<1>6. SavedThenAnswered'
  BY <1>1 DEF SavedThenAnswered, TypeOK
<1> QED BY <1>3, <1>4, <1>5, <1>6

(* The rows are saved: the request is the id's only one, so no request     *)
(* before it saved them since the answer was last forgotten.               *)
LEMMA SaveIInv ==
  ASSUME IInv, NEW p \in Procs, Save(p)
  PROVE  IInv'
<1> USE NoKeyAssumption
<1> USE DEF IInv
<1>1. ToAdd(p) \in [Rows -> Nat]
  BY ToAddType DEF TypeOK
<1>2. saved' \in [Rows -> Nat] /\ saves' \in [Keys -> Nat] /\ pc' \in [Procs -> Places]
  BY <1>1 DEF TypeOK, Save, Places
<1>3. \A q \in Procs : /\ Saving(q)' <=> Saving(q)
                       /\ pc'[q] = "saved" <=> q = p \/ pc[q] = "saved"
                       /\ q # p => pc'[q] = pc[q]
  BY DEF TypeOK, Save, Saving
<1>4. TypeOK'
  <2>1. running' = {key'[q] : q \in {x \in Procs : Saving(x)'}} \ {NoKey}
    BY <1>3 DEF TypeOK, Save
  <2> QED BY <1>2, <1>3, <2>1 DEF TypeOK, Save
<1>5. OneRunner'
  BY <1>3 DEF OneRunner, Save
<1>6. RunningUnanswered'
  BY DEF RunningUnanswered, Save
<1>7. SavedThenAnswered'
  <2>1. Saving(p) /\ pc[p] # "saved"
    BY DEF Save, Saving
  <2>2. key[p] # NoKey => saves[key[p]] = 0
    <3> SUFFICES ASSUME key[p] # NoKey, saves[key[p]] # 0 PROVE FALSE
      OBVIOUS
    <3>1. key[p] \in running /\ key[p] \in Keys
      BY <2>1 DEF TypeOK
    <3>2. PICK q \in Procs : pc[q] = "saved" /\ key[q] = key[p]
      BY <3>1 DEF RunningUnanswered, SavedThenAnswered
    <3> QED BY <2>1, <3>2 DEF OneRunner, Saving
  <2>3. ASSUME NEW k \in Keys
        PROVE  \/ saves'[k] = 0
               \/ /\ saves'[k] = 1
                  /\ k \in finished' \/ \E q \in Procs : pc'[q] = "saved" /\ key'[q] = k
    <3>1. CASE k = key[p]
      <4>1. saves[k] = 0 /\ saves'[k] \in {0, 1}
        BY <2>2, <3>1 DEF Save, TypeOK
      <4> QED BY <1>3, <3>1, <4>1 DEF Save
    <3>2. CASE k # key[p]
      <4>1. saves'[k] = saves[k]
        BY <3>2 DEF Save, TypeOK
      <4> QED BY <1>3, <4>1 DEF Save, SavedThenAnswered
    <3> QED BY <3>1, <3>2
  <2> QED BY <2>3 DEF SavedThenAnswered
<1> QED BY <1>4, <1>5, <1>6, <1>7

(* A step that starts and ends outside _commit, with what it may change.   *)
LEMMA OutsideIInv ==
  ASSUME IInv, NEW p \in Procs, NEW k \in Keys \cup {NoKey}, NEW place \in {"idle", "waiting"},
         ~Saving(p), place = "waiting" => k \in Keys,
         pc' = [pc EXCEPT ![p] = place], key' = [key EXCEPT ![p] = k],
         existing' \in [Procs -> [Rows -> Nat]], sent' \in Nat,
         UNCHANGED <<saved, running, finished, counted, saves>>
  PROVE  IInv'
<1> USE DEF IInv
<1>1. pc' \in [Procs -> Places] /\ key' \in [Procs -> Keys \cup {NoKey}]
  BY DEF TypeOK, Places
<1>2. \A q \in Procs : /\ Saving(q)' <=> Saving(q)
                       /\ pc'[q] = "saved" <=> pc[q] = "saved"
                       /\ Saving(q) => key'[q] = key[q]
                       /\ q # p => key'[q] = key[q] /\ pc'[q] = pc[q]
                       /\ q = p => key'[q] = k /\ pc'[q] = place
  BY DEF TypeOK, Saving
<1>3. TypeOK'
  <2>1. running' = {key'[q] : q \in {x \in Procs : Saving(x)'}} \ {NoKey}
    BY <1>2 DEF TypeOK
  <2> QED BY <1>1, <1>2, <2>1 DEF TypeOK
<1>4. OneRunner'
  BY <1>2 DEF OneRunner
<1>5. RunningUnanswered'
  BY DEF RunningUnanswered
<1>6. SavedThenAnswered'
  BY <1>2 DEF SavedThenAnswered, Saving
<1> QED BY <1>3, <1>4, <1>5, <1>6

(* Every step keeps the invariant: one case per action of Next.            *)
LEMMA NextIInv == IInv /\ [Next]_vars => IInv'
<1> USE DEF IInv
<1> SUFFICES ASSUME IInv, [Next]_vars PROVE IInv'
  OBVIOUS
<1>1. ASSUME NEW p \in Procs, NEW k \in Keys \cup {NoKey}, pc[p] \in {"idle", "woken"},
             key' = [key EXCEPT ![p] = k], sent' \in Nat, Proceed(p, k)
      PROVE  IInv'
  <2>1. CASE Wait(p, k)
    <3>1. k \in Keys /\ ~Saving(p) /\ existing' \in [Procs -> [Rows -> Nat]]
      BY <1>1, <2>1 DEF Wait, TypeOK, Saving
    <3> QED BY <1>1, <2>1, <3>1, OutsideIInv DEF Wait
  <2>2. CASE k \notin running /\ k \notin finished /\ Enter(p, k)
    BY <1>1, <2>2, EnterIInv
  <2> QED BY <1>1, <2>1, <2>2 DEF Proceed
<1>2. ASSUME NEW p \in Procs, NEW k \in Carried, Arrive(p, k) PROVE IInv'
  <2>1. k \in Keys \cup {NoKey} /\ sent' \in Nat
    BY <1>2, CarriedAssumption DEF Arrive, TypeOK
  <2> QED BY <1>1, <1>2, <2>1 DEF Arrive
<1>3. ASSUME NEW p \in Procs, LookAgain(p) PROVE IInv'
  <2>1. key[p] \in Keys \cup {NoKey} /\ key' = [key EXCEPT ![p] = key[p]] /\ sent' \in Nat
    BY <1>3 DEF LookAgain, TypeOK
  <2>2. CASE Proceed(p, key[p])
    BY <1>1, <1>3, <2>1, <2>2 DEF LookAgain
  <2>3. CASE Answered(p) /\ UNCHANGED <<saved, running, finished, counted, saves>>
    <3>1. ~Saving(p) /\ existing' \in [Procs -> [Rows -> Nat]]
      BY <1>3, <2>3 DEF LookAgain, Answered, Nothing, TypeOK, Saving
    <3> QED BY <2>1, <2>3, <3>1, OutsideIInv DEF Answered
  <2> QED BY <1>3, <2>2, <2>3 DEF LookAgain
<1>4. ASSUME NEW p \in Procs, ReadSaved(p) PROVE IInv'
  <2>1. \A q \in Procs : /\ Saving(q)' <=> Saving(q)
                         /\ pc'[q] = "saved" <=> pc[q] = "saved"
                         /\ q # p => pc'[q] = pc[q]
    BY <1>4 DEF ReadSaved, TypeOK, Saving
  <2>2. TypeOK'
    <3>1. running' = {key'[q] : q \in {x \in Procs : Saving(x)'}} \ {NoKey}
      BY <1>4, <2>1 DEF TypeOK, ReadSaved
    <3> QED BY <1>4, <2>1, <3>1 DEF TypeOK, ReadSaved, Places
  <2>3. OneRunner' /\ RunningUnanswered' /\ SavedThenAnswered'
    BY <1>4, <2>1 DEF ReadSaved, OneRunner, RunningUnanswered, SavedThenAnswered
  <2> QED BY <2>2, <2>3
<1>5. ASSUME NEW p \in Procs, Save(p) PROVE IInv'
  BY <1>5, SaveIInv
<1>6. ASSUME NEW p \in Procs, Answer(p) PROVE IInv'
  <2>1. Saving(p) /\ counted' \in Nat /\ saved' \in [Rows -> Nat] /\ sent' \in Nat
    BY <1>6 DEF Answer, Saving, TypeOK
  <2> QED BY <1>6, <2>1, LeaveIInv DEF Answer
<1>7. ASSUME NEW p \in Procs, Refuse(p) PROVE IInv'
  <2>1. Saving(p) /\ pc[p] # "saved" /\ counted' \in Nat /\ saved' \in [Rows -> Nat] /\ sent' \in Nat
    BY <1>7 DEF Refuse, Saving, TypeOK
  <2> QED BY <1>7, <2>1, LeaveIInv DEF Refuse
<1>8. ASSUME NEW k \in Keys, Forget(k) PROVE IInv'
  <2>1. TypeOK'
    BY <1>8 DEF Forget, TypeOK, Saving
  <2>2. SavedThenAnswered'
    BY <1>8 DEF Forget, SavedThenAnswered, TypeOK
  <2> QED BY <1>8, <2>1, <2>2 DEF Forget, OneRunner, RunningUnanswered, Saving
<1>9. ASSUME UNCHANGED <<running, finished, pc, key, existing, saves, sent>>,
             saved' \in [Rows -> Nat], counted' \in Nat
      PROVE  IInv'
  BY <1>9 DEF TypeOK, Saving, OneRunner, RunningUnanswered, SavedThenAnswered
<1>10. ASSUME NEW r \in Rows, DeleteRow(r) PROVE IInv'
  <2>1. saved' \in [Rows -> Nat]
    BY <1>10 DEF DeleteRow, TypeOK
  <2> QED BY <1>9, <1>10, <2>1 DEF DeleteRow, TypeOK
<1>11. ASSUME WindowMoves PROVE IInv'
  <2>1. counted' \in Nat
    BY <1>11 DEF WindowMoves, TypeOK
  <2> QED BY <1>9, <1>11, <2>1 DEF WindowMoves, TypeOK
<1>12. ASSUME Restart PROVE IInv'
  <2>1. \A q \in Procs : ~Saving(q)'
    BY <1>12 DEF Restart, Saving
  <2>2. TypeOK'
    BY <1>12, <2>1 DEF Restart, TypeOK, Places, Nothing
  <2> QED BY <1>12, <2>1, <2>2 DEF Restart, OneRunner, RunningUnanswered, SavedThenAnswered
<1>13. ASSUME UNCHANGED vars PROVE IInv'
  BY <1>9, <1>13 DEF vars, TypeOK
<1> QED
  BY <1>2, <1>3, <1>4, <1>5, <1>6, <1>7, <1>8, <1>10, <1>11, <1>12, <1>13 DEF Next, Step

-----------------------------------------------------------------------------
(* The types, and that the running ids are exactly those of the requests   *)
(* inside _commit.                                                         *)
THEOREM TypeCorrect == Spec => []TypeOK
<1>1. IInv => TypeOK
  BY DEF IInv
<1> QED BY <1>1, InitIInv, NextIInv, PTL DEF Spec

(* Retries of an import, however many and however they interleave, save    *)
(* its rows once while its answer is kept.                                 *)
THEOREM SavedOnce == Spec => []SavedOncePerId
<1>1. IInv => SavedOncePerId
  BY DEF IInv, SavedThenAnswered, SavedOncePerId
<1> QED BY <1>1, InitIInv, NextIInv, PTL DEF Spec

-----------------------------------------------------------------------------
(* Why the quota is passed by so little: whoever is inside _commit entered *)
(* while fewer than Quota imports had gone through.                        *)
Savers == {p \in Procs : Saving(p)}

QInv == IInv /\ counted + Cardinality(Savers) <= Quota - 1 + Cardinality(Procs)

LEMMA SaversFinite ==
  /\ IsFiniteSet(Savers) /\ Cardinality(Savers) \in Nat /\ Cardinality(Savers) <= Cardinality(Procs)
  /\ Cardinality(Procs) \in Nat
BY ProcsFinite, FS_Subset, FS_CardinalityType DEF Savers

(* The quota holds for a step that leaves the set of requests in there as  *)
(* it is, and the count no higher.                                         *)
LEMMA SameSavers ==
  ASSUME QInv, counted' \in Nat, counted' <= counted, Savers' = Savers
  PROVE  counted' + Cardinality(Savers)' <= Quota - 1 + Cardinality(Procs)
BY SaversFinite, BoundsAssumption DEF QInv, IInv, TypeOK

LEMMA EnterQuota ==
  ASSUME QInv, NEW p \in Procs, NEW k, Enter(p, k)
  PROVE  counted' + Cardinality(Savers)' <= Quota - 1 + Cardinality(Procs)
<1>1. Savers' \subseteq Procs
  BY DEF Savers
<1>2. Cardinality(Savers') \in Nat /\ Cardinality(Savers') <= Cardinality(Procs)
  BY <1>1, ProcsFinite, FS_Subset, FS_CardinalityType
<1>3. counted' <= Quota - 1 /\ counted' \in Nat
  BY BoundsAssumption DEF Enter, QInv, IInv, TypeOK
<1> QED BY <1>2, <1>3, SaversFinite, BoundsAssumption

(* One request fewer inside _commit, and at most one import more.          *)
LEMMA LeaveQuota ==
  ASSUME QInv, NEW p \in Procs, Saving(p), Leave(p), counted' \in {counted, counted + 1}
  PROVE  counted' + Cardinality(Savers)' <= Quota - 1 + Cardinality(Procs)
<1>1. Savers' = Savers \ {p} /\ p \in Savers
  BY DEF Savers, Saving, Leave, QInv, IInv, TypeOK, Places
<1>2. Cardinality(Savers') = Cardinality(Savers) - 1
  BY <1>1, SaversFinite, FS_RemoveElement
<1> QED BY <1>2, SaversFinite, BoundsAssumption DEF QInv, IInv, TypeOK

LEMMA NextQInv == QInv /\ [Next]_vars => QInv'
<1> SUFFICES ASSUME QInv, [Next]_vars PROVE QInv'
  OBVIOUS
<1>1. IInv'
  BY NextIInv DEF QInv
<1> SUFFICES counted' + Cardinality(Savers)' <= Quota - 1 + Cardinality(Procs)
  BY <1>1 DEF QInv
<1>2. counted \in Nat /\ counted' \in Nat /\ pc \in [Procs -> Places]
  BY <1>1 DEF QInv, IInv, TypeOK
<1>3. ASSUME NEW p \in Procs, NEW k, pc[p] \in {"idle", "woken"}, Proceed(p, k)
      PROVE  counted' + Cardinality(Savers)' <= Quota - 1 + Cardinality(Procs)
  <2>1. CASE Wait(p, k)
    <3>1. Savers' = Savers /\ counted' = counted
      BY <1>2, <1>3, <2>1 DEF Wait, Savers, Saving
    <3> QED BY <1>2, <3>1, SameSavers
  <2>2. CASE Enter(p, k)
    BY <2>2, EnterQuota
  <2> QED BY <1>3, <2>1, <2>2 DEF Proceed
<1>4. ASSUME NEW p \in Procs, NEW k \in Carried, Arrive(p, k)
      PROVE  counted' + Cardinality(Savers)' <= Quota - 1 + Cardinality(Procs)
  BY <1>3, <1>4 DEF Arrive
<1>5. ASSUME NEW p \in Procs, LookAgain(p)
      PROVE  counted' + Cardinality(Savers)' <= Quota - 1 + Cardinality(Procs)
  <2>1. CASE Answered(p) /\ counted' = counted
    <3>1. Savers' = Savers
      BY <1>2, <1>5, <2>1 DEF LookAgain, Answered, Savers, Saving
    <3> QED BY <1>2, <2>1, <3>1, SameSavers
  <2> QED BY <1>3, <1>5, <2>1 DEF LookAgain
<1>6. ASSUME NEW p \in Procs, ReadSaved(p) \/ Save(p)
      PROVE  counted' + Cardinality(Savers)' <= Quota - 1 + Cardinality(Procs)
  <2>1. Savers' = Savers /\ counted' = counted
    BY <1>2, <1>6 DEF ReadSaved, Save, Savers, Saving
  <2> QED BY <1>2, <2>1, SameSavers
<1>7. ASSUME NEW p \in Procs, Answer(p) \/ Refuse(p)
      PROVE  counted' + Cardinality(Savers)' <= Quota - 1 + Cardinality(Procs)
  <2>1. Saving(p) /\ Leave(p) /\ counted' \in {counted, counted + 1}
    BY <1>7 DEF Answer, Refuse, Saving
  <2> QED BY <2>1, LeaveQuota
<1>8. ASSUME UNCHANGED pc, counted' <= counted
      PROVE  counted' + Cardinality(Savers)' <= Quota - 1 + Cardinality(Procs)
  <2>1. Savers' = Savers
    BY <1>8 DEF Savers, Saving
  <2> QED BY <1>2, <1>8, <2>1, SameSavers
<1>9. ASSUME Restart
      PROVE  counted' + Cardinality(Savers)' <= Quota - 1 + Cardinality(Procs)
  <2>1. Savers' = {} /\ counted' = 0
    BY <1>9 DEF Restart, Savers, Saving
  <2> QED BY <2>1, FS_EmptySet, SaversFinite, BoundsAssumption
<1>10. ASSUME (\E k \in Keys : Forget(k)) \/ (\E r \in Rows : DeleteRow(r)) \/ WindowMoves
       PROVE  UNCHANGED pc /\ counted' <= counted
  BY <1>2, <1>10 DEF Forget, DeleteRow, WindowMoves
<1> QED
  BY <1>2, <1>4, <1>5, <1>6, <1>7, <1>8, <1>9, <1>10 DEF Next, Step, vars

(* Requests running together pass the quota of imports by one each at      *)
(* most, and one of them not at all (_check_import_quota, _count_import).  *)
THEOREM QuotaOvershoot == Spec => []QuotaOvershootBounded
<1>1. Init => QInv
  <2> SUFFICES ASSUME Init PROVE QInv
    OBVIOUS
  <2>1. Savers = {} /\ counted = 0
    BY DEF Init, Savers, Saving
  <2> QED BY <2>1, InitIInv, FS_EmptySet, SaversFinite, BoundsAssumption DEF QInv
<1>2. QInv => QuotaOvershootBounded
  BY SaversFinite, BoundsAssumption DEF QInv, IInv, TypeOK, QuotaOvershootBounded
<1> QED BY <1>1, <1>2, NextQInv, PTL DEF Spec

-----------------------------------------------------------------------------
(* Why the second guard works among retries of one import: only one of     *)
(* them is inside _commit, so between its read of the saved trades and its *)
(* insert trades can only have been deleted.                               *)
CarriedKeys == \A p \in Procs : pc[p] # "idle" => key[p] \in Carried

ReadAreUpperBounds ==
  \A p \in Procs, r \in Rows : pc[p] = "matching" => saved[r] <= existing[p][r]

RInv == IInv /\ CarriedKeys /\ ReadAreUpperBounds /\ NoExtraCopies

(* Nothing is inserted that would be a copy too many.                      *)
LEMMA SaveAddsMissing ==
  ASSUME RInv, NEW p \in Procs, Save(p), NEW r \in Rows \ Included
  PROVE  saved'[r] <= File[r]
<1>1. saved[r] \in Nat /\ existing[p][r] \in Nat /\ File[r] \in Nat
  BY FileAssumption DEF RInv, IInv, TypeOK
<1>2. ToAdd(p)[r] = IF existing[p][r] >= File[r] THEN 0 ELSE File[r] - existing[p][r]
  BY DEF ToAdd
<1>3. saved[r] <= existing[p][r] /\ saved[r] <= File[r]
  BY DEF Save, RInv, ReadAreUpperBounds, NoExtraCopies
<1>4. saved'[r] = saved[r] + ToAdd(p)[r]
  BY DEF Save
<1> QED BY <1>1, <1>2, <1>3, <1>4

LEMMA NextRInv ==
  ASSUME NEW only \in Keys, Carried = {only}
  PROVE  RInv /\ [Next]_vars => RInv'
<1> SUFFICES ASSUME RInv, [Next]_vars PROVE RInv'
  OBVIOUS
<1> USE NoKeyAssumption
<1>1. IInv' /\ pc \in [Procs -> Places] /\ key \in [Procs -> Keys \cup {NoKey}] /\ saved \in [Rows -> Nat]
  BY NextIInv DEF RInv, IInv, TypeOK
<1>2. CarriedKeys'
  <2>1. ASSUME NEW p \in Procs, Arrive(p, only) PROVE CarriedKeys'
    <3>1. \A q \in Procs : key'[q] = IF q = p THEN only ELSE key[q]
      BY <1>1, <2>1 DEF Arrive
    <3>2. \A q \in Procs : q # p => pc'[q] = pc[q]
      BY <1>1, <2>1 DEF Arrive, Proceed, Wait, Enter
    <3> QED BY <3>1, <3>2 DEF RInv, CarriedKeys
  <2>2. ASSUME NEW p \in Procs, Step(p) PROVE CarriedKeys'
    <3>1. key' = key
      BY <2>2 DEF Step, LookAgain, ReadSaved, Save, Answer, Refuse
    <3>2. \A q \in Procs : pc'[q] # "idle" => pc[q] # "idle"
      BY <1>1, <2>2 DEF Step, LookAgain, Proceed, Wait, Enter, Answered, ReadSaved, Save, Answer,
                        Refuse, Leave, Places
    <3> QED BY <3>1, <3>2 DEF RInv, CarriedKeys
  <2>3. ASSUME Restart PROVE CarriedKeys'
    BY <2>3 DEF Restart, CarriedKeys
  <2>4. ASSUME UNCHANGED <<pc, key>> PROVE CarriedKeys'
    BY <2>4 DEF RInv, CarriedKeys
  <2> QED
    BY <2>1, <2>2, <2>3, <2>4 DEF Next, vars, Forget, DeleteRow, WindowMoves
<1>3. ReadAreUpperBounds'
  <2>1. ASSUME NEW p \in Procs, Save(p) PROVE ReadAreUpperBounds'
    <3>1. SUFFICES ASSUME NEW q \in Procs, pc'[q] = "matching" PROVE FALSE
      BY DEF ReadAreUpperBounds
    <3>2. q # p /\ pc[q] = "matching"
      BY <1>1, <2>1, <3>1 DEF Save
    <3>3. Saving(p) /\ Saving(q) /\ key[p] = only /\ key[q] = only
      BY <2>1, <3>2 DEF Saving, Save, RInv, CarriedKeys
    <3> QED BY <3>2, <3>3 DEF RInv, IInv, OneRunner
  <2>2. ASSUME NEW p \in Procs, ReadSaved(p) PROVE ReadAreUpperBounds'
    BY <1>1, <2>2 DEF ReadSaved, RInv, IInv, TypeOK, ReadAreUpperBounds
  <2>3. ASSUME NEW r \in Rows, DeleteRow(r) PROVE ReadAreUpperBounds'
    <3>1. \A x \in Rows : saved'[x] <= saved[x] /\ saved'[x] \in Nat /\ saved[x] \in Nat
      BY <1>1, <2>3 DEF DeleteRow
    <3> QED BY <2>3, <3>1 DEF DeleteRow, RInv, IInv, TypeOK, ReadAreUpperBounds
  <2>4. ASSUME UNCHANGED saved,
               \A q \in Procs : pc'[q] = "matching" => pc[q] = "matching" /\ existing'[q] = existing[q]
        PROVE  ReadAreUpperBounds'
    BY <2>4 DEF RInv, ReadAreUpperBounds
  <2>5. ASSUME NEW p \in Procs, NEW k \in Carried,
               Arrive(p, k) \/ LookAgain(p) \/ Answer(p) \/ Refuse(p)
        PROVE  ReadAreUpperBounds'
    <3>1. \A q \in Procs : pc'[q] = "matching" => pc[q] = "matching" /\ existing'[q] = existing[q]
      BY <1>1, <2>5 DEF Arrive, LookAgain, Proceed, Wait, Enter, Answered, Answer, Refuse, Leave,
                        RInv, IInv, TypeOK
    <3> QED BY <2>4, <2>5, <3>1 DEF Arrive, LookAgain, Proceed, Wait, Enter, Answer, Refuse
  <2>6. ASSUME Restart PROVE ReadAreUpperBounds'
    BY <2>6 DEF Restart, ReadAreUpperBounds
  <2>7. ASSUME UNCHANGED <<saved, pc, existing>> PROVE ReadAreUpperBounds'
    BY <2>4, <2>7
  <2> QED
    BY <2>1, <2>2, <2>3, <2>5, <2>6, <2>7 DEF Next, Step, vars, Forget, WindowMoves
<1>4. NoExtraCopies'
  <2>1. ASSUME NEW p \in Procs, Save(p) PROVE NoExtraCopies'
    BY <2>1, SaveAddsMissing DEF NoExtraCopies
  <2>2. ASSUME NEW r \in Rows, DeleteRow(r) PROVE NoExtraCopies'
    <3>1. \A x \in Rows : saved'[x] <= saved[x] /\ saved'[x] \in Nat /\ saved[x] \in Nat
      BY <1>1, <2>2 DEF DeleteRow
    <3> QED BY <3>1, FileAssumption DEF RInv, NoExtraCopies
  <2>3. ASSUME UNCHANGED saved PROVE NoExtraCopies'
    BY <2>3 DEF RInv, NoExtraCopies
  <2> QED
    BY <2>1, <2>2, <2>3 DEF Next, Step, vars, Arrive, LookAgain, Proceed, Wait, Enter, ReadSaved,
                            Answer, Refuse, Forget, WindowMoves, Restart
<1> QED BY <1>1, <1>2, <1>3, <1>4 DEF RInv

(* Retries of one import, across refusals, restarts and forgotten answers, *)
(* leave no row among the trades more often than in the file (the check of *)
(* the saved trades in _commit). Two ids for the same file do: see         *)
(* ImportTwoTabs.cfg.                                                      *)
THEOREM RetriesLeaveNoCopies ==
  ASSUME NEW only \in Keys, Carried = {only}
  PROVE  Spec => []NoExtraCopies
<1>1. Init => RInv
  <2> SUFFICES ASSUME Init PROVE RInv
    OBVIOUS
  <2>1. NoExtraCopies
    BY FileAssumption DEF Init, Nothing, NoExtraCopies
  <2> QED BY <2>1, InitIInv DEF Init, RInv, CarriedKeys, ReadAreUpperBounds
<1>2. RInv => NoExtraCopies
  BY DEF RInv
<1> QED BY <1>1, <1>2, NextRInv, PTL DEF Spec

-----------------------------------------------------------------------------
Tokens == Nat \cup {Lock!Earlier}

Locks ==
  [enabled : BOOLEAN, locked : BOOLEAN, pending : BOOLEAN, unlockedWhenLeft : BOOLEAN, coveredThisTrip : BOOLEAN]

Histories ==
  [signIns : Nat, troubles : Nat, owed : BOOLEAN, late : BOOLEAN, quick : BOOLEAN, lockedWhenLeft : BOOLEAN,
   torn : BOOLEAN]

LockTypes ==
  /\ start \in {"off", "restoring", "clearing", "marking", "asking", "answered", "reading", "ready"}
  /\ rendered \in BOOLEAN /\ installed \in BOOLEAN
  /\ front \in {"active", "inactive", "background"}
  /\ mirrored \in Tokens /\ keychain \in Tokens /\ found \in Tokens /\ writes \in Seq(Tokens)
  /\ setting \in {"on", "off"} /\ switching \in Seq({"on", "off"})
  /\ lock \in Locks
  /\ seen \in Histories

SignedIn == Lock!Signed(mirrored)

Protects == lock.enabled /\ SignedIn

Excepted == seen.late \/ seen.quick

(* With something to protect the lock is open only after a check, and in   *)
(* the background not at all.                                              *)
OpenWhenChecked ==
  rendered /\ Protects /\ ~lock.locked => Excepted \/ (~seen.owed /\ front # "background")

(* A quick return would open the lock only after a check.                  *)
QuickOpensChecked ==
  front # "active" /\ Protects /\ lock.locked /\ lock.unlockedWhenLeft /\ ~seen.lockedWhenLeft
    => ~seen.owed \/ Excepted

(* With nobody signed in it is closed only while the start goes on.        *)
ClosedForNobody == rendered /\ lock.locked /\ ~SignedIn => lock.pending /\ ~lock.unlockedWhenLeft

OffIsOff ==
  /\ ~rendered => ~lock.enabled /\ sheets = {} /\ switching = << >>
  /\ start = "off" => ~rendered /\ writes = << >>

Checked == OpenWhenChecked /\ QuickOpensChecked /\ ClosedForNobody /\ OffIsOff

(* The last call on its way brings what storage has; with none on its way  *)
(* the Keychain has it, save that iOS may have cleared storage before the  *)
(* restore. The restore waits with nobody signed in.                       *)
Follows ==
  ~seen.torn =>
    /\ writes # << >> => writes[Len(writes)] = mirrored
    /\ start \in Lock!Waiting => writes = << >> /\ ~SignedIn
    /\ start = "marking" => keychain = 0
    /\ start = "answered" => found = keychain
    /\ writes = << >> /\ start \in Lock!Done => keychain = mirrored
    /\ writes = << >> /\ start \in {"off", "restoring"} /\ SignedIn => keychain = mirrored

LockInv == LockTypes /\ Checked /\ Follows

-----------------------------------------------------------------------------
LEMMA InitLockInv == Lock!Init => LockInv
<1> SUFFICES ASSUME Lock!Init PROVE LockInv
  OBVIOUS
<1>1. LockTypes
  <2>1. lock \in Locks /\ seen \in Histories
    BY DEF Lock!Init, Lock!NoLock, Locks, Histories
  <2>2. mirrored \in Tokens /\ keychain \in Tokens /\ found \in Tokens /\ writes \in Seq(Tokens)
        /\ switching \in Seq({"on", "off"})
    BY DEF Lock!Init, Tokens
  <2> QED BY <2>1, <2>2 DEF Lock!Init, LockTypes
<1>2. Checked
  BY DEF Lock!Init, Lock!NoLock, Checked, OpenWhenChecked, QuickOpensChecked, ClosedForNobody, OffIsOff, Protects
<1>3. Follows
  BY DEF Lock!Init, Follows, SignedIn, Lock!Signed, Lock!Waiting, Lock!Done
<1> QED BY <1>1, <1>2, <1>3 DEF LockInv

LEMMA NumbersAreTokens == \A n \in Nat : n \in Tokens
BY DEF Tokens

(* A call put behind those on their way is the last.                       *)
LEMMA LastCall ==
  ASSUME NEW s \in Seq(Tokens), NEW t \in Tokens
  PROVE  /\ Append(s, t) \in Seq(Tokens) /\ Append(s, t) # << >>
         /\ Append(s, t)[Len(Append(s, t))] = t
<1>1. Append(s, t) \in Seq(Tokens) /\ Len(Append(s, t)) = Len(s) + 1 /\ Append(s, t)[Len(s) + 1] = t
  OBVIOUS
<1>2. Append(s, t) # << >>
  BY <1>1, Len(<< >>) = 0, Len(s) \in Nat
<1> QED BY <1>1, <1>2

(* The last stays the last when the first is made, unless it was the only  *)
(* one.                                                                    *)
LEMMA FirstCall ==
  ASSUME NEW s \in Seq(Tokens), s # << >>
  PROVE  /\ Head(s) \in Tokens /\ Tail(s) \in Seq(Tokens)
         /\ Tail(s) = << >> => Head(s) = s[Len(s)]
         /\ Tail(s) # << >> => Tail(s)[Len(Tail(s))] = s[Len(s)]
<1>1. /\ Head(s) \in Tokens /\ Tail(s) \in Seq(Tokens) /\ Len(Tail(s)) = Len(s) - 1 /\ Head(s) = s[1]
      /\ Len(s) \in Nat /\ Len(s) # 0
      /\ \A i \in 1..Len(Tail(s)) : Tail(s)[i] = s[i + 1]
  OBVIOUS
<1>2. CASE Tail(s) = << >>
  <2>1. Len(s) = 1
    <3>1. Len(s) - 1 = 0
      BY <1>1, <1>2, Len(<< >>) = 0
    <3>2. Len(s) \in Nat
      OBVIOUS
    <3> HIDE DEF Tokens
    <3> QED BY <3>1, <3>2
  <2>2. Head(s) = s[Len(s)]
    BY <1>1, <2>1
  <2> QED BY <1>1, <1>2, <2>2
<1>3. CASE Tail(s) # << >>
  <2>1. Len(Tail(s)) \in 1..Len(Tail(s))
    BY <1>1, <1>3
  <2> QED BY <1>1, <1>3, <2>1
<1> QED BY <1>1, <1>2, <1>3

(* What the lock and the history become.                                   *)
LEMMA LocksStay ==
  ASSUME NEW l \in Locks
  PROVE  Lock!Opened(l) \in Locks /\ Lock!Covered(l) \in Locks
  BY DEF Lock!Opened, Lock!Covered, Locks

LEMMA HistoriesStay ==
  ASSUME NEW h \in Histories
  PROVE  Lock!Trouble(h) \in Histories
  BY DEF Lock!Trouble, Histories

(* Every step keeps the types.                                             *)
LEMMA LockTypesStep ==
  ASSUME LockTypes, Lock!Next
  PROVE  LockTypes'
<1> USE DEF LockTypes, Locks, Histories, Lock!phone, Lock!mirror, Lock!settings, Lock!screen
<1>1. CASE Lock!Launch
  BY <1>1 DEF Lock!Launch, Tokens
<1>2. CASE Lock!LookUp
  <2>1. /\ start' \in {"clearing", "reading", "asking"}
        /\ seen' = [seen EXCEPT !.torn = seen'.torn] /\ seen'.torn \in BOOLEAN
    BY <1>2 DEF Lock!LookUp
  <2> QED BY <1>2, <2>1 DEF Lock!LookUp
<1>3. ASSUME NEW works \in BOOLEAN, Lock!Clear(works) PROVE LockTypes'
  <2>1. keychain' \in Tokens
    BY <1>3 DEF Lock!Clear, Tokens
  <2>2. seen' = seen \/ seen' = Lock!Trouble([seen EXCEPT !.torn = TRUE])
    BY <1>3 DEF Lock!Clear
  <2>3. [seen EXCEPT !.torn = TRUE] \in Histories
    OBVIOUS
  <2>4. seen' \in Histories
    BY <2>2, <2>3, HistoriesStay
  <2> QED BY <1>3, <2>1, <2>4 DEF Lock!Clear
<1>4. ASSUME NEW works \in BOOLEAN, Lock!Mark(works) PROVE LockTypes'
  <2>1. seen' \in Histories
    BY <1>4 DEF Lock!Mark, Lock!Trouble
  <2> QED BY <1>4, <2>1 DEF Lock!Mark
<1>5. CASE Lock!KeychainAnswers
  BY <1>5 DEF Lock!KeychainAnswers
<1>6. CASE Lock!Restore
  <2>1. seen' \in Histories
    BY <1>6 DEF Lock!Restore
  <2>2. mirrored' \in Tokens /\ found' \in Tokens
    BY <1>6 DEF Lock!Restore, Tokens
  <2> QED BY <1>6, <2>1, <2>2 DEF Lock!Restore
<1>7. CASE Lock!RestoreFails
  <2>1. [seen EXCEPT !.torn = TRUE] \in Histories
    OBVIOUS
  <2>2. seen' \in Histories
    BY <1>7, <2>1, HistoriesStay DEF Lock!RestoreFails
  <2> QED BY <1>7, <2>2 DEF Lock!RestoreFails
<1>8. CASE Lock!Render
  BY <1>8 DEF Lock!Render, Lock!Rendered, Lock!NoLock, Lock!InitiallyLocked, Lock!Signed
<1>9. CASE Lock!Settled \/ Lock!ToggleLock \/ Lock!TapUnlock
  BY <1>9 DEF Lock!Settled, Lock!ToggleLock, Lock!TapUnlock, Lock!Ask
<1>10. ASSUME NEW read \in {"on", "off", "unknown"}, Lock!Decide(read) PROVE LockTypes'
  <2>1. PICK known : known = [lock EXCEPT !.pending = FALSE, !.enabled = @ /\ read # "off"]
    OBVIOUS
  <2>2. known \in Locks
    BY <2>1
  <2>3. lock' = Lock!Opened(known) \/ lock' = known
    BY <1>10, <2>1 DEF Lock!Decide
  <2>4. lock' \in Locks
    BY <2>2, <2>3, LocksStay
  <2> QED BY <1>10, <2>4 DEF Lock!Decide, Lock!Ask
<1>11. ASSUME NEW sheet \in sheets, NEW verified \in BOOLEAN, Lock!SheetEnds(sheet, verified) PROVE LockTypes'
  <2>1. seen' \in Histories
    BY <1>11 DEF Lock!SheetEnds
  <2>2. lock' \in Locks /\ switching' \in Seq({"on", "off"})
    BY <1>11, LocksStay DEF Lock!SheetEnds
  <2> QED BY <1>11, <2>1, <2>2 DEF Lock!SheetEnds
<1>12. ASSUME NEW works \in BOOLEAN, Lock!SettingSaved(works) PROVE LockTypes'
  <2>1. Head(switching) \in {"on", "off"} /\ switching' \in Seq({"on", "off"})
    BY <1>12 DEF Lock!SettingSaved
  <2>2. setting' \in {"on", "off"} /\ lock' \in Locks
    BY <1>12, <2>1 DEF Lock!SettingSaved
  <2>3. seen' \in Histories
    BY <1>12, <2>2, HistoriesStay DEF Lock!SettingSaved
  <2> QED BY <1>12, <2>1, <2>2, <2>3 DEF Lock!SettingSaved
<1>13. CASE Lock!GoInactive
  BY <1>13 DEF Lock!GoInactive
<1>14. CASE Lock!Pause
  <2>1. Lock!Covered(lock) \in Locks
    BY LocksStay
  <2>2. lock' \in Locks
    BY <1>14, <2>1 DEF Lock!Pause, Lock!Left
  <2> QED BY <1>14, <2>2 DEF Lock!Pause
<1>15. ASSUME NEW away \in {"short", "long"}, Lock!Resume(away) PROVE LockTypes'
  <2>1. PICK back : back = [lock EXCEPT !.coveredThisTrip = FALSE]
    OBVIOUS
  <2>2. back \in Locks
    BY <2>1
  <2>3. lock' \in {lock, back, Lock!Opened(back)}
    BY <1>15, <2>1 DEF Lock!Resume
  <2>4. lock' \in Locks
    BY <2>2, <2>3, LocksStay
  <2>5. seen' \in Histories
    BY <1>15 DEF Lock!Resume
  <2> QED BY <1>15, <2>4, <2>5 DEF Lock!Resume, Lock!Ask
<1>16. CASE Lock!SignIn
  <2> DEFINE n == seen.signIns + 1
             torn == start \in Lock!Waiting
  <2>1. /\ mirrored' = n /\ writes' = Append(writes, n)
        /\ seen' = [seen EXCEPT !.signIns = n, !.owed = FALSE, !.torn = torn]
        /\ UNCHANGED <<installed, start, rendered, front, keychain, found, setting, switching, lock>>
    BY <1>16 DEF Lock!SignIn, Lock!Mirror, Lock!Mended
  <2>2. n \in Nat /\ torn \in BOOLEAN
    OBVIOUS
  <2> HIDE DEF n, torn
  <2>3. seen' \in Histories
    BY <2>1, <2>2
  <2>4. n \in Tokens
    BY <2>2, NumbersAreTokens
  <2> HIDE DEF Histories, Locks
  <2> QED BY <2>1, <2>3, <2>4, LastCall
<1>17. CASE Lock!SignOut \/ Lock!Expire
  <2> DEFINE torn == start \in Lock!Waiting
  <2>1. /\ mirrored' = 0 /\ writes' = Append(writes, 0) /\ lock' = Lock!Opened(lock)
        /\ seen' = [seen EXCEPT !.torn = torn]
        /\ switching' = switching \/ switching' = Append(switching, "off")
        /\ UNCHANGED <<installed, start, rendered, front, keychain, found, setting>>
    BY <1>17 DEF Lock!SignOut, Lock!Expire, Lock!Mirror, Lock!Mended
  <2>2. lock' \in Locks /\ switching' \in Seq({"on", "off"})
    <3>1. lock' \in Locks
      BY <2>1, LocksStay
    <3>2. Append(switching, "off") \in Seq({"on", "off"})
      OBVIOUS
    <3>3. switching' \in Seq({"on", "off"})
      BY <2>1, <3>2
    <3> QED BY <3>1, <3>3
  <2>3. 0 \in Tokens
    BY NumbersAreTokens
  <2>4. torn \in BOOLEAN
    OBVIOUS
  <2> HIDE DEF torn
  <2>5. seen' \in Histories
    BY <2>1, <2>4
  <2> HIDE DEF Histories, Locks
  <2> QED BY <2>1, <2>2, <2>3, <2>5, LastCall
<1>18. ASSUME NEW works \in BOOLEAN, Lock!KeychainCall(works) PROVE LockTypes'
  <2>1. keychain' \in Tokens /\ writes' \in Seq(Tokens)
    BY <1>18 DEF Lock!KeychainCall
  <2>2. seen' \in Histories
    <3>1. [seen EXCEPT !.torn = @ \/ writes' = <<>>] \in Histories
      OBVIOUS
    <3> QED BY <1>18, <3>1, HistoriesStay DEF Lock!KeychainCall
  <2> QED BY <1>18, <2>1, <2>2 DEF Lock!KeychainCall
<1>19. CASE Lock!Kill
  <2>1. /\ start' = "off" /\ rendered' = FALSE /\ front' = "active" /\ writes' = << >> /\ found' = 0
        /\ switching' = << >> /\ lock' = Lock!NoLock
        /\ UNCHANGED <<installed, mirrored, keychain, setting>>
    BY <1>19 DEF Lock!Kill
  <2>2. seen' \in Histories
    <3> DEFINE torn == seen.torn \/ writes # << >>
               troubles == seen.troubles + 1
    <3>1. torn \in BOOLEAN /\ troubles \in Nat
      OBVIOUS
    <3>2. seen' = [seen EXCEPT !.owed = TRUE, !.late = FALSE, !.quick = FALSE, !.lockedWhenLeft = FALSE,
                               !.torn = torn, !.troubles = troubles]
      BY <1>19 DEF Lock!Kill, Lock!Trouble
    <3> HIDE DEF torn, troubles
    <3> QED BY <3>1, <3>2
  <2> HIDE DEF Histories
  <2>3. lock' \in Locks
    BY <2>1 DEF Lock!NoLock
  <2>4. writes' \in Seq(Tokens) /\ switching' \in Seq({"on", "off"}) /\ found' \in Tokens
    BY <2>1, NumbersAreTokens
  <2> QED BY <2>1, <2>2, <2>3, <2>4
<1> QED BY <1>1, <1>2, <1>3, <1>4, <1>5, <1>6, <1>7, <1>8, <1>9, <1>10, <1>11, <1>12, <1>13, <1>14, <1>15, <1>16,
           <1>17, <1>18, <1>19 DEF Lock!Next

(* Every step keeps a lock that is open only after a check.                *)
LEMMA CheckedStep ==
  ASSUME LockTypes, Checked, Lock!Next
  PROVE  Checked'
<1> USE DEF LockTypes, Locks, Histories, Checked, OpenWhenChecked, QuickOpensChecked, ClosedForNobody, OffIsOff,
            Protects, SignedIn, Excepted, Lock!phone, Lock!mirror, Lock!settings, Lock!screen
<1>1. CASE Lock!Launch
  BY <1>1 DEF Lock!Launch, Lock!NoLock
<1>2. ASSUME UNCHANGED <<rendered, front, lock, sheets, switching, writes>>, start' # "off", start # "off",
             mirrored' = mirrored, seen'.owed = seen.owed, seen'.late = seen.late, seen'.quick = seen.quick,
             seen'.lockedWhenLeft = seen.lockedWhenLeft
      PROVE  Checked'
  BY <1>2
<1>3. CASE Lock!LookUp \/ Lock!KeychainAnswers \/ Lock!RestoreFails
  BY <1>2, <1>3 DEF Lock!LookUp, Lock!KeychainAnswers, Lock!RestoreFails, Lock!Trouble
<1>4. ASSUME NEW works \in BOOLEAN, Lock!Clear(works) \/ Lock!Mark(works) PROVE Checked'
  BY <1>2, <1>4 DEF Lock!Clear, Lock!Mark, Lock!Trouble
<1>5. CASE Lock!Restore
  BY <1>5 DEF Lock!Restore, Lock!NoLock
<1>6. CASE Lock!Render
  BY <1>6 DEF Lock!Render, Lock!Rendered, Lock!NoLock, Lock!InitiallyLocked
<1>7. CASE Lock!Settled \/ Lock!ToggleLock \/ Lock!TapUnlock
  BY <1>7 DEF Lock!Settled, Lock!ToggleLock, Lock!TapUnlock, Lock!Ask
<1>8. ASSUME NEW read \in {"on", "off", "unknown"}, Lock!Decide(read) PROVE Checked'
  BY <1>8 DEF Lock!Decide, Lock!Opened, Lock!Ask, Lock!OnStartup
<1>9. ASSUME NEW sheet \in sheets, NEW verified \in BOOLEAN, Lock!SheetEnds(sheet, verified) PROVE Checked'
  <2>1. /\ UNCHANGED <<start, rendered, front, mirrored, writes>>
        /\ seen' = [seen EXCEPT !.owed = @ /\ ~verified, !.lockedWhenLeft = @ /\ lock'.locked,
                                !.late = @ \/ (verified /\ front = "background")]
    BY <1>9 DEF Lock!SheetEnds
  <2>2. OffIsOff'
    BY <1>9, <2>1
  <2>3. CASE ~verified
    <3>1. lock' = lock
      BY <1>9, <2>3 DEF Lock!SheetEnds
    <3>2. seen'.owed = seen.owed /\ seen'.late = seen.late /\ seen'.quick = seen.quick
          /\ seen'.lockedWhenLeft = (seen.lockedWhenLeft /\ lock.locked)
      BY <2>1, <2>3, <3>1
    <3> QED BY <2>1, <2>2, <3>1, <3>2
  <2>4. CASE verified
    <3>1. ~seen'.owed /\ (front = "background" => seen'.late)
      BY <2>1, <2>4
    <3>2. /\ lock'.pending = lock.pending
          /\ lock'.unlockedWhenLeft = lock.unlockedWhenLeft
          /\ (lock'.locked => lock.locked)
      BY <1>9, <2>4 DEF Lock!SheetEnds, Lock!Opened
    <3> QED BY <2>1, <2>2, <3>1, <3>2
  <2> QED BY <2>3, <2>4
<1>10. ASSUME NEW works \in BOOLEAN, Lock!SettingSaved(works) PROVE Checked'
  <2>1. switching # << >> /\ rendered /\ UNCHANGED <<start, rendered, front, mirrored, writes, sheets>>
    BY <1>10 DEF Lock!SettingSaved
  <2>2. CASE ~works
    <3>1. lock' = lock /\ seen'.owed = seen.owed /\ seen'.late = seen.late /\ seen'.quick = seen.quick
          /\ seen'.lockedWhenLeft = seen.lockedWhenLeft
      BY <1>10, <2>2 DEF Lock!SettingSaved, Lock!Trouble
    <3> QED BY <2>1, <3>1
  <2>3. CASE works
    <3> DEFINE on == Head(switching) = "on"
               late == seen.late \/ (on /\ (front = "background" \/ seen.owed))
    <3>1. lock' = [lock EXCEPT !.enabled = on] /\ on \in BOOLEAN
      BY <1>10, <2>3 DEF Lock!SettingSaved
    <3>2. seen' = [seen EXCEPT !.late = late]
      BY <1>10, <2>3, <3>1 DEF Lock!SettingSaved
    <3>3. /\ lock'.enabled = on /\ lock'.locked = lock.locked /\ lock'.pending = lock.pending
          /\ lock'.unlockedWhenLeft = lock.unlockedWhenLeft
      BY <3>1
    <3>4. /\ seen'.late = late /\ seen'.owed = seen.owed /\ seen'.quick = seen.quick
          /\ seen'.lockedWhenLeft = seen.lockedWhenLeft
      BY <3>2
    <3> QED BY <2>1, <3>3, <3>4
  <2> QED BY <2>2, <2>3
<1>11. CASE Lock!GoInactive
  BY <1>11 DEF Lock!GoInactive
<1>12. CASE Lock!Pause
  BY <1>12 DEF Lock!Pause, Lock!Left, Lock!Covered, Lock!Covers
<1>13. ASSUME NEW away \in {"short", "long"}, Lock!Resume(away) PROVE Checked'
  BY <1>13 DEF Lock!Resume, Lock!Opened, Lock!OnReturn, Lock!Ask
<1>14. CASE Lock!SignIn
  BY <1>14 DEF Lock!SignIn, Lock!Mirror, Lock!Mended
<1>15. CASE Lock!SignOut \/ Lock!Expire
  BY <1>15 DEF Lock!SignOut, Lock!Expire, Lock!Mirror, Lock!Mended, Lock!Opened, Lock!Signed
<1>16. ASSUME NEW works \in BOOLEAN, Lock!KeychainCall(works) PROVE Checked'
  <2>1. /\ UNCHANGED <<start, rendered, front, lock, sheets, switching, mirrored>> /\ start # "off"
        /\ seen'.owed = seen.owed /\ seen'.late = seen.late /\ seen'.quick = seen.quick
        /\ seen'.lockedWhenLeft = seen.lockedWhenLeft
    BY <1>16 DEF Lock!KeychainCall, Lock!Trouble
  <2> QED BY <2>1
<1>17. CASE Lock!Kill
  BY <1>17 DEF Lock!Kill, Lock!NoLock, Lock!Trouble
<1> QED BY <1>1, <1>3, <1>4, <1>5, <1>6, <1>7, <1>8, <1>9, <1>10, <1>11, <1>12, <1>13, <1>14, <1>15, <1>16, <1>17
        DEF Lock!Next

(* Every step keeps the last Keychain call up to date, and what the        *)
(* restore waits for.                                                      *)
LEMMA FollowsStep ==
  ASSUME LockTypes, OffIsOff, Follows, Lock!Next
  PROVE  Follows'
<1> USE DEF LockTypes, Locks, Histories, Follows, OffIsOff, SignedIn, Lock!Waiting, Lock!Done, Lock!phone,
            Lock!mirror, Lock!settings, Lock!screen
<1>1. CASE Lock!Launch
  BY <1>1 DEF Lock!Launch, Lock!Signed
<1>2. CASE Lock!LookUp
  BY <1>2 DEF Lock!LookUp
<1>3. ASSUME NEW works \in BOOLEAN, Lock!Clear(works) PROVE Follows'
  BY <1>3 DEF Lock!Clear, Lock!Trouble
<1>4. ASSUME NEW works \in BOOLEAN, Lock!Mark(works) PROVE Follows'
  <2>1. start = "marking" /\ start' = "reading" /\ UNCHANGED <<mirrored, keychain, writes>> /\ seen'.torn = seen.torn
    BY <1>4 DEF Lock!Mark, Lock!Trouble
  <2> QED BY <2>1 DEF Lock!Signed
<1>5. CASE Lock!KeychainAnswers
  BY <1>5 DEF Lock!KeychainAnswers
<1>6. CASE Lock!Restore
  <2>1. start = "answered" /\ start' = "reading" /\ UNCHANGED <<keychain, writes>> /\ seen'.torn = seen.torn
        /\ mirrored' = IF Lock!Signed(found) THEN found ELSE mirrored
    BY <1>6 DEF Lock!Restore
  <2> QED BY <2>1 DEF Lock!Signed
<1>7. CASE Lock!RestoreFails
  BY <1>7 DEF Lock!RestoreFails, Lock!Trouble
<1>8. CASE Lock!Render
  BY <1>8 DEF Lock!Render, Lock!Rendered
<1>9. CASE Lock!Settled \/ Lock!ToggleLock \/ Lock!TapUnlock
  BY <1>9 DEF Lock!Settled, Lock!ToggleLock, Lock!TapUnlock
<1>10. ASSUME NEW read \in {"on", "off", "unknown"}, Lock!Decide(read) PROVE Follows'
  BY <1>10 DEF Lock!Decide
<1>11. ASSUME NEW sheet \in sheets, NEW verified \in BOOLEAN, Lock!SheetEnds(sheet, verified) PROVE Follows'
  BY <1>11 DEF Lock!SheetEnds
<1>12. ASSUME NEW works \in BOOLEAN, Lock!SettingSaved(works) PROVE Follows'
  BY <1>12 DEF Lock!SettingSaved, Lock!Trouble
<1>13. CASE Lock!GoInactive
  BY <1>13 DEF Lock!GoInactive
<1>14. CASE Lock!Pause
  BY <1>14 DEF Lock!Pause
<1>15. ASSUME NEW away \in {"short", "long"}, Lock!Resume(away) PROVE Follows'
  BY <1>15 DEF Lock!Resume
<1>16. ASSUME NEW t \in Tokens, mirrored' = t, writes' = Append(writes, t), seen'.torn = (start \in Lock!Waiting),
              UNCHANGED start, start # "off"
       PROVE  Follows'
  BY <1>16, LastCall
<1>17. CASE Lock!SignIn
  <2>1. seen.signIns + 1 \in Nat
    OBVIOUS
  <2>2. seen.signIns + 1 \in Tokens
    BY <2>1, NumbersAreTokens
  <2>3. /\ mirrored' = seen.signIns + 1 /\ writes' = Append(writes, seen.signIns + 1)
        /\ seen'.torn = (start \in Lock!Waiting) /\ UNCHANGED start /\ start # "off"
    BY <1>17 DEF Lock!SignIn, Lock!Mirror, Lock!Mended
  <2> QED BY <1>16, <2>2, <2>3
<1>18. CASE Lock!SignOut \/ Lock!Expire
  <2>1. /\ mirrored' = 0 /\ writes' = Append(writes, 0)
        /\ seen'.torn = (start \in Lock!Waiting) /\ UNCHANGED start /\ start # "off"
    BY <1>18 DEF Lock!SignOut, Lock!Expire, Lock!Mirror, Lock!Mended
  <2> QED BY <1>16, <2>1, NumbersAreTokens
<1>19. ASSUME NEW works \in BOOLEAN, Lock!KeychainCall(works) PROVE Follows'
  <2>1. /\ writes # << >> /\ writes' = Tail(writes)
        /\ UNCHANGED <<start, mirrored, found>>
        /\ works => keychain' = Head(writes) /\ seen'.torn = seen.torn
        /\ ~works => keychain' = keychain /\ seen'.torn = (seen.torn \/ writes' = << >>)
    BY <1>19 DEF Lock!KeychainCall, Lock!Trouble
  <2>2. /\ writes' = << >> => Head(writes) = writes[Len(writes)]
        /\ writes' # << >> => writes'[Len(writes')] = writes[Len(writes)]
    BY <2>1, FirstCall
  <2> QED BY <2>1, <2>2
<1>20. CASE Lock!Kill
  BY <1>20 DEF Lock!Kill, Lock!Trouble
<1> QED BY <1>1, <1>2, <1>3, <1>4, <1>5, <1>6, <1>7, <1>8, <1>9, <1>10, <1>11, <1>12, <1>13, <1>14, <1>15, <1>17,
           <1>18, <1>19, <1>20 DEF Lock!Next

LEMMA LockIdleStep ==
  ASSUME LockInv, UNCHANGED lockVars
  PROVE  LockInv'
BY DEF LockInv, LockTypes, Locks, Histories, Tokens, Checked, OpenWhenChecked, QuickOpensChecked, ClosedForNobody,
       OffIsOff, Protects, SignedIn, Excepted, Follows, Lock!Signed, Lock!Earlier, Lock!Waiting, Lock!Done, lockVars

LEMMA LockStep ==
  ASSUME LockInv, Lock!Next
  PROVE  LockInv'
BY LockTypesStep, CheckedStep, FollowsStep DEF LockInv, Checked

LEMMA LockSafe == LockInv => Lock!ShownOnlyWhenChecked /\ Lock!KeychainFollows
<1> SUFFICES ASSUME LockInv PROVE Lock!ShownOnlyWhenChecked /\ Lock!KeychainFollows
  OBVIOUS
<1>1. Lock!ShownOnlyWhenChecked
  BY DEF LockInv, LockTypes, Histories, Checked, OpenWhenChecked, Protects, SignedIn, Excepted,
         Lock!ShownOnlyWhenChecked
<1>2. Lock!KeychainFollows
  BY DEF LockInv, Follows, Lock!KeychainFollows
<1> QED BY <1>1, <1>2

-----------------------------------------------------------------------------
(* With the lock on, the portfolio is on the screen only after a check or  *)
(* a sign in since the app was opened or last away for long, save for a    *)
(* check, a setting turned on or a Keychain answer that came after the app *)
(* was left or the lock had stopped waiting, and for a quick return that   *)
(* opened a lock closed when the app was left (AppLock.jsx, lockRules.js); *)
(* with no call on its way the Keychain holds the sign in of storage,      *)
(* unless the call of the last sign in or out failed, was lost or met a    *)
(* restore that was waiting (secureToken.js): for any number of sign ins,  *)
(* stops of the app and failures.                                          *)
THEOREM LockIsSafe == Lock!Spec => [](Lock!ShownOnlyWhenChecked /\ Lock!KeychainFollows)
<1>1. LockInv /\ [Lock!Next]_(Lock!lvars) => LockInv'
  BY LockStep, LockIdleStep DEF Lock!lvars, lockVars, Lock!phone, Lock!mirror, Lock!settings, Lock!screen
<1> QED BY InitLockInv, <1>1, LockSafe, PTL DEF Lock!Spec

-----------------------------------------------------------------------------
(* The same where the lock is one part of the composition.                 *)
LEMMA LockPart == AccountSpec => [](part = "lock" => LockInv)
<1>1. AccountInit => (part = "lock" => LockInv)
  BY InitLockInv DEF AccountInit
<1>2. (part = "lock" => LockInv) /\ [AccountNext]_<<part, vars, accountVars, lockVars>> => (part = "lock" => LockInv)'
  <2> SUFFICES ASSUME part = "lock" => LockInv, [AccountNext]_<<part, vars, accountVars, lockVars>>, part' = "lock"
               PROVE  LockInv'
    OBVIOUS
  <2>1. part = "lock" /\ LockInv /\ (Lock!Next \/ UNCHANGED lockVars)
    BY DEF AccountNext, QuotaMoves, AccountMoves, LockMoves, OthersWait
  <2> QED BY <2>1, LockStep, LockIdleStep
<1> QED BY <1>1, <1>2, PTL DEF AccountSpec

(* With the lock on, nothing is shown unchecked, save what came late and   *)
(* the quick return to a locked app (AppLock.jsx, lockRules.js).           *)
THEOREM NothingIsShownUnchecked == AccountSpec => []ShownOnlyWhenChecked
<1>1. (part = "lock" => LockInv) => ShownOnlyWhenChecked
  BY LockSafe DEF ShownOnlyWhenChecked
<1> QED BY <1>1, LockPart, PTL

(* The Keychain follows the last sign in or out that was not cut off       *)
(* (secureToken.js, bootstrap.js).                                         *)
THEOREM TheKeychainFollowsTheSignIn == AccountSpec => []KeychainFollows
<1>1. (part = "lock" => LockInv) => KeychainFollows
  BY LockSafe DEF KeychainFollows
<1> QED BY <1>1, LockPart, PTL

-----------------------------------------------------------------------------
(* The sign ins of the composition are those AccountsProofs is about.      *)
Proved == INSTANCE AccountsProofs WITH token <- tokens, requests <- asks, asked <- asksSent, history <- happened

LEMMA SameCount == \A S : SignIns!Cardinality(S) = Proved!Cardinality(S)
BY DEF SignIns!Cardinality, Proved!Cardinality

(* Each step of the one is that step of the other.                         *)
LEMMA SameStep == SignIns!Next => Proved!Next
<1> USE DEF SignIns!Abandoned, Proved!Abandoned, SignIns!AccountDeleted, Proved!AccountDeleted, SignIns!Addressed,
            Proved!Addressed, SignIns!Answer, Proved!Answer, SignIns!AnswerToken, Proved!AnswerToken, SignIns!AtLogin,
            Proved!AtLogin, SignIns!Becomes, Proved!Becomes, SignIns!CameBack, Proved!CameBack, SignIns!Changed,
            Proved!Changed, SignIns!Crosses, Proved!Crosses, SignIns!DeleteForm, Proved!DeleteForm,
            SignIns!EmailChanged, Proved!EmailChanged, SignIns!EmailForm, Proved!EmailForm, SignIns!Emailed,
            Proved!Emailed, SignIns!Expired, Proved!Expired, SignIns!Finish, Proved!Finish, SignIns!ForgotPassword,
            Proved!ForgotPassword, SignIns!Forms, Proved!Forms, SignIns!GoogleButton, Proved!GoogleButton,
            SignIns!GoogleEnds, Proved!GoogleEnds, SignIns!Halfway, Proved!Halfway, SignIns!Keeps, Proved!Keeps,
            SignIns!Link, Proved!Link, SignIns!Linked, Proved!Linked, SignIns!Load, Proved!Load, SignIns!Log_out,
            Proved!Log_out, SignIns!LoggedIn, Proved!LoggedIn, SignIns!LoggedOutEverywhere,
            Proved!LoggedOutEverywhere, SignIns!LoginForm, Proved!LoginForm, SignIns!LogoutAllButton,
            Proved!LogoutAllButton, SignIns!LookedUp, Proved!LookedUp, SignIns!Lose, Proved!Lose, SignIns!MayGoOn,
            Proved!MayGoOn, SignIns!NeedsPassword, Proved!NeedsPassword, SignIns!OfGoogle, Proved!OfGoogle,
            SignIns!Offered, Proved!Offered, SignIns!Outlives, Proved!Outlives, SignIns!PasswordCard,
            Proved!PasswordCard, SignIns!PasswordChanged, Proved!PasswordChanged, SignIns!Receive, Proved!Receive,
            SignIns!Refused, Proved!Refused, SignIns!Renewed, Proved!Renewed, SignIns!Request, Proved!Request,
            SignIns!ResendVerification, Proved!ResendVerification, SignIns!ResetForm, Proved!ResetForm,
            SignIns!Resetting, Proved!Resetting, SignIns!Restart, Proved!Restart, SignIns!Save, Proved!Save,
            SignIns!Saved, Proved!Saved, SignIns!SavedAgain, Proved!SavedAgain, SignIns!Seen, Proved!Seen,
            SignIns!SignUp, Proved!SignUp, SignIns!SignedOutEverywhere, Proved!SignedOutEverywhere, SignIns!Submit,
            Proved!Submit, SignIns!SweepDeletes, Proved!SweepDeletes, SignIns!SweepReads, Proved!SweepReads,
            SignIns!There, Proved!There, SignIns!ToBeSaved, Proved!ToBeSaved, SignIns!ToConfirm, Proved!ToConfirm,
            SignIns!Token, Proved!Token, SignIns!ToldDone, Proved!ToldDone, SignIns!Valid, Proved!Valid,
            SignIns!VerifyPage, Proved!VerifyPage, SignIns!Written, Proved!Written
<1>1. SignIns!SignUp => Proved!SignUp
  OBVIOUS
<1>2. SignIns!ResendVerification => Proved!ResendVerification
  OBVIOUS
<1>3. ASSUME NEW r \in asks, SignIns!Link(r) PROVE Proved!Link(r)
  BY <1>3
<1>4. SignIns!ForgotPassword => Proved!ForgotPassword
  OBVIOUS
<1>5. SignIns!Restart => Proved!Restart
  OBVIOUS
<1>6. SignIns!SweepReads => Proved!SweepReads
  OBVIOUS
<1>7. SignIns!SweepDeletes => Proved!SweepDeletes
  OBVIOUS
<1>8. ASSUME NEW r \in asks, SignIns!Load(r) PROVE Proved!Load(r)
  BY <1>8
<1>9. ASSUME NEW r \in asks, SignIns!Save(r) PROVE Proved!Save(r)
  BY <1>9
<1>10. ASSUME NEW r \in asks, SignIns!Finish(r) PROVE Proved!Finish(r)
  BY <1>10
<1>11. ASSUME NEW r \in asks, SignIns!Receive(r) PROVE Proved!Receive(r)
  BY <1>11
<1>12. ASSUME NEW r \in asks, SignIns!Lose(r) PROVE Proved!Lose(r)
  BY <1>12
<1>13. ASSUME NEW d \in Devices, SignIns!Log_out(d) PROVE Proved!Log_out(d)
  BY <1>13
<1>14. ASSUME NEW d \in Devices, NEW form \in SignIns!Forms, SignIns!Submit(d, form) PROVE Proved!Submit(d, form)
  BY <1>14, SameCount
<1>16. ASSUME NEW r \in asks, SignIns!GoogleEnds(r) PROVE Proved!GoogleEnds(r)
  BY <1>16
<1>15. SignIns!Forms = Proved!Forms
  OBVIOUS
<1> HIDE DEF SignIns!Abandoned, Proved!Abandoned, SignIns!AccountDeleted, Proved!AccountDeleted, SignIns!Addressed,
            Proved!Addressed, SignIns!Answer, Proved!Answer, SignIns!AnswerToken, Proved!AnswerToken, SignIns!AtLogin,
            Proved!AtLogin, SignIns!Becomes, Proved!Becomes, SignIns!CameBack, Proved!CameBack, SignIns!Changed,
            Proved!Changed, SignIns!Crosses, Proved!Crosses, SignIns!DeleteForm, Proved!DeleteForm,
            SignIns!EmailChanged, Proved!EmailChanged, SignIns!EmailForm, Proved!EmailForm, SignIns!Emailed,
            Proved!Emailed, SignIns!Expired, Proved!Expired, SignIns!Finish, Proved!Finish, SignIns!ForgotPassword,
            Proved!ForgotPassword, SignIns!Forms, Proved!Forms, SignIns!GoogleButton, Proved!GoogleButton,
            SignIns!GoogleEnds, Proved!GoogleEnds, SignIns!Halfway, Proved!Halfway, SignIns!Keeps, Proved!Keeps,
            SignIns!Link, Proved!Link, SignIns!Linked, Proved!Linked, SignIns!Load, Proved!Load, SignIns!Log_out,
            Proved!Log_out, SignIns!LoggedIn, Proved!LoggedIn, SignIns!LoggedOutEverywhere,
            Proved!LoggedOutEverywhere, SignIns!LoginForm, Proved!LoginForm, SignIns!LogoutAllButton,
            Proved!LogoutAllButton, SignIns!LookedUp, Proved!LookedUp, SignIns!Lose, Proved!Lose, SignIns!MayGoOn,
            Proved!MayGoOn, SignIns!NeedsPassword, Proved!NeedsPassword, SignIns!OfGoogle, Proved!OfGoogle,
            SignIns!Offered, Proved!Offered, SignIns!Outlives, Proved!Outlives, SignIns!PasswordCard,
            Proved!PasswordCard, SignIns!PasswordChanged, Proved!PasswordChanged, SignIns!Receive, Proved!Receive,
            SignIns!Refused, Proved!Refused, SignIns!Renewed, Proved!Renewed, SignIns!Request, Proved!Request,
            SignIns!ResendVerification, Proved!ResendVerification, SignIns!ResetForm, Proved!ResetForm,
            SignIns!Resetting, Proved!Resetting, SignIns!Restart, Proved!Restart, SignIns!Save, Proved!Save,
            SignIns!Saved, Proved!Saved, SignIns!SavedAgain, Proved!SavedAgain, SignIns!Seen, Proved!Seen,
            SignIns!SignUp, Proved!SignUp, SignIns!SignedOutEverywhere, Proved!SignedOutEverywhere, SignIns!Submit,
            Proved!Submit, SignIns!SweepDeletes, Proved!SweepDeletes, SignIns!SweepReads, Proved!SweepReads,
            SignIns!There, Proved!There, SignIns!ToBeSaved, Proved!ToBeSaved, SignIns!ToConfirm, Proved!ToConfirm,
            SignIns!Token, Proved!Token, SignIns!ToldDone, Proved!ToldDone, SignIns!Valid, Proved!Valid,
            SignIns!VerifyPage, Proved!VerifyPage, SignIns!Written, Proved!Written
<1> QED BY <1>1, <1>2, <1>3, <1>4, <1>5, <1>6, <1>7, <1>8, <1>9, <1>10, <1>11, <1>12, <1>13, <1>14, <1>15,
           <1>16 DEF SignIns!Next, Proved!Next

LEMMA SignInsPart == AccountSpec => [](part = "account" => Proved!IInv)
<1> DEFINE I == part = "account" => Proved!IInv
<1>1. AccountInit => I
  <2>1. SignIns!Init => Proved!Init
    BY DEF SignIns!Init, Proved!Init
  <2> QED BY <2>1, Proved!InitIInv DEF AccountInit
<1>2. I /\ [AccountNext]_<<part, vars, accountVars, lockVars>> => I'
  <2> SUFFICES ASSUME I, [AccountNext]_<<part, vars, accountVars, lockVars>>, part' = "account"
               PROVE  Proved!IInv'
    OBVIOUS
  <2>1. part = "account" /\ (SignIns!Next \/ UNCHANGED accountVars)
    BY DEF AccountNext, QuotaMoves, AccountMoves, LockMoves, OthersWait
  <2>2. [Proved!Next]_(Proved!avars)
    BY <2>1, SameStep DEF Proved!avars, accountVars
  <2> QED BY <2>1, <2>2, Proved!StepIInv
<1> QED BY <1>1, <1>2, PTL DEF AccountSpec

(* A working sign in was proved with the password in use, after the last   *)
(* sign out everywhere (write_token, sign_out_everywhere), whatever was    *)
(* being served meanwhile, but for a Google sign in that reads the account *)
(* only after the sign out, a password change that crosses another one and *)
(* a reset cut between its saves: the theorem of AccountsProofs, of the    *)
(* composition.                                                            *)
THEOREM SessionsAreOfThePassword == AccountSpec => []SessionsOfThePassword
<1>1. (part = "account" => Proved!IInv) => SessionsOfThePassword
  BY Proved!IInvSafe
  DEF SessionsOfThePassword, SignIns!SessionsOfThePassword, Proved!SessionsOfThePassword, SignIns!Valid, Proved!Valid,
      SignIns!There, Proved!There, SignIns!Resetting, Proved!Resetting
<1> QED BY <1>1, SignInsPart, PTL

(* The sweep deletes no account an address of which was ever confirmed,    *)
(* unless that was between its read and its delete, or was cut, or crossed *)
(* by a change of the email, between its two saves                         *)
(* (delete_stale_unverified_users, on_after_verify).                       *)
THEOREM TheSweepSparesTheConfirmed == AccountSpec => []SweptNeverConfirmed
<1>1. (part = "account" => Proved!IInv) => SweptNeverConfirmed
  BY Proved!IInvSafe DEF SweptNeverConfirmed, SignIns!SweptNeverConfirmed, Proved!SweptNeverConfirmed
<1> QED BY <1>1, SignInsPart, PTL

=============================================================================
