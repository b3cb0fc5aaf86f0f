---------------------------- MODULE LedgerProofs ----------------------------
(***************************************************************************)
(* Proofs about Ledger, for any number of requests, trades and symbols:    *)
(* the types; that requests that keep edits of a trade apart never commit  *)
(* an oversold history and never refuse a buy or the delete of a sell as   *)
(* one; that the trades are then a ValidLedger and have the profits of     *)
(* their history; how far requests that run together pass the limits of    *)
(* trades and assets; and that a new sell fits its account.                *)
(*                                                                         *)
(* Most proofs leave open what a replay computes: they are about which     *)
(* rows it is given, when, and what is committed. The section on a new buy *)
(* and the delete of a sell compares two replays, trade by trade.          *)
(***************************************************************************)
EXTENDS Ledger, FiniteSetTheorems, SequenceTheorems, WellFoundedInduction, TLAPS

(* The row with an id is one of the rows, and has it.                      *)
LEMMA RowOf ==
  ASSUME NEW T, NEW id, Exists(T, id)
  PROVE  Row(T, id) \in T /\ Row(T, id).id = id
BY DEF Exists, Row

(* Whatever fields of a trade an edit overwrites, it stays a trade with    *)
(* its id.                                                                 *)
LEMMA OverwrittenType ==
  ASSUME NEW t \in Trade, NEW e \in Edits, NEW names
  PROVE  Overwritten(t, e, names) \in Trade /\ Overwritten(t, e, names).id = t.id
<1>1. e.to \in Trade
  BY EditsAssumption DEF Edit
<1> QED BY <1>1 DEF Overwritten, Trade

(* An UPDATE of the changed columns of the row that was loaded gives the   *)
(* edited trade.                                                           *)
LEMMA ChangedIsAll ==
  ASSUME NEW t \in Trade, NEW e \in Edits
  PROVE  Overwritten(t, e, Changed(e, t)) = Overwritten(t, e, e.fields)
<1>1. e.to \in Trade
  BY EditsAssumption DEF Edit
<1>2. \A f \in Fields : f \in Changed(e, t) <=> f \in e.fields /\ e.to[f] # t[f]
  BY DEF Changed
<1> QED BY <1>1, <1>2 DEF Overwritten, Trade, Fields

(* New and edited rows keep the ids apart.                                 *)
LEMMA UniqueAdded ==
  ASSUME NEW T, UniqueIds(T), NEW u, \A t \in T : t.id # u.id
  PROVE  UniqueIds(T \cup {u})
BY DEF UniqueIds

LEMMA UniqueReplaced ==
  ASSUME NEW T, UniqueIds(T), NEW t \in T, NEW u, u.id = t.id
  PROVE  UniqueIds((T \ {t}) \cup {u})
BY DEF UniqueIds

LEMMA UniqueSubset ==
  ASSUME NEW T, UniqueIds(T), NEW S \in SUBSET T
  PROVE  UniqueIds(S)
BY DEF UniqueIds

-----------------------------------------------------------------------------
(* Types.                                                                  *)

(* The part of TypeOK about the requests, and about the rows.              *)
RowsOK ==
  /\ trades \subseteq Trade /\ UniqueIds(trades)
  /\ issued \subseteq Ids /\ \A t \in trades \cup draft : t.id \in issued
  /\ DOMAIN profit = {t.id : t \in trades}
  /\ writer \in Procs \cup {NoProc}
  /\ draft \subseteq Trade /\ UniqueIds(draft)

RequestsOK ==
  /\ pc \in [Procs -> {"idle", "rates", "before", "flush", "settle"}]
  /\ req \in [Procs -> Requests \cup {NoRequest}]
  /\ seen \in [Procs -> Trade \cup {NoTrade}]
  /\ \A p \in Procs : FitsPlace(p)

LEMMA TypeParts == TypeOK <=> RowsOK /\ RequestsOK
BY DEF TypeOK, RowsOK, RequestsOK

LEMMA TypePartsNext == RowsOK' /\ RequestsOK' => TypeOK'
BY DEF TypeOK, RowsOK, RequestsOK

(* A step of p alone leaves the others where they fit.                     *)
LEMMA OthersFit ==
  ASSUME RequestsOK, NEW p \in Procs, FitsPlace(p)',
         NEW place \in {"idle", "rates", "before", "flush", "settle"}, pc' = [pc EXCEPT ![p] = place],
         NEW request \in Requests \cup {NoRequest}, req' = [req EXCEPT ![p] = request],
         NEW object \in Trade \cup {NoTrade}, seen' = [seen EXCEPT ![p] = object],
         issued \subseteq issued', writer' = writer \/ {writer, writer'} = {p, NoProc}
  PROVE  RequestsOK'
<1> USE ProcsAssumption
<1>1. ASSUME NEW q \in Procs, q # p PROVE FitsPlace(q)'
  <2>1. pc'[q] = pc[q] /\ req'[q] = req[q] /\ seen'[q] = seen[q]
    BY <1>1 DEF RequestsOK
  <2>2. writer' = q <=> writer = q
    BY <1>1
  <2>3. FitsPlace(q)
    BY DEF RequestsOK
  <2> QED BY <2>1, <2>2, <2>3 DEF FitsPlace
<1> QED BY <1>1 DEF RequestsOK

(* A request is answered, with or without the write lock.                  *)
LEMMA EndFits ==
  ASSUME RequestsOK, NEW p \in Procs, End(p), UNCHANGED issued,
         (writer' = writer /\ pc[p] # "settle") \/ (writer' = NoProc /\ pc[p] = "settle")
  PROVE  RequestsOK'
<1> USE ProcsAssumption
<1>1. pc'[p] = "idle" /\ req'[p] = NoRequest /\ seen'[p] = NoTrade /\ (pc[p] = "settle" <=> writer = p)
  BY DEF RequestsOK, End, FitsPlace
<1>2. FitsPlace(p)'
  BY <1>1 DEF FitsPlace
<1> QED BY <1>1, <1>2, OthersFit DEF End

(* A request starts: what it holds fits where it waits first.              *)
LEMMA BeginFits ==
  ASSUME RequestsOK, NEW p \in Procs, pc[p] = "idle", NEW request \in Requests,
         NEW where \in {"rates", "before", "flush"}, NEW object \in Trade \cup {NoTrade},
         Begin(p, request, where, object), UNCHANGED <<issued, writer>>,
         where = "rates" => request.kind = "edit",
         \/ request.kind = "create" /\ object = NoTrade
         \/ request.kind # "create" /\ object \in Trade /\ object.id = request.id /\ object.id \in issued
  PROVE  RequestsOK'
<1>1. pc'[p] = where /\ req'[p] = request /\ seen'[p] = object /\ writer' # p
  BY DEF RequestsOK, Begin, FitsPlace
<1>2. request # NoRequest
  BY NoRequestAssumption
<1>3. FitsPlace(p)'
  BY <1>1, <1>2 DEF FitsPlace
<1>4. where \in {"idle", "rates", "before", "flush", "settle"} /\ request \in Requests \cup {NoRequest}
  OBVIOUS
<1>5. pc' = [pc EXCEPT ![p] = where] /\ req' = [req EXCEPT ![p] = request] /\ seen' = [seen EXCEPT ![p] = object]
  BY DEF Begin
<1> QED BY <1>3, <1>4, <1>5, OthersFit

(* A request moves on with what it has.                                    *)
LEMMA MoveFits ==
  ASSUME RequestsOK, NEW p \in Procs, pc[p] # "idle", NEW place \in {"before", "flush", "settle"},
         pc' = [pc EXCEPT ![p] = place], UNCHANGED req,
         NEW object \in Trade \cup {NoTrade}, seen' = [seen EXCEPT ![p] = object],
         object = seen[p] \/ (object \in Trade /\ object.id = req[p].id /\ req[p].kind = "edit"),
         issued \subseteq issued',
         \/ place # "settle" /\ writer # p /\ writer' = writer
         \/ place = "settle" /\ writer = NoProc /\ writer' = p
  PROVE  RequestsOK'
<1>1. pc'[p] = place /\ req'[p] = req[p] /\ seen'[p] = object /\ req' = [req EXCEPT ![p] = req[p]]
  BY DEF RequestsOK
<1>2. FitsPlace(p)'
  BY <1>1, ProcsAssumption DEF FitsPlace, RequestsOK
<1>3. place \in {"idle", "rates", "before", "flush", "settle"} /\ req[p] \in Requests \cup {NoRequest}
  BY DEF RequestsOK
<1>4. writer' = writer \/ {writer, writer'} = {p, NoProc}
  OBVIOUS
<1> QED BY <1>1, <1>2, <1>3, <1>4, OthersFit

LEMMA UnchangedRows == RowsOK /\ UNCHANGED <<trades, profit, issued, writer, draft>> => RowsOK'
BY DEF RowsOK

(* Reading a loaded trade, or a request's parts.                           *)
LEMMA RequestKinds ==
  ASSUME NEW r \in Requests
  PROVE  /\ r.kind \in {"create", "edit", "delete"}
         /\ r.kind = "create" => r.trade \in Templates
         /\ r.kind = "edit" => r.edit \in Edits
         /\ r.kind # "create" => r.id \in Ids
BY DEF Requests

LEMMA InitTypeOK == Init => TypeOK
<1> SUFFICES ASSUME Init PROVE TypeOK
  OBVIOUS
<1>1. trades \subseteq Trade /\ UniqueIds(trades) /\ UniqueIds(draft)
  BY HistoriesAssumption DEF Init, UniqueIds
<1>2. issued \subseteq Ids
  BY <1>1 DEF Init, Trade
<1>3. \A p \in Procs : FitsPlace(p)
  BY ProcsAssumption DEF Init, FitsPlace
<1> QED BY <1>1, <1>2, <1>3 DEF Init, TypeOK

(* The first write leaves rows that are trades with ids given out.         *)
LEMMA FlushRows ==
  ASSUME TypeOK, NEW p \in Procs, FlushCreate(p) \/ FlushDelete(p) \/ FlushEdit(p)
  PROVE  RowsOK' /\ issued \subseteq issued'
<1>1. CASE FlushCreate(p)
  <2>1. PICK id \in Ids \ issued : /\ Write(p, trades \cup {[req[p].trade EXCEPT !.id = id]})
                                  /\ issued' = issued \cup {id}
    BY <1>1 DEF FlushCreate
  <2> DEFINE new == [req[p].trade EXCEPT !.id = id]
  <2>2. req[p].trade \in Templates
    BY <1>1, RequestKinds DEF FlushCreate, TypeOK, FitsPlace
  <2>3. new \in Trade /\ new.id = id
    BY <2>2, TemplatesAssumption DEF Trade
  <2>4. UniqueIds(trades \cup {new})
    <3>1. \A t \in trades : t.id # id
      BY DEF TypeOK
    <3> HIDE DEF new
    <3> QED BY <2>3, <3>1, UniqueAdded DEF TypeOK
  <2> HIDE DEF new
  <2> QED BY <2>1, <2>3, <2>4 DEF RowsOK, TypeOK, Write, new
<1>2. CASE FlushDelete(p)
  <2>1. UniqueIds({t \in trades : t.id # req[p].id})
    BY UniqueSubset DEF TypeOK
  <2> QED BY <1>2, <2>1 DEF FlushDelete, RowsOK, TypeOK, Write
<1>3. CASE FlushEdit(p)
  <2> DEFINE t == Row(trades, req[p].id)
             u == Overwritten(t, req[p].edit, Changed(req[p].edit, seen[p]))
  <2>1. t \in trades /\ req[p].edit \in Edits
    BY <1>3, RowOf, RequestKinds DEF FlushEdit, TypeOK, FitsPlace
  <2>2. u \in Trade /\ u.id = t.id
    BY <2>1, OverwrittenType DEF TypeOK
  <2>3. Write(p, (trades \ {t}) \cup {u}) /\ UNCHANGED issued
    BY <1>3 DEF FlushEdit
  <2> HIDE DEF t, u
  <2>4. UniqueIds((trades \ {t}) \cup {u})
    BY <2>1, <2>2, UniqueReplaced DEF TypeOK
  <2> QED BY <2>1, <2>2, <2>3, <2>4 DEF RowsOK, TypeOK, Write
<1> QED BY <1>1, <1>2, <1>3

LEMMA NextTypeOK == TypeOK /\ [Next]_vars => TypeOK'
<1> SUFFICES ASSUME TypeOK, [Next]_vars PROVE TypeOK'
  OBVIOUS
<1>0. RowsOK /\ RequestsOK
  BY TypeParts
<1>1. ASSUME NEW p \in Procs, NEW t \in Templates, StartCreate(p, t) PROVE TypeOK'
  <2> DEFINE request == [kind |-> "create", trade |-> t]
  <2>1. request \in Requests /\ request.kind = "create"
    BY DEF Requests
  <2>2. RequestsOK'
    BY <1>0, <1>1, <2>1, BeginFits DEF StartCreate, database
  <2> QED BY <1>0, <1>1, <2>2, UnchangedRows, TypePartsNext DEF StartCreate, database
<1>2. ASSUME NEW p \in Procs, NEW id \in Ids, NEW e \in Edits, StartEdit(p, id, e) PROVE TypeOK'
  <2> DEFINE request == [kind |-> "edit", id |-> id, edit |-> e]
             t == Row(trades, id)
  <2>1. request \in Requests /\ request.kind = "edit" /\ request.id = id
    BY DEF Requests
  <2>2. t \in trades /\ t.id = id
    BY <1>2, RowOf DEF StartEdit
  <2>3. t \in Trade /\ t.id \in issued
    BY <2>2 DEF TypeOK
  <2>4. RequestsOK'
    <3>1. \E where \in {"rates", "before", "flush"} : Begin(p, request, where, t)
      BY <1>2 DEF StartEdit
    <3>2. pc[p] = "idle" /\ UNCHANGED <<issued, writer>>
      BY <1>2 DEF StartEdit, database
    <3> HIDE DEF request, t
    <3> QED BY <1>0, <2>1, <2>2, <2>3, <3>1, <3>2, BeginFits
  <2> QED BY <1>0, <1>2, <2>4, UnchangedRows, TypePartsNext DEF StartEdit, database
<1>3. ASSUME NEW p \in Procs, NEW id \in Ids, StartDelete(p, id) PROVE TypeOK'
  <2> DEFINE request == [kind |-> "delete", id |-> id]
             t == Row(trades, id)
  <2>1. request \in Requests /\ request.kind = "delete" /\ request.id = id
    BY DEF Requests
  <2>2. t \in trades /\ t.id = id
    BY <1>3, RowOf DEF StartDelete
  <2>3. t \in Trade /\ t.id \in issued
    BY <2>2 DEF TypeOK
  <2>4. RequestsOK'
    <3>1. \E where \in {"before", "flush"} : Begin(p, request, where, t)
      BY <1>3 DEF StartDelete
    <3>2. pc[p] = "idle" /\ UNCHANGED <<issued, writer>>
      BY <1>3 DEF StartDelete, database
    <3> HIDE DEF request, t
    <3> QED BY <1>0, <2>1, <2>2, <2>3, <3>1, <3>2, BeginFits
  <2> QED BY <1>0, <1>3, <2>4, UnchangedRows, TypePartsNext DEF StartDelete, database
<1>4. ASSUME NEW p \in Procs, End(p), UNCHANGED database, pc[p] # "settle" PROVE TypeOK'
  BY <1>0, <1>4, EndFits, UnchangedRows, TypePartsNext DEF database
<1>5. ASSUME NEW p \in Procs, Reload(p) PROVE TypeOK'
  <2>1. CASE Exists(trades, req[p].id)
    <3> DEFINE t == Row(trades, req[p].id)
    <3>1. t \in Trade /\ t.id = req[p].id
      BY <2>1, RowOf DEF TypeOK
    <3>2. pc' = [pc EXCEPT ![p] = "before"] /\ seen' = [seen EXCEPT ![p] = t] /\ UNCHANGED req
      BY <1>5, <2>1 DEF Reload
    <3>3. req[p].kind = "edit" /\ writer # p /\ pc[p] # "idle" /\ UNCHANGED database
      BY <1>5 DEF Reload, TypeOK, FitsPlace
    <3> HIDE DEF t
    <3>4. RequestsOK'
      BY <1>0, <3>1, <3>2, <3>3, MoveFits DEF database
    <3> QED BY <1>0, <3>3, <3>4, UnchangedRows, TypePartsNext DEF database
  <2>2. CASE ~Exists(trades, req[p].id)
    BY <1>4, <1>5, <2>2 DEF Reload
  <2> QED BY <2>1, <2>2
<1>6. ASSUME NEW p \in Procs, ReadBefore(p) PROVE TypeOK'
  <2>1. pc' = [pc EXCEPT ![p] = "flush"] /\ pc[p] # "idle" /\ writer # p
    BY <1>6 DEF ReadBefore, TypeOK, FitsPlace
  <2>2. seen[p] \in Trade \cup {NoTrade} /\ seen' = [seen EXCEPT ![p] = seen[p]]
    BY <1>6 DEF ReadBefore, TypeOK
  <2>3. UNCHANGED <<trades, profit, issued, writer, draft, req>>
    BY <1>6 DEF ReadBefore, database
  <2>4. RequestsOK'
    BY <1>0, <2>1, <2>2, <2>3, MoveFits
  <2> QED BY <1>0, <2>3, <2>4, UnchangedRows, TypePartsNext
<1>7. ASSUME NEW p \in Procs, FlushCreate(p) \/ FlushDelete(p) \/ FlushEdit(p) PROVE TypeOK'
  <2>1. /\ pc' = [pc EXCEPT ![p] = "settle"] /\ pc[p] # "idle"
        /\ writer = NoProc /\ writer' = p /\ UNCHANGED <<req, seen>>
    BY <1>7 DEF FlushCreate, FlushDelete, FlushEdit, Write
  <2>2. seen[p] \in Trade \cup {NoTrade} /\ seen' = [seen EXCEPT ![p] = seen[p]]
    BY <2>1 DEF TypeOK
  <2>3. RequestsOK'
    BY <1>0, <1>7, <2>1, <2>2, FlushRows, MoveFits
  <2> QED BY <1>7, <2>3, FlushRows, TypePartsNext
<1>8. ASSUME NEW p \in Procs, RollbackOversold(p) \/ RollbackAccount(p) PROVE TypeOK'
  <2>1. pc[p] = "settle" /\ Release /\ End(p) /\ UNCHANGED <<trades, profit, issued>>
    BY <1>8 DEF RollbackOversold, RollbackAccount
  <2>2. RowsOK'
    BY <1>0, <2>1 DEF RowsOK, Release, UniqueIds
  <2> QED BY <1>0, <2>1, <2>2, EndFits, TypePartsNext DEF Release
<1>9. ASSUME NEW p \in Procs, Commit(p) PROVE TypeOK'
  <2>1. pc[p] = "settle" /\ Release /\ End(p) /\ trades' = draft /\ UNCHANGED issued
    BY <1>9 DEF Commit
  <2>2. DOMAIN profit' = {t.id : t \in trades'}
    BY <1>9 DEF Commit, Committed
  <2>3. RowsOK'
    BY <1>0, <2>1, <2>2 DEF RowsOK, Release, UniqueIds
  <2> QED BY <1>0, <2>1, <2>3, EndFits, TypePartsNext DEF Release
<1>10. ASSUME Crash PROVE TypeOK'
  <2>1. RowsOK'
    BY <1>0, <1>10 DEF RowsOK, Crash, Release, UniqueIds
  <2>2. RequestsOK'
    BY <1>0, <1>10, ProcsAssumption DEF RequestsOK, FitsPlace, Crash, Release
  <2> QED BY <2>1, <2>2, TypePartsNext
<1>11. ASSUME UNCHANGED vars PROVE TypeOK'
  BY <1>11 DEF vars, TypeOK, FitsPlace
<1>12. ASSUME NEW p \in Procs,
              \/ \E t \in Templates : RefuseCreate(p, t)
              \/ \E id \in Ids : NotFound(p, id)
              \/ \E id \in Ids, e \in Edits : RefuseEdit(p, id, e)
              \/ StaleEdit(p) \/ Fail(p)
       PROVE  TypeOK'
  BY <1>4, <1>12 DEF RefuseCreate, NotFound, RefuseEdit, StaleEdit, Fail
<1>13. ASSUME NEW p \in Procs, Start(p) PROVE TypeOK'
  BY <1>1, <1>2, <1>3, <1>12, <1>13 DEF Start
<1>14. ASSUME NEW p \in Procs, Flush(p) \/ Settle(p) PROVE TypeOK'
  BY <1>7, <1>8, <1>9, <1>12, <1>14 DEF Flush, Settle
<1> QED BY <1>5, <1>6, <1>10, <1>11, <1>12, <1>13, <1>14 DEF Next

(* Whatever requests run together and however they end, rows and requests  *)
(* keep their types, ids stay unique, and a request that waits outside the *)
(* write transaction never holds the write lock.                           *)
THEOREM TypeCorrect == Spec => []TypeOK
BY InitTypeOK, NextTypeOK, PTL DEF Spec

-----------------------------------------------------------------------------
(* Never oversold. What a request has loaded is still what is committed,   *)
(* as far as its checks depend on it: an edit's trade as a whole (when it  *)
(* is still there), a deleted trade's symbol. Without this, the replay of  *)
(* the loaded trade would not be the replay of the written row: see        *)
(* LedgerOverlap.cfg.                                                      *)
Busy(p, kind) == pc[p] # "idle" /\ req[p].kind = kind

Edited(p) == Overwritten(seen[p], req[p].edit, req[p].edit.fields)

New(p, id) == [req[p].trade EXCEPT !.id = id]

EditSees(p) ==
  (Busy(p, "edit") /\ pc[p] \in {"before", "flush"} /\ Exists(trades, req[p].id)) => seen[p] \in trades

DeleteSees(p) ==
  Busy(p, "delete") => \A t \in trades : t.id = req[p].id => t.symbol = seen[p].symbol

(* What the write transaction's rows are.                                  *)
FreshId(id) ==
  /\ \A t \in trades : t.id # id
  /\ \A q \in Procs : pc[q] # "idle" /\ req[q].kind # "create" => req[q].id # id

DraftCreates(p) ==
  Busy(p, "create") => \E id \in Ids : FreshId(id) /\ draft = trades \cup {New(p, id)}

DraftDeletes(p) ==
  Busy(p, "delete") => draft = {t \in trades : t.id # req[p].id}

DraftEdits(p) ==
  Busy(p, "edit") => seen[p] \in trades /\ draft = (trades \ {seen[p]}) \cup {Edited(p)}

DraftKnown(p) == writer = p => DraftCreates(p) /\ DraftDeletes(p) /\ DraftEdits(p)

KeptApart ==
  \A p, q \in Procs :
    (p # q /\ Busy(p, "edit") /\ WorksOn(q, req[p].id)) => req[q].kind = "delete" /\ ~MovesSymbol(req[p])

Known(p) == EditSees(p) /\ DeleteSees(p) /\ DraftKnown(p)

LInv == TypeOK /\ KeptApart /\ (\A p \in Procs : Known(p)) /\ NeverOversold

-----------------------------------------------------------------------------
(* The replay of the draft as its session has it loaded is the replay of   *)
(* the rows themselves.                                                    *)
LEMMA LoadedIsWritten ==
  ASSUME NEW T, NEW objects, \A t \in T, o \in objects : o.id = t.id => o = t, NEW s
  PROVE  /\ Loaded(OfSymbol(T, s), objects) = History(OfSymbol(T, s))
         /\ OversoldIn(T, s, objects) = Oversold(T, s)
<1>1. \A t \in OfSymbol(T, s) : AsLoaded(t, objects) = t /\ AsLoaded(t, {}) = t
  BY DEF OfSymbol, AsLoaded
<1>2. [t \in OfSymbol(T, s) |-> AsLoaded(t, objects)] = [t \in OfSymbol(T, s) |-> AsLoaded(t, {})]
  BY <1>1
<1>3. Loaded(OfSymbol(T, s), objects) = Loaded(OfSymbol(T, s), {})
  BY <1>2 DEF Loaded
<1> QED BY <1>3 DEF OversoldIn, Oversold, History

LEMMA EditedType ==
  ASSUME TypeOK, NEW p \in Procs, Busy(p, "edit")
  PROVE  /\ seen[p] \in Trade /\ req[p].edit \in Edits
         /\ Edited(p) \in Trade /\ Edited(p).id = seen[p].id /\ seen[p].id = req[p].id
         /\ "symbol" \notin req[p].edit.fields => Edited(p).symbol = seen[p].symbol
<1>1. seen[p] \in Trade /\ req[p].edit \in Edits /\ seen[p].id = req[p].id
  BY RequestKinds DEF Busy, TypeOK, FitsPlace
<1> QED BY <1>1, OverwrittenType DEF Edited, Overwritten

LEMMA NewType ==
  ASSUME TypeOK, NEW p \in Procs, Busy(p, "create"), NEW id \in Ids
  PROVE  New(p, id) \in Trade /\ New(p, id).id = id /\ New(p, id).symbol = req[p].trade.symbol
<1>1. req[p].trade \in Trade
  BY RequestKinds, TemplatesAssumption DEF Busy, TypeOK, FitsPlace
<1> QED BY <1>1 DEF New, Trade

LEMMA BusyKinds ==
  ASSUME TypeOK, NEW p \in Procs, pc[p] # "idle"
  PROVE  Busy(p, "create") \/ Busy(p, "edit") \/ Busy(p, "delete")
BY RequestKinds DEF TypeOK, FitsPlace, Busy

(* What p's session holds is the row it has written.                       *)
LEMMA ObjectIsWritten ==
  ASSUME LInv, NEW p \in Procs, pc[p] = "settle"
  PROVE  \A t \in draft, o \in Object(p) : o.id = t.id => o = t
<1>1. TypeOK /\ pc[p] # "idle" /\ DraftKnown(p) /\ writer = p
  BY DEF LInv, Known, TypeOK, FitsPlace
<1>2. CASE Busy(p, "create")
  BY <1>2 DEF Busy, Object
<1>3. CASE Busy(p, "delete")
  <2>1. Object(p) = {seen[p]} /\ seen[p].id = req[p].id
    BY <1>1, <1>3 DEF Busy, Object, TypeOK, FitsPlace
  <2> QED BY <1>1, <1>3, <2>1 DEF DraftKnown, DraftDeletes
<1>4. CASE Busy(p, "edit")
  <2>1. Object(p) = {Edited(p)}
    BY <1>4 DEF Busy, Object, Edited
  <2>2. Edited(p) \in draft
    BY <1>1, <1>4 DEF DraftKnown, DraftEdits
  <2> QED BY <1>1, <2>1, <2>2 DEF TypeOK, UniqueIds
<1> QED BY <1>1, <1>2, <1>3, <1>4, BusyKinds

(* The rows of a symbol p does not check are those that were committed.    *)
LEMMA OthersUnwritten ==
  ASSUME LInv, NEW p \in Procs, Commit(p), NEW s, s \notin Affected(p)
  PROVE  OfSymbol(draft, s) = OfSymbol(trades, s)
<1>1. TypeOK /\ pc[p] # "idle" /\ DraftKnown(p) /\ writer = p
  BY DEF LInv, Known, Commit, TypeOK, FitsPlace
<1>2. CASE Busy(p, "create")
  <2>1. PICK id \in Ids : draft = trades \cup {New(p, id)}
    BY <1>1, <1>2 DEF DraftKnown, DraftCreates
  <2>2. New(p, id).symbol # s
    BY <1>1, <1>2, NewType DEF Affected, Busy
  <2> QED BY <2>1, <2>2 DEF OfSymbol
<1>3. CASE Busy(p, "delete")
  <2>1. seen[p].symbol # s
    BY <1>3 DEF Affected, Busy
  <2>2. \A t \in trades : t.id = req[p].id => t.symbol # s
    BY <1>3, <2>1 DEF LInv, Known, DeleteSees
  <2> QED BY <1>1, <1>3, <2>2 DEF DraftKnown, DraftDeletes, OfSymbol
<1>4. CASE Busy(p, "edit")
  <2>1. seen[p].symbol # s /\ Edited(p).symbol # s
    BY <1>4 DEF Affected, Busy, Object, Edited
  <2> QED BY <1>1, <1>4, <2>1 DEF DraftKnown, DraftEdits, OfSymbol
<1> QED BY <1>1, <1>2, <1>3, <1>4, BusyKinds

(* A committed draft sells no more of any symbol than was owned: the       *)
(* symbols the request checked, and the others, whose rows are unchanged.  *)
LEMMA CommitValid ==
  ASSUME LInv, NEW p \in Procs, Commit(p)
  PROVE  NeverOversells(draft)
<1> SUFFICES ASSUME NEW s \in Symbols PROVE ~Oversold(draft, s)
  BY DEF NeverOversells
<1>1. CASE s \in Affected(p)
  <2>1. ~OversoldIn(draft, s, Object(p))
    BY <1>1 DEF Commit, OversoldDraft
  <2> QED BY <2>1, ObjectIsWritten, LoadedIsWritten DEF Commit
<1>2. CASE s \notin Affected(p)
  <2>1. ~Oversold(trades, s)
    BY DEF LInv, NeverOversold, NeverOversells
  <2> QED BY <1>2, <2>1, OthersUnwritten DEF Oversold, OversoldIn
<1> QED BY <1>1, <1>2

(* What the others know of the trades stays true through p's commit: a new *)
(* id is nobody's, a delete takes a row away, and an edit of the same      *)
(* trade is a delete's only, and leaves its symbol.                        *)
LEMMA CommitKnown ==
  ASSUME LInv, NEW p \in Procs, Commit(p), NEW q \in Procs, q # p
  PROVE  Known(q)'
<1>0. TypeOK
  BY DEF LInv
<1>1. /\ pc[p] = "settle" /\ writer = p /\ DraftKnown(p) /\ pc[p] # "idle"
      /\ trades' = draft /\ writer' = NoProc
  BY <1>0 DEF LInv, Known, Commit, Release, TypeOK, FitsPlace
<1>2. pc'[q] = pc[q] /\ req'[q] = req[q] /\ seen'[q] = seen[q]
  BY <1>0 DEF Commit, End, TypeOK
<1>3. EditSees(q) /\ DeleteSees(q) /\ UniqueIds(trades) /\ UniqueIds(draft)
  BY <1>0 DEF LInv, Known, TypeOK
<1>4. DraftKnown(q)'
  BY <1>1, ProcsAssumption DEF DraftKnown
<1>5. ASSUME Busy(q, "edit"), pc[q] \in {"before", "flush"}, Exists(draft, req[q].id)
      PROVE  seen[q] \in draft
  <2>1. seen[q].id = req[q].id
    BY <1>0, <1>5, EditedType
  <2>2. CASE Busy(p, "create")
    <3>1. PICK id \in Ids : FreshId(id) /\ draft = trades \cup {New(p, id)}
      BY <1>1, <2>2 DEF DraftKnown, DraftCreates
    <3>2. New(p, id).id # req[q].id
      BY <1>0, <1>5, <2>2, <3>1, NewType DEF FreshId, Busy
    <3> QED BY <1>3, <1>5, <3>1, <3>2 DEF EditSees, Exists
  <2>3. CASE Busy(p, "delete")
    <3>1. draft = {t \in trades : t.id # req[p].id}
      BY <1>1, <2>3 DEF DraftKnown, DraftDeletes
    <3> QED BY <1>3, <1>5, <2>1, <3>1 DEF EditSees, Exists
  <2>4. CASE Busy(p, "edit")
    <3>1. req[p].id # req[q].id
      BY <1>5, <2>4 DEF LInv, KeptApart, WorksOn, Busy
    <3>2. seen[p].id = req[p].id /\ Edited(p).id = req[p].id
      BY <1>0, <2>4, EditedType
    <3>3. draft = (trades \ {seen[p]}) \cup {Edited(p)}
      BY <1>1, <2>4 DEF DraftKnown, DraftEdits
    <3>4. Exists(trades, req[q].id)
      BY <1>5, <3>1, <3>2, <3>3 DEF Exists
    <3> QED BY <1>3, <1>5, <2>1, <3>1, <3>2, <3>3, <3>4 DEF EditSees
  <2> QED BY <1>0, <1>1, <2>2, <2>3, <2>4, BusyKinds
<1>6. ASSUME Busy(q, "delete"), NEW t \in draft, t.id = req[q].id
      PROVE  t.symbol = seen[q].symbol
  <2>1. CASE Busy(p, "create")
    <3>1. PICK id \in Ids : FreshId(id) /\ draft = trades \cup {New(p, id)}
      BY <1>1, <2>1 DEF DraftKnown, DraftCreates
    <3>2. New(p, id).id # req[q].id
      BY <1>0, <1>6, <2>1, <3>1, NewType DEF FreshId, Busy
    <3> QED BY <1>3, <1>6, <3>1, <3>2 DEF DeleteSees
  <2>2. CASE Busy(p, "delete")
    BY <1>1, <1>3, <1>6, <2>2 DEF DraftKnown, DraftDeletes, DeleteSees
  <2>3. CASE Busy(p, "edit")
    <3>1. seen[p] \in trades /\ draft = (trades \ {seen[p]}) \cup {Edited(p)}
      BY <1>1, <2>3 DEF DraftKnown, DraftEdits
    <3>2. CASE t # Edited(p)
      BY <1>3, <1>6, <3>1, <3>2 DEF DeleteSees
    <3>3. CASE t = Edited(p)
      <4>1. seen[p].id = req[q].id /\ req[p].id = req[q].id
        BY <1>0, <1>6, <2>3, <3>3, EditedType
      <4>2. ~MovesSymbol(req[p])
        BY <1>6, <2>3, <4>1 DEF LInv, KeptApart, WorksOn, Busy
      <4>3. Edited(p).symbol = seen[p].symbol
        BY <1>0, <2>3, <4>2, EditedType DEF MovesSymbol, Busy
      <4> QED BY <1>3, <1>6, <3>1, <3>3, <4>1, <4>3 DEF DeleteSees
    <3> QED BY <3>2, <3>3
  <2> QED BY <1>0, <1>1, <2>1, <2>2, <2>3, BusyKinds
<1>7. EditSees(q)'
  BY <1>1, <1>2, <1>5 DEF EditSees, Busy
<1>8. DeleteSees(q)'
  BY <1>1, <1>2, <1>6 DEF DeleteSees, Busy
<1> QED BY <1>4, <1>7, <1>8 DEF Known

(* A step of p that leaves the committed rows leaves what q knows of them. *)
LEMMA OtherKnown ==
  ASSUME LInv, NEW p \in Procs, NEW q \in Procs, q # p, UNCHANGED trades,
         pc'[q] = pc[q], req'[q] = req[q], seen'[q] = seen[q],
         writer' # q \/ (writer = q /\ UNCHANGED <<writer, draft>>),
         \A x \in Procs \ {p} : pc'[x] = pc[x] /\ req'[x] = req[x],
         \/ pc'[p] = "idle"
         \/ pc[p] # "idle" /\ req'[p] = req[p]
         \/ req'[p].kind # "create" => \E t \in trades : t.id = req'[p].id
         \/ req'[p].kind = "create"
  PROVE  Known(q)'
<1>1. EditSees(q)' /\ DeleteSees(q)'
  BY DEF LInv, Known, EditSees, DeleteSees, Busy
<1>2. ASSUME writer' = q PROVE DraftKnown(q)'
  <2>1. writer = q /\ draft' = draft /\ DraftKnown(q)
    BY <1>2 DEF LInv, Known
  <2>2. \A id : FreshId(id) => FreshId(id)'
    <3>1. SUFFICES ASSUME NEW id, FreshId(id), NEW x \in Procs, pc'[x] # "idle", req'[x].kind # "create"
                   PROVE  req'[x].id # id
      BY DEF FreshId
    <3>2. CASE x # p
      BY <3>1, <3>2 DEF FreshId
    <3>3. CASE x = p
      BY <3>1, <3>3 DEF FreshId
    <3> QED BY <3>2, <3>3
  <2>3. \A id : New(q, id)' = New(q, id)
    BY DEF New
  <2>4. Edited(q)' = Edited(q)
    BY DEF Edited
  <2>5. DraftCreates(q)'
    BY <2>1, <2>2, <2>3 DEF DraftKnown, DraftCreates, Busy
  <2>6. DraftDeletes(q)' /\ DraftEdits(q)'
    BY <2>1, <2>4 DEF DraftKnown, DraftDeletes, DraftEdits, Busy
  <2> QED BY <2>5, <2>6 DEF DraftKnown
<1> QED BY <1>1, <1>2 DEF Known, DraftKnown

(* A request that is not being served knows nothing.                       *)
LEMMA IdleKnown ==
  ASSUME NEW p \in Procs, pc'[p] = "idle", writer' # p
  PROVE  Known(p)'
BY DEF Known, EditSees, DeleteSees, DraftKnown, Busy

(* Requests stay apart when none starts.                                   *)
LEMMA NoneStarts ==
  ASSUME KeptApart, \A q \in Procs : pc'[q] # "idle" => pc[q] # "idle" /\ req'[q] = req[q]
  PROVE  KeptApart'
BY DEF KeptApart, Busy, WorksOn, MovesSymbol

(* Requests stay apart when one starts that is apart from the others.      *)
LEMMA OneStarts ==
  ASSUME TypeOK, KeptApart, NEW p \in Procs, NEW request, req' = [req EXCEPT ![p] = request],
         \A q \in Procs \ {p} : pc'[q] = pc[q], pc[p] = "idle",
         request.kind \in {"create", "edit", "delete"},
         request.kind # "create" => Apart(request)
  PROVE  KeptApart'
<1>1. \A q \in Procs : req'[q] = IF q = p THEN request ELSE req[q]
  BY DEF TypeOK
<1>2. SUFFICES ASSUME NEW x \in Procs, NEW y \in Procs, x # y, Busy(x, "edit")', WorksOn(y, req[x].id)'
               PROVE  req'[y].kind = "delete" /\ ~MovesSymbol(req'[x])
  BY DEF KeptApart
<1>3. \A q \in Procs : q # p /\ pc[q] # "idle" => req[q].kind \in {"create", "edit", "delete"}
  BY RequestKinds DEF TypeOK, FitsPlace
<1>4. CASE x = p
  <2>1. WorksOn(y, request.id) /\ request.kind = "edit" /\ y # p /\ req'[y] = req[y] /\ req'[x] = request
    BY <1>1, <1>2, <1>4 DEF Busy, WorksOn
  <2>2. req[y].kind # "edit" /\ ~MovesSymbol(request) /\ req[y].kind # "create" /\ pc[y] # "idle"
    BY <2>1 DEF Apart, WorksOn
  <2> QED BY <1>3, <2>1, <2>2
<1>5. CASE y = p
  <2>1. WorksOn(x, request.id) /\ req[x].kind = "edit" /\ x # p /\ req'[y] = request /\ req'[x] = req[x]
    BY <1>1, <1>2, <1>5 DEF Busy, WorksOn
  <2>2. request.kind # "create"
    BY <1>1, <1>2, <1>5 DEF WorksOn
  <2>3. request.kind # "edit" /\ ~MovesSymbol(req[x])
    BY <2>1, <2>2 DEF Apart
  <2> QED BY <2>1, <2>2, <2>3
<1>6. CASE x # p /\ y # p
  BY <1>1, <1>2, <1>6 DEF KeptApart, Busy, WorksOn
<1> QED BY <1>4, <1>5, <1>6

(* A request ends without having committed anything.                       *)
LEMMA EndKnown ==
  ASSUME LInv, NEW p \in Procs, End(p), UNCHANGED trades,
         \/ writer # p /\ UNCHANGED <<writer, draft>>
         \/ writer = p /\ writer' = NoProc
  PROVE  KeptApart' /\ \A q \in Procs : Known(q)'
<1> USE ProcsAssumption
<1>1. /\ \A q \in Procs \ {p} : pc'[q] = pc[q] /\ req'[q] = req[q] /\ seen'[q] = seen[q]
      /\ pc'[p] = "idle"
  BY DEF LInv, TypeOK, End
<1>2. KeptApart'
  BY <1>1, NoneStarts DEF LInv
<1>3. ASSUME NEW q \in Procs, q # p PROVE Known(q)'
  BY <1>1, <1>3, OtherKnown
<1>4. Known(p)'
  BY <1>1, IdleKnown
<1> QED BY <1>2, <1>3, <1>4

(* A request starts, apart from the others, with its trade just loaded.    *)
LEMMA BeginKnown ==
  ASSUME LInv, NEW p \in Procs, NEW request \in Requests, NEW where \in {"rates", "before", "flush"},
         NEW object, Begin(p, request, where, object), UNCHANGED database, pc[p] = "idle",
         request.kind # "create" => Apart(request) /\ object \in trades /\ object.id = request.id
  PROVE  KeptApart' /\ \A q \in Procs : Known(q)'
<1>1. /\ \A q \in Procs \ {p} : pc'[q] = pc[q] /\ req'[q] = req[q] /\ seen'[q] = seen[q]
      /\ pc'[p] = where /\ req'[p] = request /\ seen'[p] = object /\ writer' # p
      /\ UNCHANGED <<trades, writer, draft>> /\ UniqueIds(trades)
  BY DEF LInv, TypeOK, FitsPlace, Begin, database
<1>2. request.kind \in {"create", "edit", "delete"} /\ req' = [req EXCEPT ![p] = request]
  BY RequestKinds DEF Begin
<1>3. KeptApart'
  BY <1>1, <1>2, OneStarts DEF LInv
<1>4. ASSUME NEW q \in Procs, q # p PROVE Known(q)'
  BY <1>1, <1>4, OtherKnown
<1>5. Known(p)'
  <2>1. EditSees(p)'
    BY <1>1 DEF EditSees, Busy
  <2>2. DeleteSees(p)'
    BY <1>1 DEF DeleteSees, Busy, UniqueIds
  <2> QED BY <1>1, <2>1, <2>2 DEF Known, DraftKnown
<1> QED BY <1>3, <1>4, <1>5

(* The first write: an edit's trade is still as it was loaded.             *)
LEMMA FlushKnown ==
  ASSUME LInv, NEW p \in Procs, FlushCreate(p) \/ FlushDelete(p) \/ FlushEdit(p)
  PROVE  KeptApart' /\ \A q \in Procs : Known(q)'
<1>0. TypeOK
  BY DEF LInv
<1>1. /\ \A q \in Procs \ {p} : pc'[q] = pc[q] /\ req'[q] = req[q] /\ seen'[q] = seen[q]
      /\ pc[p] = "flush" /\ pc'[p] = "settle" /\ UNCHANGED <<trades, req, seen>> /\ writer' = p
  BY <1>0 DEF TypeOK, FlushCreate, FlushDelete, FlushEdit, Write
<1>2. KeptApart'
  BY <1>1, NoneStarts DEF LInv
<1>3. ASSUME NEW q \in Procs, q # p PROVE Known(q)'
  BY <1>1, <1>3, OtherKnown
<1>4. EditSees(p)' /\ DeleteSees(p)'
  BY <1>1 DEF EditSees, DeleteSees, Busy, LInv, Known
<1>5. DraftCreates(p)'
  <2>1. SUFFICES ASSUME Busy(p, "create") PROVE DraftCreates(p)'
    BY <1>1 DEF DraftCreates, Busy
  <2>2. PICK id \in Ids \ issued : draft' = trades \cup {New(p, id)}
    BY <2>1, <1>1 DEF FlushCreate, FlushDelete, FlushEdit, Write, New, Busy
  <2>3. FreshId(id)'
    <3>1. \A t \in trades : t.id # id
      BY <1>0 DEF TypeOK
    <3>2. \A q \in Procs : pc[q] # "idle" /\ req[q].kind # "create" => req[q].id # id
      BY <1>0 DEF TypeOK, FitsPlace
    <3>3. \A q \in Procs : pc'[q] # "idle" => pc[q] # "idle"
      BY <1>1
    <3> QED BY <1>1, <3>1, <3>2, <3>3 DEF FreshId
  <2>4. New(p, id)' = New(p, id)
    BY <1>1 DEF New
  <2> QED BY <1>1, <2>2, <2>3, <2>4 DEF DraftCreates
<1>6. DraftDeletes(p)'
  BY <1>1 DEF DraftDeletes, Busy, FlushCreate, FlushDelete, FlushEdit, Write
<1>7. DraftEdits(p)'
  <2>1. SUFFICES ASSUME Busy(p, "edit") PROVE DraftEdits(p)'
    BY <1>1 DEF DraftEdits, Busy
  <2> DEFINE e == req[p].edit
             t == Row(trades, req[p].id)
  <2>2. /\ Exists(trades, req[p].id)
        /\ draft' = (trades \ {t}) \cup {Overwritten(t, e, Changed(e, seen[p]))}
    BY <2>1, <1>1 DEF FlushCreate, FlushDelete, FlushEdit, Write, Busy
  <2>3. seen[p] \in trades
    BY <1>1, <2>1, <2>2 DEF LInv, Known, EditSees
  <2>4. t = seen[p]
    BY <1>0, <2>1, <2>2, <2>3, RowOf, EditedType DEF TypeOK, UniqueIds
  <2>5. Overwritten(t, e, Changed(e, seen[p])) = Edited(p)
    BY <1>0, <2>1, <2>4, EditedType, ChangedIsAll DEF Edited
  <2>6. Edited(p)' = Edited(p)
    BY <1>1 DEF Edited
  <2> HIDE DEF e, t
  <2> QED BY <1>1, <2>2, <2>3, <2>4, <2>5, <2>6 DEF DraftEdits
<1>8. Known(p)'
  BY <1>4, <1>5, <1>6, <1>7 DEF Known, DraftKnown
<1> QED BY <1>2, <1>3, <1>8

(* An edit loads its trade again, or reads the shortfalls.                 *)
LEMMA ReloadKnown ==
  ASSUME LInv, NEW p \in Procs, Reload(p), Exists(trades, req[p].id)
  PROVE  KeptApart' /\ \A q \in Procs : Known(q)'
<1>0. TypeOK
  BY DEF LInv
<1>1. /\ \A q \in Procs \ {p} : pc'[q] = pc[q] /\ req'[q] = req[q] /\ seen'[q] = seen[q]
      /\ pc'[p] = "before" /\ UNCHANGED <<trades, req, writer, draft>>
      /\ seen'[p] = Row(trades, req[p].id) /\ writer # p /\ Busy(p, "edit")
  BY <1>0 DEF TypeOK, FitsPlace, Reload, database, Busy
<1>2. KeptApart'
  BY <1>1, NoneStarts DEF LInv, Busy
<1>3. ASSUME NEW q \in Procs, q # p PROVE Known(q)'
  BY <1>1, <1>3, OtherKnown DEF Busy
<1>4. Known(p)'
  BY <1>1, RowOf DEF Known, EditSees, DeleteSees, DraftKnown, Busy
<1> QED BY <1>2, <1>3, <1>4

LEMMA ReadBeforeKnown ==
  ASSUME LInv, NEW p \in Procs, ReadBefore(p)
  PROVE  KeptApart' /\ \A q \in Procs : Known(q)'
<1>1. /\ \A q \in Procs \ {p} : pc'[q] = pc[q] /\ req'[q] = req[q] /\ seen'[q] = seen[q]
      /\ pc[p] = "before" /\ pc'[p] = "flush" /\ UNCHANGED <<trades, req, seen, writer, draft>> /\ writer # p
  BY DEF LInv, TypeOK, FitsPlace, ReadBefore, database
<1>2. KeptApart'
  BY <1>1, NoneStarts DEF LInv
<1>3. ASSUME NEW q \in Procs, q # p PROVE Known(q)'
  BY <1>1, <1>3, OtherKnown
<1>4. Known(p)'
  BY <1>1 DEF LInv, Known, EditSees, DeleteSees, DraftKnown, Busy
<1> QED BY <1>2, <1>3, <1>4

LEMMA InitLInv == Init => LInv
<1> SUFFICES ASSUME Init PROVE LInv
  OBVIOUS
<1>1. NeverOversold
  BY DEF Init, NeverOversold
<1>2. KeptApart /\ \A p \in Procs : Known(p)
  BY ProcsAssumption DEF Init, KeptApart, Known, EditSees, DeleteSees, DraftKnown, Busy
<1> QED BY <1>1, <1>2, InitTypeOK DEF LInv

(* The rows a step may change: only a commit changes any.                  *)
LEMMA OnlyCommits ==
  ASSUME [Next]_vars
  PROVE  UNCHANGED <<trades, profit, missed>> \/ \E p \in Procs : Commit(p)
<1> USE DEF database
<1>1. ASSUME NEW p \in Procs, Start(p) PROVE UNCHANGED <<trades, profit, missed>>
  BY <1>1 DEF Start, StartCreate, RefuseCreate, StartEdit, RefuseEdit, StartDelete, NotFound
<1>2. ASSUME NEW p \in Procs, Reload(p) \/ ReadBefore(p) \/ Fail(p) PROVE UNCHANGED <<trades, profit, missed>>
  BY <1>2 DEF Reload, ReadBefore, Fail
<1>3. ASSUME NEW p \in Procs, Flush(p) PROVE UNCHANGED <<trades, profit, missed>>
  BY <1>3 DEF Flush, FlushCreate, FlushDelete, FlushEdit, StaleEdit, Write
<1>4. ASSUME NEW p \in Procs, RollbackOversold(p) \/ RollbackAccount(p) PROVE UNCHANGED <<trades, profit, missed>>
  BY <1>4 DEF RollbackOversold, RollbackAccount
<1>5. ASSUME Crash \/ UNCHANGED vars PROVE UNCHANGED <<trades, profit, missed>>
  BY <1>5 DEF Crash, vars
<1> QED BY <1>1, <1>2, <1>3, <1>4, <1>5 DEF Next, Settle

LEMMA NextNeverOversold == LInv /\ [Next]_vars => NeverOversold'
<1> SUFFICES ASSUME LInv, [Next]_vars PROVE NeverOversold'
  OBVIOUS
<1>1. CASE UNCHANGED trades
  BY <1>1 DEF LInv, NeverOversold, NeverOversells, Oversold, OversoldIn
<1>2. ASSUME NEW p \in Procs, Commit(p) PROVE NeverOversold'
  <2>1. trades' = draft
    BY <1>2 DEF Commit
  <2>2. NeverOversells(draft)
    BY <1>2, CommitValid
  <2> QED BY <2>1, <2>2 DEF NeverOversold
<1> QED BY <1>1, <1>2, OnlyCommits

LEMMA NextLInv ==
  ASSUME EditsOverlap = FALSE
  PROVE  LInv /\ [Next]_vars => LInv'
<1> SUFFICES ASSUME LInv, [Next]_vars PROVE LInv'
  OBVIOUS
<1>0. TypeOK /\ TypeOK' /\ NeverOversold'
  BY NextTypeOK, NextNeverOversold DEF LInv
<1> DEFINE Keeps == KeptApart' /\ \A q \in Procs : Known(q)'
<1> SUFFICES Keeps
  BY <1>0 DEF LInv
<1>1. ASSUME NEW p \in Procs, End(p), UNCHANGED database, pc[p] # "settle" PROVE Keeps
  <2>1. writer # p
    BY <1>0, <1>1 DEF TypeOK, FitsPlace
  <2> QED BY <1>1, <2>1, EndKnown DEF database
<1>2. ASSUME NEW p \in Procs, NEW t \in Templates, StartCreate(p, t) PROVE Keeps
  <2> DEFINE request == [kind |-> "create", trade |-> t]
  <2>1. request \in Requests /\ request.kind = "create"
    BY DEF Requests
  <2>2. /\ \E where \in {"rates", "before", "flush"} : Begin(p, request, where, NoTrade)
        /\ UNCHANGED database /\ pc[p] = "idle"
    BY <1>2 DEF StartCreate
  <2> HIDE DEF request
  <2> QED BY <2>1, <2>2, BeginKnown
<1>3. ASSUME NEW p \in Procs, NEW id \in Ids, NEW e \in Edits, StartEdit(p, id, e) PROVE Keeps
  <2> DEFINE request == [kind |-> "edit", id |-> id, edit |-> e]
             t == Row(trades, id)
  <2>1. request \in Requests /\ request.id = id
    BY DEF Requests
  <2>2. t \in trades /\ t.id = id
    BY <1>3, RowOf DEF StartEdit
  <2>3. /\ \E where \in {"rates", "before", "flush"} : Begin(p, request, where, t)
        /\ UNCHANGED database /\ pc[p] = "idle" /\ Apart(request)
    BY <1>3 DEF StartEdit
  <2> HIDE DEF request, t
  <2> QED BY <2>1, <2>2, <2>3, BeginKnown
<1>4. ASSUME NEW p \in Procs, NEW id \in Ids, StartDelete(p, id) PROVE Keeps
  <2> DEFINE request == [kind |-> "delete", id |-> id]
             t == Row(trades, id)
  <2>1. request \in Requests /\ request.id = id
    BY DEF Requests
  <2>2. t \in trades /\ t.id = id
    BY <1>4, RowOf DEF StartDelete
  <2>3. /\ \E where \in {"rates", "before", "flush"} : Begin(p, request, where, t)
        /\ UNCHANGED database /\ pc[p] = "idle" /\ Apart(request)
    BY <1>4 DEF StartDelete
  <2> HIDE DEF request, t
  <2> QED BY <2>1, <2>2, <2>3, BeginKnown
<1>5. ASSUME NEW p \in Procs, Reload(p) PROVE Keeps
  <2>1. CASE Exists(trades, req[p].id)
    BY <1>5, <2>1, ReloadKnown
  <2>2. CASE ~Exists(trades, req[p].id)
    BY <1>1, <1>5, <2>2 DEF Reload
  <2> QED BY <2>1, <2>2
<1>6. ASSUME NEW p \in Procs, ReadBefore(p) PROVE Keeps
  BY <1>6, ReadBeforeKnown
<1>7. ASSUME NEW p \in Procs, FlushCreate(p) \/ FlushDelete(p) \/ FlushEdit(p) PROVE Keeps
  BY <1>7, FlushKnown
<1>8. ASSUME NEW p \in Procs, RollbackOversold(p) \/ RollbackAccount(p) PROVE Keeps
  <2>1. writer = p /\ writer' = NoProc /\ End(p) /\ UNCHANGED trades
    BY <1>0, <1>8 DEF RollbackOversold, RollbackAccount, Release, TypeOK, FitsPlace
  <2> QED BY <2>1, EndKnown
<1>9. ASSUME NEW p \in Procs, Commit(p) PROVE Keeps
  <2>1. /\ pc'[p] = "idle" /\ writer' # p
        /\ \A q \in Procs \ {p} : pc'[q] = pc[q] /\ req'[q] = req[q]
    BY <1>0, <1>9, ProcsAssumption DEF Commit, End, Release, TypeOK
  <2>2. KeptApart'
    BY <2>1, NoneStarts DEF LInv
  <2>3. Known(p)'
    BY <2>1, IdleKnown
  <2> QED BY <1>9, <2>2, <2>3, CommitKnown
<1>10. ASSUME Crash PROVE Keeps
  <2>1. \A q \in Procs : pc'[q] = "idle" /\ writer' # q
    BY <1>10, ProcsAssumption DEF Crash, Release
  <2>2. KeptApart'
    BY <2>1, NoneStarts DEF LInv
  <2> QED BY <2>1, <2>2, IdleKnown
<1>11. ASSUME UNCHANGED vars PROVE Keeps
  BY <1>11 DEF vars, LInv, KeptApart, Known, EditSees, DeleteSees, DraftKnown, DraftCreates,
               DraftDeletes, DraftEdits, FreshId, New, Edited, Busy, WorksOn, MovesSymbol
<1>12. ASSUME NEW p \in Procs,
              \/ \E t \in Templates : RefuseCreate(p, t)
              \/ \E id \in Ids : NotFound(p, id)
              \/ \E id \in Ids, e \in Edits : RefuseEdit(p, id, e)
              \/ StaleEdit(p) \/ Fail(p)
       PROVE  Keeps
  BY <1>1, <1>12 DEF RefuseCreate, NotFound, RefuseEdit, StaleEdit, Fail
<1> HIDE DEF Keeps
<1>13. ASSUME NEW p \in Procs, Start(p) PROVE Keeps
  BY <1>2, <1>3, <1>4, <1>12, <1>13 DEF Start
<1>14. ASSUME NEW p \in Procs, Flush(p) \/ Settle(p) PROVE Keeps
  BY <1>7, <1>8, <1>9, <1>12, <1>14 DEF Flush, Settle
<1> QED BY <1>5, <1>6, <1>10, <1>11, <1>12, <1>13, <1>14 DEF Next

(* Requests that keep the edits of a trade apart, and otherwise interleave *)
(* as they like, never commit a history that sells more of a symbol than   *)
(* was owned (the 409 of the trade routes, rebuild_symbol_ledger).         *)
THEOREM LedgerNeverOversold ==
  ASSUME EditsOverlap = FALSE
  PROVE  Spec => []NeverOversold
<1>1. LInv => NeverOversold
  BY DEF LInv
<1> QED BY <1>1, InitLInv, NextLInv, PTL DEF Spec

-----------------------------------------------------------------------------
(* The trades are a valid ledger that changes one trade at a time: every   *)
(* commit logs, amends or discards one trade, or changes nothing.          *)
LEMMA CommitRefines ==
  ASSUME LInv, NEW p \in Procs, Commit(p)
  PROVE  Promised!Next \/ UNCHANGED trades
<1>1. TypeOK /\ writer = p /\ DraftKnown(p) /\ pc[p] # "idle" /\ trades' = draft
  BY DEF LInv, Known, Commit, TypeOK, FitsPlace
<1>2. NeverOversells(trades')
  BY <1>1, CommitValid
<1>3. CASE Busy(p, "create")
  <2>1. PICK id \in Ids : FreshId(id) /\ draft = trades \cup {New(p, id)}
    BY <1>1, <1>3 DEF DraftKnown, DraftCreates
  <2>2. New(p, id).id = id
    BY <1>1, <1>3, NewType
  <2>3. Promised!Log
    BY <1>1, <2>1, <2>2 DEF Promised!Log, FreshId
  <2> QED BY <1>2, <2>3 DEF Promised!Next
<1>4. CASE Busy(p, "delete")
  <2>1. draft = {t \in trades : t.id # req[p].id} /\ UniqueIds(trades)
    BY <1>1, <1>4 DEF DraftKnown, DraftDeletes, TypeOK
  <2>2. CASE \E t \in trades : t.id = req[p].id
    <3>1. PICK t \in trades : t.id = req[p].id
      BY <2>2
    <3>2. trades' = trades \ {t}
      BY <1>1, <2>1, <3>1 DEF UniqueIds
    <3>3. Promised!Discard
      BY <3>1, <3>2 DEF Promised!Discard
    <3> QED BY <1>2, <3>3 DEF Promised!Next
  <2>3. CASE ~\E t \in trades : t.id = req[p].id
    BY <1>1, <2>1, <2>3
  <2> QED BY <2>2, <2>3
<1>5. CASE Busy(p, "edit")
  <2>1. seen[p] \in trades /\ draft = (trades \ {seen[p]}) \cup {Edited(p)}
    BY <1>1, <1>5 DEF DraftKnown, DraftEdits
  <2>2. Edited(p).id = seen[p].id
    BY <1>1, <1>5, EditedType
  <2>3. Promised!Amend
    BY <1>1, <2>1, <2>2 DEF Promised!Amend
  <2> QED BY <1>2, <2>3 DEF Promised!Next
<1> QED BY <1>1, <1>3, <1>4, <1>5, BusyKinds

(* The trade routes implement ValidLedger, as long as requests keep the    *)
(* edits of a trade apart.                                                 *)
THEOREM LedgerRefinement ==
  ASSUME EditsOverlap = FALSE
  PROVE  Spec => ImplementsValidLedger
<1>1. Init => Promised!Init
  BY DEF Init, Promised!Init
<1>2. LInv /\ [Next]_vars => [Promised!Next]_trades
  BY OnlyCommits, CommitRefines
<1> QED BY <1>1, <1>2, InitLInv, NextLInv, PTL DEF Spec, ImplementsValidLedger, Promised!Spec

-----------------------------------------------------------------------------
(* The stored profits. A commit gives those of the symbols it checked,     *)
(* from the rows as its session has them loaded: the rows it has written.  *)
(* The rows of every other symbol, and so their profits, are as they were. *)
LEMMA CommitProfits ==
  ASSUME LInv, ProfitsFollowHistory, NEW p \in Procs, Commit(p)
  PROVE  ProfitsFollowHistory'
<1>1. TypeOK /\ trades' = draft /\ UniqueIds(draft)
  BY DEF LInv, Commit, TypeOK
<1>2. profit' = Committed(p) /\ missed' = Missed(p)
  BY DEF Commit
<1>3. DOMAIN Rebuilt(p) = {t.id : t \in {u \in draft : u.symbol \in Affected(p)}}
  BY DEF Rebuilt, ProfitsOf
<1> SUFFICES ASSUME NEW t \in draft
             PROVE  t.id \notin missed' <=> profit'[t.id] = Replay(History(OfSymbol(draft, t.symbol))).profit[t.id]
  BY <1>1 DEF ProfitsFollowHistory
<1>4. profit'[t.id] = IF t.id \in DOMAIN Rebuilt(p) /\ ~LeavesProfit(p, t.id) THEN Rebuilt(p)[t.id]
                      ELSE profit[t.id]
  BY <1>2 DEF Committed
<1>5. CASE t.symbol \in Affected(p)
  <2>1. t.id \in DOMAIN Rebuilt(p)
    BY <1>3, <1>5
  <2>2. t.id \in missed' <=> LeavesProfit(p, t.id) /\ profit[t.id] # had[p]
    BY <1>2, <2>1 DEF Missed
  <2>3. Row(draft, t.id) = t
    <3>1. Exists(draft, t.id)
      BY DEF Exists
    <3> QED BY <1>1, <3>1, RowOf DEF UniqueIds
  <2>4. Rebuilt(p)[t.id] = Replay(Loaded(OfSymbol(draft, t.symbol), Object(p))).profit[t.id]
    <3>1. ~Replay(Loaded(OfSymbol(draft, t.symbol), Object(p))).oversold
      BY <1>5 DEF Commit, OversoldDraft, OversoldIn
    <3> QED BY <2>1, <1>3, <2>3, <3>1 DEF Rebuilt, ProfitsOf
  <2>5. Loaded(OfSymbol(draft, t.symbol), Object(p)) = History(OfSymbol(draft, t.symbol))
    BY ObjectIsWritten, LoadedIsWritten DEF Commit
  <2>6. LeavesProfit(p, t.id) => Rebuilt(p)[t.id] = had[p]
    BY DEF LeavesProfit
  <2> QED BY <1>4, <2>1, <2>2, <2>4, <2>5, <2>6
<1>6. CASE t.symbol \notin Affected(p)
  <2>1. OfSymbol(draft, t.symbol) = OfSymbol(trades, t.symbol)
    BY <1>6, OthersUnwritten
  <2>2. t \in trades
    BY <2>1 DEF OfSymbol
  <2>3. t.id \notin DOMAIN Rebuilt(p)
    BY <1>1, <1>3, <1>6 DEF UniqueIds
  <2>4. t.id \in missed' <=> t.id \in missed
    BY <1>2, <2>3 DEF Missed
  <2> QED BY <1>4, <2>1, <2>2, <2>3, <2>4 DEF ProfitsFollowHistory
<1> QED BY <1>5, <1>6

(* The profit stored with every trade is what the committed history of its *)
(* symbol gives, whatever was logged, edited, moved to another symbol or   *)
(* deleted meanwhile, as long as requests keep the edits of a trade apart: *)
(* but for a trade whose own edit gave it the profit it had loaded after   *)
(* another request had committed a different one, until the next replay    *)
(* (update_transaction_with_id, rebuild_symbol_ledger).                    *)
THEOREM StoredProfitsFollowHistory ==
  ASSUME EditsOverlap = FALSE
  PROVE  Spec => []ProfitsFollowHistory
<1>1. Init => ProfitsFollowHistory
  <2> SUFFICES ASSUME Init, NEW t \in trades
               PROVE  profit[t.id] = Replay(History(OfSymbol(trades, t.symbol))).profit[t.id]
    BY DEF ProfitsFollowHistory, Init
  <2>1. Row(trades, t.id) = t
    <3>1. Exists(trades, t.id) /\ UniqueIds(trades)
      BY HistoriesAssumption DEF Exists, Init
    <3> QED BY <3>1, RowOf DEF UniqueIds
  <2> QED BY <2>1 DEF Init
<1>2. LInv /\ ProfitsFollowHistory /\ [Next]_vars => ProfitsFollowHistory'
  <2> SUFFICES ASSUME LInv, ProfitsFollowHistory, [Next]_vars PROVE ProfitsFollowHistory'
    OBVIOUS
  <2>1. CASE UNCHANGED <<trades, profit, missed>>
    BY <2>1 DEF ProfitsFollowHistory
  <2>2. UNCHANGED <<trades, profit, missed>> \/ \E p \in Procs : Commit(p)
    BY OnlyCommits
  <2> QED BY <2>1, <2>2, CommitProfits
<1> QED BY <1>1, <1>2, InitLInv, NextLInv, PTL DEF Spec

-----------------------------------------------------------------------------
(* Why the limit of trades is passed by so little: whoever is logging a    *)
(* trade started while there were fewer than MaxTransactions.              *)
Creating == {p \in Procs : Busy(p, "create")}

DraftSize ==
  \A p \in Procs : writer = p =>
    Cardinality(draft) <= Cardinality(trades) + (IF Busy(p, "create") THEN 1 ELSE 0)

Finite == IsFiniteSet(trades) /\ IsFiniteSet(draft)

Room == Cardinality(trades) + Cardinality(Creating) <= MaxTransactions - 1 + Cardinality(Procs)

BInv == TypeOK /\ Finite /\ DraftSize /\ Room

LEMMA CreatingFinite ==
  /\ IsFiniteSet(Creating) /\ Cardinality(Creating) \in Nat /\ Cardinality(Creating) <= Cardinality(Procs)
  /\ Cardinality(Procs) \in Nat \ {0}
BY ProcsFinite, FS_Subset, FS_CardinalityType, FS_EmptySet DEF Creating

LEMMA CreatingFiniteNext ==
  IsFiniteSet(Creating') /\ Cardinality(Creating') \in Nat /\ Cardinality(Creating') <= Cardinality(Procs)
<1>1. Creating' \subseteq Procs
  BY DEF Creating
<1> QED BY <1>1, ProcsFinite, FS_Subset, FS_CardinalityType

LEMMA InitBInv == Init => BInv
<1> SUFFICES ASSUME Init PROVE BInv
  OBVIOUS
<1>1. IsFiniteSet(trades) /\ Cardinality(trades) <= MaxTransactions
  BY HistoriesAssumption DEF Init
<1>2. Creating = {} /\ draft = {} /\ DraftSize
  BY ProcsAssumption DEF Init, Creating, Busy, DraftSize
<1> QED BY <1>1, <1>2, InitTypeOK, CreatingFinite, FS_EmptySet, FS_CardinalityType, LimitsAssumption
        DEF BInv, Finite, Room

(* No request starts logging a trade, and no more rows are committed.      *)
LEMMA NoneCreates ==
  ASSUME BInv, IsFiniteSet(trades'), Cardinality(trades') <= Cardinality(trades), Creating' \subseteq Creating
  PROVE  Room'
<1>1. Cardinality(Creating') <= Cardinality(Creating)
  BY CreatingFinite, FS_Subset
<1>2. Cardinality(trades) \in Nat /\ Cardinality(trades') \in Nat
  BY FS_CardinalityType DEF BInv, Finite
<1> QED BY <1>1, <1>2, CreatingFinite, CreatingFiniteNext, LimitsAssumption DEF BInv, Room

(* The write lock and what is written under it are as they were.           *)
LEMMA SameDraft ==
  ASSUME BInv, UNCHANGED <<trades, draft>>,
         \A p \in Procs : writer' = p => writer = p /\ Busy(p, "create")' = Busy(p, "create")
  PROVE  Finite' /\ DraftSize'
BY DEF BInv, Finite, DraftSize

LEMMA FlushSize ==
  ASSUME BInv, NEW p \in Procs, FlushCreate(p) \/ FlushDelete(p) \/ FlushEdit(p)
  PROVE  Finite' /\ DraftSize' /\ Room'
<1>0. TypeOK /\ IsFiniteSet(trades) /\ Cardinality(trades) \in Nat
  BY FS_CardinalityType DEF BInv, Finite
<1>1. /\ UNCHANGED <<trades, req>> /\ pc[p] = "flush" /\ pc' = [pc EXCEPT ![p] = "settle"] /\ writer' = p
  BY DEF FlushCreate, FlushDelete, FlushEdit, Write
<1>2. Creating' = Creating /\ (Busy(p, "create")' <=> Busy(p, "create"))
  BY <1>0, <1>1 DEF Creating, Busy, TypeOK
<1>3. /\ IsFiniteSet(draft')
      /\ Cardinality(draft') <= Cardinality(trades) + (IF Busy(p, "create") THEN 1 ELSE 0)
  <2>1. CASE FlushCreate(p)
    <3>1. PICK id : draft' = trades \cup {New(p, id)}
      BY <2>1 DEF FlushCreate, Write, New
    <3>2. Busy(p, "create")
      BY <2>1 DEF FlushCreate, Busy
    <3> DEFINE new == New(p, id)
    <3>3. /\ IsFiniteSet(trades \cup {new})
          /\ Cardinality(trades \cup {new}) = IF new \in trades THEN Cardinality(trades) ELSE Cardinality(trades) + 1
      BY <1>0, FS_AddElement
    <3> HIDE DEF new
    <3>4. Cardinality(trades \cup {new}) <= Cardinality(trades) + 1
      BY <1>0, <3>3
    <3> QED BY <3>1, <3>2, <3>3, <3>4 DEF new
  <2>2. CASE FlushDelete(p)
    <3>1. draft' \subseteq trades
      BY <2>2 DEF FlushDelete, Write
    <3>2. IsFiniteSet(draft') /\ Cardinality(draft') <= Cardinality(trades) /\ Cardinality(draft') \in Nat
      BY <1>0, <3>1, FS_Subset, FS_CardinalityType
    <3> QED BY <1>0, <3>2
  <2>3. CASE FlushEdit(p)
    <3> DEFINE t == Row(trades, req[p].id)
               u == Overwritten(t, req[p].edit, Changed(req[p].edit, seen[p]))
    <3>1. t \in trades /\ draft' = (trades \ {t}) \cup {u}
      BY <2>3, RowOf DEF FlushEdit, Write
    <3> HIDE DEF t, u
    <3>2. IsFiniteSet(trades \ {t}) /\ Cardinality(trades \ {t}) = Cardinality(trades) - 1
      BY <1>0, <3>1, FS_RemoveElement
    <3>3. /\ IsFiniteSet((trades \ {t}) \cup {u})
          /\ Cardinality((trades \ {t}) \cup {u}) <= Cardinality(trades \ {t}) + 1
      <4>1. Cardinality((trades \ {t}) \cup {u})
              = IF u \in trades \ {t} THEN Cardinality(trades \ {t}) ELSE Cardinality(trades \ {t}) + 1
        BY <3>2, FS_AddElement
      <4> QED BY <1>0, <3>2, <4>1, FS_AddElement
    <3>4. Cardinality((trades \ {t}) \cup {u}) \in Nat
      BY <3>3, FS_CardinalityType
    <3>5. Cardinality((trades \ {t}) \cup {u}) <= Cardinality(trades)
      BY <1>0, <3>2, <3>3, <3>4
    <3>6. IsFiniteSet(draft') /\ Cardinality(draft') <= Cardinality(trades) /\ Cardinality(draft') \in Nat
      BY <3>1, <3>3, <3>4, <3>5
    <3> QED BY <1>0, <3>6
  <2> QED BY <2>1, <2>2, <2>3
<1>4. Finite' /\ DraftSize'
  BY <1>0, <1>1, <1>2, <1>3 DEF Finite, DraftSize
<1>5. Room'
  BY <1>0, <1>1, <1>2, NoneCreates
<1> QED BY <1>4, <1>5

(* A commit takes one request out of Creating for the trade it adds.       *)
LEMMA CommitSize ==
  ASSUME BInv, NEW p \in Procs, Commit(p)
  PROVE  Finite' /\ DraftSize' /\ Room'
<1>1. /\ TypeOK /\ writer = p /\ trades' = draft /\ draft' = {} /\ writer' = NoProc
      /\ IsFiniteSet(trades) /\ IsFiniteSet(draft) /\ pc[p] = "settle"
  BY DEF BInv, Finite, Commit, Release, TypeOK, FitsPlace
<1>2. Creating' = Creating \ {p}
  BY <1>1 DEF Creating, Busy, Commit, End, TypeOK
<1>3. Finite' /\ DraftSize'
  BY <1>1, FS_EmptySet, ProcsAssumption DEF Finite, DraftSize
<1>4. Cardinality(trades) \in Nat /\ Cardinality(draft) \in Nat
  BY <1>1, FS_CardinalityType
<1>5. CASE Busy(p, "create")
  <2>1. Cardinality(Creating') = Cardinality(Creating) - 1
    BY <1>2, <1>5, CreatingFinite, FS_RemoveElement DEF Creating
  <2>2. Cardinality(draft) <= Cardinality(trades) + 1
    BY <1>1, <1>5 DEF BInv, DraftSize
  <2>3. Cardinality(trades') + Cardinality(Creating') <= Cardinality(trades) + Cardinality(Creating)
    BY <1>1, <1>4, <2>1, <2>2, CreatingFinite
  <2> QED BY <1>1, <1>3, <1>4, <2>3, CreatingFinite, CreatingFiniteNext, LimitsAssumption DEF BInv, Room
<1>6. CASE ~Busy(p, "create")
  <2>1. Cardinality(draft) <= Cardinality(trades)
    BY <1>1, <1>4, <1>6 DEF BInv, DraftSize
  <2>2. IsFiniteSet(trades') /\ Cardinality(trades') <= Cardinality(trades) /\ Creating' \subseteq Creating
    BY <1>1, <1>2, <2>1
  <2> QED BY <1>3, <2>2, NoneCreates
<1> QED BY <1>3, <1>5, <1>6

LEMMA NextBInv == BInv /\ [Next]_vars => BInv'
<1> SUFFICES ASSUME BInv, [Next]_vars PROVE BInv'
  OBVIOUS
<1>0. TypeOK /\ TypeOK' /\ IsFiniteSet(trades) /\ Cardinality(trades) \in Nat
  BY NextTypeOK, FS_CardinalityType DEF BInv, Finite
<1> SUFFICES Finite' /\ DraftSize' /\ Room'
  BY <1>0 DEF BInv
<1>1. ASSUME NEW p \in Procs, NEW t \in Templates, StartCreate(p, t) PROVE Finite' /\ DraftSize' /\ Room'
  <2>1. /\ UNCHANGED <<trades, draft, writer>> /\ writer # p
        /\ \A q \in Procs \ {p} : pc'[q] = pc[q] /\ req'[q] = req[q]
    BY <1>0, <1>1 DEF StartCreate, Begin, database, TypeOK, FitsPlace
  <2>2. Finite' /\ DraftSize'
    BY <2>1, SameDraft DEF Busy
  <2>3. Cardinality(trades) <= MaxTransactions - 1
    BY <1>0, <1>1, LimitsAssumption DEF StartCreate, LimitReached
  <2> QED BY <1>0, <2>1, <2>2, <2>3, CreatingFinite, CreatingFiniteNext, LimitsAssumption DEF Room
<1>2. ASSUME UNCHANGED <<trades, draft>>,
             \A q \in Procs : writer' = q => writer = q,
             \A q \in Procs : \/ pc'[q] = "idle" /\ writer' # q
                              \/ (pc'[q] = "idle" <=> pc[q] = "idle") /\ req'[q] = req[q]
                              \/ writer' # q /\ req'[q].kind # "create"
      PROVE  Finite' /\ DraftSize' /\ Room'
  <2>1. Creating' \subseteq Creating
    BY <1>2 DEF Creating, Busy
  <2>2. Finite' /\ DraftSize'
    BY <1>2, SameDraft DEF Busy
  <2> QED BY <1>0, <1>2, <2>1, <2>2, NoneCreates
<1>3. ASSUME NEW p \in Procs,
             \/ \E id \in Ids, e \in Edits : StartEdit(p, id, e)
             \/ \E id \in Ids : StartDelete(p, id)
      PROVE  Finite' /\ DraftSize' /\ Room'
  <2>1. /\ UNCHANGED <<trades, draft, writer>> /\ writer # p /\ req'[p].kind # "create"
        /\ \A q \in Procs \ {p} : pc'[q] = pc[q] /\ req'[q] = req[q]
    <3>1. CASE \E id \in Ids, e \in Edits : StartEdit(p, id, e)
      <4>1. \E id \in Ids, e \in Edits, where \in {"rates", "before"} :
              Begin(p, [kind |-> "edit", id |-> id, edit |-> e], where, Row(trades, id))
        BY <3>1 DEF StartEdit
      <4>2. req'[p].kind = "edit"
        BY <1>0, <4>1 DEF Begin, TypeOK
      <4> QED BY <1>0, <3>1, <4>1, <4>2 DEF StartEdit, Begin, database, TypeOK, FitsPlace
    <3>2. CASE \E id \in Ids : StartDelete(p, id)
      <4>1. \E id \in Ids, where \in {"flush", "before"} :
              Begin(p, [kind |-> "delete", id |-> id], where, Row(trades, id))
        BY <3>2 DEF StartDelete
      <4>2. req'[p].kind = "delete"
        BY <1>0, <4>1 DEF Begin, TypeOK
      <4> QED BY <1>0, <3>2, <4>1, <4>2 DEF StartDelete, Begin, database, TypeOK, FitsPlace
    <3> QED BY <1>3, <3>1, <3>2
  <2> QED BY <1>2, <2>1
<1>4. ASSUME NEW p \in Procs, End(p), UNCHANGED database, pc[p] # "settle" PROVE Finite' /\ DraftSize' /\ Room'
  <2>1. /\ UNCHANGED <<trades, draft, writer>> /\ writer # p /\ pc'[p] = "idle"
        /\ \A q \in Procs \ {p} : pc'[q] = pc[q] /\ req'[q] = req[q]
    BY <1>0, <1>4 DEF End, database, TypeOK, FitsPlace
  <2> QED BY <1>2, <2>1
<1>5. ASSUME NEW p \in Procs, Reload(p) \/ ReadBefore(p) PROVE Finite' /\ DraftSize' /\ Room'
  <2>1. CASE End(p) /\ UNCHANGED database
    BY <1>4, <1>5, <2>1 DEF Reload, ReadBefore
  <2>2. CASE ~(End(p) /\ UNCHANGED database)
    <3>1. /\ UNCHANGED <<trades, draft, writer, req>> /\ pc[p] # "idle" /\ pc'[p] # "idle"
          /\ \A q \in Procs \ {p} : pc'[q] = pc[q]
      BY <1>0, <1>5, <2>2 DEF Reload, ReadBefore, database, TypeOK
    <3> QED BY <1>2, <3>1
  <2> QED BY <2>1, <2>2
<1>6. ASSUME UNCHANGED trades, draft' = {}, writer' = NoProc,
             \A q \in Procs : pc'[q] = "idle" \/ (pc'[q] = pc[q] /\ req'[q] = req[q])
      PROVE  Finite' /\ DraftSize' /\ Room'
  <2>1. Creating' \subseteq Creating
    BY <1>6 DEF Creating, Busy
  <2>2. Finite' /\ DraftSize'
    BY <1>0, <1>6, FS_EmptySet, ProcsAssumption DEF Finite, DraftSize
  <2> QED BY <1>0, <1>6, <2>1, <2>2, NoneCreates
<1>7. ASSUME NEW p \in Procs, RollbackOversold(p) \/ RollbackAccount(p) PROVE Finite' /\ DraftSize' /\ Room'
  BY <1>0, <1>6, <1>7 DEF RollbackOversold, RollbackAccount, Release, End, TypeOK
<1>8. ASSUME Crash PROVE Finite' /\ DraftSize' /\ Room'
  BY <1>6, <1>8 DEF Crash, Release
<1>9. ASSUME UNCHANGED vars PROVE Finite' /\ DraftSize' /\ Room'
  BY <1>2, <1>9 DEF vars
<1>10. ASSUME NEW p \in Procs, Start(p) \/ Flush(p) \/ Settle(p) \/ Fail(p) PROVE Finite' /\ DraftSize' /\ Room'
  <2>1. CASE \/ \E t \in Templates : RefuseCreate(p, t)
             \/ \E id \in Ids : NotFound(p, id)
             \/ \E id \in Ids, e \in Edits : RefuseEdit(p, id, e)
             \/ StaleEdit(p) \/ Fail(p)
    BY <1>4, <2>1 DEF RefuseCreate, NotFound, RefuseEdit, StaleEdit, Fail
  <2>2. CASE FlushCreate(p) \/ FlushDelete(p) \/ FlushEdit(p)
    BY <2>2, FlushSize
  <2>3. CASE Settle(p)
    BY <1>7, <2>3, CommitSize DEF Settle
  <2> QED BY <1>1, <1>3, <1>10, <2>1, <2>2, <2>3 DEF Start, Flush
<1> QED BY <1>5, <1>8, <1>9, <1>10 DEF Next

(* Requests running together pass the limit of trades by one each at most, *)
(* and one of them not at all (MAX_TRANSACTIONS_PER_USER), overlapping     *)
(* edits or not.                                                           *)
THEOREM TradesLimit == Spec => []TradesBounded
<1>1. BInv => TradesBounded
  BY CreatingFinite, FS_CardinalityType, LimitsAssumption DEF BInv, Finite, Room, TradesBounded
<1> QED BY <1>1, InitBInv, NextBInv, PTL DEF Spec

-----------------------------------------------------------------------------
(* Why the limit of assets is passed by so little: the assets traded,      *)
(* together with those running requests are to trade, only grow when a     *)
(* request starts, and then at most MaxSymbols were traded.                *)
Movers == {p \in Procs : Busy(p, "create") \/ (Busy(p, "edit") /\ "api" \in req[p].edit.fields)}

Goal(p) == IF req[p].kind = "create" THEN req[p].trade.api ELSE req[p].edit.to.api

Goals == {Goal(p) : p \in Movers}

Held == Assets(trades) \cup Goals

DraftAssets ==
  \A p \in Procs : writer = p =>
    Assets(draft) \subseteq Assets(trades) \cup (IF p \in Movers THEN {Goal(p)} ELSE {})

Within == Cardinality(Held) <= MaxSymbols + Cardinality(Procs)

AInv == BInv /\ DraftAssets /\ Within

LEMMA AssetsFinite ==
  ASSUME NEW T, IsFiniteSet(T)
  PROVE  IsFiniteSet(Assets(T)) /\ Cardinality(Assets(T)) \in Nat
<1> DEFINE f == [t \in T |-> t.api]
<1>1. f \in Surjection(T, Assets(T))
  BY DEF Surjection, Assets
<1> QED BY <1>1, FS_Surjection, FS_CardinalityType

LEMMA GoalsFinite ==
  IsFiniteSet(Goals) /\ Cardinality(Goals) \in Nat /\ Cardinality(Goals) <= Cardinality(Procs)
<1> DEFINE f == [p \in Movers |-> Goal(p)]
<1>1. IsFiniteSet(Movers) /\ Cardinality(Movers) <= Cardinality(Procs)
  BY ProcsFinite, FS_Subset DEF Movers
<1>2. f \in Surjection(Movers, Goals)
  BY DEF Surjection, Goals
<1>3. IsFiniteSet(Goals) /\ Cardinality(Goals) <= Cardinality(Movers)
  BY <1>1, <1>2, FS_Surjection
<1> QED BY <1>1, <1>3, ProcsFinite, FS_CardinalityType

LEMMA GoalsFiniteNext ==
  IsFiniteSet(Goals') /\ Cardinality(Goals') \in Nat /\ Cardinality(Goals') <= Cardinality(Procs)
<1> DEFINE f == [p \in Movers' |-> Goal(p)']
<1>1. IsFiniteSet(Movers') /\ Cardinality(Movers') <= Cardinality(Procs)
  BY ProcsFinite, FS_Subset DEF Movers
<1>2. f \in Surjection(Movers', Goals')
  BY DEF Surjection, Goals
<1>3. IsFiniteSet(Goals') /\ Cardinality(Goals') <= Cardinality(Movers')
  BY <1>1, <1>2, FS_Surjection
<1> QED BY <1>1, <1>3, ProcsFinite, FS_CardinalityType

LEMMA InitAInv == Init => AInv
<1> SUFFICES ASSUME Init PROVE AInv
  OBVIOUS
<1>1. IsFiniteSet(trades) /\ Cardinality(Assets(trades)) <= MaxSymbols
  BY HistoriesAssumption, AssetsAssumption DEF Init
<1>2. Movers = {} /\ DraftAssets
  BY ProcsAssumption DEF Init, Movers, Busy, DraftAssets
<1>3. Held = Assets(trades)
  BY <1>2 DEF Held, Goals
<1> QED BY <1>1, <1>2, <1>3, InitBInv, AssetsFinite, CreatingFinite, LimitsAssumption DEF AInv, Within

(* Nothing is traded, or to be traded, that was not before.                *)
LEMMA NoneWanted ==
  ASSUME AInv, Held' \subseteq Held
  PROVE  Within'
<1>1. IsFiniteSet(Held)
  BY GoalsFinite, AssetsFinite, FS_Union DEF Held, AInv, BInv, Finite
<1>2. IsFiniteSet(Held') /\ Cardinality(Held') <= Cardinality(Held)
  BY <1>1, FS_Subset
<1> QED BY <1>1, <1>2, FS_CardinalityType, CreatingFinite, LimitsAssumption DEF AInv, Within

(* A request starts while no more assets are traded than are allowed.      *)
LEMMA OneWanted ==
  ASSUME AInv, UNCHANGED trades, Cardinality(Assets(trades)) <= MaxSymbols
  PROVE  Within'
<1>1. IsFiniteSet(Assets(trades)) /\ Cardinality(Assets(trades)) \in Nat
  BY AssetsFinite DEF AInv, BInv, Finite
<1>2. Held' = Assets(trades) \cup Goals'
  BY DEF Held
<1>3. /\ Cardinality(Held') = Cardinality(Assets(trades)) + Cardinality(Goals') - Cardinality(Assets(trades) \cap Goals')
      /\ Cardinality(Assets(trades) \cap Goals') \in Nat
  BY <1>1, <1>2, GoalsFiniteNext, FS_Union, FS_Subset, FS_CardinalityType
<1> QED BY <1>1, <1>3, GoalsFiniteNext, CreatingFinite, LimitsAssumption DEF Within

(* The others' goals stay, and p adds at most one.                         *)
LEMMA StartHeld ==
  ASSUME NEW p \in Procs, UNCHANGED trades,
         \A q \in Procs \ {p} : pc'[q] = pc[q] /\ req'[q] = req[q],
         p \in Movers' => Goal(p)' \in Assets(trades)
  PROVE  Held' \subseteq Held
BY DEF Held, Goals, Movers, Goal, Busy

(* The rows a request writes are those that were there, and its goal.      *)
LEMMA FlushAssets ==
  ASSUME AInv, NEW p \in Procs, FlushCreate(p) \/ FlushDelete(p) \/ FlushEdit(p)
  PROVE  DraftAssets' /\ Within'
<1>0. TypeOK
  BY DEF AInv, BInv
<1>1. /\ UNCHANGED <<trades, req>> /\ pc[p] = "flush" /\ pc' = [pc EXCEPT ![p] = "settle"] /\ writer' = p
  BY DEF FlushCreate, FlushDelete, FlushEdit, Write
<1>2. Movers' = Movers /\ \A q \in Procs : Goal(q)' = Goal(q)
  BY <1>0, <1>1 DEF Movers, Busy, Goal, TypeOK
<1>3. Held' = Held
  BY <1>1, <1>2 DEF Held, Goals, Movers
<1>4. Assets(draft') \subseteq Assets(trades) \cup (IF p \in Movers THEN {Goal(p)} ELSE {})
  <2>1. CASE FlushCreate(p)
    <3>1. PICK id \in Ids : draft' = trades \cup {New(p, id)}
      BY <2>1 DEF FlushCreate, Write, New
    <3>2. p \in Movers /\ Goal(p) = req[p].trade.api /\ req[p].trade \in Trade
      BY <1>0, <1>1, <2>1, RequestKinds, TemplatesAssumption DEF FlushCreate, Movers, Busy, Goal, TypeOK, FitsPlace
    <3>3. New(p, id).api = req[p].trade.api
      BY <3>2 DEF New, Trade
    <3> QED BY <3>1, <3>2, <3>3 DEF Assets
  <2>2. CASE FlushDelete(p)
    <3>1. draft' \subseteq trades
      BY <2>2 DEF FlushDelete, Write
    <3> QED BY <3>1 DEF Assets
  <2>3. CASE FlushEdit(p)
    <3> DEFINE t == Row(trades, req[p].id)
               u == Overwritten(t, req[p].edit, Changed(req[p].edit, seen[p]))
    <3>1. t \in trades /\ draft' = (trades \ {t}) \cup {u}
      BY <2>3, RowOf DEF FlushEdit, Write
    <3>2. u.api = t.api \/ ("api" \in req[p].edit.fields /\ u.api = req[p].edit.to.api)
      BY DEF Overwritten, Changed
    <3>3. Busy(p, "edit") /\ Goal(p) = req[p].edit.to.api
      BY <1>1, <2>3 DEF FlushEdit, Busy, Goal
    <3>4. u.api \in Assets(trades) \cup (IF p \in Movers THEN {Goal(p)} ELSE {})
      BY <3>1, <3>2, <3>3 DEF Assets, Movers
    <3> HIDE DEF u
    <3> QED BY <3>1, <3>4 DEF Assets
  <2> QED BY <2>1, <2>2, <2>3
<1>5. DraftAssets'
  BY <1>1, <1>2, <1>4, ProcsAssumption DEF DraftAssets
<1>6. Within'
  BY <1>3, NoneWanted
<1> QED BY <1>5, <1>6

(* A commit makes the goal of a request one of the assets traded.          *)
LEMMA CommitAssets ==
  ASSUME AInv, NEW p \in Procs, Commit(p)
  PROVE  DraftAssets' /\ Within'
<1>1. /\ TypeOK /\ writer = p /\ trades' = draft /\ draft' = {} /\ writer' = NoProc /\ pc[p] = "settle"
  BY DEF AInv, BInv, Commit, Release, TypeOK, FitsPlace
<1>2. \A q \in Procs : pc'[q] = "idle" \/ (pc'[q] = pc[q] /\ req'[q] = req[q])
  BY <1>1 DEF Commit, End, TypeOK
<1>3. Goals' \subseteq Goals
  BY <1>2 DEF Goals, Movers, Goal, Busy
<1>4. Assets(draft) \subseteq Held
  BY <1>1 DEF AInv, DraftAssets, Held, Goals
<1>5. Held' \subseteq Held
  BY <1>1, <1>3, <1>4 DEF Held
<1>6. DraftAssets'
  BY <1>1, ProcsAssumption DEF DraftAssets
<1> QED BY <1>5, <1>6, NoneWanted

LEMMA SameDraftAssets ==
  ASSUME AInv, UNCHANGED <<trades, draft>>,
         \A p \in Procs : writer' = p => writer = p /\ pc'[p] # "idle" /\ pc[p] # "idle" /\ req'[p] = req[p]
  PROVE  DraftAssets'
<1> SUFFICES ASSUME NEW p \in Procs, writer' = p
             PROVE  Assets(draft) \subseteq Assets(trades) \cup (IF p \in Movers' THEN {Goal(p)'} ELSE {})
  BY DEF DraftAssets
<1>1. writer = p /\ (p \in Movers' <=> p \in Movers) /\ Goal(p)' = Goal(p)
  BY DEF Movers, Busy, Goal
<1> QED BY <1>1 DEF AInv, DraftAssets

LEMMA StartAssets ==
  ASSUME AInv, NEW p \in Procs,
         \/ \E t \in Templates : StartCreate(p, t)
         \/ \E id \in Ids, e \in Edits : StartEdit(p, id, e)
         \/ \E id \in Ids : StartDelete(p, id)
  PROVE  DraftAssets' /\ Within'
<1>0. TypeOK /\ IsFiniteSet(trades) /\ IsFiniteSet(Assets(trades)) /\ Cardinality(Assets(trades)) \in Nat
  BY AssetsFinite DEF AInv, BInv, Finite
<1>1. /\ UNCHANGED <<trades, draft, writer>> /\ writer # p
      /\ \A q \in Procs \ {p} : pc'[q] = pc[q] /\ req'[q] = req[q]
  BY <1>0 DEF StartCreate, StartEdit, StartDelete, Begin, database, TypeOK, FitsPlace
<1>2. \A q \in Procs : writer = q => pc[q] # "idle"
  BY <1>0 DEF TypeOK, FitsPlace
<1>3. DraftAssets'
  BY <1>1, <1>2, SameDraftAssets
<1>4. ASSUME NEW t \in Templates, StartCreate(p, t) PROVE Within'
  <2>1. Goal(p)' = t.api
    BY <1>0, <1>4 DEF StartCreate, Begin, TypeOK, Goal
  <2>2. CASE t.api \in Assets(trades)
    BY <1>1, <2>1, <2>2, StartHeld, NoneWanted
  <2>3. CASE t.api \notin Assets(trades)
    <3>1. Cardinality(Assets(trades)) <= MaxSymbols
      BY <1>0, <1>4, <2>3, LimitsAssumption DEF StartCreate, LimitReached, SymbolLimitReached, Assets
    <3> QED BY <1>1, <3>1, OneWanted
  <2> QED BY <2>2, <2>3
<1>5. ASSUME NEW id \in Ids, NEW e \in Edits, StartEdit(p, id, e) PROVE Within'
  <2> DEFINE t == Row(trades, id)
  <2>1. t \in trades /\ ~NeedsNewSymbol(e, t)
    BY <1>5, RowOf DEF StartEdit
  <2>2. req'[p] = [kind |-> "edit", id |-> id, edit |-> e]
    BY <1>0, <1>5 DEF StartEdit, Begin, TypeOK
  <2>3. Goal(p)' = e.to.api /\ (p \in Movers' => "api" \in e.fields)
    BY <2>2 DEF Goal, Movers, Busy
  <2> HIDE DEF t
  <2>4. CASE "api" \notin e.fields \/ e.to.api \in Assets(trades)
    BY <1>1, <2>3, <2>4, StartHeld, NoneWanted
  <2>5. CASE "api" \in e.fields /\ e.to.api \notin Assets(trades)
    <3>1. e.to.api # t.api /\ ~\E u \in trades \ {t} : u.api = e.to.api
      BY <2>1, <2>5 DEF Assets
    <3>2. ~(Cardinality(Assets(trades \ {t})) >= MaxSymbols)
      BY <2>1, <2>5, <3>1 DEF NeedsNewSymbol, SymbolLimitReached
    <3>3. IsFiniteSet(trades \ {t})
      BY <1>0, FS_Subset
    <3>4. IsFiniteSet(Assets(trades \ {t})) /\ Cardinality(Assets(trades \ {t})) \in Nat
      BY <3>3, AssetsFinite
    <3>5. Assets(trades) = Assets(trades \ {t}) \cup {t.api}
      BY <2>1 DEF Assets
    <3>6. Cardinality(Assets(trades)) <= Cardinality(Assets(trades \ {t})) + 1
      <4> DEFINE S == Assets(trades \ {t})
                 a == t.api
      <4>1. Cardinality(S \cup {a}) = IF a \in S THEN Cardinality(S) ELSE Cardinality(S) + 1
        BY <3>4, FS_AddElement
      <4> QED BY <3>4, <3>5, <4>1
    <3>7. Cardinality(Assets(trades)) <= MaxSymbols
      BY <1>0, <3>2, <3>4, <3>6, LimitsAssumption
    <3> QED BY <1>1, <3>7, OneWanted
  <2> QED BY <2>4, <2>5
<1>6. ASSUME NEW id \in Ids, StartDelete(p, id) PROVE Within'
  <2>1. req'[p].kind = "delete"
    <3>1. req'[p] = [kind |-> "delete", id |-> id]
      BY <1>0, <1>6 DEF StartDelete, Begin, TypeOK
    <3> QED BY <3>1
  <2>2. p \notin Movers'
    BY <2>1 DEF Movers, Busy
  <2> QED BY <1>1, <2>2, StartHeld, NoneWanted
<1> QED BY <1>3, <1>4, <1>5, <1>6

LEMMA NextAInv == AInv /\ [Next]_vars => AInv'
<1> SUFFICES ASSUME AInv, [Next]_vars PROVE AInv'
  OBVIOUS
<1>0. TypeOK /\ BInv'
  BY NextBInv DEF AInv, BInv
<1> SUFFICES DraftAssets' /\ Within'
  BY <1>0 DEF AInv
<1>1. ASSUME UNCHANGED trades,
             \/ draft' = {} /\ writer' = NoProc
             \/ UNCHANGED <<draft, writer>> /\ \A q \in Procs : writer = q => pc'[q] = pc[q],
             \A q \in Procs : \/ pc'[q] = "idle"
                              \/ (pc'[q] = "idle" <=> pc[q] = "idle") /\ req'[q] = req[q]
      PROVE  DraftAssets' /\ Within'
  <2>1. Held' \subseteq Held
    BY <1>1 DEF Held, Goals, Movers, Goal, Busy
  <2>2. \A q \in Procs : writer = q => pc[q] = "settle"
    BY <1>0 DEF TypeOK, FitsPlace
  <2>3. CASE UNCHANGED <<draft, writer>> /\ \A q \in Procs : writer = q => pc'[q] = pc[q]
    BY <1>1, <2>1, <2>2, <2>3, SameDraftAssets, NoneWanted
  <2>4. CASE draft' = {} /\ writer' = NoProc
    BY <2>1, <2>4, NoneWanted, ProcsAssumption DEF DraftAssets
  <2> QED BY <1>1, <2>3, <2>4
<1>2. ASSUME NEW p \in Procs, End(p), UNCHANGED database, pc[p] # "settle" PROVE DraftAssets' /\ Within'
  <2>1. /\ UNCHANGED <<trades, draft, writer>> /\ writer # p /\ pc'[p] = "idle"
        /\ \A q \in Procs \ {p} : pc'[q] = pc[q] /\ req'[q] = req[q]
    BY <1>0, <1>2 DEF End, database, TypeOK, FitsPlace
  <2> QED BY <1>1, <2>1
<1>3. ASSUME NEW p \in Procs, Reload(p) \/ ReadBefore(p) PROVE DraftAssets' /\ Within'
  <2>1. CASE End(p) /\ UNCHANGED database
    BY <1>2, <1>3, <2>1 DEF Reload, ReadBefore
  <2>2. CASE ~(End(p) /\ UNCHANGED database)
    <3>1. /\ UNCHANGED <<trades, draft, writer, req>> /\ pc[p] # "idle" /\ pc'[p] # "idle" /\ pc[p] # "settle"
          /\ \A q \in Procs \ {p} : pc'[q] = pc[q]
      BY <1>0, <1>3, <2>2 DEF Reload, ReadBefore, database, TypeOK
    <3>2. writer # p
      BY <1>0, <3>1 DEF TypeOK, FitsPlace
    <3> QED BY <1>1, <3>1, <3>2
  <2> QED BY <2>1, <2>2
<1>4. ASSUME NEW p \in Procs, RollbackOversold(p) \/ RollbackAccount(p) PROVE DraftAssets' /\ Within'
  <2>1. UNCHANGED trades /\ draft' = {} /\ writer' = NoProc /\ End(p)
    BY <1>4 DEF RollbackOversold, RollbackAccount, Release
  <2>2. \A q \in Procs : pc'[q] = "idle" \/ (pc'[q] = pc[q] /\ req'[q] = req[q])
    BY <1>0, <2>1 DEF End, TypeOK
  <2> QED BY <1>1, <2>1, <2>2
<1>5. ASSUME Crash PROVE DraftAssets' /\ Within'
  <2>1. UNCHANGED trades /\ draft' = {} /\ writer' = NoProc /\ \A q \in Procs : pc'[q] = "idle"
    BY <1>5 DEF Crash, Release
  <2> QED BY <1>1, <2>1
<1>6. ASSUME UNCHANGED vars PROVE DraftAssets' /\ Within'
  BY <1>1, <1>6 DEF vars
<1>7. ASSUME NEW p \in Procs, Start(p) \/ Flush(p) \/ Settle(p) \/ Fail(p) PROVE DraftAssets' /\ Within'
  <2>1. CASE \/ \E t \in Templates : RefuseCreate(p, t)
             \/ \E id \in Ids : NotFound(p, id)
             \/ \E id \in Ids, e \in Edits : RefuseEdit(p, id, e)
             \/ StaleEdit(p) \/ Fail(p)
    BY <1>2, <2>1 DEF RefuseCreate, NotFound, RefuseEdit, StaleEdit, Fail
  <2>2. CASE FlushCreate(p) \/ FlushDelete(p) \/ FlushEdit(p)
    BY <2>2, FlushAssets
  <2>3. CASE Settle(p)
    BY <1>4, <2>3, CommitAssets DEF Settle
  <2>4. CASE \/ \E t \in Templates : StartCreate(p, t)
             \/ \E id \in Ids, e \in Edits : StartEdit(p, id, e)
             \/ \E id \in Ids : StartDelete(p, id)
    BY <2>4, StartAssets
  <2> QED BY <1>7, <2>1, <2>2, <2>3, <2>4 DEF Start, Flush
<1> QED BY <1>3, <1>5, <1>6, <1>7 DEF Next

(* Requests running together pass the limit of assets by one each at most  *)
(* (MAX_SYMBOLS_PER_USER), overlapping edits or not.                       *)
THEOREM AssetsLimit == Spec => []AssetsBounded
<1>1. AInv => AssetsBounded
  <2> SUFFICES ASSUME AInv PROVE AssetsBounded
    OBVIOUS
  <2>1. IsFiniteSet(Held)
    BY GoalsFinite, AssetsFinite, FS_Union DEF Held, AInv, BInv, Finite
  <2>2. Cardinality(Assets(trades)) <= Cardinality(Held) /\ Cardinality(Held) \in Nat
    BY <2>1, FS_Subset, FS_CardinalityType DEF Held
  <2>3. Cardinality(Assets(trades)) \in Nat
    BY AssetsFinite DEF AInv, BInv, Finite
  <2> QED BY <2>2, <2>3, CreatingFinite, LimitsAssumption DEF AInv, Within, AssetsBounded
<1> QED BY <1>1, InitAInv, NextAInv, PTL DEF Spec

(* So no requests pass the limits by more than one each                    *)
(* (check_transaction_limit, check_symbol_limit).                          *)
THEOREM LimitsHold == Spec => []LimitsBounded
<1>1. TradesBounded /\ AssetsBounded => LimitsBounded
  BY DEF LimitsBounded
<1> QED BY <1>1, TradesLimit, AssetsLimit, PTL

-----------------------------------------------------------------------------
(* A new buy and the delete of a sell. The rows keep their order when one  *)
(* is added, and a replay that has one buy more or one sell less owns, at  *)
(* each of the other trades, at least as much.                             *)

(* A set of numbers that has 0 and, with each, the next, has them all.     *)
LEMMA Induction ==
  ASSUME NEW S, 0 \in S, \A n \in Nat : n \in S => n + 1 \in S
  PROVE  \A n \in Nat : n \in S
<1> SUFFICES ASSUME NEW m \in Nat, m \notin S PROVE FALSE
  OBVIOUS
<1> DEFINE Missing == {n \in Nat : n \notin S}
<1>1. m \in Missing /\ Missing \subseteq Nat /\ Missing # {}
  OBVIOUS
<1>2. PICK x \in Missing : \A y \in Missing : ~(<<y, x>> \in OpToRel(<, Nat))
  <2> HIDE DEF Missing
  <2> QED BY <1>1, NatLessThanWellFounded, WFMin
<1>3. \A y \in Missing : y < x => <<y, x>> \in OpToRel(<, Nat)
  BY <1>1 DEF OpToRel
<1>4. x \in Nat \ {0} /\ x \notin S
  OBVIOUS
<1>5. x - 1 \in Nat /\ x - 1 < x /\ (x - 1) + 1 = x
  BY <1>4
<1>6. x - 1 \in S
  BY <1>2, <1>3, <1>5
<1> QED BY <1>4, <1>5, <1>6

(* A replay goes on trade by trade from nothing.                           *)
LEMMA ReplayGoesOn ==
  ASSUME NEW h, Len(h) \in Nat
  PROVE  /\ Replays(h)[0] = EmptyReplay
         /\ \A n \in 1..Len(h) : Replays(h)[n] = ReplayTrade(Replays(h)[n - 1], h[n])
<1> DEFINE N == Len(h)
           next(g, a) == IF a = 0 THEN EmptyReplay ELSE ReplayTrade(g[a - 1], h[a])
           goes(g, n) == \A a \in 0..n : g[a] = next(g, a)
           S == {n \in Nat : n <= N => \E g : goes(g, n)}
<1>1. 0 \in S
  <2>1. goes([a \in 0..0 |-> EmptyReplay], 0)
    OBVIOUS
  <2> QED BY <2>1
<1>2. ASSUME NEW n \in Nat, n \in S PROVE n + 1 \in S
  <2> SUFFICES ASSUME n + 1 <= N PROVE \E g : goes(g, n + 1)
    OBVIOUS
  <2>1. PICK g : goes(g, n)
    BY <1>2
  <2> DEFINE u == [a \in 0..n + 1 |-> IF a = n + 1 THEN ReplayTrade(g[n], h[a]) ELSE g[a]]
  <2>2. ASSUME NEW a \in 0..n + 1 PROVE u[a] = next(u, a)
    <3>1. CASE a = n + 1
      <4>1. a # 0 /\ a - 1 = n /\ a - 1 \in 0..n + 1 /\ n # n + 1
        BY <3>1
      <4>2. u[a] = ReplayTrade(g[n], h[a]) /\ u[a - 1] = g[n]
        BY <3>1, <4>1
      <4> QED BY <4>1, <4>2
    <3>2. CASE a # n + 1
      <4>1. a \in 0..n /\ (a # 0 => a - 1 \in 0..n /\ a - 1 # n + 1)
        BY <3>2
      <4>2. u[a] = g[a] /\ (a # 0 => u[a - 1] = g[a - 1])
        BY <3>2, <4>1
      <4>3. g[a] = next(g, a)
        BY <2>1, <4>1
      <4> QED BY <4>2, <4>3
    <3> QED BY <3>1, <3>2
  <2>3. goes(u, n + 1)
    <3> HIDE DEF u, next
    <3> QED BY <2>2
  <2> HIDE DEF u, goes
  <2> QED BY <2>3
<1>3. N \in S
  <2>1. \A n \in Nat : n \in S
    <3> HIDE DEF S
    <3> QED BY <1>1, <1>2, Induction
  <2> QED BY <2>1
<1>4. PICK g : goes(g, N)
  BY <1>3
<1> DEFINE replays(u) == u = [a \in 0..N |-> IF a = 0 THEN EmptyReplay ELSE ReplayTrade(u[a - 1], h[a])]
<1>5. replays([a \in 0..N |-> g[a]])
  <2> DEFINE u == [a \in 0..N |-> g[a]]
  <2>1. ASSUME NEW a \in 0..N PROVE u[a] = next(u, a)
    <3>1. g[a] = next(g, a) /\ u[a] = g[a]
      BY <1>4
    <3>2. a # 0 => a - 1 \in 0..N /\ u[a - 1] = g[a - 1]
      OBVIOUS
    <3> QED BY <3>1, <3>2
  <2> QED BY <2>1
<1>6. Replays(h) = CHOOSE u : replays(u)
  BY DEF Replays
<1>7. replays(Replays(h))
  <2> HIDE DEF replays
  <2> QED BY <1>5, <1>6
<1> DEFINE u == Replays(h)
<1>8. u = [a \in 0..N |-> next(u, a)]
  BY <1>7
<1>9. \A a \in 0..N : u[a] = next(u, a)
  <2> HIDE DEF u, next
  <2> QED BY <1>8
<1>10. 0 \in 0..N /\ \A n \in 1..N : n \in 0..N /\ n # 0
  OBVIOUS
<1> HIDE DEF u
<1> QED BY <1>9, <1>10 DEF u

-----------------------------------------------------------------------------
(* Any two trades of a ledger are in order, one before the other.          *)
LEMMA OrderIsTotal ==
  ASSUME NEW T \in SUBSET Trade, UniqueIds(T)
  PROVE  /\ \A t, u \in T : t # u => EarlierTrade(t, u) \/ EarlierTrade(u, t)
         /\ \A t, u \in T : ~(EarlierTrade(t, u) /\ EarlierTrade(u, t))
         /\ \A t \in T : ~EarlierTrade(t, t)
         /\ \A t, u, v \in T : EarlierTrade(t, u) /\ EarlierTrade(u, v) => EarlierTrade(t, v)
<1>1. ASSUME NEW t \in T PROVE t.at \in Int /\ t.id \in Int /\ t.action \in {"BUY", "SELL"}
  <2>1. t \in Trade
    OBVIOUS
  <2>2. t.at \in Nat /\ t.id \in Ids /\ t.action \in {"BUY", "SELL"}
    BY <2>1 DEF Trade
  <2>3. t.id \in Nat
    BY <2>2, IdsAssumption
  <2> QED BY <2>2, <2>3
<1>2. ASSUME NEW t \in T, NEW u \in T, t # u PROVE EarlierTrade(t, u) \/ EarlierTrade(u, t)
  <2>1. t.id # u.id
    BY <1>2 DEF UniqueIds
  <2> QED BY <1>1, <2>1 DEF EarlierTrade
<1>3. \A t, u \in T : ~(EarlierTrade(t, u) /\ EarlierTrade(u, t))
  BY <1>1 DEF EarlierTrade
<1>4. \A t \in T : ~EarlierTrade(t, t)
  BY <1>1 DEF EarlierTrade
<1>5. \A t, u, v \in T : EarlierTrade(t, u) /\ EarlierTrade(u, v) => EarlierTrade(t, v)
  BY <1>1 DEF EarlierTrade
<1> QED BY <1>2, <1>3, <1>4, <1>5

(* Each trade has a place of its own.                                      *)
LEMMA PlacesDiffer ==
  ASSUME NEW T \in SUBSET Trade, UniqueIds(T), IsFiniteSet(T)
  PROVE  /\ Cardinality(T) \in Nat
         /\ \A t \in T : Place(T, t) \in 0..Cardinality(T) - 1
         /\ \A t, u \in T : EarlierTrade(t, u) <=> Place(T, t) < Place(T, u)
         /\ \A t, u \in T : Place(T, t) = Place(T, u) => t = u
<1> DEFINE n == Cardinality(T)
           earlier(t) == {u \in T : EarlierTrade(u, t)}
<1>1. n \in Nat
  BY FS_CardinalityType
<1>2. ASSUME NEW t \in T PROVE Place(T, t) \in 0..n - 1
  <2>1. IsFiniteSet(T \ {t}) /\ Cardinality(T \ {t}) = n - 1
    BY FS_RemoveElement
  <2>2. earlier(t) \in SUBSET (T \ {t})
    BY OrderIsTotal
  <2> HIDE DEF earlier
  <2>3. IsFiniteSet(earlier(t)) /\ Cardinality(earlier(t)) <= n - 1
    BY <2>1, <2>2, FS_Subset
  <2>4. Cardinality(earlier(t)) \in Nat
    BY <2>3, FS_CardinalityType
  <2>5. Place(T, t) = Cardinality(earlier(t))
    BY DEF Place, earlier
  <2> HIDE DEF n
  <2> QED BY <1>1, <2>3, <2>4, <2>5
<1>3. ASSUME NEW t \in T, NEW u \in T, EarlierTrade(t, u) PROVE Place(T, t) < Place(T, u)
  <2>1. earlier(t) \cup {t} \in SUBSET earlier(u) /\ t \notin earlier(t) /\ earlier(t) \in SUBSET T /\ earlier(u) \in SUBSET T
    BY <1>3, OrderIsTotal
  <2>2. Place(T, t) = Cardinality(earlier(t)) /\ Place(T, u) = Cardinality(earlier(u))
    BY DEF Place
  <2> HIDE DEF earlier
  <2>3. IsFiniteSet(earlier(t)) /\ IsFiniteSet(earlier(u))
    BY <2>1, FS_Subset
  <2>4. Cardinality(earlier(t) \cup {t}) = Cardinality(earlier(t)) + 1
    BY <2>1, <2>3, FS_AddElement
  <2>5. Cardinality(earlier(t) \cup {t}) <= Cardinality(earlier(u))
    BY <2>1, <2>3, FS_Subset
  <2>6. Cardinality(earlier(t)) \in Nat /\ Cardinality(earlier(u)) \in Nat
    BY <2>3, FS_CardinalityType
  <2> QED BY <2>2, <2>4, <2>5, <2>6
<1>4. ASSUME NEW t \in T, NEW u \in T
      PROVE  /\ EarlierTrade(t, u) <=> Place(T, t) < Place(T, u)
             /\ Place(T, t) = Place(T, u) => t = u
  <2>1. Place(T, t) \in Int /\ Place(T, u) \in Int
    BY <1>2
  <2>2. t = u \/ EarlierTrade(t, u) \/ EarlierTrade(u, t)
    BY OrderIsTotal
  <2> QED BY <1>3, <2>1, <2>2
<1> QED BY <1>1, <1>2, <1>4

(* The ledger order has every trade, at its place.                         *)
LEMMA LedgerOrderSorts ==
  ASSUME NEW T \in SUBSET Trade, UniqueIds(T), IsFiniteSet(T)
  PROVE  LET order == InLedgerOrder(T) n == Cardinality(T)
         IN  /\ DOMAIN order = 1..n /\ Len(order) = n
             /\ \A i \in 1..n : order[i] \in T /\ Place(T, order[i]) = i - 1
             /\ \A t \in T : Place(T, t) + 1 \in 1..n /\ order[Place(T, t) + 1] = t
<1> DEFINE order == InLedgerOrder(T)
           n == Cardinality(T)
<1>1. /\ n \in Nat
      /\ \A t \in T : Place(T, t) \in 0..n - 1
      /\ \A t, u \in T : Place(T, t) = Place(T, u) => t = u
  BY PlacesDiffer
<1>2. order = [i \in 1..n |-> CHOOSE t \in T : Place(T, t) = i - 1]
  BY DEF InLedgerOrder
<1> HIDE DEF order, n
<1>3. ASSUME NEW k \in 0..n - 1 PROVE \E t \in T : Place(T, t) = k
  <2> DEFINE f == [t \in T |-> Place(T, t)]
  <2>1. f \in [T -> 0..n - 1]
    BY <1>1
  <2>2. \A t, u \in T : f[t] = f[u] => t = u
    BY <1>1
  <2>3. f \in Injection(T, 0..n - 1)
    <3> HIDE DEF f
    <3> QED BY <2>1, <2>2 DEF Injection, IsInjective
  <2>4. IsFiniteSet(0..n - 1) /\ Cardinality(0..n - 1) = n
    <3>1. n - 1 \in Int
      BY <1>1
    <3> QED BY <1>1, <3>1, FS_Interval
  <2>5. f \in Surjection(T, 0..n - 1)
    <3> HIDE DEF f
    <3> QED BY <2>3, <2>4, FS_Injection DEF n
  <2>6. \A j \in 0..n - 1 : \E t \in T : f[t] = j
    <3> HIDE DEF f
    <3> QED BY <2>5 DEF Surjection
  <2> QED BY <2>6
<1>4. ASSUME NEW i \in 1..n PROVE order[i] \in T /\ Place(T, order[i]) = i - 1
  <2>1. i - 1 \in 0..n - 1
    BY <1>1
  <2>2. \E t \in T : Place(T, t) = i - 1
    BY <1>3, <2>1
  <2>3. order[i] = CHOOSE t \in T : Place(T, t) = i - 1
    BY <1>2
  <2> QED BY <2>2, <2>3
<1>5. DOMAIN order = 1..n /\ Len(order) = n
  <2>1. order \in [1..n -> T]
    BY <1>2, <1>4
  <2>2. order \in Seq(T)
    BY <1>1, <2>1, SeqDef
  <2> QED BY <1>1, <2>1, <2>2, LenProperties
<1>6. ASSUME NEW t \in T PROVE Place(T, t) + 1 \in 1..n /\ order[Place(T, t) + 1] = t
  <2>1. Place(T, t) \in Int /\ Place(T, t) + 1 \in 1..n /\ (Place(T, t) + 1) - 1 = Place(T, t)
    BY <1>1
  <2>2. order[Place(T, t) + 1] \in T /\ Place(T, order[Place(T, t) + 1]) = Place(T, t)
    BY <1>4, <2>1
  <2> QED BY <1>1, <2>1, <2>2
<1> QED BY <1>4, <1>5, <1>6 DEF order, n

(* The place of a trade among all but b: one less when b is before it.     *)
LEMMA PlaceWithout ==
  ASSUME NEW T \in SUBSET Trade, UniqueIds(T), IsFiniteSet(T), NEW b \in T, NEW t \in T \ {b}
  PROVE  Place(T, t) = Place(T \ {b}, t) + (IF EarlierTrade(b, t) THEN 1 ELSE 0)
<1> DEFINE all == {u \in T : EarlierTrade(u, t)}
           rest == {u \in T \ {b} : EarlierTrade(u, t)}
<1>1. Place(T, t) = Cardinality(all) /\ Place(T \ {b}, t) = Cardinality(rest)
  BY DEF Place
<1>2. b \notin rest /\ all = IF EarlierTrade(b, t) THEN rest \cup {b} ELSE rest
  OBVIOUS
<1>3. rest \in SUBSET T
  OBVIOUS
<1> HIDE DEF all, rest
<1>4. IsFiniteSet(rest) /\ Cardinality(rest) \in Nat
  BY <1>3, FS_Subset, FS_CardinalityType
<1>5. Cardinality(rest \cup {b}) = Cardinality(rest) + 1
  BY <1>2, <1>4, FS_AddElement
<1> QED BY <1>1, <1>2, <1>4, <1>5

(* The order of all the trades is that of all but b, with b put in.        *)
PutIn(all, rest, n, k, b) ==
  /\ Len(all) = n + 1 /\ Len(rest) = n /\ k \in 0..n /\ n \in Nat
  /\ all[k + 1] = b
  /\ \A i \in 1..n : IF i <= k THEN all[i] = rest[i] ELSE all[i + 1] = rest[i]

LEMMA OrderWithout ==
  ASSUME NEW T \in SUBSET Trade, UniqueIds(T), IsFiniteSet(T), NEW b \in T
  PROVE  /\ PutIn(InLedgerOrder(T), InLedgerOrder(T \ {b}), Cardinality(T) - 1, Place(T, b), b)
         /\ \A i \in 1..Cardinality(T) - 1 : InLedgerOrder(T \ {b})[i] \in T
<1> DEFINE R == T \ {b}
           n == Cardinality(T) - 1
           k == Place(T, b)
           all == InLedgerOrder(T)
           rest == InLedgerOrder(R)
<1>1. /\ R \in SUBSET Trade /\ UniqueIds(R) /\ IsFiniteSet(R) /\ Cardinality(R) = n /\ n \in Nat
  <2>1. UniqueIds(R)
    BY UniqueSubset
  <2>2. IsFiniteSet(R) /\ Cardinality(R) = n
    BY FS_RemoveElement
  <2> QED BY <2>1, <2>2, FS_CardinalityType
<1>2. k \in 0..n /\ all[k + 1] = b
  BY PlacesDiffer, LedgerOrderSorts
<1>3. Len(all) = Cardinality(T) /\ Len(rest) = Cardinality(R)
  BY <1>1, LedgerOrderSorts
<1>4. Cardinality(T) = n + 1
  BY PlacesDiffer
<1>5. ASSUME NEW i \in 1..n PROVE rest[i] \in R /\ (IF i <= k THEN all[i] = rest[i] ELSE all[i + 1] = rest[i])
  <2> DEFINE t == rest[i]
  <2>1. t \in R /\ Place(R, t) = i - 1
    <3> HIDE DEF n, R
    <3> QED BY <1>1, LedgerOrderSorts
  <2> HIDE DEF t
  <2>2. t \in T /\ t # b /\ Place(T, t) = Place(R, t) + (IF EarlierTrade(b, t) THEN 1 ELSE 0)
    BY <2>1, PlaceWithout
  <2>3. /\ all[Place(T, t) + 1] = t
        /\ EarlierTrade(b, t) <=> k < Place(T, t)
    BY <2>2, PlacesDiffer, LedgerOrderSorts
  <2>4. i \in Int /\ k \in Int
    BY <1>2
  <2> HIDE DEF all, k, R, n
  <2>5. CASE EarlierTrade(b, t)
    <3>1. Place(T, t) = i
      BY <2>1, <2>2, <2>4, <2>5
    <3> QED BY <2>1, <2>3, <2>4, <2>5, <3>1 DEF t
  <2>6. CASE ~EarlierTrade(b, t)
    <3>1. Place(T, t) = i - 1
      BY <2>1, <2>2, <2>4, <2>6
    <3>2. i <= k /\ (i - 1) + 1 = i
      <4>1. ~(k < i - 1)
        BY <2>3, <2>6, <3>1
      <4>2. i - 1 # k
        BY <2>2, <3>1, PlacesDiffer DEF k
      <4> QED BY <2>4, <4>1, <4>2
    <3> QED BY <2>1, <2>3, <3>1, <3>2 DEF t
  <2> QED BY <2>5, <2>6
<1> HIDE DEF all, rest, k, n
<1> QED BY <1>1, <1>2, <1>3, <1>4, <1>5 DEF PutIn, R, all, rest, k, n

-----------------------------------------------------------------------------
(* The tolerance grows with what is owned.                                 *)
LEMMA ToleranceGrows ==
  ASSUME NEW a \in Nat, NEW b \in Nat, a <= b
  PROVE  Tolerance(a) \in Nat /\ Tolerance(a) <= Tolerance(b)
<1> DEFINE x == a \div ToleranceScale
           y == b \div ToleranceScale
<1>1. x \in Nat /\ y \in Nat /\ x <= y
  BY ScaleAssumption
<1> HIDE DEF x, y
<1> QED BY <1>1 DEF Tolerance, Larger, x, y

(* A replay is a record whose quantity is a number.                        *)
Going(s) ==
  /\ s = [qty |-> s.qty, cost |-> s.cost, oversold |-> s.oversold, profit |-> s.profit]
  /\ s.qty \in Nat /\ s.oversold \in BOOLEAN

LEMMA ReplayStep ==
  ASSUME NEW s, Going(s), NEW t \in Trade
  PROVE  /\ Going(ReplayTrade(s, t))
         /\ s.oversold => ReplayTrade(s, t) = s
         /\ ~s.oversold /\ t.action = "BUY" =>
              ~ReplayTrade(s, t).oversold /\ ReplayTrade(s, t).qty = s.qty + t.qty
         /\ ~s.oversold /\ t.action = "SELL" =>
              /\ ReplayTrade(s, t).oversold <=> t.qty > s.qty + Tolerance(s.qty)
              /\ ~ReplayTrade(s, t).oversold => ReplayTrade(s, t).qty = Left(s.qty, t.qty)
<1>1. t.qty \in Nat /\ t.action \in {"BUY", "SELL"}
  BY DEF Trade
<1>2. CASE s.oversold
  BY <1>2 DEF ReplayTrade
<1>3. CASE ~s.oversold /\ t.action = "BUY"
  <2>1. ReplayTrade(s, t) = ReplayBuy(s, t)
    BY <1>3 DEF ReplayTrade
  <2>2. PICK c, q : ReplayBuy(s, t) = [s EXCEPT !.qty = s.qty + t.qty, !.cost = c, !.profit = q]
    BY DEF ReplayBuy, Going
  <2>3. s.qty + t.qty \in Nat
    BY <1>1 DEF Going
  <2>4. ReplayTrade(s, t) = [qty |-> s.qty + t.qty, cost |-> c, oversold |-> FALSE, profit |-> q]
    BY <1>3, <2>1, <2>2 DEF Going
  <2> QED BY <1>3, <2>3, <2>4 DEF Going
<1>4. CASE ~s.oversold /\ t.action = "SELL"
  <2>1. ReplayTrade(s, t) = ReplaySell(s, t)
    BY <1>4 DEF ReplayTrade
  <2>2. CASE t.qty > s.qty + Tolerance(s.qty)
    <3>1. ReplaySell(s, t) = [s EXCEPT !.oversold = TRUE]
      BY <2>2 DEF ReplaySell
    <3> QED BY <1>4, <2>1, <2>2, <3>1 DEF Going
  <2>3. CASE ~(t.qty > s.qty + Tolerance(s.qty))
    <3>1. PICK q : ReplaySell(s, t) = [s EXCEPT !.qty = Left(s.qty, t.qty), !.profit = q]
      BY <2>3 DEF ReplaySell, Going
    <3>2. Left(s.qty, t.qty) \in Nat
      BY <1>1 DEF Going, Left, Larger
    <3> QED BY <1>4, <2>1, <2>3, <3>1, <3>2 DEF Going
  <2> QED BY <2>2, <2>3
<1> QED BY <1>1, <1>2, <1>3, <1>4

LEMMA ReplaysGoing ==
  ASSUME NEW h, Len(h) \in Nat, \A i \in 1..Len(h) : h[i] \in Trade
  PROVE  \A n \in 0..Len(h) : Going(Replays(h)[n])
<1> DEFINE S == {n \in Nat : n <= Len(h) => Going(Replays(h)[n])}
<1>1. 0 \in S
  <2>1. Going(EmptyReplay)
    BY DEF Going, EmptyReplay
  <2>2. Replays(h)[0] = EmptyReplay
    BY ReplayGoesOn
  <2> QED BY <2>1, <2>2
<1>2. ASSUME NEW n \in Nat, n \in S PROVE n + 1 \in S
  <2> SUFFICES ASSUME n + 1 <= Len(h) PROVE Going(Replays(h)[n + 1])
    OBVIOUS
  <2>1. Going(Replays(h)[n])
    BY <1>2
  <2>2. n + 1 \in 1..Len(h) /\ (n + 1) - 1 = n
    OBVIOUS
  <2>3. Replays(h)[n + 1] = ReplayTrade(Replays(h)[n], h[n + 1])
    BY <2>2, ReplayGoesOn
  <2> QED BY <2>1, <2>2, <2>3, ReplayStep
<1>3. \A n \in Nat : n \in S
  <2> HIDE DEF S
  <2> QED BY <1>1, <1>2, Induction
<1> QED BY <1>3

(* b owns at least what a owns, unless a has sold more than it owned.      *)
AtLeast(b, a) == ~a.oversold => ~b.oversold /\ a.qty <= b.qty

LEMMA StepKeepsMore ==
  ASSUME NEW a, Going(a), NEW b, Going(b), AtLeast(b, a), NEW t \in Trade
  PROVE  AtLeast(ReplayTrade(b, t), ReplayTrade(a, t))
<1>1. t.qty \in Nat /\ t.action \in {"BUY", "SELL"} /\ a.qty \in Nat /\ b.qty \in Nat
  BY DEF Trade, Going
<1>2. CASE a.oversold
  BY <1>2, ReplayStep DEF AtLeast
<1>3. CASE ~a.oversold /\ t.action = "BUY"
  <2>1. ~b.oversold /\ a.qty <= b.qty
    BY <1>3 DEF AtLeast
  <2>2. ReplayTrade(a, t).qty = a.qty + t.qty /\ ReplayTrade(b, t).qty = b.qty + t.qty /\ ~ReplayTrade(b, t).oversold
    BY <1>3, <2>1, ReplayStep
  <2> QED BY <1>1, <2>1, <2>2 DEF AtLeast
<1>4. CASE ~a.oversold /\ t.action = "SELL"
  <2>1. ~b.oversold /\ a.qty <= b.qty
    BY <1>4 DEF AtLeast
  <2>2. SUFFICES ASSUME ~ReplayTrade(a, t).oversold
                 PROVE  ~ReplayTrade(b, t).oversold /\ ReplayTrade(a, t).qty <= ReplayTrade(b, t).qty
    BY DEF AtLeast
  <2>3. ~(t.qty > a.qty + Tolerance(a.qty)) /\ ReplayTrade(a, t).qty = Left(a.qty, t.qty)
    BY <1>4, <2>2, ReplayStep
  <2>4. ~(t.qty > b.qty + Tolerance(b.qty))
    <3>1. Tolerance(a.qty) \in Nat /\ Tolerance(a.qty) <= Tolerance(b.qty) /\ Tolerance(b.qty) \in Nat
      BY <1>1, <2>1, ToleranceGrows
    <3> QED BY <1>1, <2>1, <2>3, <3>1
  <2>5. ~ReplayTrade(b, t).oversold /\ ReplayTrade(b, t).qty = Left(b.qty, t.qty)
    BY <1>4, <2>1, <2>4, ReplayStep
  <2> QED BY <1>1, <2>1, <2>3, <2>5 DEF Left, Larger
<1> QED BY <1>1, <1>2, <1>3, <1>4

(* A buy leaves more than there was, a sell less.                          *)
LEMMA OneTradeMore ==
  ASSUME NEW s, Going(s), NEW t \in Trade
  PROVE  /\ t.action = "BUY" => AtLeast(ReplayTrade(s, t), s)
         /\ t.action = "SELL" => AtLeast(s, ReplayTrade(s, t))
<1>1. t.qty \in Nat /\ s.qty \in Nat
  BY DEF Trade, Going
<1>2. ASSUME t.action = "BUY" PROVE AtLeast(ReplayTrade(s, t), s)
  <2>1. ~s.oversold => ~ReplayTrade(s, t).oversold /\ ReplayTrade(s, t).qty = s.qty + t.qty
    BY <1>2, ReplayStep
  <2> QED BY <1>1, <2>1 DEF AtLeast
<1>3. ASSUME t.action = "SELL" PROVE AtLeast(s, ReplayTrade(s, t))
  <2>1. s.oversold => ReplayTrade(s, t) = s
    BY ReplayStep
  <2>2. ~s.oversold /\ ~ReplayTrade(s, t).oversold => ReplayTrade(s, t).qty = Left(s.qty, t.qty)
    BY <1>3, ReplayStep
  <2> QED BY <1>1, <2>1, <2>2 DEF AtLeast, Left, Larger
<1> QED BY <1>2, <1>3

(* A history with one buy more owns at least as much at its end, one with  *)
(* one sell more at most as much.                                          *)
LEMMA PutInOwns ==
  ASSUME NEW all, NEW rest, NEW n, NEW k, NEW b \in Trade, PutIn(all, rest, n, k, b),
         \A i \in 1..n : rest[i] \in Trade
  PROVE  /\ b.action = "BUY" => AtLeast(Replay(all), Replay(rest))
         /\ b.action = "SELL" => AtLeast(Replay(rest), Replay(all))
<1> DEFINE more(x, y) == (b.action = "BUY" => AtLeast(x, y)) /\ (b.action = "SELL" => AtLeast(y, x))
           A == Replays(all)
           R == Replays(rest)
           holds(i) == (i <= k => A[i] = R[i]) /\ (i >= k => more(A[i + 1], R[i]))
           S == {i \in Nat : i <= n => holds(i)}
<1>1. /\ n \in Nat /\ k \in 0..n /\ Len(all) = n + 1 /\ Len(rest) = n /\ Len(all) \in Nat /\ all[k + 1] = b
      /\ \A i \in 1..n : IF i <= k THEN all[i] = rest[i] ELSE all[i + 1] = rest[i]
  BY DEF PutIn
<1>2. \A i \in 1..n + 1 : all[i] \in Trade
  <2> TAKE i \in 1..n + 1
  <2>1. CASE i <= k
    BY <1>1, <2>1
  <2>2. CASE i = k + 1
    BY <1>1, <2>2
  <2>3. CASE i > k + 1
    <3>1. i - 1 \in 1..n /\ ~(i - 1 <= k) /\ (i - 1) + 1 = i
      BY <1>1, <2>3
    <3> QED BY <1>1, <3>1
  <2> QED BY <1>1, <2>1, <2>2, <2>3
<1>3. /\ A[0] = EmptyReplay /\ \A i \in 1..n + 1 : A[i] = ReplayTrade(A[i - 1], all[i])
      /\ R[0] = EmptyReplay /\ \A i \in 1..n : R[i] = ReplayTrade(R[i - 1], rest[i])
  BY <1>1, ReplayGoesOn
<1>4. (\A i \in 0..n + 1 : Going(A[i])) /\ (\A i \in 0..n : Going(R[i]))
  BY <1>1, <1>2, ReplaysGoing
<1> HIDE DEF A, R
<1>5. \A s, t : Going(s) /\ t = ReplayTrade(s, b) => more(t, s)
  BY OneTradeMore
<1>6. \A x, y, t : Going(x) /\ Going(y) /\ t \in Trade /\ more(x, y) => more(ReplayTrade(x, t), ReplayTrade(y, t))
  BY StepKeepsMore
<1> HIDE DEF more
<1>7. ASSUME NEW i \in 0..n, i = k, A[i] = R[i] PROVE more(A[i + 1], R[i])
  <2>1. i + 1 \in 1..n + 1 /\ (i + 1) - 1 = i /\ i \in 0..n
    BY <1>1
  <2>2. A[i + 1] = ReplayTrade(A[i], all[i + 1])
    BY <1>3, <2>1
  <2> QED BY <1>1, <1>4, <1>5, <1>7, <2>1, <2>2
<1>8. 0 \in S
  <2>1. 0 \in 0..n
    BY <1>1
  <2>2. A[0] = R[0]
    BY <1>3
  <2>3. 0 >= k => 0 = k
    BY <1>1
  <2> QED BY <1>7, <2>1, <2>2, <2>3
<1>9. ASSUME NEW i \in Nat, i \in S PROVE i + 1 \in S
  <2> SUFFICES ASSUME i + 1 <= n PROVE holds(i + 1)
    OBVIOUS
  <2>0. i + 1 \in 1..n /\ (i + 1) - 1 = i /\ i + 1 \in 0..n /\ i \in 0..n /\ i + 1 \in 1..n + 1
    BY <1>1
  <2>1. holds(i) /\ i + 1 \in 1..n /\ (i + 1) - 1 = i /\ i + 1 \in 0..n /\ i \in 0..n /\ i + 1 \in 1..n + 1
    <3>1. holds(i)
      <4> HIDE DEF holds
      <4> QED BY <1>1, <1>9
    <3> HIDE DEF holds
    <3> QED BY <2>0, <3>1
  <2>2. R[i + 1] = ReplayTrade(R[i], rest[i + 1])
    BY <1>3, <2>1
  <2>3. ASSUME i + 1 <= k PROVE A[i + 1] = R[i + 1]
    <3>1. all[i + 1] = rest[i + 1] /\ A[i] = R[i]
      BY <1>1, <2>1, <2>3
    <3>2. A[i + 1] = ReplayTrade(A[i], all[i + 1])
      BY <1>3, <2>1
    <3> QED BY <2>2, <3>1, <3>2
  <2>4. ASSUME i + 1 >= k PROVE more(A[(i + 1) + 1], R[i + 1])
    <3>1. CASE i + 1 = k
      BY <1>7, <2>1, <2>3, <3>1
    <3>2. CASE i + 1 # k
      <4>1. i >= k /\ ~(i + 1 <= k)
        BY <1>1, <2>4, <3>2
      <4>2. all[(i + 1) + 1] = rest[i + 1] /\ more(A[i + 1], R[i])
        BY <1>1, <2>1, <4>1
      <4>3. (i + 1) + 1 \in 1..n + 1 /\ ((i + 1) + 1) - 1 = i + 1
        BY <1>1, <2>0
      <4>4. A[(i + 1) + 1] = ReplayTrade(A[i + 1], all[(i + 1) + 1])
        BY <1>3, <4>3
      <4>5. rest[i + 1] \in Trade /\ Going(A[i + 1]) /\ Going(R[i])
        BY <1>4, <2>1
      <4> QED BY <1>6, <2>2, <4>2, <4>4, <4>5
    <3> QED BY <3>1, <3>2
  <2> QED BY <2>3, <2>4
<1>10. holds(n)
  <2>1. \A i \in Nat : i \in S
    <3> HIDE DEF S
    <3> QED BY <1>8, <1>9, Induction
  <2> QED BY <1>1, <2>1
<1>11. more(A[n + 1], R[n])
  BY <1>1, <1>10
<1>12. Replay(all) = A[n + 1] /\ Replay(rest) = R[n]
  BY <1>1 DEF Replay, A, R
<1> QED BY <1>11, <1>12 DEF more

(* A session that has loaded nothing reads the trades in order.            *)
LEMMA HistoryIsOrder ==
  ASSUME NEW T \in SUBSET Trade, UniqueIds(T), IsFiniteSet(T)
  PROVE  History(T) = InLedgerOrder(T)
<1> DEFINE order == InLedgerOrder(T)
           object == [t \in T |-> AsLoaded(t, {})]
<1>1. History(T) = [i \in DOMAIN order |-> object[order[i]]]
  BY DEF History, Loaded
<1>2. \A t \in T : object[t] = t
  BY DEF AsLoaded
<1>3. order = [i \in DOMAIN order |-> order[i]]
  BY DEF InLedgerOrder
<1>4. \A i \in DOMAIN order : order[i] \in T
  BY LedgerOrderSorts
<1> HIDE DEF order, object
<1> QED BY <1>1, <1>2, <1>3, <1>4 DEF order

(* One buy more, or one sell less, never makes a history oversold.         *)
LEMMA HarmlessTrade ==
  ASSUME NEW T \in SUBSET Trade, UniqueIds(T), IsFiniteSet(T), NEW b \in T
  PROVE  /\ b.action = "BUY" /\ ~Replay(History(T \ {b})).oversold => ~Replay(History(T)).oversold
         /\ b.action = "SELL" /\ ~Replay(History(T)).oversold => ~Replay(History(T \ {b})).oversold
<1> DEFINE n == Cardinality(T) - 1
<1>1. UniqueIds(T \ {b}) /\ IsFiniteSet(T \ {b}) /\ T \ {b} \in SUBSET Trade
  BY UniqueSubset, FS_RemoveElement
<1>2. History(T) = InLedgerOrder(T) /\ History(T \ {b}) = InLedgerOrder(T \ {b})
  BY <1>1, HistoryIsOrder
<1>3. /\ PutIn(InLedgerOrder(T), InLedgerOrder(T \ {b}), n, Place(T, b), b)
      /\ \A i \in 1..n : InLedgerOrder(T \ {b})[i] \in Trade
  BY OrderWithout
<1> HIDE DEF n
<1>4. /\ b.action = "BUY" => AtLeast(Replay(History(T)), Replay(History(T \ {b})))
      /\ b.action = "SELL" => AtLeast(Replay(History(T \ {b})), Replay(History(T)))
  BY <1>2, <1>3, PutInOwns
<1> QED BY <1>4 DEF AtLeast

(* What a new buy, or the delete of a sell, leaves is not oversold when    *)
(* what was committed is not.                                              *)
LEMMA HarmlessKept ==
  ASSUME LInv, IsFiniteSet(trades), NEW p \in Procs, RollbackOversold(p)
  PROVE  /\ ~(req[p].kind = "create" /\ req[p].trade.action = "BUY")
         /\ ~(req[p].kind = "delete" /\ \E t \in trades : t.id = req[p].id /\ t.action = "SELL")
<1>1. /\ TypeOK /\ pc[p] = "settle" /\ pc[p] # "idle" /\ writer = p /\ DraftKnown(p)
      /\ trades \subseteq Trade /\ UniqueIds(trades)
  BY DEF LInv, Known, RollbackOversold, TypeOK, FitsPlace
<1>2. PICK s \in Affected(p) : OversoldIn(draft, s, Object(p))
  BY DEF RollbackOversold, OversoldDraft
<1>3. Replay(History(OfSymbol(draft, s))).oversold
  BY <1>1, <1>2, ObjectIsWritten, LoadedIsWritten DEF Oversold, OversoldIn, History
<1>4. \A u \in Symbols : ~Replay(History(OfSymbol(trades, u))).oversold
  BY DEF LInv, NeverOversold, NeverOversells, Oversold, OversoldIn, History
<1>5. OfSymbol(trades, s) \in SUBSET Trade /\ UniqueIds(OfSymbol(trades, s)) /\ IsFiniteSet(OfSymbol(trades, s))
  BY <1>1, UniqueSubset, FS_Subset DEF OfSymbol
<1>6. ASSUME req[p].kind = "create", req[p].trade.action = "BUY" PROVE FALSE
  <2>1. Busy(p, "create") /\ req[p].trade \in Trade
    BY <1>1, <1>6, RequestKinds, TemplatesAssumption DEF Busy, TypeOK, FitsPlace
  <2>2. PICK id \in Ids : FreshId(id) /\ draft = trades \cup {New(p, id)}
    BY <1>1, <2>1 DEF DraftKnown, DraftCreates
  <2> DEFINE b == New(p, id)
             T == OfSymbol(draft, s)
  <2>3. b \in Trade /\ b.id = id /\ b.symbol = req[p].trade.symbol /\ b.action = "BUY"
    BY <1>1, <1>6, <2>1, NewType DEF New, Trade
  <2>4. s = req[p].trade.symbol /\ s \in Symbols
    BY <1>6, <2>1 DEF Affected, Trade
  <2>5. b \notin trades
    BY <2>2, <2>3 DEF FreshId
  <2> HIDE DEF b
  <2>6. T = OfSymbol(trades, s) \cup {b} /\ b \in T /\ T \ {b} = OfSymbol(trades, s)
    BY <2>2, <2>3, <2>4, <2>5 DEF OfSymbol, b
  <2>7. T \in SUBSET Trade /\ UniqueIds(T) /\ IsFiniteSet(T)
    <3>1. UniqueIds(T)
      BY <1>1, UniqueSubset DEF TypeOK, OfSymbol
    <3>2. IsFiniteSet(OfSymbol(trades, s) \cup {b})
      BY <1>5, FS_AddElement
    <3> QED BY <1>5, <2>3, <2>6, <3>1, <3>2
  <2> HIDE DEF T
  <2>8. ~Replay(History(T)).oversold
    BY <1>4, <2>3, <2>4, <2>6, <2>7, HarmlessTrade
  <2> QED BY <1>3, <2>8 DEF T
<1>7. ASSUME req[p].kind = "delete", NEW b \in trades, b.id = req[p].id, b.action = "SELL" PROVE FALSE
  <2>1. Busy(p, "delete")
    BY <1>1, <1>7 DEF Busy
  <2>2. draft = {t \in trades : t.id # req[p].id} /\ b.symbol = seen[p].symbol
    BY <1>1, <1>7, <2>1 DEF LInv, Known, DraftKnown, DraftDeletes, DeleteSees
  <2>3. s = b.symbol /\ s \in Symbols
    <3>1. Affected(p) = {seen[p].symbol}
      BY <1>7 DEF Affected, Object
    <3>2. b \in Trade
      BY <1>1
    <3> QED BY <2>2, <3>1, <3>2 DEF Trade
  <2> DEFINE T == OfSymbol(trades, s)
  <2>4. b \in T /\ T \ {b} = OfSymbol(draft, s)
    BY <1>1, <1>7, <2>2, <2>3 DEF OfSymbol, UniqueIds
  <2>5. ~Replay(History(T)).oversold
    BY <1>4, <2>3
  <2>6. T \in SUBSET Trade /\ UniqueIds(T) /\ IsFiniteSet(T)
    BY <1>5
  <2> HIDE DEF T
  <2>7. ~Replay(History(T \ {b})).oversold
    BY <1>7, <2>4, <2>5, <2>6, HarmlessTrade
  <2> QED BY <1>3, <2>4, <2>7
<1> QED BY <1>6, <1>7

(* A new buy and the delete of a sell are never refused as overselling,    *)
(* wherever in the history they fall and whatever else is being served, as *)
(* long as requests keep the edits of a trade apart.                       *)
THEOREM HarmlessAreSaved ==
  ASSUME EditsOverlap = FALSE
  PROVE  Spec => HarmlessChangesSaved
<1> DEFINE Harmless ==
      \A p \in Procs : RollbackOversold(p) =>
        /\ ~(req[p].kind = "create" /\ req[p].trade.action = "BUY")
        /\ ~(req[p].kind = "delete" /\ \E t \in trades : t.id = req[p].id /\ t.action = "SELL")
<1>1. LInv /\ BInv => Harmless
  BY HarmlessKept DEF BInv, Finite
<1>2. LInv /\ BInv => [Harmless]_vars
  BY <1>1
<1> HIDE DEF Harmless
<1>3. Spec => [][Harmless]_vars
  BY <1>2, InitLInv, NextLInv, InitBInv, NextBInv, PTL DEF Spec
<1> QED BY <1>3 DEF HarmlessChangesSaved, Harmless

-----------------------------------------------------------------------------
(* A new sell. The shortfalls a request has read are of trades that have   *)
(* their ids, so a sell it logs after that starts from none.               *)
BeforeIssued ==
  /\ before = [p \in Procs |-> before[p]]
  /\ \A p \in Procs : \A id \in DOMAIN before[p] : id \in issued

DraftOfNew(p) ==
  IF Busy(p, "create")
  THEN \E id \in Ids : draft = trades \cup {New(p, id)} /\ id \notin DOMAIN before[p]
  ELSE \A t \in draft : Exists(trades, t.id)

SInv == TypeOK /\ BeforeIssued /\ \A p \in Procs : writer = p => DraftOfNew(p)

LEMMA ShortfallsOfTrades ==
  ASSUME NEW T, NEW symbols, NEW loaded
  PROVE  \A id \in DOMAIN Shortfalls(T, symbols, loaded) : \E t \in T : t.id = id
BY DEF Shortfalls

(* Every request keeps the shortfalls it has read, drops them, or reads    *)
(* them now.                                                               *)
LEMMA BeforeKept ==
  ASSUME TypeOK, BeforeIssued, issued \subseteq issued',
         \/ UNCHANGED before
         \/ before' = [p \in Procs |-> << >>]
         \/ \E p \in Procs : before' = [before EXCEPT ![p] = << >>]
         \/ \E p \in Procs : \E symbols, loaded : before' = [before EXCEPT ![p] = Shortfalls(trades, symbols, loaded)]
  PROVE  BeforeIssued'
<1>1. \A id \in DOMAIN << >> : FALSE
  OBVIOUS
<1>2. CASE UNCHANGED before
  BY <1>2 DEF BeforeIssued
<1>3. CASE before' = [p \in Procs |-> << >>]
  BY <1>1, <1>3 DEF BeforeIssued
<1>4. ASSUME NEW p \in Procs, NEW short, \A id \in DOMAIN short : id \in issued, before' = [before EXCEPT ![p] = short]
      PROVE  BeforeIssued'
  BY <1>4 DEF BeforeIssued
<1>5. ASSUME NEW symbols, NEW loaded PROVE \A id \in DOMAIN Shortfalls(trades, symbols, loaded) : id \in issued
  BY ShortfallsOfTrades DEF TypeOK
<1> QED BY <1>1, <1>2, <1>3, <1>4, <1>5

LEMMA InitSInv == Init => SInv
<1> SUFFICES ASSUME Init PROVE SInv
  OBVIOUS
<1>1. BeforeIssued
  BY DEF Init, BeforeIssued
<1> QED BY <1>1, InitTypeOK, ProcsAssumption DEF SInv, Init

(* The rows written: those that were there, and a new one of its own.      *)
LEMMA FlushOfNew ==
  ASSUME SInv, NEW p \in Procs, FlushCreate(p) \/ FlushDelete(p) \/ FlushEdit(p)
  PROVE  BeforeIssued' /\ DraftOfNew(p)'
<1>0. TypeOK /\ BeforeIssued
  BY DEF SInv
<1>1. /\ UNCHANGED <<trades, req, before>> /\ pc[p] = "flush" /\ pc'[p] = "settle" /\ issued \subseteq issued'
  BY <1>0 DEF FlushCreate, FlushDelete, FlushEdit, Write, TypeOK
<1>2. BeforeIssued'
  BY <1>0, <1>1 DEF BeforeIssued
<1>3. CASE FlushCreate(p)
  <2>1. PICK id \in Ids \ issued : draft' = trades \cup {New(p, id)}
    BY <1>3 DEF FlushCreate, Write, New
  <2>2. id \notin DOMAIN before[p]
    BY <1>0 DEF BeforeIssued
  <2>3. New(p, id)' = New(p, id)
    BY <1>1 DEF New
  <2>4. Busy(p, "create")'
    BY <1>1, <1>3 DEF FlushCreate, Busy
  <2> QED BY <1>1, <1>2, <2>1, <2>2, <2>3, <2>4 DEF DraftOfNew
<1>4. CASE FlushDelete(p)
  <2>1. draft' \subseteq trades /\ ~Busy(p, "create")'
    BY <1>1, <1>4 DEF FlushDelete, Write, Busy
  <2> QED BY <1>1, <1>2, <2>1 DEF DraftOfNew, Exists
<1>5. CASE FlushEdit(p)
  <2> DEFINE t == Row(trades, req[p].id)
             u == Overwritten(t, req[p].edit, Changed(req[p].edit, seen[p]))
  <2>1. t \in trades /\ draft' = (trades \ {t}) \cup {u} /\ ~Busy(p, "create")'
    BY <1>1, <1>5, RowOf DEF FlushEdit, Write, Busy
  <2>2. u.id = t.id
    BY DEF Overwritten
  <2> HIDE DEF t, u
  <2> QED BY <1>1, <1>2, <2>1, <2>2 DEF DraftOfNew, Exists
<1> QED BY <1>3, <1>4, <1>5

(* The writer's rows stay as long as it holds the lock.                    *)
LEMMA WriterKeeps ==
  ASSUME SInv, UNCHANGED <<trades, draft, writer>>,
         \A q \in Procs : writer = q => pc'[q] = pc[q] /\ req'[q] = req[q] /\ before'[q] = before[q]
  PROVE  \A q \in Procs : writer' = q => DraftOfNew(q)'
<1> SUFFICES ASSUME NEW q \in Procs, writer = q PROVE DraftOfNew(q)'
  OBVIOUS
<1>1. DraftOfNew(q) /\ pc'[q] = pc[q] /\ req'[q] = req[q] /\ before'[q] = before[q]
  BY DEF SInv
<1>2. (Busy(q, "create")' <=> Busy(q, "create")) /\ \A id : New(q, id)' = New(q, id)
  BY <1>1 DEF Busy, New
<1> QED BY <1>1, <1>2 DEF DraftOfNew, Exists

LEMMA NextSInv == SInv /\ [Next]_vars => SInv'
<1> SUFFICES ASSUME SInv, [Next]_vars PROVE SInv'
  OBVIOUS
<1>0. TypeOK /\ TypeOK' /\ BeforeIssued /\ before = [p \in Procs |-> before[p]]
  BY NextTypeOK DEF SInv, BeforeIssued
<1> DEFINE Keeps == BeforeIssued' /\ \A q \in Procs : writer' = q => DraftOfNew(q)'
<1> SUFFICES Keeps
  BY <1>0 DEF SInv
<1>1. \A q \in Procs : writer = q => pc[q] = "settle"
  BY <1>0 DEF TypeOK, FitsPlace
<1>2. ASSUME NEW p \in Procs, End(p), UNCHANGED database, pc[p] # "settle" PROVE Keeps
  <2>1. BeforeIssued'
    BY <1>0, <1>2, BeforeKept DEF End, database
  <2>2. \A q \in Procs : writer = q => pc'[q] = pc[q] /\ req'[q] = req[q] /\ before'[q] = before[q]
    BY <1>0, <1>1, <1>2 DEF End, TypeOK
  <2> QED BY <1>2, <2>1, <2>2, WriterKeeps DEF database
<1>3. ASSUME NEW p \in Procs, NEW request, NEW where, NEW object, pc[p] = "idle",
             Begin(p, request, where, object), UNCHANGED database
      PROVE  Keeps
  <2>1. BeforeIssued'
    BY <1>0, <1>3, BeforeKept DEF Begin, database
  <2>2. \A q \in Procs : writer = q => pc'[q] = pc[q] /\ req'[q] = req[q] /\ before'[q] = before[q]
    BY <1>0, <1>1, <1>3 DEF Begin, TypeOK
  <2> QED BY <1>3, <2>1, <2>2, WriterKeeps DEF database
<1>4. ASSUME NEW p \in Procs, Reload(p) \/ ReadBefore(p) PROVE Keeps
  <2>1. CASE End(p) /\ UNCHANGED database /\ pc[p] = "rates"
    BY <1>2, <2>1
  <2>2. CASE ~(End(p) /\ UNCHANGED database /\ pc[p] = "rates")
    <3>1. UNCHANGED <<trades, draft, writer, issued, req>> /\ pc[p] # "settle"
      BY <1>4, <2>2 DEF Reload, ReadBefore, database
    <3>2. \A q \in Procs \ {p} : pc'[q] = pc[q] /\ before'[q] = before[q]
      BY <1>0, <1>4, <2>2 DEF Reload, ReadBefore, TypeOK
    <3>3. \/ UNCHANGED before
          \/ \E symbols, loaded : before' = [before EXCEPT ![p] = Shortfalls(trades, symbols, loaded)]
      BY <1>4, <2>2 DEF Reload, ReadBefore
    <3>4. BeforeIssued'
      BY <1>0, <3>1, <3>3, BeforeKept
    <3> QED BY <1>1, <3>1, <3>2, <3>4, WriterKeeps
  <2> QED BY <2>1, <2>2
<1>5. ASSUME NEW p \in Procs, FlushCreate(p) \/ FlushDelete(p) \/ FlushEdit(p) PROVE Keeps
  <2>1. writer' = p
    BY <1>5 DEF FlushCreate, FlushDelete, FlushEdit, Write
  <2> QED BY <1>5, <2>1, FlushOfNew
<1>6. ASSUME NEW p \in Procs, Settle(p) PROVE Keeps
  <2>1. End(p) /\ writer' = NoProc /\ UNCHANGED issued
    BY <1>6 DEF Settle, RollbackOversold, RollbackAccount, Commit, Release
  <2>2. BeforeIssued'
    BY <1>0, <2>1, BeforeKept DEF End
  <2> QED BY <2>1, <2>2, ProcsAssumption
<1>7. ASSUME Crash PROVE Keeps
  <2>1. BeforeIssued'
    BY <1>0, <1>7, BeforeKept DEF Crash
  <2> QED BY <1>7, <2>1, ProcsAssumption DEF Crash, Release
<1>8. ASSUME UNCHANGED vars PROVE Keeps
  <2>1. BeforeIssued'
    BY <1>0, <1>8, BeforeKept DEF vars
  <2> QED BY <1>8, <2>1, WriterKeeps DEF vars
<1>9. ASSUME NEW p \in Procs,
             \/ \E t \in Templates : RefuseCreate(p, t)
             \/ \E id \in Ids : NotFound(p, id)
             \/ \E id \in Ids, e \in Edits : RefuseEdit(p, id, e)
             \/ StaleEdit(p) \/ Fail(p)
      PROVE  Keeps
  BY <1>2, <1>9 DEF RefuseCreate, NotFound, RefuseEdit, StaleEdit, Fail
<1>10. ASSUME NEW p \in Procs,
              \/ \E t \in Templates : StartCreate(p, t)
              \/ \E id \in Ids, e \in Edits : StartEdit(p, id, e)
              \/ \E id \in Ids : StartDelete(p, id)
       PROVE  Keeps
  BY <1>3, <1>10 DEF StartCreate, StartEdit, StartDelete
<1> HIDE DEF Keeps
<1>11. ASSUME NEW p \in Procs, Start(p) \/ Flush(p) PROVE Keeps
  BY <1>5, <1>9, <1>10, <1>11 DEF Start, Flush
<1> QED BY <1>4, <1>6, <1>7, <1>8, <1>9, <1>11 DEF Next

(* A commit has compared the new sell's shortfall with none at all.        *)
LEMMA CommitNewSell ==
  ASSUME SInv, NEW p \in Procs, Commit(p), NEW t \in trades', t.action = "SELL", ~Exists(trades, t.id)
  PROVE  ~(ShortOf(Shortfalls(trades', {t.symbol}, {}), t.id) > 1)
<1>1. TypeOK /\ DraftOfNew(p) /\ trades' = draft /\ pc[p] # "idle"
  BY DEF SInv, Commit, TypeOK, FitsPlace
<1>2. Busy(p, "create")
  BY <1>1 DEF DraftOfNew
<1>3. PICK id \in Ids : draft = trades \cup {New(p, id)} /\ id \notin DOMAIN before[p]
  BY <1>1, <1>2 DEF DraftOfNew
<1>4. t = New(p, id)
  BY <1>1, <1>3 DEF Exists
<1>5. t.id = id /\ t.symbol = req[p].trade.symbol /\ t.action = req[p].trade.action
  <2>1. req[p].trade \in Trade
    BY <1>1, <1>2, RequestKinds, TemplatesAssumption DEF Busy, TypeOK, FitsPlace
  <2> QED BY <1>4, <2>1 DEF New, Trade
<1> DEFINE after == Shortfalls(draft, {t.symbol}, {})
<1>6. ~OversellAdded(before[p], after)
  BY <1>2, <1>5 DEF Commit, AccountsWorse, ChecksAccounts, Busy, Affected, Object
<1>7. ShortOf(before[p], id) = 0
  BY <1>3 DEF ShortOf
<1> HIDE DEF after
<1>8. id \in DOMAIN after => ~(after[id] > 0 + 1)
  BY <1>6, <1>7 DEF OversellAdded
<1>9. ~(ShortOf(after, id) > 1)
  <2>1. CASE id \in DOMAIN after
    <3>1. ShortOf(after, id) = after[id] /\ 0 + 1 = 1
      BY <2>1 DEF ShortOf
    <3> QED BY <1>8, <2>1, <3>1
  <2>2. CASE id \notin DOMAIN after
    BY <2>2 DEF ShortOf
  <2> QED BY <2>1, <2>2
<1> QED BY <1>1, <1>5, <1>9 DEF after

(* Whatever requests run together, edits that overlap included, a sell     *)
(* that is new takes no more than its account and the untagged shares had, *)
(* over the tolerance (account_oversell_added).                            *)
THEOREM NewSellsFit == Spec => NewSellsWithinAccount
<1> DEFINE Fits ==
      \A t \in trades' :
        (t.action = "SELL" /\ ~Exists(trades, t.id)) =>
          ~(ShortOf(Shortfalls(trades', {t.symbol}, {}), t.id) > 1)
<1>1. SInv /\ [Next]_vars => Fits
  <2> SUFFICES ASSUME SInv, [Next]_vars, NEW t \in trades', t.action = "SELL", ~Exists(trades, t.id)
               PROVE  ~(ShortOf(Shortfalls(trades', {t.symbol}, {}), t.id) > 1)
    OBVIOUS
  <2>1. trades' # trades
    BY DEF Exists
  <2> QED BY <2>1, OnlyCommits, CommitNewSell
<1>2. SInv /\ [Next]_vars => [Fits]_vars
  BY <1>1
<1> HIDE DEF Fits
<1>3. Spec => [][Fits]_vars
  BY <1>2, InitSInv, NextSInv, PTL DEF Spec
<1> QED BY <1>3 DEF NewSellsWithinAccount, Fits

=============================================================================
