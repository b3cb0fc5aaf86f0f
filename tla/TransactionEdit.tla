--------------------------- MODULE TransactionEdit ---------------------------
(***************************************************************************)
(* One trade of the list, opened (Transactions/TransactionItem.jsx): its   *)
(* inline edit (TransactionEdit.jsx) and its delete. The list is read      *)
(* again now and then, also under an open form; other devices of the       *)
(* account change the trade; an answer may come late or not at all.        *)
(***************************************************************************)
EXTENDS Naturals, FiniteSets

CONSTANTS
  None,
  Fields,       \* what the form holds, such as quantity and account
  Values,
  MaxChanges,   \* bound: changes made elsewhere
  MaxWrites     \* bound: requests of this trade on their way

VARIABLES
  trade,        \* server: a function on Fields, or None once deleted
  elsewhere,    \* how many changes other devices made, for the bound
  listed,       \* the trade as the list shows it, or None
  mode,         \* "view", "edit", "delete", which asks first, or "gone"
  form,         \* the edit form: [initial, now], or None
  failed,       \* an error is shown: a delete is not offered again then
  writes        \* what is on its way; `open`: the form it was sent from still is

evars == <<trade, elsewhere, listed, mode, form, failed, writes>>

Trades == [Fields -> Values]

Init ==
  /\ trade \in Trades
  /\ elsewhere = 0
  /\ listed = trade
  /\ mode = "view"
  /\ form = None
  /\ failed = FALSE
  /\ writes = {}

ShowMode(new) ==
  /\ mode' = new
  /\ failed' = FALSE
  /\ form' = IF new = "edit" THEN [initial |-> listed, now |-> listed] ELSE None

(* Forms closed meanwhile do not wait for an answer any more.              *)
Left == writes' = {[w EXCEPT !.open = FALSE] : w \in writes}

(* The list comes again; a trade no longer in it takes its row, and with   *)
(* it the form, away.                                                      *)
ListRead ==
  /\ listed # None
  /\ listed' = trade
  /\ IF trade = None THEN ShowMode("gone") /\ Left ELSE UNCHANGED <<mode, form, failed, writes>>
  /\ UNCHANGED <<trade, elsewhere>>

Open(new) ==
  /\ mode = "view" /\ listed # None
  /\ ShowMode(new)
  /\ UNCHANGED <<trade, elsewhere, listed, writes>>

Saving == \E w \in writes : w.open

(* Cancel and "Keep it" are off while the answer is out.                   *)
Cancel ==
  /\ mode \in {"edit", "delete"} /\ ~Saving
  /\ ShowMode("view")
  /\ UNCHANGED <<trade, elsewhere, listed, writes>>

(* Closing the trade's row and opening it again starts the edit form anew, *)
(* also while its answer is out.                                           *)
Reopen ==
  /\ mode = "edit"
  /\ ShowMode("edit")
  /\ Left
  /\ UNCHANGED <<trade, elsewhere, listed>>

SetField(f, v) ==
  /\ mode = "edit"
  /\ form.now[f] # v
  /\ form' = [form EXCEPT !.now[f] = v]
  /\ failed' = FALSE
  /\ UNCHANGED <<trade, elsewhere, listed, mode, writes>>

(* A slip: the whole form.                                                 *)
AllOfIt(initial, now) == Fields

(* updatePayload(): only what was changed in this form.                    *)
Changed(initial, now) == {f \in Fields : now[f] # initial[f]}

Sent(kind, fields, values, typed) ==
  [kind |-> kind, changes |-> [f \in fields |-> values[f]], typed |-> typed, open |-> TRUE, reply |-> "none"]

SaveChanges ==
  /\ mode = "edit" /\ ~Saving
  /\ Changed(form.initial, form.now) # {}
  /\ writes' = writes \cup {Sent("edit", Changed(form.initial, form.now), form.now,
                                {f \in Fields : form.now[f] # form.initial[f]})}
  /\ Cardinality(writes') <= MaxWrites
  /\ failed' = FALSE
  /\ UNCHANGED <<trade, elsewhere, listed, mode, form>>

DeleteTrade ==
  /\ mode = "delete" /\ ~Saving /\ ~failed
  /\ writes' = writes \cup {Sent("delete", {}, trade, {})}
  /\ Cardinality(writes') <= MaxWrites
  /\ UNCHANGED <<trade, elsewhere, listed, mode, form, failed>>

(* The server takes the fields it is sent, or refuses: the history would   *)
(* oversell (409), or the trade is gone (404).                             *)
Saved(t, changes) == [f \in Fields |-> IF f \in DOMAIN changes THEN changes[f] ELSE t[f]]

Answer(w) ==
  /\ w.reply = "none"
  /\ \/ /\ trade # None
        /\ trade' = IF w.kind = "delete" THEN None ELSE Saved(trade, w.changes)
        /\ writes' = (writes \ {w}) \cup {[w EXCEPT !.reply = "saved"]}
     \/ writes' = (writes \ {w}) \cup {[w EXCEPT !.reply = "refused"]} /\ UNCHANGED trade
  /\ UNCHANGED <<elsewhere, listed, mode, form, failed>>

(* A saved edit goes back to the trade; a deleted trade's row is left as   *)
(* it is until the list comes; anything else is an error in the form it    *)
(* belongs to, if still open.                                              *)
Arrive(w) ==
  /\ writes' = writes \ {w}
  /\ CASE w.reply = "saved" /\ w.kind = "edit"   -> ShowMode("view")
       [] w.reply = "saved" /\ w.kind = "delete" -> mode' = "gone" /\ UNCHANGED <<form, failed>>
       [] OTHER -> failed' = (failed \/ w.open) /\ UNCHANGED <<mode, form>>
  /\ UNCHANGED <<trade, elsewhere, listed>>

(* No answer: whatever the server did, or will do, it is an error here.    *)
NoAnswer(w) ==
  /\ w.reply = "saved"
  /\ writes' = writes \ {w}
  /\ failed' = (failed \/ w.open)
  /\ UNCHANGED <<trade, elsewhere, listed, mode, form>>

Elsewhere ==
  /\ trade # None /\ elsewhere < MaxChanges
  /\ elsewhere' = elsewhere + 1
  /\ trade' \in (Trades \ {trade}) \cup {None}
  /\ UNCHANGED <<listed, mode, form, failed, writes>>

Next ==
  \/ ListRead \/ Cancel \/ Reopen \/ SaveChanges \/ DeleteTrade \/ Elsewhere
  \/ \E w \in writes : Answer(w) \/ Arrive(w) \/ NoAnswer(w)
  \/ \E new \in {"edit", "delete"} : Open(new)
  \/ \E f \in Fields, v \in Values : SetField(f, v)

Spec == Init /\ [][Next]_evars

-----------------------------------------------------------------------------
(* Saving an edit leaves alone what the user did not change in the form,   *)
(* also when another device has changed it since the form was opened.      *)
OthersStay ==
  \A w \in writes : Answer(w) /\ w.kind = "edit" /\ trade' # trade =>
     \A f \in Fields \ w.typed : trade'[f] = trade[f]

(* No save of an edit undoes what another device changed meanwhile.        *)
OthersChangesStay == [][OthersStay]_evars

=============================================================================
