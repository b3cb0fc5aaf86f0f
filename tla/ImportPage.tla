------------------------------ MODULE ImportPage ------------------------------
(***************************************************************************)
(* The import page (Import/ImportSection.jsx, importHelpers.js): a file is *)
(* previewed, rows are ticked or unticked, and what is left is imported    *)
(* under an id made with the preview. The answer may be lost while the     *)
(* server goes on saving; the user may then try again, change the ticks,   *)
(* or choose the file again. The server reads the trades it has, and then  *)
(* saves: tries of one id wait for each other there, those of two do not.  *)
(* One file; ids forgotten and restarts are ImportCommit's.                *)
(***************************************************************************)
EXTENDS Naturals, FiniteSets

CONSTANTS
  None,
  Rows,         \* the rows of the file
  Bad,          \* those with a problem
  MaxIds,       \* bound: previews made
  MaxTries      \* bound: imports sent

VARIABLES
  saved,        \* server: how often each row is among the trades
  finished,     \* server: ids it keeps an answer of
  account,      \* the default account picked in the options
  preview,      \* None, or [status of each row, account, id]
  toggled,      \* rows flipped from their default
  busy,         \* "no", "previewing", "confirming" or "importing"
  ids,          \* ids made so far
  tries,        \* imports sent: [number, id, rows, anyway, adds, waited, answer]
  meant,        \* history: how often each row was sent to be saved anyway
  crossed,      \* history: how often each row was read as new by two imports at once
  told          \* rows the page said it imported under an answer of their own

ivars == <<saved, finished, account, preview, toggled, busy, ids, tries, meant, crossed, told>>

Init ==
  /\ saved \in [Rows -> {0, 1}] /\ \A r \in Bad : saved[r] = 0
  /\ finished = {}
  /\ account \in BOOLEAN
  /\ preview = None
  /\ toggled = {}
  /\ busy = "no"
  /\ ids = 0
  /\ tries = {}
  /\ meant = [r \in Rows |-> 0]
  /\ crossed = [r \in Rows |-> 0]
  /\ told = {}

-----------------------------------------------------------------------------
(* A ready row goes in unless unticked, a duplicate only when ticked.      *)
Status(r) == IF r \in Bad THEN "error" ELSE IF saved[r] > 0 THEN "duplicate" ELSE "ok"

IsIncluded(r) ==
  \/ preview.status[r] = "ok" /\ r \notin toggled
  \/ preview.status[r] = "duplicate" /\ r \in toggled

RowsToImport == {r \in Rows : IsIncluded(r)}

(* A slip: every row is sent to be saved anyway.                           *)
AllAnyway(rows) == rows

(* commitRows(): a duplicate that is sent was ticked on purpose.           *)
Anyway(rows) == {r \in rows : preview.status[r] = "duplicate"}

Stale == preview.account # account

-----------------------------------------------------------------------------
(* A file is chosen or dropped, maybe again.                               *)
ChooseFile ==
  /\ busy = "no" /\ ids < MaxIds
  /\ busy' = "previewing"
  /\ told' = {}
  /\ UNCHANGED <<saved, finished, account, preview, toggled, ids, tries, meant, crossed>>

(* Offered once the options changed.                                       *)
PreviewAgain ==
  /\ busy = "no" /\ preview # None /\ Stale /\ ids < MaxIds
  /\ busy' = "previewing"
  /\ UNCHANGED <<saved, finished, account, preview, toggled, ids, tries, meant, crossed, told>>

(* A spreadsheet, an empty or a too large file, or an unreadable one.      *)
BadFile ==
  /\ busy = "no"
  /\ told' = {}
  /\ UNCHANGED <<saved, finished, account, preview, toggled, busy, ids, tries, meant, crossed>>

PreviewArrives ==
  /\ busy = "previewing"
  /\ busy' = "no"
  /\ \/ /\ ids' = ids + 1
        /\ preview' = [status |-> [r \in Rows |-> Status(r)], account |-> account, id |-> ids + 1]
        /\ toggled' = {}
     \/ preview' = None /\ UNCHANGED <<ids, toggled>>
  /\ UNCHANGED <<saved, finished, account, tries, meant, crossed, told>>

(* The boxes can be ticked also while an import or a preview is out.       *)
Flipped(r) == IF r \in toggled THEN toggled \ {r} ELSE toggled \cup {r}

Toggle(r) ==
  /\ preview # None /\ preview.status[r] # "error" /\ busy # "confirming"
  /\ toggled' = Flipped(r)
  /\ UNCHANGED <<saved, finished, account, preview, busy, ids, tries, meant, crossed, told>>

PickAccount ==
  /\ busy = "no"
  /\ account' = ~account
  /\ UNCHANGED <<saved, finished, preview, toggled, busy, ids, tries, meant, crossed, told>>

Cleared ==
  /\ preview' = None
  /\ toggled' = {}

StartOver ==
  /\ busy = "no" /\ preview # None
  /\ Cleared
  /\ UNCHANGED <<saved, finished, account, busy, ids, tries, meant, crossed, told>>

(* "Import 2 trades", once the preview is of these options, and its        *)
(* question, over the page.                                                *)
CanImport == preview # None /\ ~Stale /\ RowsToImport # {}

AskToImport ==
  /\ busy = "no" /\ CanImport
  /\ busy' = "confirming"
  /\ UNCHANGED <<saved, finished, account, preview, toggled, ids, tries, meant, crossed, told>>

NotNow ==
  /\ busy = "confirming"
  /\ busy' = "no"
  /\ UNCHANGED <<saved, finished, account, preview, toggled, ids, tries, meant, crossed, told>>

RunImport ==
  /\ busy = "confirming"
  /\ Cardinality(tries) < MaxTries
  /\ busy' = "importing"
  /\ tries' = tries \cup {[number |-> Cardinality(tries) + 1, id |-> preview.id, rows |-> RowsToImport,
                           anyway |-> Anyway(RowsToImport), adds |-> {}, waited |-> TRUE, answer |-> "none"]}
  /\ meant' = [r \in Rows |-> meant[r] + IF r \in RowsToImport /\ preview.status[r] = "duplicate" THEN 1 ELSE 0]
  /\ UNCHANGED <<saved, finished, account, preview, toggled, ids, crossed, told>>

-----------------------------------------------------------------------------
(* The server: an id it has answered gets the first answer; else the trades *)
(* saved are read, and rows among them are left out unless they were to be *)
(* saved anyway.                                                           *)
Adds(t) == {r \in t.rows : saved[r] = 0 \/ r \in t.anyway}

NewToAnother(r) == saved[r] = 0 /\ \E u \in tries : u.answer = "working" /\ r \in u.adds

Working(t) == \E u \in tries : u.id = t.id /\ u.answer = "working"

ReadSaved(t) ==
  /\ t.answer = "none" /\ t.id \notin finished /\ ~Working(t)
  /\ tries' = (tries \ {t}) \cup {[t EXCEPT !.answer = "working", !.adds = Adds(t)]}
  /\ crossed' = [r \in Rows |-> crossed[r] + IF r \in Adds(t) /\ NewToAnother(r) THEN 1 ELSE 0]
  /\ UNCHANGED <<saved, finished, account, preview, toggled, busy, ids, meant, told>>

Answered(t, answer) == (tries \ {t}) \cup {[t EXCEPT !.answer = answer, !.adds = {}]}

(* What was new is saved: all of it, by now there or not.                  *)
Insert(t) ==
  /\ t.answer = "working"
  /\ saved' = [r \in Rows |-> saved[r] + IF r \in t.adds THEN 1 ELSE 0]
  /\ finished' = finished \cup {t.id}
  /\ tries' = Answered(t, "saved")
  /\ UNCHANGED <<account, preview, toggled, busy, ids, meant, crossed, told>>

(* Refused before the read or after it, nothing saved.                     *)
Refuse(t) ==
  /\ t.answer = "working" \/ (t.answer = "none" /\ t.id \notin finished /\ ~Working(t))
  /\ tries' = Answered(t, "refused")
  /\ UNCHANGED <<saved, finished, account, preview, toggled, busy, ids, meant, crossed, told>>

AnswerAgain(t) ==
  /\ t.answer = "none" /\ t.id \in finished
  /\ tries' = Answered(t, "again")
  /\ UNCHANGED <<saved, finished, account, preview, toggled, busy, ids, meant, crossed, told>>

FirstOfId(t) == {u \in tries : u.id = t.id /\ u.answer = "saved"}

(* The page says how many were imported, and starts over; an answer to an  *)
(* earlier try of the same id may have been for other rows.                *)
ImportArrives(t) ==
  /\ t.waited
  /\ busy' = "no"
  /\ IF t.answer \in {"saved", "again"}
     THEN Cleared /\ told' = IF \A u \in FirstOfId(t) : u.rows = t.rows THEN t.rows ELSE {}
     ELSE UNCHANGED <<preview, toggled, told>>
  /\ t.answer \notin {"none", "working"}
  /\ tries' = (tries \ {t}) \cup {[t EXCEPT !.waited = FALSE]}
  /\ UNCHANGED <<saved, finished, account, ids, meant, crossed>>

(* No answer in time: the preview stays, to be tried again.                *)
ImportLost(t) ==
  /\ t.waited
  /\ busy' = "no"
  /\ tries' = (tries \ {t}) \cup {[t EXCEPT !.waited = FALSE]}
  /\ UNCHANGED <<saved, finished, account, preview, toggled, ids, meant, crossed, told>>

Next ==
  \/ ChooseFile \/ PreviewAgain \/ BadFile \/ PreviewArrives \/ PickAccount \/ StartOver
  \/ AskToImport \/ NotNow \/ RunImport
  \/ \E r \in Rows : Toggle(r)
  \/ \E t \in tries : ReadSaved(t) \/ Insert(t) \/ Refuse(t) \/ AnswerAgain(t) \/ ImportArrives(t) \/ ImportLost(t)

Spec == Init /\ [][Next]_ivars

-----------------------------------------------------------------------------
(* However answers are lost and imports tried again, under the same or a   *)
(* new preview: a row is among the trades once, and once more only for     *)
(* each time it was seen to be a duplicate and ticked, and for each time   *)
(* the trades were read for one import, without the row, while another     *)
(* under another id had read them so and not saved yet; and the rows the   *)
(* page says were imported are there.                                      *)
SavedAsTicked ==
  /\ \A r \in Rows : saved[r] <= 1 + meant[r] + crossed[r]
  /\ \A r \in told : saved[r] > 0
  /\ \A r \in Bad : \A t \in tries : r \notin t.rows

=============================================================================
