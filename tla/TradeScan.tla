------------------------------ MODULE TradeScan ------------------------------
(***************************************************************************)
(* "Scan a screenshot" (Transactions/TradeScan.jsx, scanHelpers.js) and    *)
(* the text reader it drives (textReader.js): Apple Vision or one          *)
(* Tesseract worker, closed after a minute without a scan. A scan is       *)
(* cancelled by its AbortController: by Cancel, by the next scan, or when  *)
(* the dialog closes or something is picked. Cancelling stops most waits   *)
(* at once; two of them only notice when they are over. What the text says *)
(* is TradeText's; here it has no trade, one, or several.                  *)
(***************************************************************************)
EXTENDS Naturals, FiniteSets

CONSTANTS
  Natives,      \* whether the app's own reader is there: a set of BOOLEANs
  MaxScans,     \* bound: screenshots picked
  MaxRunning    \* bound: scans that have not noticed yet that they are cancelled

VARIABLES
  native,       \* in the app, with Apple Vision
  ai,           \* the server has the AI reading on
  consent,      \* the AI question was answered with yes on this device
  picked,       \* how many screenshots were picked
  runs,         \* scans under way: [shot, stage, aborted]
  box,          \* what TradeScan shows: [busy, error, offer, asking, several]
  image,        \* the shrunk screenshot kept for the AI reading; 0 is none
  worker,       \* Tesseract: "none", "starting", "ready"
  timer         \* the worker's idle timer is running

cvars == <<native, ai, consent, picked, runs, box, image, worker, timer>>

Blank == [busy |-> FALSE, error |-> FALSE, offer |-> FALSE, asking |-> FALSE, several |-> FALSE]

Stages == {"shrinking", "vision", "starting", "preparing", "recognizing", "checking", "options", "ai", "looking"}

(* Stages in which readWithTesseract counts the scan as reading.           *)
Tesseract == {"starting", "preparing", "recognizing"}

Reading(all) == {r \in all : r.stage \in Tesseract}

Run(shot, stage) == [shot |-> shot, stage |-> stage, aborted |-> FALSE]

Init ==
  /\ native \in Natives
  /\ ai \in BOOLEAN
  /\ consent = FALSE
  /\ picked = 0
  /\ runs = {}
  /\ box = Blank
  /\ image = 0
  /\ worker = "none"
  /\ timer = FALSE

-----------------------------------------------------------------------------
(* A slip: the timer starts whoever else is reading.                       *)
StopsAnyway(rest, w) == w # "none"

(* The worker. Whoever stops reading last starts the idle timer.           *)
StopsReading(rest, w) == Reading(rest) = {} /\ w # "none"

(* closeTextReader() for a cancelled reading; a scan that still draws its  *)
(* image is only marked, and counts as reading until it notices.           *)
Cancelled == {r \in runs : ~r.aborted}

StillRunning ==
  {[r EXCEPT !.aborted = TRUE] : r \in {q \in runs : q.stage \in {"shrinking", "preparing"}}}

AbortRuns ==
  /\ worker' = IF Reading(Cancelled) # {} THEN "none" ELSE worker
  /\ timer' = IF Reading(Cancelled) # {} THEN FALSE ELSE timer

(* freshController(): the scan before is cancelled.                        *)
Fresh(run) ==
  /\ AbortRuns
  /\ Cardinality(StillRunning) < MaxRunning
  /\ runs' = StillRunning \cup {run}

Same == UNCHANGED <<native, ai>>

(* A scan goes on to its next stage, or is over.                           *)
Goes(r, stage) == runs' = (runs \ {r}) \cup {[r EXCEPT !.stage = stage]}

Ends(r) == runs' = runs \ {r}

-----------------------------------------------------------------------------
(* What the box offers: a screenshot to pick, to cancel once the reader    *)
(* shows its progress, the AI reading beside an error, and the trades of a *)
(* screenshot that has several.                                            *)
CanScan == ~box.busy /\ ~box.asking

CanCancel == box.busy /\ \E r \in runs : ~r.aborted /\ r.stage \in Tesseract

CanTryAi == box.error /\ box.offer /\ ~box.asking

CanPick == box.several /\ ~box.busy

(* start(): the file picker opens, and may be dismissed.                   *)
Start ==
  /\ CanScan
  /\ box' = [box EXCEPT !.error = FALSE, !.offer = FALSE]
  /\ Same /\ UNCHANGED <<consent, picked, runs, image, worker, timer>>

PickFile ==
  /\ CanScan
  /\ picked < MaxScans
  /\ picked' = picked + 1
  /\ Fresh(Run(picked + 1, "shrinking"))
  /\ box' = [Blank EXCEPT !.busy = TRUE]
  /\ image' = 0
  /\ Same /\ UNCHANGED <<consent>>

Cancel ==
  /\ CanCancel
  /\ AbortRuns
  /\ runs' = StillRunning
  /\ box' = [box EXCEPT !.busy = FALSE]
  /\ Same /\ UNCHANGED <<consent, picked, image>>

(* The dialog closes, or an asset is picked: the box is mounted anew.      *)
Unmount ==
  /\ AbortRuns
  /\ runs' = StillRunning
  /\ box' = Blank
  /\ image' = 0
  /\ Same /\ UNCHANGED <<consent, picked>>

(* fail(): nothing is said of a cancelled scan.                            *)
Failed(r) ==
  /\ Ends(r)
  /\ box' = IF r.aborted THEN box ELSE [box EXCEPT !.busy = FALSE, !.error = TRUE]

(* notFound(): says so, then asks whether the server has the AI reading.   *)
NotFound(r) ==
  /\ Goes(r, "options")
  /\ box' = [box EXCEPT !.busy = FALSE, !.error = TRUE]

(* readWithTesseract() begins: the timer stops, the worker starts.         *)
StartsReading(r) ==
  /\ Goes(r, "starting")
  /\ timer' = FALSE
  /\ worker' = IF worker = "none" THEN "starting" ELSE worker
  /\ UNCHANGED box

(* shrinkImage(): not an image, or too big, is an error.                   *)
Shrunk(r) ==
  /\ r.stage = "shrinking"
  /\ \/ r.aborted /\ Ends(r) /\ UNCHANGED <<box, image, worker, timer>>
     \/ Failed(r) /\ UNCHANGED <<image, worker, timer>>
     \/ /\ ~r.aborted
        /\ image' = r.shot
        /\ \/ native /\ Goes(r, "vision") /\ UNCHANGED <<box, worker, timer>>
           \/ ~native /\ StartsReading(r)
  /\ Same /\ UNCHANGED <<consent, picked>>

(* The lines, in the end: no trade, or some for the server to check.       *)
Parsed(r) ==
  \/ Goes(r, "checking") /\ UNCHANGED box
  \/ NotFound(r)

Vision(r) ==
  /\ r.stage = "vision"
  /\ \/ Parsed(r) /\ UNCHANGED <<worker, timer>>
     \/ StartsReading(r)
  /\ Same /\ UNCHANGED <<consent, picked, image>>

(* The worker has started, or could not; then the next scan tries again.   *)
WorkerStarts ==
  /\ worker = "starting"
  /\ \/ worker' = "ready" /\ UNCHANGED <<runs, box>>
     \/ /\ worker' = "none"
        /\ \/ \E r \in runs : ~r.aborted /\ r.stage = "starting" /\ NotFound(r)
           \/ ~(\E r \in runs : ~r.aborted /\ r.stage = "starting") /\ UNCHANGED <<runs, box>>
  /\ Same /\ UNCHANGED <<consent, picked, image, timer>>

GetWorker(r) ==
  /\ r.stage = "starting" /\ worker = "ready"
  /\ Goes(r, "preparing")
  /\ Same /\ UNCHANGED <<consent, picked, box, image, worker, timer>>

Prepared(r) ==
  /\ r.stage = "preparing"
  /\ IF r.aborted
     THEN Ends(r) /\ timer' = (timer \/ StopsReading(runs \ {r}, worker))
     ELSE Goes(r, "recognizing") /\ UNCHANGED timer
  /\ Same /\ UNCHANGED <<consent, picked, box, image, worker>>

Recognized(r) ==
  /\ r.stage = "recognizing"
  /\ Parsed(r)
  /\ timer' = (timer \/ StopsReading(runs', worker))
  /\ Same /\ UNCHANGED <<consent, picked, image, worker>>

IdleClose ==
  /\ timer
  /\ timer' = FALSE
  /\ worker' = "none"
  /\ Same /\ UNCHANGED <<consent, picked, runs, box, image>>

-----------------------------------------------------------------------------
(* One trade is looked up in search, several are listed to pick from.      *)
Show(r) ==
  \/ Goes(r, "looking") /\ UNCHANGED box
  \/ Ends(r) /\ box' = [box EXCEPT !.busy = FALSE, !.several = TRUE]

(* POST /transactions/scan/fields.                                         *)
Checked(r) ==
  /\ r.stage = "checking"
  /\ Show(r) \/ NotFound(r) \/ Failed(r)
  /\ Same /\ UNCHANGED <<consent, picked, image, worker, timer>>

Options(r) ==
  /\ r.stage = "options"
  /\ Ends(r)
  /\ box' = [box EXCEPT !.offer = ai /\ image # 0]
  /\ Same /\ UNCHANGED <<consent, picked, image, worker, timer>>

(* "Try AI reading", asked once per device; storage may not remember it.   *)
SendToAi ==
  /\ image # 0
  /\ Fresh(Run(image, "ai"))

TryAi ==
  /\ CanTryAi
  /\ IF consent
     THEN SendToAi /\ box' = [box EXCEPT !.busy = TRUE, !.error = FALSE, !.offer = FALSE]
     ELSE box' = [box EXCEPT !.asking = TRUE] /\ UNCHANGED <<runs, worker, timer>>
  /\ Same /\ UNCHANGED <<consent, picked, image>>

Agree ==
  /\ box.asking
  /\ consent' \in {TRUE, consent}
  /\ SendToAi
  /\ box' = [box EXCEPT !.busy = TRUE, !.error = FALSE, !.offer = FALSE, !.asking = FALSE]
  /\ Same /\ UNCHANGED <<picked, image>>

Decline ==
  /\ box.asking
  /\ box' = [box EXCEPT !.asking = FALSE]
  /\ Same /\ UNCHANGED <<consent, picked, runs, image, worker, timer>>

AiRead(r) ==
  /\ r.stage = "ai"
  /\ Show(r) \/ Failed(r)
  /\ Same /\ UNCHANGED <<consent, picked, image, worker, timer>>

PickChoice ==
  /\ CanPick
  /\ Fresh(Run(image, "looking"))
  /\ box' = [box EXCEPT !.busy = TRUE, !.error = FALSE]
  /\ Same /\ UNCHANGED <<consent, picked, image>>

(* Found: the form opens, and the box is mounted anew; not listed: the     *)
(* search box takes over.                                                  *)
LookedUp(r) ==
  /\ r.stage = "looking"
  /\ \/ Ends(r) /\ box' = Blank /\ image' = 0
     \/ Failed(r) /\ UNCHANGED image
  /\ Same /\ UNCHANGED <<consent, picked, worker, timer>>

Next ==
  \/ Start \/ PickFile \/ Cancel \/ Unmount \/ WorkerStarts \/ IdleClose
  \/ TryAi \/ Agree \/ Decline \/ PickChoice
  \/ \E r \in runs : \/ Shrunk(r) \/ Vision(r) \/ GetWorker(r) \/ Prepared(r) \/ Recognized(r)
                     \/ Checked(r) \/ Options(r) \/ AiRead(r) \/ LookedUp(r)

Spec == Init /\ [][Next]_cvars

-----------------------------------------------------------------------------
(* The worker is never closed under a scan that reads with it, and one     *)
(* nobody reads with is always about to be closed: its memory comes back.  *)
WorkerServesScans ==
  /\ \A r \in runs : ~r.aborted =>
       /\ r.stage = "starting" => worker # "none"
       /\ r.stage \in {"preparing", "recognizing"} => worker = "ready"
  /\ worker # "none" /\ Reading(runs) = {} => timer

(* The box is busy exactly while a scan not cancelled is under way (other  *)
(* than to ask for the AI reading), there is only one, it is of the        *)
(* screenshot picked last, and so is what the AI is sent.                  *)
BusyWithTheNewest ==
  /\ box.busy = (\E r \in runs : ~r.aborted /\ r.stage # "options")
  /\ Cardinality({r \in runs : ~r.aborted}) <= 1
  /\ \A r \in runs : ~r.aborted => r.shot = picked
  /\ box.asking \/ box.offer => image = picked

(* Whatever is cancelled, picked or answered when: the worker serves the   *)
(* scan under way, and the box shows the scan of the newest screenshot.    *)
ScansKeepUp == WorkerServesScans /\ BusyWithTheNewest

=============================================================================
