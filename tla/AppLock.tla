------------------------------ MODULE AppLock ------------------------------
(***************************************************************************)
(* The iPhone app's start and its Face ID lock: the sign in restored from  *)
(* the Keychain (native/secureToken.js), the first render, at the latest   *)
(* after three seconds (main.jsx), the lock that covers the portfolio      *)
(* (native/AppLock.jsx, lockRules.js) and the Face ID sheet                *)
(* (native/biometric.js). iOS events, the end of a sheet, the answers of   *)
(* the Keychain and of the preferences arrive in any order, and any call   *)
(* to them may fail; iOS may stop the app and may clear the web view's     *)
(* storage. Of time only two lengths matter: whether the app was away      *)
(* longer than the grace period, and whether the sheet's own events are    *)
(* still to be expected.                                                   *)
(***************************************************************************)
EXTENDS Naturals, Sequences

CONSTANTS
  MaxSignIns,   \* bound: sign ins, each a token of its own; 0 is none
  MaxTroubles   \* bound: times the app is stopped or a call to the phone fails

VARIABLES
  start,        \* initNative(): "off"; restore()'s awaits, see Waiting; "reading" the setting, "ready"
  rendered,     \* the first render has happened
  front,        \* iOS: "active", "inactive" (a sheet, Control Center), "background"
  installed,    \* the mark a first launch leaves in the app's preferences
  token,        \* localStorage's token
  keychain,     \* the Keychain's copy
  writes,       \* Keychain calls on their way, oldest first
  found,        \* what the Keychain answered restore()
  setting,      \* the saved lock setting
  switching,    \* calls that save it on their way, oldest first
  lock,         \* AppLock's state
  sheets,       \* Face ID sheets asked for: "unlock", and "setting" on the account page
  promptOpen,   \* biometric.js's flag
  settling,     \* a sheet closed less than a moment ago
  history       \* what really happened, see Init

phone    == <<start, rendered, front, installed>>
mirror   == <<token, keychain, writes, found>>
settings == <<setting, switching>>
screen   == <<lock, sheets, promptOpen, settling>>

lvars == <<phone, mirror, settings, screen, history>>

Signed(t) == t # 0

Earlier == MaxSignIns + 1  \* a sign in of before

-----------------------------------------------------------------------------
(* lockRules.js: `enabled` may be "unknown" while the setting is not read. *)

InitiallyLocked(enabled, signedIn) ==
  IF enabled = "unknown" THEN TRUE ELSE enabled = "on" /\ signedIn

OnStartup(read, signedIn) == IF ~signedIn \/ read = "off" THEN "open" ELSE "ask"

(* A slip: never while a Face ID sheet is up. *)
CoversWithoutSheet(enabled, signedIn, backgrounded) == enabled /\ signedIn /\ ~promptOpen

Covers(enabled, signedIn, backgrounded) == enabled /\ signedIn /\ (promptOpen => backgrounded)

OnReturn(l, away) ==
  IF ~l.enabled \/ ~Signed(token) \/ settling \/ promptOpen \/ ~l.locked THEN "ignore"
  ELSE IF away = "short" /\ l.unlockedWhenLeft THEN "unlock"
  ELSE "ask"

-----------------------------------------------------------------------------
(* Before the first render AppLock does not exist.                         *)
NoLock == [enabled |-> FALSE, locked |-> FALSE, pending |-> FALSE,
           unlockedWhenLeft |-> FALSE, coveredThisTrip |-> FALSE]

(* `owed`: nobody was checked since the app was opened or last away for    *)
(* long; `late`: a check succeeded, the setting was turned on or the       *)
(* Keychain answered after the app was left or the lock had stopped        *)
(* waiting for it; `quick`: a quick return opened a lock that was closed   *)
(* when the app was left; `lockedWhenLeft`: it was closed then and no      *)
(* check has opened it since; `torn`: the Keychain call of the last sign   *)
(* in or out failed or was lost, or met a restore that was waiting, or     *)
(* the restore's own calls failed.                                         *)
Init ==
  /\ start = "off"
  /\ rendered = FALSE
  /\ front = "active"
  /\ installed \in BOOLEAN
  /\ token = 0
  /\ keychain \in {0, Earlier}
  /\ writes = <<>>
  /\ found = 0
  /\ setting \in {"on", "off"}
  /\ setting = "on" => installed
  /\ switching = <<>>
  /\ lock = NoLock
  /\ sheets = {}
  /\ promptOpen = FALSE
  /\ settling = FALSE
  /\ history = [signIns |-> 0, troubles |-> 0, owed |-> TRUE, late |-> FALSE, quick |-> FALSE,
                lockedWhenLeft |-> FALSE, torn |-> FALSE]

(* initNative() starts: iOS may have cleared localStorage since.           *)
Launch ==
  /\ start = "off"
  /\ start' = "restoring"
  /\ token' \in {token, 0}
  /\ front' = "active"
  /\ UNCHANGED <<rendered, installed, keychain, writes, found, settings, screen, history>>

Trouble(h) == [h EXCEPT !.troubles = @ + 1]

CanGoWrong == history.troubles < MaxTroubles

-----------------------------------------------------------------------------
(* restore(), from one await to the next.                                  *)

(* The Keychain's answer is waited for, to a deletion or to a question.    *)
Waiting == {"clearing", "marking", "asking", "answered"}

Done == {"reading", "ready"}

(* The mark is read: on a fresh install a token left by an earlier one is  *)
(* removed; else one missing in storage is asked for.                      *)
LookUp ==
  /\ start = "restoring"
  /\ start' = IF ~installed THEN "clearing" ELSE IF Signed(token) THEN "reading" ELSE "asking"
  /\ history' = [history EXCEPT !.torn = @ \/ (start' \in Waiting /\ (Signed(token) \/ writes # <<>>))]
  /\ UNCHANGED <<rendered, front, installed, mirror, settings, screen>>

Clear(works) ==
  /\ start = "clearing"
  /\ start' = "marking"
  /\ IF works
     THEN keychain' = 0 /\ UNCHANGED history
     ELSE CanGoWrong /\ history' = Trouble([history EXCEPT !.torn = TRUE]) /\ UNCHANGED keychain
  /\ UNCHANGED <<rendered, front, installed, token, writes, found, settings, screen>>

Mark(works) ==
  /\ start = "marking"
  /\ start' = "reading"
  /\ installed' = works
  /\ IF works THEN UNCHANGED history ELSE CanGoWrong /\ history' = Trouble(history)
  /\ UNCHANGED <<rendered, front, mirror, settings, screen>>

KeychainAnswers ==
  /\ start = "asking"
  /\ start' = "answered"
  /\ found' = keychain
  /\ UNCHANGED <<rendered, front, installed, token, keychain, writes, settings, screen, history>>

(* The token found is stored, whatever is there by now. After a slow start *)
(* the lock may be open: the wait is over, or a request of the screens     *)
(* behind it found the session expired.                                    *)
Restore ==
  /\ start = "answered"
  /\ start' = "reading"
  /\ token' = IF Signed(found) THEN found ELSE token
  /\ found' = 0
  /\ history' = [history EXCEPT !.late = @ \/ (rendered /\ token' # token /\ ~(lock.pending /\ lock.locked))]
  /\ UNCHANGED <<rendered, front, installed, keychain, writes, settings, screen>>

(* The mark cannot be read, or the Keychain: nothing is restored.          *)
RestoreFails ==
  /\ start \in {"restoring", "asking"}
  /\ start' = "reading"
  /\ CanGoWrong
  /\ history' = Trouble([history EXCEPT !.torn = TRUE])
  /\ UNCHANGED <<rendered, front, installed, mirror, settings, screen>>

-----------------------------------------------------------------------------
(* The app renders, with the lock's setting if both were known in time.    *)
Rendered(known) ==
  /\ rendered' = TRUE
  /\ start' = IF start = "reading" THEN "ready" ELSE start
  /\ lock' = [NoLock EXCEPT !.enabled = known # "off", !.pending = known = "unknown",
                            !.locked = InitiallyLocked(known, Signed(token))]
  /\ sheets' = IF known # "unknown" /\ lock'.locked THEN {"unlock"} ELSE {}
  /\ promptOpen' = (sheets' # {})
  /\ UNCHANGED <<front, installed, mirror, settings, settling, history>>

Render ==
  /\ ~rendered
  /\ \/ start = "reading" /\ Rendered(setting)
     \/ start # "off" /\ Rendered("unknown")

-----------------------------------------------------------------------------
Covered(l) == [l EXCEPT !.locked = TRUE]

Opened(l) == [l EXCEPT !.locked = FALSE]

(* unlock(): one sheet at a time.                                          *)
Ask ==
  /\ sheets' = sheets \cup {"unlock"}
  /\ promptOpen' = (promptOpen \/ "unlock" \notin sheets)

(* The end of a slow start: both are known, or ten seconds have passed.    *)
Decide(read) ==
  /\ rendered /\ lock.pending
  /\ read \in {setting, "unknown"}
  /\ LET known == [lock EXCEPT !.pending = FALSE, !.enabled = @ /\ read # "off"]
     IN IF OnStartup(read, Signed(token)) = "open"
        THEN lock' = Opened(known) /\ UNCHANGED <<sheets, promptOpen>>
        ELSE lock' = known /\ Ask
  /\ UNCHANGED <<phone, mirror, settings, settling, history>>

(* A Face ID sheet ends. The flag is shared by all sheets. A check for the *)
(* setting goes on to save the opposite of it.                             *)
SheetEnds(sheet, verified) ==
  /\ sheet \in sheets
  /\ sheets' = sheets \ {sheet}
  /\ promptOpen' = FALSE
  /\ settling' = TRUE
  /\ IF sheet = "unlock"
     THEN lock' = (IF verified THEN Opened(lock) ELSE lock) /\ UNCHANGED switching
     ELSE /\ switching' = IF verified THEN Append(switching, IF setting = "on" THEN "off" ELSE "on") ELSE switching
          /\ UNCHANGED lock
  /\ history' = [history EXCEPT !.owed = @ /\ ~verified,
                                !.lockedWhenLeft = @ /\ lock'.locked,
                                !.late = @ \/ (verified /\ front = "background")]
  /\ UNCHANGED <<phone, mirror, setting>>

Settled ==
  /\ settling
  /\ settling' = FALSE
  /\ UNCHANGED <<phone, mirror, settings, lock, sheets, promptOpen, history>>

(* The account page's switch asks for Face ID, both ways, unless the last  *)
(* switch is still being saved.                                            *)
ToggleLock ==
  /\ rendered /\ front = "active" /\ Signed(token) /\ ~lock.locked
  /\ sheets = {} /\ switching = <<>>
  /\ sheets' = {"setting"}
  /\ promptOpen' = TRUE
  /\ UNCHANGED <<phone, mirror, settings, lock, settling, history>>

(* setLockEnabled(): the preferences have saved the setting, which is then *)
(* announced to the lock, or they failed to.                               *)
SettingSaved(works) ==
  /\ switching # <<>>
  /\ switching' = Tail(switching)
  /\ IF works
     THEN /\ setting' = Head(switching)
          /\ lock' = [lock EXCEPT !.enabled = Head(switching) = "on"]
          /\ history' = [history EXCEPT !.late = @ \/ (lock'.enabled /\ (front = "background" \/ history.owed))]
     ELSE CanGoWrong /\ history' = Trouble(history) /\ UNCHANGED <<setting, lock>>
  /\ UNCHANGED <<phone, mirror, sheets, promptOpen, settling>>

(* The lock screen's own button.                                           *)
TapUnlock ==
  /\ rendered /\ front = "active" /\ lock.locked /\ ~lock.pending
  /\ "unlock" \notin sheets
  /\ Ask
  /\ UNCHANGED <<phone, mirror, settings, lock, settling, history>>

-----------------------------------------------------------------------------
(* iOS: inactive does not lock, really leaving does, also while a sheet is *)
(* up. The first covering event of a trip says whether it was unlocked.    *)
GoInactive ==
  /\ front = "active"
  /\ front' = "inactive"
  /\ history' = [history EXCEPT !.lockedWhenLeft = lock.locked]
  /\ UNCHANGED <<start, rendered, installed, mirror, settings, screen>>

Left(l) ==
  IF ~rendered \/ ~Covers(l.enabled, Signed(token), TRUE) THEN l
  ELSE [Covered(l) EXCEPT !.unlockedWhenLeft = IF l.coveredThisTrip THEN @ ELSE ~l.locked,
                          !.coveredThisTrip = TRUE]

Pause ==
  /\ front = "inactive"
  /\ front' = "background"
  /\ lock' = Left(lock)
  /\ UNCHANGED <<start, rendered, installed, mirror, settings, sheets, promptOpen, settling, history>>

Resume(away) ==
  /\ front # "active"
  /\ front' = "active"
  /\ LET back == [lock EXCEPT !.coveredThisTrip = FALSE]
         action == IF rendered THEN OnReturn(lock, away) ELSE "ignore"
     IN /\ history' = [history EXCEPT !.owed = @ \/ (front = "background" /\ away = "long"),
                                      !.lockedWhenLeft = FALSE,
                                      !.quick = @ \/ (action = "unlock" /\ history.lockedWhenLeft)]
        /\ lock' = IF ~rendered THEN lock ELSE IF action = "unlock" THEN Opened(back) ELSE back
        /\ IF action = "ask" THEN Ask ELSE UNCHANGED <<sheets, promptOpen>>
  /\ UNCHANGED <<start, rendered, installed, mirror, settings, settling>>

-----------------------------------------------------------------------------
(* A slip: only a sign in is mirrored. *)
MirrorSignIn(t) ==
  /\ token' = t
  /\ writes' = IF Signed(t) THEN Append(writes, t) ELSE writes

(* Signing in and out mirrors the token into the Keychain; the call makes  *)
(* up for those before it, unless the restore is waiting.                  *)
Mirror(t) ==
  /\ token' = t
  /\ writes' = Append(writes, t)

Mended(h) == [h EXCEPT !.torn = start \in Waiting]

SignIn ==
  /\ rendered /\ front = "active" /\ ~lock.locked /\ ~Signed(token)
  /\ history.signIns < MaxSignIns
  /\ Mirror(history.signIns + 1)
  /\ history' = Mended([history EXCEPT !.signIns = @ + 1, !.owed = FALSE])
  /\ UNCHANGED <<phone, keychain, found, settings, screen>>

(* Signing out on purpose, also from the lock screen, resets the setting.  *)
SignOut ==
  /\ rendered /\ front = "active" /\ Signed(token) /\ ~lock.pending
  /\ Mirror(0)
  /\ switching' = Append(switching, "off")
  /\ lock' = Opened(lock)
  /\ history' = Mended(history)
  /\ UNCHANGED <<phone, keychain, found, setting, sheets, promptOpen, settling>>

(* An expired session keeps the setting, and leaves nothing to protect.    *)
Expire ==
  /\ rendered /\ Signed(token)
  /\ Mirror(0)
  /\ lock' = Opened(lock)
  /\ history' = Mended(history)
  /\ UNCHANGED <<phone, keychain, found, settings, sheets, promptOpen, settling>>

KeychainCall(works) ==
  /\ writes # <<>>
  /\ writes' = Tail(writes)
  /\ IF works
     THEN keychain' = Head(writes) /\ UNCHANGED history
     ELSE /\ CanGoWrong
          /\ history' = Trouble([history EXCEPT !.torn = @ \/ writes' = <<>>])
          /\ UNCHANGED keychain
  /\ UNCHANGED <<phone, token, found, settings, screen>>

(* iOS stops the app: what was in memory or on its way is gone.            *)
Kill ==
  /\ start # "off"
  /\ CanGoWrong
  /\ start' = "off"
  /\ rendered' = FALSE
  /\ front' = "active"
  /\ writes' = <<>>
  /\ found' = 0
  /\ switching' = <<>>
  /\ lock' = NoLock
  /\ sheets' = {}
  /\ promptOpen' = FALSE
  /\ settling' = FALSE
  /\ history' = Trouble([history EXCEPT !.owed = TRUE, !.late = FALSE, !.quick = FALSE,
                                        !.lockedWhenLeft = FALSE, !.torn = @ \/ writes # <<>>])
  /\ UNCHANGED <<installed, token, keychain, setting>>

Next ==
  \/ Launch \/ LookUp \/ KeychainAnswers \/ Restore \/ RestoreFails \/ Render
  \/ Settled \/ ToggleLock \/ TapUnlock
  \/ \E works \in BOOLEAN : Clear(works) \/ Mark(works) \/ SettingSaved(works) \/ KeychainCall(works)
  \/ \E read \in {"on", "off", "unknown"} : Decide(read)
  \/ \E sheet \in sheets, verified \in BOOLEAN : SheetEnds(sheet, verified)
  \/ GoInactive \/ Pause
  \/ \E away \in {"short", "long"} : Resume(away)
  \/ SignIn \/ SignOut \/ Expire \/ Kill

Spec == Init /\ [][Next]_lvars

-----------------------------------------------------------------------------
(* With the lock on, the portfolio is on the screen only after a check (or *)
(* a sign in) since the app was opened or last away for long. Three ways   *)
(* around it are excepted: a check, a setting turned on or a Keychain      *)
(* answer that came after the app was left or the lock had stopped         *)
(* waiting, and a quick return to an app that was locked when it was left, *)
(* which QuickReturnOpensOnlyUnlocked is about.                            *)
ShownOnlyWhenChecked ==
  rendered /\ front = "active" /\ lock.enabled /\ Signed(token) /\ ~lock.locked
    => ~history.owed \/ history.late \/ history.quick

(* A quick return opens only a lock that was open when the app was left,   *)
(* or was opened by a check since: "Being locked when leaving (e.g. after  *)
(* cancelling Face ID) never counts" (AppLock.jsx, its opening comment).   *)
(* Not claimed after a check or an answer that came too late.              *)
QuickReturnOpensOnlyUnlocked ==
  [][front # "active" /\ front' = "active" /\ lock.locked /\ ~lock'.locked
       => ~history.lockedWhenLeft \/ history.late]_lvars

(* Once the calls under way are made the Keychain holds what storage       *)
(* holds, so a token iOS clears comes back and a signed out one does not,  *)
(* unless the last sign in or out was itself cut off: its call failed, was *)
(* lost with the app, or met a restore still waiting for the Keychain.     *)
KeychainFollows ==
  start \in Done /\ writes = <<>> /\ ~history.torn => keychain = token

=============================================================================
