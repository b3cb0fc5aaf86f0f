------------------------------ MODULE Accounts ------------------------------
(***************************************************************************)
(* One account from sign up to deletion: the sign in forms, the account    *)
(* page (pages/UserPage.jsx) and the handlers they reach                   *)
(* (routes/assets.py, routes/oauth.py, UserManager in db_models/assets.py, *)
(* VersionedJWTStrategy), with the sweep of unconfirmed sign ups.          *)
(*                                                                         *)
(* A sign in is kept out by a number: a token carries the account's        *)
(* version and stops working once the account has another. A handler loads *)
(* the account, checks, hashes in a thread and then saves, and other       *)
(* requests run in between; Load, Save and Finish are those stages, Link   *)
(* one more of Google's. Every password is a new one and is known by its   *)
(* number. A link stays in its email for good, and an email that gets lost *)
(* is one whose link nobody opens; rate limits are left out.               *)
(***************************************************************************)
EXTENDS Naturals, FiniteSets

CONSTANTS
  None,
  Devices,
  Apps,         \* the devices that run the iPhone app; links and Google's answer open in a browser
  MaxRequests,  \* bound: requests ever sent, clicks on a confirmation link aside
  MaxAtOnce,    \* bound: requests on their way at once
  MaxEmails     \* bound: addresses the account may have had

VARIABLES
  account,      \* the row of the users table
  links,        \* links sent by email: of an address to confirm, of a password to reset
  token,        \* [Devices -> None or the token in localStorage]
  requests,     \* requests being served or answered
  asked,        \* how many were sent, for the bound
  stale,        \* whether the sweep has read this account as one to delete
  history       \* [confirmed: an address of the account was once confirmed,
                \*  crossed: a password change was saved over, or read back, another sign out everywhere,
                \*  outlived: a Google sign in read the account after a sign out everywhere that came after its proof,
                \*  stopped: the server stopped between the two saves of a reset,
                \*  halfway: the server stopped, or the email was changed, between the two saves of a confirmation,
                \*  late: the address was confirmed after the sweep had read the account]

avars == <<account, links, token, requests, asked, stale, history>>

AtLogin == {"login", "reset", "google"}

NeedsPassword == {"password", "email", "delete"}

Forms == AtLogin \cup NeedsPassword \cup {"everywhere", "renew", "verify"}

There == account.is = "there"

(* read_token and current_active_user: the version must still be the       *)
(* account's. `since` and `password` are history: the version and the      *)
(* password the person had proved themselves with.                         *)
Valid(t) == t # None /\ There /\ account.verified /\ t.version = account.version

Token(version, since, password) == [version |-> version, since |-> since, password |-> password]

SignedOutEverywhere == account.version + 1

Seen == [version |-> account.version, password |-> account.password, known |-> account.known]

-----------------------------------------------------------------------------
Init ==
  /\ account = [is |-> "none", verified |-> FALSE, confirmed |-> FALSE, email |-> 0, password |-> 0,
                version |-> 0, linked |-> FALSE, known |-> TRUE]
  /\ links = {}
  /\ token = [d \in Devices |-> None]
  /\ requests = {}
  /\ asked = 0
  /\ stale = FALSE
  /\ history = [confirmed |-> FALSE, crossed |-> FALSE, outlived |-> FALSE, stopped |-> FALSE, halfway |-> FALSE,
                late |-> FALSE]

(* Links go out by email in the background.                                *)
Emailed(link) == links' = links \cup {link}

ToConfirm(address) == [kind |-> "verify", of |-> address]

(* SignupForm's request: the account waits for its link.                   *)
SignUp ==
  /\ account.is = "none"
  /\ account' = [account EXCEPT !.is = "there"]
  /\ Emailed(ToConfirm(0))
  /\ UNCHANGED <<token, requests, asked, stale, history>>

(* "Resend email" under "Check your inbox", and with the refusal of a log  *)
(* in to an account not confirmed.                                         *)
ResendVerification ==
  /\ There /\ ~account.verified
  /\ Emailed(ToConfirm(account.email))
  /\ UNCHANGED <<account, token, requests, asked, stale, history>>

(* ForgotPasswordPage: the link names the password it may replace.         *)
ForgotPassword ==
  /\ There
  /\ Emailed([kind |-> "reset", of |-> account.password])
  /\ UNCHANGED <<account, token, requests, asked, stale, history>>

-----------------------------------------------------------------------------
(* The forms. Log in and Google are skipped by whoever is signed in; the   *)
(* pages behind an emailed link open in a browser, signed in or not.       *)
LoginForm(d) == token[d] = None

GoogleButton(d) == token[d] = None /\ d \notin Apps

Addressed(kind) == {link.of : link \in {l \in links : l.kind = kind}}

ResetForm(d) == d \notin Apps /\ Addressed("reset") # {}

VerifyPage(d) == d \notin Apps /\ Addressed("verify") # {}

(* The account page: what needs the current password is replaced by a hint *)
(* for an account that has none.                                           *)
EmailForm(d) == token[d] # None /\ account.known

LogoutAllButton(d) == token[d] # None

PasswordCard(d) == token[d] # None /\ account.known

DeleteForm(d) == token[d] # None /\ account.known

Offered(d, form) ==
  CASE form = "login"      -> LoginForm(d)
    [] form = "google"     -> GoogleButton(d)
    [] form = "reset"      -> ResetForm(d)
    [] form = "verify"     -> VerifyPage(d)
    [] form = "email"      -> EmailForm(d)
    [] form = "everywhere" -> LogoutAllButton(d)
    [] form = "password"   -> PasswordCard(d)
    [] form = "delete"     -> DeleteForm(d)
    [] form = "renew"      -> token[d] # None

(* Who comes from Google has proved to be its person before the request is *)
(* sent.                                                                   *)
Request(d, form, of) ==
  [device |-> d, form |-> form, of |-> of, sent |-> IF form = "verify" THEN None ELSE token[d], stage |-> "sent",
   seen |-> IF form = "google" THEN Seen ELSE None, changes |-> {}, outcome |-> "none", got |-> None]

(* Each is disabled while its request is out. *)
Submit(d, form) ==
  /\ Offered(d, form)
  /\ ~\E r \in requests : r.device = d /\ r.form = form
  /\ Cardinality(requests) < MaxAtOnce
  /\ IF form = "verify" THEN UNCHANGED asked ELSE asked < MaxRequests /\ asked' = asked + 1
  /\ \E of \in IF form \in {"reset", "verify"} THEN Addressed(form) ELSE {0} :
        requests' = requests \cup {Request(d, form, of)}
  /\ UNCHANGED <<account, links, token, stale, history>>

Log_out(d) ==
  /\ token[d] # None
  /\ token' = [token EXCEPT ![d] = None]
  /\ UNCHANGED <<account, links, requests, asked, stale, history>>

-----------------------------------------------------------------------------
(* The server.                                                             *)
Becomes(r, changed) == requests' = (requests \ {r}) \cup {changed}

Answer(r, outcome) == Becomes(r, [r EXCEPT !.stage = "answered", !.outcome = outcome, !.seen = None])

AnswerToken(r, t) == Becomes(r, [r EXCEPT !.stage = "answered", !.outcome = "token", !.got = t, !.seen = None])

(* Google's person is this account's: found by the link, else by the       *)
(* address it signed up with, else made. After its deletion, or another    *)
(* address without a link, theirs would be another account.                *)
OfGoogle == account.is = "none" \/ (There /\ (account.linked \/ account.email = 0))

(* What the checks of a handler let through once the account is loaded: a  *)
(* token that works, a confirmed account and its password, a reset link of *)
(* the password still in use, a link of the address to be confirmed.       *)
MayGoOn(r) ==
  CASE r.form = "login"  -> There /\ account.verified /\ account.known
    [] r.form = "reset"  -> There /\ r.of = account.password
    [] r.form = "google" -> OfGoogle
    [] r.form = "verify" -> There /\ ~account.verified /\ r.of = account.email
    [] OTHER             -> Valid(r.sent)

(* google_callback looks the account up only to see whether its password   *)
(* is to be replaced, and whether there is one at all.                     *)
LookedUp(r) ==
  [r EXCEPT !.stage = IF There /\ ~account.linked THEN "checked" ELSE "saved",
            !.seen.known = account.known,
            !.changes = IF There THEN {} ELSE {"known"}]

Load(r) ==
  /\ r.stage = "sent"
  /\ \/ /\ MayGoOn(r)
        /\ r.form \in NeedsPassword => account.known
        /\ Becomes(r, IF r.form = "google" THEN LookedUp(r) ELSE [r EXCEPT !.stage = "checked", !.seen = Seen])
     \/ ~MayGoOn(r) /\ Answer(r, IF r.form \in AtLogin \cup {"verify"} THEN "refused" ELSE "expired")
     \/ (r.form = "login" \/ r.form \in NeedsPassword) /\ MayGoOn(r) /\ Answer(r, "refused")
  /\ UNCHANGED <<account, links, token, asked, stale, history>>

Crosses(r) == r.form = "password" /\ account.version # r.seen.version

Outlives(r) == r.form = "google" /\ account.version # r.seen.version

(* An address was confirmed, and the account is not marked so.             *)
Halfway == history.confirmed /\ ~account.confirmed

(* sign_out_everywhere with what else the handler saves in that update: of *)
(* `known` (has_password) only what differs from the account as loaded.    *)
Saved(r) ==
  CASE r.form = "password"   -> [account EXCEPT !.version = SignedOutEverywhere, !.password = @ + 1]
    [] r.form = "everywhere" -> [account EXCEPT !.version = SignedOutEverywhere]
    [] r.form = "email"      -> [account EXCEPT !.version = SignedOutEverywhere, !.email = @ + 1, !.verified = FALSE]
    [] r.form = "delete"     -> [account EXCEPT !.is = "deleted"]
    [] r.form = "reset"      -> [account EXCEPT !.password = @ + 1]
    [] r.form = "verify"     -> [account EXCEPT !.verified = TRUE]
    [] r.form = "google"     -> [account EXCEPT !.version = SignedOutEverywhere, !.password = @ + 1,
                                                !.known = @ /\ ~r.seen.known]

Save(r) ==
  /\ r.stage = "checked" /\ r.form \notin {"login", "renew"}
  /\ r.form = "email" => account.email < MaxEmails
  /\ IF There
     THEN /\ account' = Saved(r)
          /\ IF r.form = "email" THEN Emailed(ToConfirm(account.email + 1)) ELSE UNCHANGED links
          /\ history' = [history EXCEPT !.confirmed = @ \/ r.form = "verify",
                                        !.crossed   = @ \/ Crosses(r),
                                        !.outlived  = @ \/ Outlives(r),
                                        !.halfway   = @ \/ (r.form = "email" /\ Halfway),
                                        !.late      = @ \/ (r.form = "verify" /\ stale)]
          /\ IF r.form \in {"password", "reset", "google", "verify"}
             THEN Becomes(r, [r EXCEPT !.stage = "saved", !.seen = IF Outlives(r) THEN @ ELSE Seen'])
             ELSE Answer(r, "done")
     ELSE Answer(r, "refused") /\ UNCHANGED <<account, links, history>>
  /\ UNCHANGED <<token, asked, stale>>

(* A slip: the token takes the version of when it is written. *)
WrittenOfNow(r) ==
  Token(account.version, IF r.form = "renew" THEN r.sent.since ELSE r.seen.version,
        IF r.form = "renew" THEN r.sent.password ELSE r.seen.password)

(* write_token: of the account as loaded for a sign in or a renewal, as    *)
(* read back after the save for a password change and for what a Google    *)
(* sign in still had to save.                                              *)
Written(r) ==
  CASE r.form = "login"    -> Token(r.seen.version, r.seen.version, r.seen.password)
    [] r.form = "renew"    -> Token(r.seen.version, r.sent.since, r.sent.password)
    [] r.form = "password" -> Token(account.version, r.seen.version, r.seen.password)
    [] r.form = "google"   -> Token(account.version, r.seen.version, r.seen.password)

(* oauth_callback: the account is read, and linked or made.                *)
Linked == [account EXCEPT !.is = "there", !.linked = TRUE, !.verified = @ \/ account.is = "none"]

(* What is still to be said of the account read: that Google has confirmed *)
(* its address, that nobody knows the password it was made with.           *)
ToBeSaved(r, user) ==
  {c \in r.changes : user.known} \cup
  IF user.email = 0 THEN {c \in {"verified", "confirmed"} : ~user[c]} ELSE {}

Link(r) ==
  /\ r.form = "google" /\ r.stage = "saved"
  /\ IF OfGoogle
     THEN /\ account' = Linked
          /\ history' = [history EXCEPT !.confirmed = @ \/ account.is = "none", !.outlived = @ \/ Outlives(r)]
          /\ Becomes(r, [r EXCEPT !.stage = "linked", !.changes = ToBeSaved(r, Linked), !.got = Written(r)])
     ELSE Answer(r, "refused") /\ UNCHANGED <<account, history>>
  /\ UNCHANGED <<links, token, asked, stale>>

Changed(r) ==
  [account EXCEPT !.verified  = @ \/ "verified" \in r.changes,
                  !.confirmed = @ \/ "confirmed" \in r.changes,
                  !.known     = @ /\ "known" \notin r.changes]

(* A change, or a name it lacks, is saved and the account read back; with  *)
(* nothing to save the token is of the account as it was linked.           *)
GoogleEnds(r) ==
  /\ r.form = "google" /\ r.stage = "linked"
  /\ \/ /\ There
        /\ account' = Changed(r) /\ AnswerToken(r, Written(r))
        /\ history' = [history EXCEPT !.confirmed = @ \/ "confirmed" \in r.changes,
                                      !.outlived  = @ \/ Outlives(r),
                                      !.late      = @ \/ ("confirmed" \in r.changes /\ stale)]
     \/ r.changes = {} /\ AnswerToken(r, r.got) /\ UNCHANGED <<account, history>>
     \/ ~There /\ Answer(r, "refused") /\ UNCHANGED <<account, history>>
  /\ UNCHANGED <<links, token, asked, stale>>

(* The second save: of a reset, which signs out every session of the old   *)
(* password, and of a confirmation, which marks the account for good.      *)
SavedAgain(r) ==
  CASE r.form = "reset"  -> [account EXCEPT !.version = SignedOutEverywhere, !.known = @ \/ ~r.seen.known]
    [] r.form = "verify" -> [account EXCEPT !.confirmed = TRUE]

(* What follows the save, or the check of a sign in: the token, or that    *)
(* second save.                                                            *)
Finish(r) ==
  /\ r.form # "google"
  /\ r.stage = IF r.form \in {"login", "renew"} THEN "checked" ELSE "saved"
  /\ IF r.form \in {"reset", "verify"}
     THEN /\ account' = IF There THEN SavedAgain(r) ELSE account
          /\ Answer(r, IF There THEN "done" ELSE "refused")
     ELSE UNCHANGED account /\ AnswerToken(r, Written(r))
  /\ history' = [history EXCEPT !.crossed = @ \/ Crosses(r)]
  /\ UNCHANGED <<links, token, asked, stale>>

Resetting == \E r \in requests : r.form = "reset" /\ r.stage = "saved"

(* The process stops: what was being served is lost where it stood.        *)
Restart ==
  /\ \E r \in requests : r.stage # "answered"
  /\ requests' = {r \in requests : r.stage = "answered"}
  /\ history' = [history EXCEPT !.stopped = @ \/ Resetting, !.halfway = @ \/ Halfway]
  /\ stale' = FALSE
  /\ UNCHANGED <<account, links, token, asked>>

-----------------------------------------------------------------------------
(* The pages.                                                              *)
Keeps(r, t) == token' = [token EXCEPT ![r.device] = t]

(* The form shows why and can be sent again.                               *)
Refused(r) == r.outcome = "refused" /\ UNCHANGED token

(* sessionExpired(): only the token that was sent is taken away.           *)
Expired(r) ==
  /\ r.outcome = "expired"
  /\ Keeps(r, IF token[r.device] = r.sent THEN None ELSE token[r.device])

LoggedIn(r) == r.form = "login" /\ r.outcome = "token" /\ Keeps(r, r.got)

(* OAuthCallbackPage: Google's redirect brings the token.                  *)
CameBack(r) == r.form = "google" /\ r.outcome = "token" /\ Keeps(r, r.got)

(* The reset page and the page of the confirmation say so.                 *)
ToldDone(r) == r.form \in {"reset", "verify"} /\ r.outcome = "done" /\ UNCHANGED token

(* A renewal replaces only the token it was asked with; a password change  *)
(* saves its token whenever it is answered.                                *)
Renewed(r) ==
  /\ r.form = "renew" /\ r.outcome = "token"
  /\ Keeps(r, IF token[r.device] = r.sent THEN r.got ELSE token[r.device])

PasswordChanged(r) == r.form = "password" /\ r.outcome = "token" /\ Keeps(r, r.got)

(* These sign this device out too, whoever is signed in by then.           *)
EmailChanged(r) == r.form = "email" /\ r.outcome = "done" /\ Keeps(r, None)

LoggedOutEverywhere(r) == r.form = "everywhere" /\ r.outcome = "done" /\ Keeps(r, None)

AccountDeleted(r) == r.form = "delete" /\ r.outcome = "done" /\ Keeps(r, None)

Receive(r) ==
  /\ r.stage = "answered"
  /\ requests' = requests \ {r}
  /\ \/ Refused(r) \/ Expired(r) \/ LoggedIn(r) \/ CameBack(r) \/ ToldDone(r) \/ Renewed(r)
     \/ PasswordChanged(r) \/ EmailChanged(r) \/ LoggedOutEverywhere(r) \/ AccountDeleted(r)
  /\ UNCHANGED <<account, links, asked, stale, history>>

(* An answer is lost: the form shows an error and may be sent again. A     *)
(* request that is lost might as well not have been sent.                  *)
Lose(r) ==
  /\ r.stage = "answered"
  /\ requests' = requests \ {r}
  /\ UNCHANGED <<account, links, token, asked, stale, history>>

-----------------------------------------------------------------------------
(* A slip: an account whose owner changed the email counts as unconfirmed. *)
NotVerified == There /\ ~account.verified

(* The sweep of sign ups older than a week: read first, then deleted by id.*)
Abandoned == There /\ ~account.verified /\ ~account.confirmed

SweepReads ==
  /\ ~stale /\ Abandoned
  /\ stale' = TRUE
  /\ UNCHANGED <<account, links, token, requests, asked, history>>

SweepDeletes ==
  /\ stale
  /\ stale' = FALSE
  /\ account' = IF There THEN [account EXCEPT !.is = "swept"] ELSE account
  /\ UNCHANGED <<links, token, requests, asked, history>>

-----------------------------------------------------------------------------
Next ==
  \/ SignUp
  \/ ResendVerification
  \/ ForgotPassword
  \/ \E d \in Devices : Log_out(d) \/ \E form \in Forms : Submit(d, form)
  \/ \E r \in requests : Load(r) \/ Save(r) \/ Link(r) \/ Finish(r) \/ GoogleEnds(r) \/ Receive(r) \/ Lose(r)
  \/ Restart
  \/ SweepReads
  \/ SweepDeletes

Spec == Init /\ [][Next]_avars

-----------------------------------------------------------------------------
(* Every sign in that works was proved after the last sign out everywhere  *)
(* and with the password now in use: a log in or a renewal that was being  *)
(* served meanwhile gets a token that does not work, and so does a Google  *)
(* sign in that had read the account before. Not claimed of a Google sign  *)
(* in that reads the account, or reads it back, only after the sign out,   *)
(* of a password change that crosses another sign out everywhere, nor once *)
(* a reset was cut between its two saves.                                  *)
SessionsOfThePassword ==
  \A d \in Devices :
    Valid(token[d]) /\ ~history.crossed /\ ~history.outlived /\ ~history.stopped =>
      /\ token[d].since = account.version
      /\ token[d].password = account.password \/ Resetting

(* Only sign ups none of whose addresses was ever confirmed are swept, one *)
(* whose owner has changed the email since never; unless the address was   *)
(* confirmed between the sweep's read and its delete, or the server        *)
(* stopped, or the email was changed, between the two saves of a           *)
(* confirmation.                                                           *)
SweptNeverConfirmed == account.is = "swept" /\ ~history.late /\ ~history.halfway => ~history.confirmed

=============================================================================
