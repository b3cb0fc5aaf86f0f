------------------------------ MODULE Session ------------------------------
(***************************************************************************)
(* The iPhone app's session: the sign in token, the requests on their way  *)
(* (services/api.js), the offline copy of the portfolio screens            *)
(* (native/offlineCache.js) and the profile every page shares              *)
(* (context/UserContext.jsx). Replies arrive in any order, late, or never; *)
(* the server may revoke a token at any moment; iOS may stop the app.      *)
(*                                                                         *)
(* The code tells requests apart by counters and strings it only compares  *)
(* for equality: the generation of the offline copy, the number of the     *)
(* newest profile request, the token a request was sent with. A request    *)
(* carries what the comparison says instead: `valid`, `newest`, `current`. *)
(* An account's settings of its display currency are numbered in their     *)
(* order; the same currency may come back, and the code only ever compares *)
(* the currencies themselves (Chosen, SameScope). Amounts are left out: a  *)
(* reply is known by whose it is and the setting it was computed under.    *)
(* Two requests alike in all this are one.                                 *)
(***************************************************************************)
EXTENDS Naturals, FiniteSets

CONSTANTS
  Accounts,     \* who may sign in on this phone
  None,
  Screens,      \* cacheable paths other than the profile, such as /holdings
  MaxInFlight,  \* bound: requests on their way at once
  MaxAsked,     \* bound: requests ever asked
  MaxChanges,   \* bound: currency changes of each account
  Chosen        \* [Accounts -> [Nat -> currency]]: what each of them is set to, in order

VARIABLES
  place,        \* "in": the signed in pages are mounted; "login": the sign in form
  token,        \* None, or whose token localStorage holds and whether it still works
  currency,     \* server: [Accounts -> number of the current setting]
  scope,        \* whose data the offline copy holds: None or [who, currency]
  copies,       \* saved replies: a set of [scope, path, data, asked]; `asked` is
                \*   history, the setting the phone knew when it asked
  flight,       \* requests on their way
  asked,        \* how many requests were asked, for the bound
  user,         \* UserContext's state
  history       \* [revived: a password change put back a token signed out meanwhile,
                \*  cut: a refusal ended a session whose token still worked]

svars == <<place, token, currency, scope, copies, flight, asked, user, history>>

Profiles == [who : Accounts, currency : 0..9]

TokenOf == [who : Accounts, live : BOOLEAN]

Reads == {"user"} \cup Screens

Writes == {"settings", "password"}

-----------------------------------------------------------------------------
(* The offline copy.                                                       *)

(* The currency a profile names.                                           *)
CurrencyOf(profile) == Chosen[profile.who][profile.currency]

(* The string "id:currency" of two profiles is the same.                   *)
SameScope(a, b) == a.who = b.who /\ CurrencyOf(a) = CurrencyOf(b)

(* What recall() finds: a reply saved for the current user and currency.   *)
Recalled(path) ==
  {c.data : c \in {d \in copies : scope # None /\ SameScope(d.scope, scope) /\ d.path = path}}

Saved(at, path, data, known) ==
  {c \in copies : ~SameScope(c.scope, at) \/ c.path # path} \cup
    {[scope |-> at, path |-> path, data |-> data, asked |-> known]}

(* A slip: what was asked for under another scope is kept as well. *)
AnyScope(r) == scope # None

ScopeKept(r) == scope # None /\ r.scope # None /\ SameScope(r.scope, scope)

KnownWhenAsked(r) == IF r.scope = None THEN 0 ELSE r.scope.currency

(* remember(): a profile names the scope whenever it arrives; anything     *)
(* else must have been asked for under the scope that still holds. The     *)
(* limits and a full storage are OfflineCopy's.                            *)
Remember(r, data) ==
  IF r.valid /\ r.kind \in {"user", "settings"}
  THEN /\ scope' = data
       /\ copies' = IF r.kind = "user" THEN Saved(data, "user", data, data.currency) ELSE copies
  ELSE /\ UNCHANGED scope
       /\ copies' = IF r.valid /\ r.kind \in Screens /\ ScopeKept(r)
                    THEN Saved(scope, r.kind, data, KnownWhenAsked(r)) ELSE copies

-----------------------------------------------------------------------------
(* Tokens.                                                                 *)

(* What is left on its way once another token is in use.                   *)
OtherToken(requests) == {[r EXCEPT !.current = FALSE] : r \in requests}

(* logout(): the token and, by forgetAll(), the offline copy, which takes  *)
(* no reply of a request asked for before. The pages are left.             *)
LogOut(requests) ==
  /\ token' = None
  /\ scope' = None
  /\ copies' = {}
  /\ flight' = {[r EXCEPT !.valid = FALSE, !.current = FALSE, !.mounted = FALSE, !.newest = FALSE] :
                  r \in requests}
  /\ place' = "login"

-----------------------------------------------------------------------------
(* The shared profile: "loading", "error" (seen while no user is known) or *)
(* the user. `saved` and `copied` are history: the currency last saved in  *)
(* this form, and whether the profile came from the offline copy.          *)
NoUser == [state |-> "loading", shown |-> None, saved |-> 0, copied |-> FALSE]

UserKnown == user.shown # None

(* What the account page is: its forms once a user is known, else the      *)
(* error with "Try again", else a spinner.                                 *)
UserPage == IF UserKnown THEN "settings" ELSE IF user.state = "error" THEN "error" ELSE "loading"

Newest(r) == r.kind = "user" /\ r.newest

ShowUser(r, data, copied) ==
  user' = IF Newest(r) THEN [user EXCEPT !.state = "user", !.shown = data, !.copied = copied] ELSE user

FailUser(r) ==
  user' = IF Newest(r) /\ ~UserKnown THEN [user EXCEPT !.state = "error"] ELSE user

(* A slip: profiles on their way count as before. *)
StillCount(requests) == requests

Superseded(requests) == {[r EXCEPT !.newest = FALSE] : r \in requests}

-----------------------------------------------------------------------------
(* A request takes the offline copy's ticket and the token it is sent with.*)
Request(kind, t, at) ==
  [kind |-> kind, who |-> t.who, live |-> t.live, current |-> TRUE, valid |-> TRUE, scope |-> at,
   mounted |-> TRUE, newest |-> kind = "user", reply |-> [status |-> "none"]]

Send(r, others) ==
  /\ r \notin others
  /\ Cardinality(others) < MaxInFlight
  /\ asked < MaxAsked
  /\ asked' = asked + 1
  /\ flight' = others \cup {r}

Init ==
  /\ place = "login"
  /\ token = None
  /\ currency = [u \in Accounts |-> 0]
  /\ scope = None
  /\ copies = {}
  /\ flight = {}
  /\ asked = 0
  /\ user = NoUser
  /\ history = [revived |-> FALSE, cut |-> FALSE]

(* The form's answer: the token is saved, the pages mount, and             *)
(* UserProvider asks for the profile.                                      *)
SignIn(u) ==
  /\ place = "login"
  /\ token' = [who |-> u, live |-> TRUE]
  /\ place' = "in"
  /\ user' = NoUser
  /\ Send(Request("user", token', scope), OtherToken(flight))
  /\ UNCHANGED <<currency, scope, copies, history>>

SignOut ==
  /\ place = "in"
  /\ LogOut(flight)
  /\ user' = NoUser
  /\ UNCHANGED <<asked, currency, history>>

(* A page asks for its numbers.                                            *)
Load(path) ==
  /\ place = "in"
  /\ Send(Request(path, token, scope), flight)
  /\ UNCHANGED <<place, token, currency, scope, copies, user, history>>

(* The window gets the focus: the profile once more. "Try again", shown    *)
(* with the error, also goes back to loading.                              *)
ReloadUser ==
  /\ place = "in"
  /\ \/ UNCHANGED user
     \/ UserPage = "error" /\ user' = [user EXCEPT !.state = "loading"]
  /\ Send(Request("user", token, scope), Superseded(flight))
  /\ UNCHANGED <<place, token, currency, scope, copies, history>>

(* The buttons "Save changes" (of another currency) and "Change password": *)
(* each is disabled while its own request is out.                          *)
Saving(kind) == \E r \in flight : r.kind = kind /\ r.mounted

CanSave(kind) == place = "in" /\ UserPage = "settings" /\ ~Saving(kind)

Submit(kind) ==
  /\ CanSave(kind)
  /\ Send(Request(kind, token, scope), flight)
  /\ UNCHANGED <<place, token, currency, scope, copies, user, history>>

(* renewSessionIfOld(), when the app comes back with a token a week old.   *)
Renew ==
  /\ token # None
  /\ ~\E r \in flight : r.kind = "renew"
  /\ Send(Request("renew", token, scope), flight)
  /\ UNCHANGED <<place, token, currency, scope, copies, user, history>>

-----------------------------------------------------------------------------
(* The server's steps.                                                     *)

Profile(u) == [who |-> u, currency |-> currency[u]]

ChangeCurrency(u) ==
  /\ currency[u] < MaxChanges[u]
  /\ currency' = [currency EXCEPT ![u] = @ + 1]

(* Every token of the account stops working, also one still on its way.    *)
RevokedToken(t, u) == IF t # None /\ t.who = u THEN [t EXCEPT !.live = FALSE] ELSE t

RevokedFlight(requests, u) ==
  {IF r.who # u THEN r
   ELSE IF r.reply.status = "token" THEN [r EXCEPT !.live = FALSE, !.reply.live = FALSE]
   ELSE [r EXCEPT !.live = FALSE] : r \in requests}

Replied(r, reply) == [r EXCEPT !.reply = reply]

NewToken == [status |-> "token", live |-> TRUE]

Refuse(r) ==
  /\ ~r.live
  /\ flight' = (flight \ {r}) \cup {Replied(r, [status |-> "refused"])}
  /\ UNCHANGED <<token, currency>>

Answer(r) ==
  /\ r.live /\ r.kind \in Reads
  /\ flight' = (flight \ {r}) \cup {Replied(r, [status |-> "profile", data |-> Profile(r.who)])}
  /\ UNCHANGED <<token, currency>>

SaveSettings(r) ==
  /\ r.live /\ r.kind = "settings"
  /\ ChangeCurrency(r.who)
  /\ flight' = (flight \ {r}) \cup
       {Replied(r, [status |-> "profile", data |-> [who |-> r.who, currency |-> currency[r.who] + 1]])}
  /\ UNCHANGED token

RenewToken(r) ==
  /\ r.live /\ r.kind = "renew"
  /\ flight' = (flight \ {r}) \cup {Replied(r, NewToken)}
  /\ UNCHANGED <<token, currency>>

(* Changing the password revokes every token, then issues one.             *)
SavePassword(r) ==
  /\ r.live /\ r.kind = "password"
  /\ token' = RevokedToken(token, r.who)
  /\ flight' = RevokedFlight(flight \ {r}, r.who) \cup {[Replied(r, NewToken) EXCEPT !.live = FALSE]}
  /\ UNCHANGED currency

Serve(r) ==
  /\ r.reply.status = "none"
  /\ Refuse(r) \/ Answer(r) \/ SaveSettings(r) \/ RenewToken(r) \/ SavePassword(r)
  /\ UNCHANGED <<asked, place, scope, copies, user, history>>

(* The same account on another device, or a write given up on that the     *)
(* server carries out after all.                                           *)
Elsewhere(u) ==
  /\ \/ ChangeCurrency(u) /\ UNCHANGED <<token, flight>>
     \/ /\ token' = RevokedToken(token, u)
        /\ flight' = RevokedFlight(flight, u)
        /\ UNCHANGED currency
  /\ UNCHANGED <<asked, place, scope, copies, user, history>>

-----------------------------------------------------------------------------
(* How a request ends.                                                     *)

(* A slip: any refusal signs out. *)
AnyRefusal(r) == TRUE

(* sessionExpired(): only a refusal of the token in use signs out.         *)
Expires(r) == r.current

Refused(r) ==
  /\ r.reply.status = "refused"
  /\ IF Expires(r)
     THEN /\ LogOut(flight \ {r})
          /\ user' = NoUser
          /\ history' = [history EXCEPT !.cut = @ \/ (token # None /\ token.live)]
     ELSE /\ flight' = flight \ {r}
          /\ FailUser(r)
          /\ UNCHANGED <<place, token, scope, copies, history>>
  /\ UNCHANGED <<asked, currency>>

(* A reply that is fine: the banner goes, and remember() sees the reply.   *)
ProfileArrives(r) ==
  /\ r.kind = "user" /\ r.reply.status = "profile"
  /\ flight' = flight \ {r}
  /\ Remember(r, r.reply.data)
  /\ ShowUser(r, r.reply.data, FALSE)
  /\ UNCHANGED <<token, history>>

(* The account page's own answer is newer than any request on its way.     *)
SettingsArrive(r) ==
  /\ r.kind = "settings" /\ r.reply.status = "profile"
  /\ Remember(r, r.reply.data)
  /\ IF r.mounted
     THEN /\ flight' = Superseded(flight \ {r})
          /\ user' = [state |-> "user", shown |-> r.reply.data, saved |-> r.reply.data.currency, copied |-> FALSE]
     ELSE flight' = flight \ {r} /\ UNCHANGED user
  /\ UNCHANGED <<token, history>>

NumbersArrive(r) ==
  /\ r.kind \in Screens /\ r.reply.status = "profile"
  /\ flight' = flight \ {r}
  /\ Remember(r, r.reply.data)
  /\ UNCHANGED <<token, user, history>>

KeepsRenewal(r) == r.current

RenewalArrives(r) ==
  /\ r.kind = "renew" /\ r.reply.status = "token"
  /\ IF KeepsRenewal(r)
     THEN /\ token' = [who |-> r.who, live |-> r.reply.live]
          /\ flight' = OtherToken(flight \ {r})
     ELSE flight' = flight \ {r} /\ UNCHANGED token
  /\ UNCHANGED <<scope, copies, user, history>>

(* changePassword() saves its token whatever happened meanwhile.           *)
PasswordArrives(r) ==
  /\ r.kind = "password" /\ r.reply.status = "token"
  /\ token' = [who |-> r.who, live |-> r.reply.live]
  /\ flight' = OtherToken(flight \ {r})
  /\ history' = [history EXCEPT !.revived = @ \/ ~r.current]
  /\ UNCHANGED <<scope, copies, user>>

Delivered(r) ==
  /\ ProfileArrives(r) \/ SettingsArrive(r) \/ NumbersArrive(r) \/ RenewalArrives(r) \/ PasswordArrives(r)
  /\ UNCHANGED <<asked, place, currency>>

(* An error of the server, or 426 from a server too new for this app:      *)
(* nothing is saved and nobody is signed out.                              *)
Failed(r) ==
  /\ r.reply.status # "none"
  /\ flight' = flight \ {r}
  /\ FailUser(r)
  /\ UNCHANGED <<asked, place, token, currency, scope, copies, history>>

(* No answer, or none in time: a read falls back to its saved copy.        *)
Unreachable(r) ==
  /\ flight' = flight \ {r}
  /\ \/ \E data \in Recalled(r.kind) : ShowUser(r, data, TRUE)
     \/ Recalled(r.kind) = {} /\ FailUser(r)
  /\ UNCHANGED <<asked, place, token, currency, scope, copies, history>>

(* The app is stopped and opened again: what was in memory is gone.        *)
Restart ==
  /\ token # None
  /\ place' = "in"
  /\ user' = NoUser
  /\ Send(Request("user", token, scope), {})
  /\ UNCHANGED <<token, currency, scope, copies, history>>

Next ==
  \/ \E u \in Accounts : SignIn(u) \/ Elsewhere(u)
  \/ SignOut
  \/ \E path \in Screens : Load(path)
  \/ ReloadUser
  \/ \E kind \in Writes : Submit(kind)
  \/ Renew
  \/ \E r \in flight : Serve(r) \/ Refused(r) \/ Delivered(r) \/ Failed(r) \/ Unreachable(r)
  \/ Restart

Spec == Init /\ [][Next]_svars

-----------------------------------------------------------------------------
(* The offline copy holds replies of the account that is signed in only.   *)
(* Amounts in another currency than the one they are filed under were      *)
(* computed after a change of the currency the phone had not learned of    *)
(* when it asked, never before one it had. Not once a password change has  *)
(* put back a token signed out meanwhile.                                  *)
CopiesOfTheirAccount ==
  /\ \A c \in copies : c.data.who = c.scope.who
  /\ token # None /\ scope # None => scope.who = token.who

CopiesNotOlder ==
  \A c \in copies : CurrencyOf(c.data) # CurrencyOf(c.scope) => c.data.currency > c.asked

(* The offline copies are of the account, and in the currency they are     *)
(* filed under or of a change made since they were asked for, as long as   *)
(* nobody's session was revived (remember, forgetAll).                     *)
CopiesFaithful == ~history.revived => CopiesOfTheirAccount /\ CopiesNotOlder

(* A currency saved in the account page is not shown undone: no profile    *)
(* asked for before it was saved takes its place, in whatever order the    *)
(* replies come. (The offline copy may still hold the older one.)          *)
SavedSettingsStay ==
  ~history.revived /\ UserKnown => user.copied \/ user.shown.currency >= user.saved

(* Nobody is signed out by a refusal while the token in use still works:   *)
(* a refusal of an older token, renewed or replaced meanwhile, is ignored. *)
EndsOnlyRevoked == ~history.cut

=============================================================================
