--------------------------- MODULE SessionProofs ---------------------------
(***************************************************************************)
(* Proofs about Session, for any accounts, screens and number of requests: *)
(* a request that is still current was sent with the token in use, and     *)
(* what is still valid, mounted or newest was asked for by the account     *)
(* that is signed in.                                                      *)
(***************************************************************************)
EXTENDS Session, TLAPS

NoneIsNoToken == None \notin TokenOf

Data == [who : Accounts, currency : Nat]

Replies ==
  [status : {"none", "refused"}] \cup [status : {"token"}, live : BOOLEAN] \cup [status : {"profile"}, data : Data]

Requests ==
  [kind : Reads \cup Writes \cup {"renew"}, who : Accounts, live : BOOLEAN, current : BOOLEAN,
   valid : BOOLEAN, scope : Data \cup {None}, mounted : BOOLEAN, newest : BOOLEAN, reply : Replies]

Users == [state : {"loading", "error", "user"}, shown : Data \cup {None}, saved : Nat, copied : BOOLEAN]

(* A profile that was answered is of the account and of a currency it has  *)
(* had by now; only a token that does not work is refused.                 *)
Answered(r) ==
  /\ r.reply.status = "profile" => r.reply.data.who = r.who /\ r.reply.data.currency <= currency[r.who]
  /\ r.reply.status = "refused" => ~r.live

Types ==
  /\ place \in {"in", "login"}
  /\ token \in TokenOf \cup {None}
  /\ place = "in" => token \in TokenOf
  /\ currency \in [Accounts -> Nat]
  /\ scope \in Data \cup {None}
  /\ copies \subseteq [scope : Data, path : Reads, data : Data, asked : Nat]
  /\ user \in Users
  /\ history \in [revived : BOOLEAN, cut : BOOLEAN]
  /\ \A r \in flight : r \in Requests /\ Answered(r)

(* What is still current was sent with the token in use.                   *)
SentNow(r) == r.current => token \in TokenOf /\ token.who = r.who /\ token.live = r.live

(* What is still attended to was asked for by who is signed in, under a    *)
(* currency no newer than that of its answer, and the profile the pages    *)
(* wait for is no older than what they saved.                              *)
Attended(r) == r.valid \/ r.mounted \/ r.newest

Own(r) ==
  /\ Attended(r) => place = "in" /\ r.who = token.who
  /\ r.valid /\ r.scope # None =>
       /\ r.scope.who = r.who
       /\ r.scope.currency <= currency[r.who]
       /\ r.reply.status = "profile" => r.scope.currency <= r.reply.data.currency
  /\ r.newest /\ r.reply.status = "profile" => user.saved <= r.reply.data.currency

OwnScope ==
  scope # None => place = "in" /\ scope.who = token.who /\ scope.currency <= currency[scope.who]

OwnUser ==
  /\ place = "in" => user.saved <= currency[token.who]
  /\ UserKnown => user.copied \/ user.saved <= user.shown.currency

(* What was computed under the setting it was asked for under is in the    *)
(* currency it is filed under.                                             *)
OwnCopy(c) ==
  /\ c.data.who = c.scope.who
  /\ c.asked <= c.data.currency
  /\ c.asked = c.data.currency => CurrencyOf(c.data) = CurrencyOf(c.scope)

OwnCopies == \A c \in copies : OwnCopy(c)

SignedOut == place = "login" => token = None

AllOwn == SignedOut /\ OwnScope /\ OwnUser /\ OwnCopies /\ \A r \in flight : Own(r)

IInv ==
  /\ Types
  /\ \A r \in flight : SentNow(r)
  /\ ~history.cut
  /\ history.revived \/ AllOwn

-----------------------------------------------------------------------------
LEMMA InitIInv == Init => IInv
<1> SUFFICES ASSUME Init PROVE IInv
  OBVIOUS
<1>1. Types
  BY DEF Init, Types, NoUser, Users
<1>2. AllOwn
  BY DEF Init, AllOwn, SignedOut, OwnScope, OwnUser, OwnCopies, UserKnown, NoUser
<1> QED BY <1>1, <1>2 DEF Init, IInv

-----------------------------------------------------------------------------
(* A request as it was, or attended to less.                               *)
Fewer(q, r) ==
  /\ q \in Requests
  /\ q.kind = r.kind /\ q.who = r.who /\ q.live = r.live /\ q.scope = r.scope /\ q.reply = r.reply
  /\ q.current => r.current
  /\ q.valid => r.valid
  /\ q.mounted => r.mounted
  /\ q.newest => r.newest

LEMMA SameFewer ==
  ASSUME NEW r \in Requests
  PROVE  Fewer(r, r)
  BY DEF Fewer

LEMMA OtherTokenFewer ==
  ASSUME NEW R, \A r \in R : r \in Requests, NEW q \in OtherToken(R)
  PROVE  ~q.current /\ \E r \in R : Fewer(q, r)
<1>1. PICK r \in R : q = [r EXCEPT !.current = FALSE]
  BY DEF OtherToken
<1>2. ~q.current /\ Fewer(q, r)
  BY <1>1 DEF Fewer, Requests
<1> QED BY <1>2

LEMMA SupersededFewer ==
  ASSUME NEW R, \A r \in R : r \in Requests, NEW q \in Superseded(R)
  PROVE  ~q.newest /\ \E r \in R : Fewer(q, r)
<1>1. PICK r \in R : q = [r EXCEPT !.newest = FALSE]
  BY DEF Superseded
<1>2. ~q.newest /\ Fewer(q, r)
  BY <1>1 DEF Fewer, Requests
<1> QED BY <1>2

LEMMA LogOutFewer ==
  ASSUME NEW R, \A r \in R : r \in Requests, LogOut(R), NEW q \in flight'
  PROVE  ~q.current /\ ~Attended(q) /\ \E r \in R : Fewer(q, r)
<1>1. PICK r \in R : q = [r EXCEPT !.valid = FALSE, !.current = FALSE, !.mounted = FALSE, !.newest = FALSE]
  BY DEF LogOut
<1>2. q \in Requests /\ ~q.valid /\ ~q.current /\ ~q.mounted /\ ~q.newest
  BY <1>1 DEF Requests
<1>3. q.kind = r.kind /\ q.who = r.who /\ q.live = r.live /\ q.scope = r.scope /\ q.reply = r.reply
  BY <1>1 DEF Requests
<1> QED BY <1>2, <1>3 DEF Fewer, Attended

(* A new request is sent with the token in use.                            *)
LEMMA NewRequest ==
  ASSUME NEW kind \in Reads \cup Writes \cup {"renew"}, NEW t \in TokenOf, NEW at \in Data \cup {None},
         NEW c, c = Request(kind, t, at)
  PROVE  /\ c \in Requests
         /\ c.who = t.who /\ c.live = t.live /\ c.scope = at
         /\ c.reply.status = "none"
<1>1. c.reply = [status |-> "none"] /\ c.reply \in Replies
  BY DEF Request, Replies
<1>2. c \in Requests
  BY <1>1 DEF Request, Requests, TokenOf
<1> QED BY <1>1, <1>2 DEF Request

-----------------------------------------------------------------------------
(* Most steps leave the token, the server's currencies and what was saved  *)
(* as they are.                                                            *)
Steady == UNCHANGED <<place, token, currency, history>> /\ user' \in Users /\ user'.saved = user.saved

UserShown == UserKnown => user.copied \/ user.saved <= user.shown.currency

LEMMA SteadyRequest ==
  ASSUME Types, Steady, NEW r \in flight, NEW q, Fewer(q, r), SentNow(r)
  PROVE  /\ q \in Requests /\ Answered(q)' /\ SentNow(q)'
         /\ Own(r) => Own(q)'
<1>1. Answered(q)'
  BY DEF Types, Steady, Fewer, Answered
<1>2. SentNow(q)'
  BY DEF Steady, Fewer, SentNow
<1>3. ASSUME Own(r) PROVE Own(q)'
  BY <1>3 DEF Steady, Fewer, Own, Attended
<1> QED BY <1>1, <1>2, <1>3 DEF Fewer

LEMMA SteadyStep ==
  ASSUME IInv, Steady,
         scope' \in Data \cup {None}, copies' \subseteq [scope : Data, path : Reads, data : Data, asked : Nat],
         history.revived \/ (OwnScope' /\ OwnCopies' /\ UserShown'),
         \A q \in flight' :
            \/ \E r \in flight : Fewer(q, r)
            \/ q \in Requests /\ Answered(q)' /\ SentNow(q)' /\ (history.revived \/ Own(q)')
  PROVE  IInv'
<1>1. Types /\ \A r \in flight : SentNow(r)
  BY DEF IInv
<1>2. ASSUME NEW q \in flight'
      PROVE  q \in Requests /\ Answered(q)' /\ SentNow(q)' /\ (history.revived \/ Own(q)')
  <2>1. CASE \E r \in flight : Fewer(q, r)
    <3>1. PICK r \in flight : Fewer(q, r)
      BY <2>1
    <3>2. history.revived \/ Own(r)
      BY DEF IInv, AllOwn
    <3> QED BY <1>1, <3>1, <3>2, SteadyRequest
  <2> QED BY <1>2, <2>1
<1>3. Types'
  BY <1>1, <1>2 DEF Types, Steady
<1>4. history.revived \/ OwnUser'
  BY DEF IInv, AllOwn, OwnUser, UserShown, Steady
<1>5. history'.revived \/ AllOwn'
  <2>1. SignedOut => SignedOut'
    BY DEF SignedOut, Steady
  <2>2. history' = history
    BY DEF Steady
  <2> QED BY <1>2, <1>4, <2>1, <2>2 DEF IInv, AllOwn
<1> QED BY <1>2, <1>3, <1>5 DEF IInv, Steady

(* ... and many the offline copy and the profile too.                      *)
LEMMA QuietStep ==
  ASSUME IInv, UNCHANGED <<place, token, currency, history, scope, copies>>,
         user' \in Users, user'.saved = user.saved,
         user'.shown = user.shown, user'.copied = user.copied,
         \A q \in flight' :
            \/ \E r \in flight : Fewer(q, r)
            \/ q \in Requests /\ Answered(q)' /\ SentNow(q)' /\ (history.revived \/ Own(q)')
  PROVE  IInv'
<1>1. Steady
  BY DEF Steady
<1>2. history.revived \/ (OwnScope' /\ OwnCopies' /\ UserShown')
  <2>1. CASE AllOwn
    BY <2>1 DEF AllOwn, OwnScope, OwnCopies, OwnUser, UserShown, UserKnown
  <2> QED BY <2>1 DEF IInv
<1> QED BY <1>1, <1>2, SteadyStep DEF IInv, Types

-----------------------------------------------------------------------------
(* Requests are sent.                                                      *)
LEMMA SendQuiet ==
  ASSUME IInv, place = "in" \/ token # None, NEW kind \in Reads \cup Writes \cup {"renew"}, NEW others,
         \A q \in others : \E r \in flight : Fewer(q, r),
         Send(Request(kind, token, scope), others), UNCHANGED <<place, token, currency, history, scope, copies>>,
         user' \in Users, user'.saved = user.saved, user'.shown = user.shown, user'.copied = user.copied,
         place = "in" \/ history.revived
  PROVE  IInv'
<1>1. PICK c : c = Request(kind, token, scope)
  OBVIOUS
<1>2. flight' = others \cup {c}
  BY <1>1 DEF Send
<1>3. token \in TokenOf
  BY DEF IInv, Types
<1>4. /\ c \in Requests /\ c.who = token.who /\ c.live = token.live /\ c.scope = scope
      /\ c.reply.status = "none"
  BY <1>1, <1>3, NewRequest DEF IInv, Types
<1>5. Answered(c)' /\ SentNow(c)'
  BY <1>3, <1>4 DEF Answered, SentNow
<1>6. history.revived \/ Own(c)'
  BY <1>4 DEF Own, IInv, AllOwn, OwnScope
<1> QED BY <1>2, <1>4, <1>5, <1>6, QuietStep

(* Out of the pages a token is there only after a revived session.         *)
LEMMA SignedInOrRevived ==
  ASSUME IInv
  PROVE  token # None => place = "in" \/ history.revived
  BY DEF IInv, Types, AllOwn, SignedOut

LEMMA LoadStep ==
  ASSUME IInv, NEW path \in Screens, Load(path)
  PROVE  IInv'
<1>1. \A q \in flight : \E r \in flight : Fewer(q, r)
  BY SameFewer DEF IInv, Types
<1>2. user' \in Users
  BY DEF IInv, Types, Load
<1> QED BY <1>1, <1>2, SendQuiet DEF Load, Reads

LEMMA SubmitStep ==
  ASSUME IInv, NEW kind \in Writes, Submit(kind)
  PROVE  IInv'
<1>1. \A q \in flight : \E r \in flight : Fewer(q, r)
  BY SameFewer DEF IInv, Types
<1>2. user' \in Users
  BY DEF IInv, Types, Submit
<1> QED BY <1>1, <1>2, SendQuiet DEF Submit, CanSave

LEMMA RenewStep ==
  ASSUME IInv, Renew
  PROVE  IInv'
<1>1. \A q \in flight : \E r \in flight : Fewer(q, r)
  BY SameFewer DEF IInv, Types
<1>2. user' \in Users
  BY DEF IInv, Types, Renew
<1> QED BY <1>1, <1>2, SendQuiet, SignedInOrRevived DEF Renew

LEMMA ReloadUserStep ==
  ASSUME IInv, ReloadUser
  PROVE  IInv'
<1>1. \A q \in Superseded(flight) : \E r \in flight : Fewer(q, r)
  BY SupersededFewer DEF IInv, Types
<1>2. user' \in Users /\ user'.saved = user.saved /\ user'.shown = user.shown /\ user'.copied = user.copied
  BY DEF IInv, Types, ReloadUser, Users
<1> QED BY <1>1, <1>2, SendQuiet DEF ReloadUser, Reads

(* Of the flags of older requests nothing is left but `valid` and the      *)
(* like, which a sign out took; the one sent now has the token in use.     *)
LEMMA SignInStep ==
  ASSUME IInv, NEW u \in Accounts, SignIn(u)
  PROVE  IInv'
<1>1. Types /\ place = "login" /\ token' = [who |-> u, live |-> TRUE] /\ place' = "in" /\ user' = NoUser
      /\ UNCHANGED <<currency, scope, copies, history>>
  BY DEF IInv, SignIn
<1>2. PICK c : c = Request("user", token', scope)
  OBVIOUS
<1>3. flight' = OtherToken(flight) \cup {c}
  BY <1>2 DEF SignIn, Send
<1>4. token' \in TokenOf /\ token'.who = u /\ user' \in Users /\ user'.saved = 0 /\ user'.shown = None
  BY <1>1 DEF TokenOf, NoUser, Users
<1>5. c \in Requests /\ c.who = u /\ c.live = token'.live /\ c.scope = scope /\ c.reply.status = "none"
  <2>1. "user" \in Reads \cup Writes \cup {"renew"} /\ scope \in Data \cup {None}
    BY <1>1 DEF Types, Reads
  <2>2. PICK t \in TokenOf : t = token'
    BY <1>4
  <2> QED BY <1>2, <1>4, <2>1, <2>2, NewRequest
<1>6. ASSUME NEW q \in OtherToken(flight)
      PROVE  q \in Requests /\ Answered(q)' /\ SentNow(q)' /\ (history.revived \/ Own(q)')
  <2>1. PICK r \in flight : Fewer(q, r)
    BY <1>1, OtherTokenFewer DEF Types
  <2>2. ~q.current
    BY <1>1, OtherTokenFewer DEF Types
  <2>3. Answered(q)'
    BY <1>1, <2>1 DEF Types, Answered, Fewer
  <2>4. history.revived \/ Own(q)'
    <3>1. CASE AllOwn
      <4>1. ~q.valid /\ ~q.mounted /\ ~q.newest
        BY <1>1, <2>1, <3>1 DEF AllOwn, Own, Attended, Fewer
      <4> QED BY <4>1 DEF Own, Attended
    <3> QED BY <3>1 DEF IInv
  <2> QED BY <2>1, <2>2, <2>3, <2>4 DEF Fewer, SentNow
<1>7. Answered(c)' /\ SentNow(c)'
  BY <1>4, <1>5 DEF Answered, SentNow
<1>8. history'.revived \/ AllOwn'
  <2>1. CASE AllOwn
    <3>1. scope = None
      BY <1>1, <2>1 DEF AllOwn, OwnScope
    <3>2. Own(c)'
      BY <1>1, <1>4, <1>5, <3>1 DEF Own
    <3>3. OwnUser'
      BY <1>1, <1>4 DEF OwnUser, UserKnown, Types
    <3>4. OwnScope' /\ OwnCopies' /\ SignedOut'
      BY <1>1, <2>1, <3>1 DEF AllOwn, OwnScope, OwnCopies, SignedOut
    <3> QED BY <1>1, <1>3, <1>6, <3>2, <3>3, <3>4 DEF AllOwn
  <2> QED BY <1>1, <2>1 DEF IInv
<1>9. Types'
  BY <1>1, <1>3, <1>4, <1>5, <1>6, <1>7 DEF Types
<1> QED BY <1>1, <1>3, <1>6, <1>7, <1>8, <1>9 DEF IInv

LEMMA RestartStep ==
  ASSUME IInv, Restart
  PROVE  IInv'
<1>1. Types /\ token # None /\ place' = "in" /\ user' = NoUser /\ UNCHANGED <<token, currency, scope, copies, history>>
  BY DEF IInv, Restart
<1>2. PICK c : c = Request("user", token, scope)
  OBVIOUS
<1>3. flight' = {c}
  BY <1>2 DEF Restart, Send
<1>4. token \in TokenOf /\ user' \in Users /\ user'.saved = 0 /\ user'.shown = None
  BY <1>1 DEF Types, NoUser, Users
<1>5. c \in Requests /\ c.who = token.who /\ c.live = token.live /\ c.scope = scope /\ c.reply.status = "none"
  BY <1>1, <1>2, <1>4, NewRequest DEF Types, Reads
<1>6. Answered(c)' /\ SentNow(c)'
  BY <1>1, <1>4, <1>5 DEF Answered, SentNow
<1>7. history'.revived \/ AllOwn'
  <2>1. CASE AllOwn
    <3>1. OwnScope' /\ OwnCopies' /\ SignedOut'
      BY <1>1, <2>1 DEF AllOwn, OwnScope, OwnCopies, SignedOut
    <3>2. Own(c)'
      BY <1>1, <1>5, <2>1 DEF Own, AllOwn, OwnScope
    <3>3. OwnUser'
      BY <1>1, <1>4 DEF OwnUser, UserKnown, Types, TokenOf
    <3> QED BY <1>3, <3>1, <3>2, <3>3 DEF AllOwn
  <2> QED BY <1>1, <2>1 DEF IInv
<1>8. Types'
  BY <1>1, <1>3, <1>4, <1>5, <1>6 DEF Types
<1> QED BY <1>1, <1>3, <1>6, <1>7, <1>8 DEF IInv

(* A sign out leaves no request attended to, and nothing in the copy.      *)
LEMMA LogOutStep ==
  ASSUME IInv, NEW R \in SUBSET flight, LogOut(R), user' = NoUser, UNCHANGED currency,
         history' \in [revived : BOOLEAN, cut : BOOLEAN], history'.revived = history.revived, ~history'.cut
  PROVE  IInv'
<1>1. Types /\ token' = None /\ scope' = None /\ copies' = {} /\ place' = "login" /\ user' = NoUser
      /\ UNCHANGED currency /\ \A r \in R : r \in Requests
  BY DEF IInv, Types, LogOut
<1>3. ASSUME NEW q \in flight'
      PROVE  q \in Requests /\ Answered(q)' /\ SentNow(q)' /\ Own(q)'
  <2>1. ~q.current /\ ~Attended(q) /\ \E r \in R : Fewer(q, r)
    BY <1>1, LogOutFewer
  <2>2. PICK r \in flight : Fewer(q, r)
    BY <2>1
  <2>3. Answered(q)'
    BY <1>1, <2>2 DEF Types, Answered, Fewer
  <2> QED BY <2>1, <2>2, <2>3 DEF Fewer, SentNow, Own, Attended
<1>4. user' \in Users /\ OwnUser'
  BY <1>1 DEF NoUser, Users, OwnUser, UserKnown
<1>5. Types'
  BY <1>1, <1>3, <1>4 DEF Types
<1>6. AllOwn'
  BY <1>1, <1>3, <1>4 DEF AllOwn, SignedOut, OwnScope, OwnCopies
<1> QED BY <1>3, <1>5, <1>6 DEF IInv

-----------------------------------------------------------------------------
(* The server's steps.                                                     *)
LEMMA RepliedRequest ==
  ASSUME NEW r \in Requests, NEW reply \in Replies, NEW q, q = Replied(r, reply)
  PROVE  /\ q \in Requests /\ q.reply = reply
         /\ q.kind = r.kind /\ q.who = r.who /\ q.live = r.live /\ q.scope = r.scope
         /\ q.current = r.current /\ q.valid = r.valid /\ q.mounted = r.mounted /\ q.newest = r.newest
  BY DEF Replied, Requests

(* A reply without a profile.                                              *)
LEMMA PlainReply ==
  ASSUME IInv, NEW r \in flight, NEW reply \in Replies, reply.status \in {"refused", "token"},
         reply.status = "refused" => ~r.live,
         flight' = (flight \ {r}) \cup {Replied(r, reply)},
         UNCHANGED <<place, token, currency, history, scope, copies, user>>
  PROVE  IInv'
<1>1. PICK q : q = Replied(r, reply)
  OBVIOUS
<1>2. r \in Requests /\ Answered(r) /\ SentNow(r) /\ user \in Users /\ \A s \in flight : s \in Requests
  BY DEF IInv, Types
<1>3. /\ q \in Requests /\ q.reply = reply
      /\ q.who = r.who /\ q.live = r.live /\ q.scope = r.scope
      /\ q.current = r.current /\ q.valid = r.valid /\ q.mounted = r.mounted /\ q.newest = r.newest
  BY <1>1, <1>2, RepliedRequest
<1>4. Answered(q)' /\ SentNow(q)'
  BY <1>2, <1>3 DEF Answered, SentNow
<1>5. history.revived \/ Own(q)'
  BY <1>3 DEF IInv, AllOwn, Own, Attended
<1>6. \A s \in flight \ {r} : Fewer(s, s)
  BY <1>2, SameFewer
<1> QED BY <1>1, <1>2, <1>3, <1>4, <1>5, <1>6, QuietStep

(* A profile is of the account, and no older than what the page saved.     *)
LEMMA AnswerStep ==
  ASSUME IInv, NEW r \in flight, Answer(r), UNCHANGED <<place, history, scope, copies, user>>
  PROVE  IInv'
<1>1. r \in Requests /\ SentNow(r) /\ user \in Users /\ currency \in [Accounts -> Nat] /\ \A s \in flight : s \in Requests
  BY DEF IInv, Types
<1> DEFINE data == [who |-> r.who, currency |-> currency[r.who]]
           reply == [status |-> "profile", data |-> data]
<1>2. data \in Data /\ data.who = r.who /\ data.currency = currency[r.who] /\ currency[r.who] \in Nat
  BY <1>1 DEF Data, Requests
<1> HIDE DEF data
<1>3. reply \in Replies /\ reply.status = "profile" /\ reply.data = data
  BY <1>2 DEF Replies
<1>4. flight' = (flight \ {r}) \cup {Replied(r, reply)} /\ UNCHANGED <<token, currency>>
  BY DEF Answer, Profile, data
<1> HIDE DEF reply
<1>5. PICK q : q = Replied(r, reply)
  OBVIOUS
<1>6. /\ q \in Requests /\ q.reply = reply
      /\ q.who = r.who /\ q.live = r.live /\ q.scope = r.scope
      /\ q.current = r.current /\ q.valid = r.valid /\ q.mounted = r.mounted /\ q.newest = r.newest
  BY <1>1, <1>3, <1>5, RepliedRequest
<1>7. Answered(q)' /\ SentNow(q)'
  BY <1>1, <1>2, <1>3, <1>4, <1>6 DEF Answered, SentNow
<1>8. history.revived \/ Own(q)'
  BY <1>2, <1>3, <1>4, <1>6 DEF IInv, AllOwn, Own, Attended, OwnUser
<1>9. \A s \in flight \ {r} : Fewer(s, s)
  BY <1>1, SameFewer
<1> QED BY <1>1, <1>4, <1>5, <1>6, <1>7, <1>8, <1>9, QuietStep

(* An account has one currency more: the others' numbers stay.             *)
LEMMA CurrencyStep ==
  ASSUME IInv, NEW u \in Accounts, ChangeCurrency(u), UNCHANGED <<place, token, history, scope, copies, user>>,
         \A q \in flight' : q \in flight \/ (q \in Requests /\ Answered(q)' /\ SentNow(q)' /\ (history.revived \/ Own(q)'))
  PROVE  IInv'
<1>1. Types /\ currency' \in [Accounts -> Nat] /\ \A v \in Accounts : currency[v] \in Nat /\ currency[v] <= currency'[v]
  BY DEF IInv, Types, ChangeCurrency
<1>2. ASSUME NEW q \in flight
      PROVE  q \in Requests /\ Answered(q)' /\ SentNow(q)' /\ (history.revived \/ Own(q)')
  <2>1. q \in Requests /\ Answered(q) /\ SentNow(q) /\ q.who \in Accounts
    BY DEF IInv, Types, Requests
  <2>2. q.reply.status = "profile" => q.reply.data \in Data
    BY <2>1 DEF Requests, Replies
  <2>3. Answered(q)'
    BY <1>1, <2>1, <2>2 DEF Answered, Data
  <2>4. q.scope # None => q.scope \in Data
    BY <2>1 DEF Requests
  <2>5. history.revived \/ Own(q)'
    BY <1>1, <2>1, <2>4 DEF IInv, AllOwn, Own, Attended, Data
  <2> QED BY <2>1, <2>3, <2>5 DEF SentNow
<1>3. Types'
  BY <1>1, <1>2 DEF Types
<1>4. history.revived \/ (SignedOut' /\ OwnScope' /\ OwnUser' /\ OwnCopies')
  <2>1. CASE AllOwn
    <3>1. OwnScope'
      BY <1>1, <2>1 DEF AllOwn, OwnScope, Types, Data
    <3>2. OwnUser'
      BY <1>1, <2>1 DEF AllOwn, OwnUser, UserKnown, Types, TokenOf, Users
    <3> QED BY <2>1, <3>1, <3>2 DEF AllOwn, SignedOut, OwnCopies
  <2> QED BY <2>1 DEF IInv
<1> QED BY <1>2, <1>3, <1>4 DEF IInv, AllOwn

LEMMA SaveSettingsStep ==
  ASSUME IInv, NEW r \in flight, SaveSettings(r), UNCHANGED <<place, history, scope, copies, user>>
  PROVE  IInv'
<1>1. Types /\ r \in Requests /\ r.who \in Accounts /\ SentNow(r) /\ UNCHANGED token /\ ChangeCurrency(r.who)
  BY DEF IInv, Types, Requests, SaveSettings
<1> DEFINE next == currency[r.who] + 1
           data == [who |-> r.who, currency |-> next]
           reply == [status |-> "profile", data |-> data]
<1>2. next \in Nat /\ currency[r.who] \in Nat /\ currency[r.who] <= next /\ currency'[r.who] = next
  BY <1>1 DEF Types, ChangeCurrency
<1>3. flight' = (flight \ {r}) \cup {Replied(r, reply)}
  BY DEF SaveSettings
<1> HIDE DEF next
<1>4. data \in Data /\ data.who = r.who /\ data.currency = next
  BY <1>1, <1>2 DEF Data
<1> HIDE DEF data
<1>5. reply \in Replies /\ reply.status = "profile" /\ reply.data = data
  BY <1>4 DEF Replies
<1> HIDE DEF reply
<1>6. PICK q : q = Replied(r, reply)
  OBVIOUS
<1>7. /\ q \in Requests /\ q.reply = reply
      /\ q.who = r.who /\ q.live = r.live /\ q.scope = r.scope
      /\ q.current = r.current /\ q.valid = r.valid /\ q.mounted = r.mounted /\ q.newest = r.newest
  BY <1>1, <1>5, <1>6, RepliedRequest
<1>8. Answered(q)' /\ SentNow(q)'
  BY <1>1, <1>2, <1>4, <1>5, <1>7 DEF Answered, SentNow
<1>9. history.revived \/ Own(q)'
  <2>1. CASE AllOwn
    <3>1. Own(r) /\ (place = "in" => user.saved <= currency[token.who])
      BY <2>1 DEF AllOwn, OwnUser
    <3>2. q.newest => user.saved <= next
      BY <1>1, <1>2, <1>7, <3>1 DEF Own, Attended, Types, Users
    <3>3. q.valid /\ q.scope # None => q.scope.who = q.who /\ q.scope.currency <= next
      BY <1>1, <1>2, <1>7, <3>1 DEF Own, Requests, Data
    <3> QED BY <1>1, <1>2, <1>4, <1>5, <1>7, <3>1, <3>2, <3>3 DEF Own, Attended
  <2> QED BY <2>1 DEF IInv
<1> QED BY <1>1, <1>3, <1>6, <1>7, <1>8, <1>9, CurrencyStep

LEMMA RefuseStep ==
  ASSUME IInv, NEW r \in flight, Refuse(r), UNCHANGED <<place, history, scope, copies, user>>
  PROVE  IInv'
<1>1. PICK reply : reply = [status |-> "refused"]
  OBVIOUS
<1>2. reply \in Replies /\ reply.status = "refused" /\ flight' = (flight \ {r}) \cup {Replied(r, reply)}
  BY <1>1 DEF Replies, Refuse
<1> QED BY <1>2, PlainReply DEF Refuse

LEMMA RenewTokenStep ==
  ASSUME IInv, NEW r \in flight, RenewToken(r), UNCHANGED <<place, history, scope, copies, user>>
  PROVE  IInv'
<1>1. PICK reply : reply = NewToken
  OBVIOUS
<1>2. reply \in Replies /\ reply.status = "token" /\ flight' = (flight \ {r}) \cup {Replied(r, reply)}
  BY <1>1 DEF Replies, RenewToken, NewToken
<1> QED BY <1>2, PlainReply DEF RenewToken

-----------------------------------------------------------------------------
(* All of an account's tokens stop working.                                *)
LEMMA RevokedTokenIs ==
  ASSUME NoneIsNoToken, token \in TokenOf \cup {None}, NEW u \in Accounts, token' = RevokedToken(token, u)
  PROVE  /\ token' \in TokenOf \cup {None}
         /\ token = None => token' = None
         /\ token \in TokenOf => /\ token' \in TokenOf /\ token'.who = token.who
                                 /\ token'.live = (token.live /\ token.who # u)
<1>1. CASE token = None
  BY <1>1 DEF RevokedToken, NoneIsNoToken
<1>2. CASE token \in TokenOf
  <2>1. token # None
    BY <1>2 DEF NoneIsNoToken
  <2>2. token.live \in BOOLEAN
    BY <1>2 DEF TokenOf
  <2> QED BY <1>2, <2>1, <2>2 DEF RevokedToken, TokenOf
<1> QED BY <1>1, <1>2

(* A request as it was, its token revoked if the account is u's.           *)
Turned(q, r, u) ==
  /\ q \in Requests
  /\ q.who = r.who /\ q.scope = r.scope /\ q.live = (r.live /\ r.who # u)
  /\ q.current = r.current /\ q.valid = r.valid /\ q.mounted = r.mounted /\ q.newest = r.newest
  /\ q.reply.status \in {"profile", "refused"} => q.reply = r.reply

LEMMA RevokedFlightTurned ==
  ASSUME NEW R, \A r \in R : r \in Requests, NEW u \in Accounts, NEW q \in RevokedFlight(R, u)
  PROVE  \E r \in R : Turned(q, r, u)
<1>1. PICK r \in R : q = IF r.who # u THEN r
                         ELSE IF r.reply.status = "token" THEN [r EXCEPT !.live = FALSE, !.reply.live = FALSE]
                         ELSE [r EXCEPT !.live = FALSE]
  BY DEF RevokedFlight
<1>2. r \in Requests /\ r.live \in BOOLEAN /\ r.reply \in Replies
  BY DEF Requests
<1>3. CASE r.who # u
  BY <1>1, <1>2, <1>3 DEF Turned
<1>4. CASE r.who = u /\ r.reply.status # "token"
  <2>1. q = [r EXCEPT !.live = FALSE]
    BY <1>1, <1>4
  <2> QED BY <1>2, <1>4, <2>1 DEF Turned, Requests
<1>5. CASE r.who = u /\ r.reply.status = "token"
  <2>1. PICK answer : answer = [r.reply EXCEPT !.live = FALSE]
    OBVIOUS
  <2>2. answer \in Replies /\ answer.status = "token"
    BY <1>2, <1>5, <2>1 DEF Replies
  <2>3. q = [r EXCEPT !.live = FALSE, !.reply = answer]
    BY <1>1, <1>5, <2>1
  <2> QED BY <1>2, <1>5, <2>2, <2>3 DEF Turned, Requests
<1> QED BY <1>3, <1>4, <1>5

LEMMA RevokeStep ==
  ASSUME NoneIsNoToken, IInv, NEW u \in Accounts, token' = RevokedToken(token, u),
         UNCHANGED <<place, currency, history, scope, copies, user>>,
         \A q \in flight' : \E r \in flight : Turned(q, r, u)
  PROVE  IInv'
<1>1. Types
  BY DEF IInv
<1>2. /\ token' \in TokenOf \cup {None}
      /\ token = None => token' = None
      /\ token \in TokenOf => /\ token' \in TokenOf /\ token'.who = token.who
                              /\ token'.live = (token.live /\ token.who # u)
  BY <1>1, RevokedTokenIs DEF Types
<1>3. ASSUME NEW q \in flight'
      PROVE  q \in Requests /\ Answered(q)' /\ SentNow(q)' /\ (history.revived \/ Own(q)')
  <2>1. PICK r \in flight : Turned(q, r, u)
    OBVIOUS
  <2>2. r \in Requests /\ Answered(r) /\ SentNow(r) /\ r.live \in BOOLEAN
    BY DEF IInv, Types, Requests
  <2>3. Answered(q)'
    BY <1>1, <2>1, <2>2 DEF Answered, Turned
  <2>4. SentNow(q)'
    BY <1>2, <2>1, <2>2 DEF SentNow, Turned
  <2>5. history.revived \/ Own(q)'
    <3>1. CASE AllOwn
      <4>1. Own(r)
        BY <3>1 DEF AllOwn
      <4>2. Attended(q) => place' = "in" /\ q.who = token'.who
        BY <1>1, <1>2, <2>1, <4>1 DEF Own, Attended, Turned, Types
      <4> QED BY <2>1, <4>1, <4>2 DEF Own, Turned
    <3> QED BY <3>1 DEF IInv
  <2> QED BY <2>1, <2>3, <2>4, <2>5 DEF Turned
<1>4. Types'
  BY <1>1, <1>2, <1>3 DEF Types
<1>5. history.revived \/ (SignedOut' /\ OwnScope' /\ OwnUser' /\ OwnCopies')
  <2>1. CASE AllOwn
    <3>1. OwnScope'
      BY <1>1, <1>2, <2>1 DEF AllOwn, OwnScope, Types
    <3>2. OwnUser'
      BY <1>1, <1>2, <2>1 DEF AllOwn, OwnUser, UserKnown, Types
    <3> QED BY <1>2, <2>1, <3>1, <3>2 DEF AllOwn, SignedOut, OwnCopies
  <2> QED BY <2>1 DEF IInv
<1> QED BY <1>3, <1>4, <1>5 DEF IInv, AllOwn

LEMMA SavePasswordStep ==
  ASSUME NoneIsNoToken, IInv, NEW r \in flight, SavePassword(r), UNCHANGED <<place, history, scope, copies, user>>
  PROVE  IInv'
<1>1. r \in Requests /\ r.who \in Accounts /\ \A s \in flight : s \in Requests
  BY DEF IInv, Types, Requests
<1>2. PICK reply : reply = NewToken
  OBVIOUS
<1>3. reply \in Replies /\ reply.status = "token"
  BY <1>2 DEF Replies, NewToken
<1>4. PICK q : q = Replied(r, reply)
  OBVIOUS
<1>5. PICK s : s = [q EXCEPT !.live = FALSE]
  OBVIOUS
<1>6. /\ q \in Requests /\ q.reply = reply /\ q.who = r.who /\ q.scope = r.scope
      /\ q.current = r.current /\ q.valid = r.valid /\ q.mounted = r.mounted /\ q.newest = r.newest
  BY <1>1, <1>3, <1>4, RepliedRequest
<1>7. Turned(s, r, r.who)
  <2>1. s \in Requests /\ s.live = FALSE /\ s.reply = reply
    BY <1>5, <1>6 DEF Requests
  <2>2. /\ s.who = r.who /\ s.scope = r.scope
        /\ s.current = r.current /\ s.valid = r.valid /\ s.mounted = r.mounted /\ s.newest = r.newest
    BY <1>5, <1>6 DEF Requests
  <2> QED BY <1>3, <2>1, <2>2 DEF Turned
<1>8. flight' = RevokedFlight(flight \ {r}, r.who) \cup {s}
  BY <1>2, <1>4, <1>5 DEF SavePassword
<1>9. \A t \in RevokedFlight(flight \ {r}, r.who) : \E v \in flight \ {r} : Turned(t, v, r.who)
  BY <1>1, RevokedFlightTurned
<1>10. \A t \in flight' : \E v \in flight : Turned(t, v, r.who)
  BY <1>7, <1>8, <1>9
<1> QED BY <1>1, <1>10, RevokeStep DEF SavePassword

LEMMA ElsewhereStep ==
  ASSUME NoneIsNoToken, IInv, NEW u \in Accounts, Elsewhere(u)
  PROVE  IInv'
<1>1. CASE ChangeCurrency(u) /\ UNCHANGED <<token, flight>>
  BY <1>1, CurrencyStep DEF Elsewhere
<1>2. CASE token' = RevokedToken(token, u) /\ flight' = RevokedFlight(flight, u) /\ UNCHANGED currency
  <2>1. \A q \in flight' : \E r \in flight : Turned(q, r, u)
    BY <1>2, RevokedFlightTurned DEF IInv, Types
  <2> QED BY <1>2, <2>1, RevokeStep DEF Elsewhere
<1> QED BY <1>1, <1>2 DEF Elsewhere

LEMMA ServeStep ==
  ASSUME NoneIsNoToken, IInv, NEW r \in flight, Serve(r)
  PROVE  IInv'
<1>1. UNCHANGED <<place, history, scope, copies, user>>
  BY DEF Serve
<1>2. CASE Refuse(r)
  BY <1>1, <1>2, RefuseStep
<1>3. CASE Answer(r)
  BY <1>1, <1>3, AnswerStep
<1>4. CASE SaveSettings(r)
  BY <1>1, <1>4, SaveSettingsStep
<1>5. CASE RenewToken(r)
  BY <1>1, <1>5, RenewTokenStep
<1>6. CASE SavePassword(r)
  BY <1>1, <1>6, SavePasswordStep
<1> QED BY <1>2, <1>3, <1>4, <1>5, <1>6 DEF Serve

-----------------------------------------------------------------------------
(* How a request ends.                                                     *)
LEMMA FailedUser ==
  ASSUME Types, NEW r \in flight, FailUser(r)
  PROVE  /\ user' \in Users /\ user'.saved = user.saved
         /\ user'.shown = user.shown /\ user'.copied = user.copied
  BY DEF Types, FailUser, Users

LEMMA ShownUser ==
  ASSUME Types, NEW r \in flight, NEW data \in Data, NEW copied \in BOOLEAN, ShowUser(r, data, copied)
  PROVE  /\ user' \in Users /\ user'.saved = user.saved
         /\ user' = user \/ (r.newest /\ user'.shown = data /\ user'.copied = copied)
  BY DEF Types, ShowUser, Newest, Users

LEMMA RefusedStep ==
  ASSUME IInv, NEW r \in flight, Refused(r)
  PROVE  IInv'
<1>1. Types /\ r \in Requests /\ Answered(r) /\ SentNow(r) /\ ~history.cut
      /\ r.reply.status = "refused" /\ ~r.live /\ UNCHANGED currency
  BY DEF IInv, Types, Refused, Answered
<1>2. CASE r.current
  <2>1. LogOut(flight \ {r}) /\ user' = NoUser /\ history' = [history EXCEPT !.cut = @ \/ (token # None /\ token.live)]
    BY <1>2 DEF Refused, Expires
  <2>2. token.live = FALSE
    BY <1>1, <1>2 DEF SentNow, Requests
  <2>3. history' \in [revived : BOOLEAN, cut : BOOLEAN] /\ history'.revived = history.revived /\ ~history'.cut
    BY <1>1, <2>1, <2>2 DEF Types
  <2> QED BY <1>1, <2>1, <2>3, LogOutStep
<1>3. CASE ~r.current
  <2>1. flight' = flight \ {r} /\ FailUser(r) /\ UNCHANGED <<place, token, scope, copies, history>>
    BY <1>3 DEF Refused, Expires
  <2>2. \A q \in flight' : Fewer(q, q)
    BY <1>1, <2>1, SameFewer DEF Types
  <2> QED BY <1>1, <2>1, <2>2, FailedUser, QuietStep
<1> QED BY <1>2, <1>3

LEMMA FailedStep ==
  ASSUME IInv, NEW r \in flight, Failed(r)
  PROVE  IInv'
<1>1. Types
  BY DEF IInv
<1>2. \A q \in flight' : Fewer(q, q)
  BY <1>1, SameFewer DEF Types, Failed
<1>3. user' \in Users /\ user'.saved = user.saved /\ user'.shown = user.shown /\ user'.copied = user.copied
  BY <1>1, FailedUser DEF Failed
<1> QED BY <1>2, <1>3, QuietStep DEF Failed

LEMMA UnreachableStep ==
  ASSUME IInv, NEW r \in flight, Unreachable(r)
  PROVE  IInv'
<1>1. Types /\ r \in Requests /\ flight' = flight \ {r} /\ UNCHANGED <<place, token, currency, scope, copies, history>>
  BY DEF IInv, Types, Unreachable
<1>2. \A q \in flight' : Fewer(q, q)
  BY <1>1, SameFewer DEF Types
<1>3. /\ user' \in Users /\ user'.saved = user.saved
      /\ (user'.shown = user.shown /\ user'.copied = user.copied) \/ user'.copied
  <2>1. CASE FailUser(r)
    BY <1>1, <2>1, FailedUser
  <2>2. CASE \E data \in Recalled(r.kind) : ShowUser(r, data, TRUE)
    <3>1. PICK data \in Recalled(r.kind) : ShowUser(r, data, TRUE)
      BY <2>2
    <3>2. data \in Data
      BY <1>1 DEF Recalled, Types
    <3> QED BY <1>1, <3>1, <3>2, ShownUser
  <2> QED BY <2>1, <2>2 DEF Unreachable
<1>4. Steady
  BY <1>1, <1>3 DEF Steady
<1>5. history.revived \/ (OwnScope' /\ OwnCopies' /\ UserShown')
  <2>1. CASE AllOwn
    <3>1. OwnScope' /\ OwnCopies'
      BY <1>1, <2>1 DEF AllOwn, OwnScope, OwnCopies
    <3>2. UserShown'
      BY <1>3, <2>1 DEF AllOwn, OwnUser, UserShown, UserKnown
    <3> QED BY <3>1, <3>2
  <2> QED BY <2>1 DEF IInv
<1> QED BY <1>1, <1>2, <1>4, <1>5, SteadyStep DEF Types

(* What remember() keeps is of the account that is signed in.              *)
LEMMA SavedCopies ==
  ASSUME NEW at \in Data, NEW path \in Reads, NEW data \in Data, NEW known \in Nat, data.who = at.who,
         known <= data.currency, known = data.currency => CurrencyOf(data) = CurrencyOf(at),
         copies' = Saved(at, path, data, known)
  PROVE  OwnCopies => OwnCopies'
<1>1. PICK new : new = [scope |-> at, path |-> path, data |-> data, asked |-> known]
  OBVIOUS
<1>2. new.scope = at /\ new.data = data /\ new.asked = known
  BY <1>1
<1>3. \A c \in copies' : c \in copies \/ c = new
  BY <1>1 DEF Saved
<1>4. OwnCopy(new)
  BY <1>2 DEF OwnCopy
<1> QED BY <1>3, <1>4 DEF OwnCopies, OwnCopy, CurrencyOf

LEMMA SavedTypes ==
  ASSUME NEW at \in Data, NEW path \in Reads, NEW data \in Data, NEW known \in Nat,
         copies \subseteq [scope : Data, path : Reads, data : Data, asked : Nat],
         copies' = Saved(at, path, data, known)
  PROVE  copies' \subseteq [scope : Data, path : Reads, data : Data, asked : Nat]
  BY DEF Saved

LEMMA Remembered ==
  ASSUME IInv, NEW r \in flight, r.reply.status = "profile", NEW data, data = r.reply.data, Remember(r, data),
         UNCHANGED <<place, token, currency>>
  PROVE  /\ data \in Data /\ data.who = r.who /\ data.currency <= currency[r.who]
         /\ scope' \in Data \cup {None} /\ copies' \subseteq [scope : Data, path : Reads, data : Data, asked : Nat]
         /\ history.revived \/ (OwnScope' /\ OwnCopies')
<1>1. Types /\ r \in Requests /\ Answered(r) /\ r.scope \in Data \cup {None}
  BY DEF IInv, Types, Requests
<1>2. data \in Data /\ data.who = r.who /\ data.currency <= currency[r.who]
  BY <1>1 DEF Requests, Replies, Answered
<1>3. data.currency <= data.currency
  BY <1>2 DEF Data
<1>4. history.revived \/ (AllOwn /\ Own(r))
  BY DEF IInv, AllOwn
<1>5. CASE r.valid /\ r.kind \in {"user", "settings"}
  <2>1. scope' = data /\ copies' = IF r.kind = "user" THEN Saved(data, "user", data, data.currency) ELSE copies
    BY <1>5 DEF Remember
  <2>2. "user" \in Reads
    BY DEF Reads
  <2>3. copies' \subseteq [scope : Data, path : Reads, data : Data, asked : Nat] /\ (OwnCopies => OwnCopies')
    <3>1. CASE r.kind = "user"
      <4>1. data.currency \in Nat
        BY <1>2 DEF Data
      <4> QED BY <1>1, <1>2, <1>3, <2>1, <2>2, <3>1, <4>1, SavedCopies, SavedTypes DEF Types
    <3>2. CASE r.kind # "user"
      BY <1>1, <2>1, <3>2 DEF Types, OwnCopies
    <3> QED BY <3>1, <3>2
  <2>4. history.revived \/ OwnScope'
    BY <1>2, <1>4, <1>5, <2>1 DEF Own, Attended, OwnScope
  <2> QED BY <1>2, <1>4, <2>1, <2>3, <2>4 DEF AllOwn
<1>6. CASE ~(r.valid /\ r.kind \in {"user", "settings"}) /\ r.valid /\ r.kind \in Screens /\ ScopeKept(r)
  <2>1. /\ scope' = scope /\ copies' = Saved(scope, r.kind, data, r.scope.currency)
        /\ scope # None /\ r.scope # None /\ SameScope(r.scope, scope)
    BY <1>6 DEF Remember, ScopeKept, KnownWhenAsked
  <2>2. scope \in Data /\ r.scope \in Data /\ r.scope.currency \in Nat /\ r.kind \in Reads
    BY <1>1, <1>6, <2>1 DEF Types, Reads, Data
  <2>3. copies' \subseteq [scope : Data, path : Reads, data : Data, asked : Nat]
    BY <1>1, <1>2, <2>1, <2>2, SavedTypes DEF Types
  <2>4. ASSUME AllOwn, Own(r) PROVE OwnScope' /\ OwnCopies'
    <3>1. data.who = r.scope.who /\ r.scope.who = scope.who /\ r.scope.currency <= data.currency
      BY <1>2, <1>6, <2>1, <2>4 DEF Own, SameScope
    <3>2. r.scope.currency = data.currency => CurrencyOf(data) = CurrencyOf(scope)
      BY <2>1, <3>1 DEF SameScope, CurrencyOf
    <3>3. OwnCopies'
      BY <1>2, <2>1, <2>2, <2>4, <3>1, <3>2, SavedCopies DEF AllOwn
    <3> QED BY <2>1, <2>4, <3>3 DEF AllOwn, OwnScope
  <2> QED BY <1>1, <1>2, <1>4, <2>1, <2>3, <2>4 DEF Types
<1>7. CASE ~(r.valid /\ r.kind \in {"user", "settings"}) /\ ~(r.valid /\ r.kind \in Screens /\ ScopeKept(r))
  <2>1. UNCHANGED <<scope, copies>>
    BY <1>7 DEF Remember
  <2> QED BY <1>1, <1>2, <1>4, <2>1 DEF Types, AllOwn, OwnScope, OwnCopies
<1> QED BY <1>5, <1>6, <1>7

LEMMA ProfileArrivesStep ==
  ASSUME IInv, NEW r \in flight, ProfileArrives(r), UNCHANGED <<place, currency>>
  PROVE  IInv'
<1>1. Types /\ r \in Requests
  BY DEF IInv, Types
<1>2. PICK data : data = r.reply.data
  OBVIOUS
<1>3. r.reply.status = "profile" /\ flight' = flight \ {r} /\ Remember(r, data) /\ ShowUser(r, data, FALSE)
      /\ UNCHANGED <<place, token, currency, history>>
  BY <1>2 DEF ProfileArrives
<1>4. /\ data \in Data
      /\ scope' \in Data \cup {None} /\ copies' \subseteq [scope : Data, path : Reads, data : Data, asked : Nat]
      /\ history.revived \/ (OwnScope' /\ OwnCopies')
  BY <1>2, <1>3, Remembered
<1>5. /\ user' \in Users /\ user'.saved = user.saved
      /\ user' = user \/ (r.newest /\ user'.shown = data)
  BY <1>1, <1>3, <1>4, ShownUser
<1>6. history.revived \/ UserShown'
  <2>1. CASE AllOwn
    <3>1. Own(r) /\ OwnUser
      BY <2>1 DEF AllOwn
    <3> QED BY <1>2, <1>3, <1>5, <3>1 DEF Own, OwnUser, UserShown, UserKnown
  <2> QED BY <2>1 DEF IInv
<1>7. \A q \in flight' : Fewer(q, q)
  BY <1>1, <1>3, SameFewer DEF Types
<1>8. Steady
  BY <1>3, <1>5 DEF Steady
<1> QED BY <1>3, <1>4, <1>6, <1>7, <1>8, SteadyStep

LEMMA NumbersArriveStep ==
  ASSUME IInv, NEW r \in flight, NumbersArrive(r), UNCHANGED <<place, currency>>
  PROVE  IInv'
<1>1. Types /\ user \in Users
  BY DEF IInv, Types
<1>2. PICK data : data = r.reply.data
  OBVIOUS
<1>3. r.reply.status = "profile" /\ flight' = flight \ {r} /\ Remember(r, data)
      /\ UNCHANGED <<place, token, currency, history, user>>
  BY <1>2 DEF NumbersArrive
<1>4. /\ scope' \in Data \cup {None} /\ copies' \subseteq [scope : Data, path : Reads, data : Data, asked : Nat]
      /\ history.revived \/ (OwnScope' /\ OwnCopies')
  BY <1>2, <1>3, Remembered
<1>5. history.revived \/ UserShown'
  BY <1>3 DEF IInv, AllOwn, OwnUser, UserShown, UserKnown
<1>6. \A q \in flight' : Fewer(q, q)
  BY <1>1, <1>3, SameFewer DEF Types
<1>7. Steady
  BY <1>1, <1>3 DEF Steady
<1> QED BY <1>3, <1>4, <1>5, <1>6, <1>7, SteadyStep

LEMMA SettingsArriveStep ==
  ASSUME IInv, NEW r \in flight, SettingsArrive(r), UNCHANGED <<place, currency>>
  PROVE  IInv'
<1>1. Types /\ r \in Requests /\ user \in Users
  BY DEF IInv, Types
<1>2. PICK data : data = r.reply.data
  OBVIOUS
<1>3. r.reply.status = "profile" /\ Remember(r, data) /\ UNCHANGED <<place, token, currency, history>>
  BY <1>2 DEF SettingsArrive
<1>4. /\ data \in Data /\ data.who = r.who /\ data.currency <= currency[r.who]
      /\ scope' \in Data \cup {None} /\ copies' \subseteq [scope : Data, path : Reads, data : Data, asked : Nat]
      /\ history.revived \/ (OwnScope' /\ OwnCopies')
  BY <1>2, <1>3, Remembered
<1>5. CASE ~r.mounted
  <2>1. flight' = flight \ {r} /\ UNCHANGED user
    BY <1>5 DEF SettingsArrive
  <2>2. history.revived \/ UserShown'
    BY <2>1 DEF IInv, AllOwn, OwnUser, UserShown, UserKnown
  <2>3. \A q \in flight' : Fewer(q, q)
    BY <1>1, <2>1, SameFewer DEF Types
  <2>4. Steady
    BY <1>1, <1>3, <2>1 DEF Steady
  <2> QED BY <1>4, <2>1, <2>2, <2>3, <2>4, SteadyStep
<1>6. CASE r.mounted
  <2>1. flight' = Superseded(flight \ {r})
        /\ user' = [state |-> "user", shown |-> data, saved |-> data.currency, copied |-> FALSE]
    BY <1>2, <1>6 DEF SettingsArrive
  <2>2. user' \in Users /\ user'.saved = data.currency /\ user'.shown = data /\ data.currency \in Nat
    BY <1>4, <2>1 DEF Users, Data
  <2>3. ASSUME NEW q \in flight'
        PROVE  q \in Requests /\ Answered(q)' /\ SentNow(q)' /\ (history.revived \/ Own(q)')
    <3>1. ~q.newest /\ \E s \in flight \ {r} : Fewer(q, s)
      BY <1>1, <2>1, SupersededFewer DEF Types
    <3>2. PICK s \in flight : Fewer(q, s)
      BY <3>1
    <3>3. Answered(q)' /\ SentNow(q)'
      BY <1>1, <1>3, <3>2 DEF IInv, Types, Answered, SentNow, Fewer
    <3>4. history.revived \/ Own(s)
      BY DEF IInv, AllOwn
    <3>5. history.revived \/ Own(q)'
      BY <1>3, <3>1, <3>2, <3>4 DEF Own, Attended, Fewer
    <3> QED BY <3>2, <3>3, <3>5 DEF Fewer
  <2>4. Types'
    BY <1>1, <1>3, <1>4, <2>2, <2>3 DEF Types
  <2>5. history.revived \/ (SignedOut' /\ OwnUser')
    <3>1. CASE AllOwn
      <4>1. r.who = token.who
        BY <1>6, <3>1 DEF AllOwn, Own, Attended
      <4>2. OwnUser'
        BY <1>3, <1>4, <2>2, <4>1 DEF OwnUser, UserKnown
      <4> QED BY <1>3, <3>1, <4>2 DEF AllOwn, SignedOut
    <3> QED BY <3>1 DEF IInv
  <2> QED BY <1>3, <1>4, <2>3, <2>4, <2>5 DEF IInv, AllOwn
<1> QED BY <1>5, <1>6

(* A new token of the account that is signed in, or of a session that was  *)
(* revived.                                                                *)
LEMMA NewTokenStep ==
  ASSUME NoneIsNoToken, IInv, NEW r \in flight, NEW b \in BOOLEAN, token' = [who |-> r.who, live |-> b],
         flight' = OtherToken(flight \ {r}), UNCHANGED <<place, currency, scope, copies, user>>,
         history' \in [revived : BOOLEAN, cut : BOOLEAN], ~history'.cut,
         history.revived => history'.revived, r.current \/ history'.revived
  PROVE  IInv'
<1>1. Types /\ r \in Requests /\ r.who \in Accounts /\ SentNow(r)
  BY DEF IInv, Types, Requests
<1>2. token' \in TokenOf /\ token'.who = r.who
  BY <1>1 DEF TokenOf
<1>3. history'.revived \/ (AllOwn /\ place = "in" /\ token'.who = token.who)
  <2>1. CASE r.current /\ AllOwn
    <3>1. token \in TokenOf /\ token.who = r.who
      BY <1>1, <2>1 DEF SentNow
    <3>2. token # None
      BY <3>1 DEF NoneIsNoToken
    <3> QED BY <1>1, <1>2, <2>1, <3>1, <3>2 DEF AllOwn, SignedOut, Types
  <2> QED BY <2>1 DEF IInv
<1>4. ASSUME NEW q \in flight'
      PROVE  q \in Requests /\ Answered(q)' /\ SentNow(q)' /\ (history'.revived \/ Own(q)')
  <2>1. ~q.current /\ \E s \in flight \ {r} : Fewer(q, s)
    BY <1>1, OtherTokenFewer DEF Types
  <2>2. PICK s \in flight : Fewer(q, s)
    BY <2>1
  <2>3. Answered(q)' /\ SentNow(q)'
    BY <1>1, <2>1, <2>2 DEF Types, Answered, SentNow, Fewer
  <2>4. history'.revived \/ Own(q)'
    BY <1>3, <2>2 DEF AllOwn, Own, Attended, Fewer
  <2> QED BY <2>2, <2>3, <2>4 DEF Fewer
<1>5. Types'
  BY <1>1, <1>2, <1>4 DEF Types
<1>6. history'.revived \/ (SignedOut' /\ OwnScope' /\ OwnUser' /\ OwnCopies')
  BY <1>3 DEF AllOwn, SignedOut, OwnScope, OwnUser, OwnCopies, UserKnown
<1> QED BY <1>4, <1>5, <1>6 DEF IInv, AllOwn

LEMMA RenewalArrivesStep ==
  ASSUME NoneIsNoToken, IInv, NEW r \in flight, RenewalArrives(r), UNCHANGED <<place, currency>>
  PROVE  IInv'
<1>1. Types /\ r \in Requests /\ history \in [revived : BOOLEAN, cut : BOOLEAN] /\ ~history.cut /\ user \in Users
  BY DEF IInv, Types
<1>2. CASE r.current
  <2>1. r.reply.live \in BOOLEAN
    BY <1>1 DEF RenewalArrives, Requests, Replies
  <2>2. token' = [who |-> r.who, live |-> r.reply.live] /\ flight' = OtherToken(flight \ {r})
    BY <1>2 DEF RenewalArrives, KeepsRenewal
  <2>3. UNCHANGED <<scope, copies, user, history>>
    BY DEF RenewalArrives
  <2> QED BY <1>1, <1>2, <2>1, <2>2, <2>3, NewTokenStep
<1>3. CASE ~r.current
  <2>1. flight' = flight \ {r} /\ UNCHANGED <<token, scope, copies, user, history>>
    BY <1>3 DEF RenewalArrives, KeepsRenewal
  <2>2. \A q \in flight' : Fewer(q, q)
    BY <1>1, <2>1, SameFewer DEF Types
  <2> QED BY <1>1, <2>1, <2>2, QuietStep
<1> QED BY <1>2, <1>3

LEMMA PasswordArrivesStep ==
  ASSUME NoneIsNoToken, IInv, NEW r \in flight, PasswordArrives(r), UNCHANGED <<place, currency>>
  PROVE  IInv'
<1>1. r \in Requests /\ r.current \in BOOLEAN /\ history \in [revived : BOOLEAN, cut : BOOLEAN] /\ ~history.cut
  BY DEF IInv, Types, Requests
<1>2. r.reply.live \in BOOLEAN
  BY <1>1 DEF PasswordArrives, Requests, Replies
<1>3. history' = [history EXCEPT !.revived = @ \/ ~r.current]
  BY DEF PasswordArrives
<1>4. history' \in [revived : BOOLEAN, cut : BOOLEAN] /\ ~history'.cut
      /\ (history.revived => history'.revived) /\ (r.current \/ history'.revived)
  BY <1>1, <1>3
<1> QED BY <1>2, <1>4, NewTokenStep DEF PasswordArrives

LEMMA DeliveredStep ==
  ASSUME NoneIsNoToken, IInv, NEW r \in flight, Delivered(r)
  PROVE  IInv'
<1>1. UNCHANGED <<place, currency>>
  BY DEF Delivered
<1>2. CASE ProfileArrives(r)
  BY <1>1, <1>2, ProfileArrivesStep
<1>3. CASE SettingsArrive(r)
  BY <1>1, <1>3, SettingsArriveStep
<1>4. CASE NumbersArrive(r)
  BY <1>1, <1>4, NumbersArriveStep
<1>5. CASE RenewalArrives(r)
  BY <1>1, <1>5, RenewalArrivesStep
<1>6. CASE PasswordArrives(r)
  BY <1>1, <1>6, PasswordArrivesStep
<1> QED BY <1>2, <1>3, <1>4, <1>5, <1>6 DEF Delivered

LEMMA SignOutStep ==
  ASSUME IInv, SignOut
  PROVE  IInv'
<1>1. LogOut(flight) /\ user' = NoUser /\ UNCHANGED <<currency, history>>
  BY DEF SignOut
<1>2. history \in [revived : BOOLEAN, cut : BOOLEAN] /\ ~history.cut
  BY DEF IInv, Types
<1> QED BY <1>1, <1>2, LogOutStep

-----------------------------------------------------------------------------
LEMMA StepIInv ==
  ASSUME NoneIsNoToken, IInv, [Next]_svars
  PROVE  IInv'
<1>1. CASE UNCHANGED svars
  <2>1. UNCHANGED <<place, token, currency, history, scope, copies, user, flight>>
    BY <1>1 DEF svars
  <2>2. \A q \in flight' : Fewer(q, q)
    BY <2>1, SameFewer DEF IInv, Types
  <2>3. user' \in Users
    BY <2>1 DEF IInv, Types
  <2> QED BY <2>1, <2>2, <2>3, QuietStep
<1>2. ASSUME NEW u \in Accounts, SignIn(u) \/ Elsewhere(u) PROVE IInv'
  BY <1>2, SignInStep, ElsewhereStep
<1>3. ASSUME NEW path \in Screens, Load(path) PROVE IInv'
  BY <1>3, LoadStep
<1>4. ASSUME NEW kind \in Writes, Submit(kind) PROVE IInv'
  BY <1>4, SubmitStep
<1>5. ASSUME NEW r \in flight, Serve(r) \/ Refused(r) \/ Delivered(r) \/ Failed(r) \/ Unreachable(r) PROVE IInv'
  BY <1>5, ServeStep, RefusedStep, DeliveredStep, FailedStep, UnreachableStep
<1>6. CASE SignOut \/ ReloadUser \/ Renew \/ Restart
  BY <1>6, SignOutStep, ReloadUserStep, RenewStep, RestartStep
<1> QED BY <1>1, <1>2, <1>3, <1>4, <1>5, <1>6 DEF Next

(* What the invariant says of the copies, of the profile on screen and of  *)
(* refusals.                                                               *)
LEMMA IInvSafe == IInv => CopiesFaithful /\ SavedSettingsStay /\ EndsOnlyRevoked
<1> SUFFICES ASSUME IInv PROVE CopiesFaithful /\ SavedSettingsStay /\ EndsOnlyRevoked
  OBVIOUS
<1>1. ASSUME ~history.revived PROVE CopiesOfTheirAccount /\ CopiesNotOlder
  <2>1. OwnCopies /\ OwnScope /\ Types
    BY <1>1 DEF IInv, AllOwn
  <2>2. \A c \in copies : c.asked \in Nat /\ c.data.currency \in Nat
    BY <2>1 DEF Types, Data
  <2>3. CopiesNotOlder
    BY <2>1, <2>2 DEF OwnCopies, OwnCopy, CopiesNotOlder
  <2>4. CopiesOfTheirAccount
    BY <1>1, <2>1 DEF OwnCopies, OwnCopy, OwnScope, CopiesOfTheirAccount, IInv, AllOwn
  <2> QED BY <2>3, <2>4
<1>2. ASSUME ~history.revived, UserKnown PROVE user.copied \/ user.shown.currency >= user.saved
  <2>1. OwnUser /\ Types
    BY <1>2 DEF IInv, AllOwn
  <2>2. user.saved \in Nat /\ user.shown.currency \in Nat
    BY <1>2, <2>1 DEF Types, Users, UserKnown, Data
  <2> QED BY <1>2, <2>1, <2>2 DEF OwnUser
<1>3. EndsOnlyRevoked
  BY DEF IInv, EndsOnlyRevoked
<1> QED BY <1>1, <1>2, <1>3 DEF CopiesFaithful, SavedSettingsStay

(* The invariant of the session, as long as None is not a token.           *)
THEOREM Invariance ==
  ASSUME NoneIsNoToken
  PROVE  Spec => []IInv
<1>1. Init => IInv
  BY InitIInv
<1>2. IInv /\ [Next]_svars => IInv'
  BY StepIInv
<1> QED BY <1>1, <1>2, PTL DEF Spec

(* The offline copy holds replies of who is signed in only, in the         *)
(* currency they are filed under or of a change the phone had not learned  *)
(* of when it asked (services/api.js, offlineCache.js).                    *)
THEOREM CopiesStayFaithful ==
  ASSUME NoneIsNoToken
  PROVE  Spec => []CopiesFaithful
BY Invariance, IInvSafe, PTL

(* What the account page saved is not shown undone by an older reply       *)
(* (context/UserContext.jsx).                                              *)
THEOREM SavedSettingsAreKept ==
  ASSUME NoneIsNoToken
  PROVE  Spec => []SavedSettingsStay
BY Invariance, IInvSafe, PTL

(* A refusal signs nobody out whose token in use still works               *)
(* (services/api.js sessionExpired).                                       *)
THEOREM RefusalEndsOnlyRevoked ==
  ASSUME NoneIsNoToken
  PROVE  Spec => []EndsOnlyRevoked
BY Invariance, IInvSafe, PTL

=============================================================================
