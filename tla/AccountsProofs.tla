--------------------------- MODULE AccountsProofs ---------------------------
(***************************************************************************)
(* Proofs about Accounts, for any number of devices, requests and emails:  *)
(* which sign ins work, and whom the sweep deletes. The invariant says of  *)
(* every token, and of what every request has seen of the account, that it *)
(* is of one moment: the password that goes with a version is the one in   *)
(* use for as long as that version is.                                     *)
(***************************************************************************)
EXTENDS Accounts, TLAPS

(* A token, or what a request has seen of the account. *)
Tokens == [version : Nat, since : Nat, password : Nat]

Sights == [version : Nat, password : Nat, known : BOOLEAN]

Changes == {"known", "verified", "confirmed"}

AccountRecord ==
  [is : {"none", "there", "deleted", "swept"}, verified : BOOLEAN, confirmed : BOOLEAN, email : Nat,
   password : Nat, version : Nat, linked : BOOLEAN, known : BOOLEAN]

HistoryRecord ==
  [confirmed : BOOLEAN, crossed : BOOLEAN, outlived : BOOLEAN, stopped : BOOLEAN, halfway : BOOLEAN, late : BOOLEAN]

RequestType(r) ==
  r \in [device : Devices, form : Forms, of : Nat, sent : Tokens \cup {None},
         stage : {"sent", "checked", "saved", "linked", "answered"}, seen : Sights \cup {None},
         changes : SUBSET Changes, outcome : {"none", "refused", "expired", "done", "token"}, got : Tokens \cup {None}]

(* Whoever is past the check has seen the account, as has who comes from   *)
(* Google; whoever renews has sent a token, and whoever is answered with   *)
(* one has got it.                                                         *)
Sees(r) == r.stage \in {"checked", "saved", "linked"} \/ (r.form = "google" /\ r.stage = "sent")

InPlace(r) ==
  /\ Sees(r) => r.seen \in Sights
  /\ r.stage = "checked" /\ r.form = "renew" => r.sent \in Tokens \ {None}
  /\ r.stage = "saved" => r.form \in {"password", "reset", "google", "verify"}
  /\ r.stage = "saved" /\ r.form = "reset" => account.is # "none"
  /\ r.stage = "linked" => r.form = "google" /\ r.got \in Tokens
  /\ r.outcome = "token" => r.got \in Tokens

Types ==
  /\ account \in AccountRecord
  /\ history \in HistoryRecord
  /\ token \in [Devices -> Tokens \cup {None}]
  /\ \A l \in links : l.of \in Nat
  /\ \A r \in requests : RequestType(r) /\ InPlace(r)

-----------------------------------------------------------------------------
Gone == account.is \in {"deleted", "swept"}

(* A version and a password of one moment: the password of a version is    *)
(* the one in use, unless a reset is between its two saves, or the account *)
(* is gone.                                                                *)
Current(version, password) ==
  /\ version <= account.version
  /\ version = account.version => password = account.password \/ Resetting \/ Gone

Good(t) == t # None => t.since = t.version /\ Current(t.version, t.password)

GoodRequest(r) ==
  /\ Good(r.sent)
  /\ Good(r.got)
  /\ Sees(r) => Current(r.seen.version, r.seen.password)
  /\ r.stage = "checked" /\ r.form = "renew" => r.seen.version = r.sent.version

AllGood ==
  /\ \A d \in Devices : Good(token[d])
  /\ \A r \in requests : GoodRequest(r)

Excepted == history.crossed \/ history.outlived \/ history.stopped

(* The sweep has read an account that never confirmed; a swept one had not.*)
Unconfirmed == (stale \/ account.is = "swept") /\ ~history.late /\ ~history.halfway => ~history.confirmed

(* Between the two saves of a confirmation a request stands for the second.*)
Confirming(r) ==
  \/ r.form = "verify" /\ r.stage = "saved"
  \/ r.form = "google" /\ r.stage = "linked" /\ "confirmed" \in r.changes

Marked ==
  /\ account.is = "none" => ~history.confirmed /\ ~stale /\ account.email = 0
  /\ There /\ Halfway /\ ~history.halfway => account.verified /\ \E r \in requests : Confirming(r)

IInv == Types /\ (Excepted \/ AllGood) /\ Unconfirmed /\ Marked

-----------------------------------------------------------------------------
LEMMA InitIInv == Init => IInv
<1> SUFFICES ASSUME Init PROVE IInv
  OBVIOUS
<1>1. Types
  BY DEF Init, Types, AccountRecord, HistoryRecord
<1>2. AllGood
  <2>1. ASSUME NEW d \in Devices PROVE Good(token[d])
    <3>1. token[d] = None
      BY DEF Init
    <3> QED BY <3>1 DEF Good
  <2> QED BY <2>1 DEF Init, AllGood
<1>3. Unconfirmed /\ Marked
  BY DEF Init, Unconfirmed, Marked, There
<1> QED BY <1>1, <1>2, <1>3 DEF IInv

-----------------------------------------------------------------------------
(* What a save makes of the account.                                       *)
SamePassword(next) == next.version = account.version /\ next.password = account.password

NextVersion(next) == next.version = account.version + 1

Follows(next) ==
  /\ next \in AccountRecord
  /\ next.is \in {account.is, "deleted"}
  /\ next.confirmed = account.confirmed
  /\ SamePassword(next) \/ NextVersion(next)

LEMMA NewPasswordFollows ==
  ASSUME account \in AccountRecord, NEW known \in BOOLEAN
  PROVE  Follows([account EXCEPT !.version = SignedOutEverywhere, !.password = @ + 1, !.known = known])
<1> DEFINE v == account.version + 1
           p == account.password + 1
           next == [account EXCEPT !.version = v, !.password = p, !.known = known]
<1>1. v \in Nat /\ p \in Nat
  BY DEF AccountRecord
<1>2. [account EXCEPT !.version = SignedOutEverywhere, !.password = @ + 1, !.known = known] = next
  BY DEF SignedOutEverywhere
<1> HIDE DEF v, p
<1>3. next \in AccountRecord /\ next.is = account.is /\ next.confirmed = account.confirmed /\ next.version = v
  BY <1>1 DEF AccountRecord
<1> HIDE DEF next
<1> QED BY <1>2, <1>3 DEF Follows, NextVersion, v

LEMMA NewEmailFollows ==
  ASSUME account \in AccountRecord
  PROVE  Follows([account EXCEPT !.version = SignedOutEverywhere, !.email = @ + 1, !.verified = FALSE])
<1> DEFINE v == account.version + 1
           e == account.email + 1
           next == [account EXCEPT !.version = v, !.email = e, !.verified = FALSE]
<1>1. v \in Nat /\ e \in Nat
  BY DEF AccountRecord
<1>2. [account EXCEPT !.version = SignedOutEverywhere, !.email = @ + 1, !.verified = FALSE] = next
  BY DEF SignedOutEverywhere
<1> HIDE DEF v, e
<1>3. next \in AccountRecord /\ next.is = account.is /\ next.confirmed = account.confirmed /\ next.version = v
  BY <1>1 DEF AccountRecord
<1> HIDE DEF next
<1> QED BY <1>2, <1>3 DEF Follows, NextVersion, v

LEMMA NewVersionFollows ==
  ASSUME account \in AccountRecord, NEW known \in BOOLEAN
  PROVE  Follows([account EXCEPT !.version = SignedOutEverywhere, !.known = known])
<1> DEFINE v == account.version + 1
           next == [account EXCEPT !.version = v, !.known = known]
<1>1. v \in Nat
  BY DEF AccountRecord
<1>2. [account EXCEPT !.version = SignedOutEverywhere, !.known = known] = next
  BY DEF SignedOutEverywhere
<1> HIDE DEF v
<1>3. next \in AccountRecord /\ next.is = account.is /\ next.confirmed = account.confirmed /\ next.version = v
  BY <1>1 DEF AccountRecord
<1> HIDE DEF next
<1> QED BY <1>2, <1>3 DEF Follows, NextVersion, v

LEMMA SavedFollows ==
  ASSUME account \in AccountRecord, NEW r, r.form \in {"password", "everywhere", "email", "delete", "google", "verify"}
  PROVE  Follows(Saved(r))
<1>1. CASE r.form = "password"
  <2>1. Saved(r) = [account EXCEPT !.version = SignedOutEverywhere, !.password = @ + 1]
    BY <1>1 DEF Saved
  <2>2. Saved(r) = [account EXCEPT !.version = SignedOutEverywhere, !.password = @ + 1, !.known = account.known]
    BY <2>1 DEF AccountRecord
  <2>3. account.known \in BOOLEAN
    BY DEF AccountRecord
  <2> QED BY <2>2, <2>3, NewPasswordFollows
<1>2. CASE r.form = "everywhere"
  BY <1>2 DEF Saved, SignedOutEverywhere, Follows, AccountRecord, NextVersion
<1>3. CASE r.form = "email"
  <2>1. Saved(r) = [account EXCEPT !.version = SignedOutEverywhere, !.email = @ + 1, !.verified = FALSE]
    BY <1>3 DEF Saved
  <2> QED BY <2>1, NewEmailFollows
<1>4. CASE r.form = "delete"
  BY <1>4 DEF Saved, Follows, AccountRecord, SamePassword
<1>5. CASE r.form = "google"
  <2>1. PICK known : known = (account.known /\ ~r.seen.known)
    OBVIOUS
  <2>2. Saved(r) = [account EXCEPT !.version = SignedOutEverywhere, !.password = @ + 1, !.known = known]
    BY <1>5, <2>1 DEF Saved
  <2>3. known \in BOOLEAN
    BY <2>1
  <2> QED BY <2>2, <2>3, NewPasswordFollows
<1>6. CASE r.form = "verify"
  BY <1>6 DEF Saved, Follows, AccountRecord, SamePassword
<1> QED BY <1>1, <1>2, <1>3, <1>4, <1>5, <1>6

(* The first save of a reset has a new password under the same version.    *)
LEMMA SavedReset ==
  ASSUME account \in AccountRecord, NEW r, r.form = "reset"
  PROVE  /\ Saved(r) \in AccountRecord
         /\ Saved(r).is = account.is /\ Saved(r).confirmed = account.confirmed
         /\ Saved(r).version = account.version
  BY DEF Saved, AccountRecord

LEMMA LinkedType ==
  ASSUME account \in AccountRecord
  PROVE  /\ Linked \in AccountRecord /\ SamePassword(Linked) /\ Linked.is = "there"
         /\ Linked.email = account.email /\ Linked.confirmed = account.confirmed
         /\ Linked.verified = (account.verified \/ account.is = "none")
<1> DEFINE v == account.verified \/ account.is = "none"
           next == [account EXCEPT !.is = "there", !.linked = TRUE, !.verified = v]
<1>1. v \in BOOLEAN
  BY DEF AccountRecord
<1>2. Linked = next
  BY Zenon DEF Linked
<1>3. next.verified = v
  BY DEF AccountRecord
<1> HIDE DEF v
<1>4. next \in AccountRecord /\ SamePassword(next) /\ next.is = "there"
      /\ next.email = account.email /\ next.confirmed = account.confirmed
  BY <1>1 DEF AccountRecord, SamePassword
<1> QED BY <1>2, <1>3, <1>4 DEF v

(* What a Google sign in still saves of the account.                       *)
LEMMA ChangedType ==
  ASSUME account \in AccountRecord, NEW r
  PROVE  /\ Changed(r) \in AccountRecord /\ SamePassword(Changed(r)) /\ Changed(r).is = account.is
         /\ Changed(r).confirmed = (account.confirmed \/ "confirmed" \in r.changes)
         /\ account.verified => Changed(r).verified
<1> DEFINE v == account.verified \/ "verified" \in r.changes
           c == account.confirmed \/ "confirmed" \in r.changes
           k == account.known /\ "known" \notin r.changes
           next == [account EXCEPT !.verified = v, !.confirmed = c, !.known = k]
<1>1. v \in BOOLEAN /\ c \in BOOLEAN /\ k \in BOOLEAN /\ (account.verified => v)
  BY DEF AccountRecord
<1>2. Changed(r) = next
  BY Zenon DEF Changed
<1> HIDE DEF v, c, k
<1>3. next \in AccountRecord /\ SamePassword(next) /\ next.is = account.is /\ next.verified = v /\ next.confirmed = c
  BY <1>1 DEF AccountRecord, SamePassword
<1> QED BY <1>1, <1>2, <1>3 DEF c

(* The second save of a confirmation.                                      *)
LEMMA ConfirmedType ==
  ASSUME account \in AccountRecord, NEW r, r.form = "verify"
  PROVE  SavedAgain(r) \in AccountRecord /\ SamePassword(SavedAgain(r)) /\ SavedAgain(r).is = account.is
         /\ SavedAgain(r).confirmed = TRUE
  BY DEF SavedAgain, AccountRecord, SamePassword

-----------------------------------------------------------------------------
(* A step takes the account onward: no version comes back, and a password  *)
(* changes with the version, with the account's end, or in a reset.        *)
Onward ==
  /\ account' \in AccountRecord
  /\ account.is # "none" => account'.is # "none"
  /\ account.version <= account'.version
  /\ Gone => Gone'
  /\ account'.version = account.version =>
       /\ account'.password = account.password \/ Resetting'
       /\ Resetting => Resetting' \/ Gone'

(* Account and requests as they were. *)
LEMMA UnchangedOnward ==
  ASSUME account \in AccountRecord, UNCHANGED account, Resetting => Resetting'
  PROVE  Onward
  BY DEF Onward, AccountRecord, Gone

LEMMA CurrentOnward ==
  ASSUME account \in AccountRecord, Onward, NEW v \in Nat, NEW p, Current(v, p)
  PROVE  Current(v, p)'
<1>1. v <= account.version /\ account.version <= account'.version /\ v <= account'.version
  BY DEF Current, Onward, AccountRecord
<1>2. ASSUME v = account'.version PROVE p = account'.password \/ Resetting' \/ Gone'
  <2>1. v = account.version /\ account'.version = account.version
    BY <1>1, <1>2 DEF AccountRecord, Onward
  <2> QED BY <2>1 DEF Current, Onward
<1> QED BY <1>1, <1>2 DEF Current

LEMMA GoodOnward ==
  ASSUME account \in AccountRecord, Onward, NEW t \in Tokens \cup {None}, Good(t)
  PROVE  Good(t)'
  BY CurrentOnward DEF Good, Tokens

LEMMA RequestOnward ==
  ASSUME account \in AccountRecord, Onward, NEW r, RequestType(r), InPlace(r)
  PROVE  InPlace(r)' /\ (GoodRequest(r) => GoodRequest(r)')
<1>1. InPlace(r)'
  BY DEF InPlace, Sees, Onward
<1>2. ASSUME GoodRequest(r) PROVE GoodRequest(r)'
  <2>1. r.sent \in Tokens \cup {None} /\ r.got \in Tokens \cup {None}
    BY DEF RequestType
  <2>2. Good(r.sent)' /\ Good(r.got)'
    BY <1>2, <2>1, GoodOnward DEF GoodRequest
  <2>3. Sees(r) => Current(r.seen.version, r.seen.password)'
    BY <1>2, CurrentOnward DEF GoodRequest, InPlace, Sights
  <2> QED BY <1>2, <2>2, <2>3 DEF GoodRequest, Sees
<1> QED BY <1>1, <1>2

-----------------------------------------------------------------------------
Sound == Types /\ (Excepted \/ AllGood)

(* What most steps share: the history keeps its exceptions, the tokens and *)
(* the links are typed, and every token held is good.                      *)
Keeping ==
  /\ history' \in HistoryRecord
  /\ Excepted => Excepted'
  /\ token' \in [Devices -> Tokens \cup {None}]
  /\ \A l \in links' : l.of \in Nat
  /\ Excepted' \/ \A d \in Devices : Good(token[d])'

GoodNow(c) == RequestType(c) /\ InPlace(c) /\ (Excepted \/ GoodRequest(c))

(* The requests after a step are those before it and good ones.            *)
LEMMA SoundOnward ==
  ASSUME Sound, Onward, Keeping, \A c \in requests' : c \in requests \/ GoodNow(c)'
  PROVE  Sound'
<1> USE DEF Sound, Types
<1>1. ASSUME NEW c \in requests' PROVE GoodNow(c)'
  <2>1. CASE c \in requests
    <3>1. RequestType(c)' /\ InPlace(c)' /\ (GoodRequest(c) => GoodRequest(c)')
      BY <2>1, RequestOnward DEF RequestType
    <3>2. Excepted' \/ GoodRequest(c)'
      BY <2>1, <3>1 DEF AllGood, Keeping
    <3> QED BY <3>1, <3>2 DEF GoodNow
  <2> QED BY <1>1, <2>1
<1>2. Types'
  BY <1>1 DEF Onward, Keeping, GoodNow
<1>3. Excepted' \/ AllGood'
  BY <1>1 DEF Keeping, GoodNow, AllGood
<1> QED BY <1>2, <1>3

LEMMA TokensOnward ==
  ASSUME Sound, Onward, UNCHANGED token, Excepted => Excepted'
  PROVE  /\ token' \in [Devices -> Tokens \cup {None}]
         /\ Excepted' \/ \A d \in Devices : Good(token[d])'
<1>1. token \in [Devices -> Tokens \cup {None}] /\ account \in AccountRecord
  BY DEF Sound, Types
<1>2. ASSUME ~Excepted', NEW d \in Devices PROVE Good(token[d])'
  <2>1. token[d] \in Tokens \cup {None} /\ Good(token[d])
    BY <1>1, <1>2 DEF Sound, AllGood
  <2>2. Good(token[d])'
    BY <1>1, <2>1, GoodOnward
  <2> QED BY <2>2
<1> QED BY <1>1, <1>2

-----------------------------------------------------------------------------
(* One request of those being served changes, and is no reset's between    *)
(* its two saves.                                                          *)
Reset(r) == r.form = "reset" /\ r.stage = "saved"

LEMMA BecomesResetting ==
  ASSUME NEW r \in requests, NEW c, Becomes(r, c), ~Reset(r)
  PROVE  (Resetting => Resetting') /\ (Reset(c) => Resetting')
  BY DEF Becomes, Resetting, Reset

(* A request that is served becomes a good one, the rest follows the       *)
(* account onward.                                                         *)
LEMMA ServeStep ==
  ASSUME Sound, NEW r \in requests, NEW c, Becomes(r, c), Onward, GoodNow(c)', UNCHANGED token,
         history' \in HistoryRecord, Excepted => Excepted', \A l \in links' : l.of \in Nat
  PROVE  Sound'
<1>1. Keeping
  BY TokensOnward DEF Keeping
<1>2. \A q \in requests' : q \in requests \/ GoodNow(q)'
  BY DEF Becomes
<1> QED BY <1>1, <1>2, SoundOnward

(* What is known of a request when its answer is made.                     *)
Known(r) == RequestType(r) /\ InPlace(r) /\ (Excepted \/ GoodRequest(r))

LEMMA KnownNow ==
  ASSUME Sound, NEW r \in requests
  PROVE  Known(r)
  BY DEF Known, Sound, Types, AllGood

LEMMA KnownNext ==
  ASSUME Sound, NEW r \in requests, Onward, Excepted => Excepted'
  PROVE  Known(r)'
<1>1. RequestType(r)' /\ InPlace(r)' /\ (GoodRequest(r) => GoodRequest(r)')
  BY RequestOnward DEF Sound, Types, RequestType
<1> QED BY <1>1 DEF Known, Sound, AllGood

(* The server's answers.                                                   *)
LEMMA Answered ==
  ASSUME NEW r, Known(r)', NEW o \in {"refused", "expired", "done"}
  PROVE  GoodNow([r EXCEPT !.stage = "answered", !.outcome = o, !.seen = None])'
<1> DEFINE c == [r EXCEPT !.stage = "answered", !.outcome = o, !.seen = None]
<1> USE DEF Known
<1>1. RequestType(c) /\ c.stage = "answered" /\ c.outcome = o /\ c.sent = r.sent /\ c.got = r.got
  BY DEF RequestType
<1> HIDE DEF c
<1>2. InPlace(c)'
  BY <1>1 DEF InPlace, Sees
<1>3. Excepted' \/ GoodRequest(c)'
  BY <1>1 DEF GoodRequest, Sees
<1>4. GoodNow(c)'
  BY <1>1, <1>2, <1>3 DEF GoodNow, RequestType
<1> QED BY <1>4 DEF c

LEMMA AnsweredToken ==
  ASSUME NEW r, Known(r)', NEW t \in Tokens, Excepted' \/ Good(t)'
  PROVE  GoodNow([r EXCEPT !.stage = "answered", !.outcome = "token", !.got = t, !.seen = None])'
<1> DEFINE c == [r EXCEPT !.stage = "answered", !.outcome = "token", !.got = t, !.seen = None]
<1> USE DEF Known
<1>1. RequestType(c) /\ c.stage = "answered" /\ c.sent = r.sent /\ c.got = t
  BY DEF RequestType
<1> HIDE DEF c
<1>2. InPlace(c)'
  BY <1>1 DEF InPlace, Sees
<1>3. Excepted' \/ GoodRequest(c)'
  BY <1>1 DEF GoodRequest, Sees
<1>4. GoodNow(c)'
  BY <1>1, <1>2, <1>3 DEF GoodNow, RequestType
<1> QED BY <1>4 DEF c

(* What is seen of an account is of one moment.                            *)
LEMMA SeenIsCurrent ==
  ASSUME account \in AccountRecord
  PROVE  Seen \in Sights /\ Seen.version = account.version /\ Current(Seen.version, Seen.password)
<1>1. Seen \in Sights /\ Seen.version = account.version /\ Seen.password = account.password
  BY DEF AccountRecord, Sights, Seen
<1>2. Seen.version <= account.version
  BY <1>1 DEF AccountRecord
<1> QED BY <1>1, <1>2 DEF Current

LEMMA SeenIsCurrentNext ==
  ASSUME account' \in AccountRecord
  PROVE  Seen' \in Sights /\ Current(Seen.version, Seen.password)'
<1>1. Seen' \in Sights /\ Seen'.version = account'.version /\ Seen'.password = account'.password
  BY DEF AccountRecord, Sights, Seen
<1>2. Seen'.version <= account'.version
  BY <1>1 DEF AccountRecord
<1> QED BY <1>1, <1>2 DEF Current

(* A request that goes on with what it saw.                                *)
LEMMA GoesOn ==
  ASSUME NEW r, Known(r)', NEW stage \in {"checked", "saved"}, NEW s \in Sights, NEW changes \in SUBSET Changes,
         Excepted' \/ Current(s.version, s.password)',
         stage = "checked" /\ r.form = "renew" => r.sent \in Tokens \ {None} /\ r.sent.version = s.version,
         stage = "saved" => r.form \in {"password", "reset", "google", "verify"},
         stage = "saved" /\ r.form = "reset" => account'.is # "none",
         NEW c, c = [r EXCEPT !.stage = stage, !.seen = s, !.changes = changes]
  PROVE  GoodNow(c)'
<1> USE DEF Known
<1>1. RequestType(c) /\ c.stage = stage /\ c.seen = s /\ c.sent = r.sent /\ c.got = r.got /\ c.form = r.form
      /\ c.outcome = r.outcome
  BY DEF RequestType
<1>2. InPlace(c)'
  BY <1>1 DEF InPlace, Sees
<1>3. Excepted' \/ GoodRequest(c)'
  BY <1>1 DEF GoodRequest
<1> QED BY <1>1, <1>2, <1>3 DEF GoodNow, RequestType

LEMMA ChangesKept ==
  ASSUME NEW r, RequestType(r), NEW stage, NEW s
  PROVE  [r EXCEPT !.stage = stage, !.seen = s] = [r EXCEPT !.stage = stage, !.seen = s, !.changes = r.changes]
         /\ r.changes \in SUBSET Changes
  BY DEF RequestType

-----------------------------------------------------------------------------
(* The steps of the server.                                                *)
LEMMA LoadSound ==
  ASSUME Sound, NEW r \in requests, Load(r)
  PROVE  Sound'
<1>1. r.stage = "sent" /\ Known(r) /\ ~Reset(r)
  BY KnownNow DEF Load, Reset
<1>2. UNCHANGED <<account, links, token, stale, history>>
  BY DEF Load
<1>3. \E c : Becomes(r, c)
  BY DEF Load, Answer
<1>4. Onward
  BY <1>1, <1>2, <1>3, BecomesResetting, UnchangedOnward DEF Sound, Types
<1>5. Excepted' <=> Excepted
  BY <1>2 DEF Excepted
<1>6. Known(r)'
  BY <1>4, <1>5, KnownNext
<1>7. PICK c : Becomes(r, c) /\ GoodNow(c)'
  <2>1. CASE MayGoOn(r) /\ r.form # "google" /\ Becomes(r, [r EXCEPT !.stage = "checked", !.seen = Seen])
    <3>1. r.form = "renew" => r.sent \in Tokens \ {None} /\ r.sent.version = account.version
      BY <1>1, <2>1 DEF MayGoOn, Valid, Known, RequestType
    <3>2. Seen \in Sights /\ Seen.version = account.version /\ Current(Seen.version, Seen.password)'
      <4>1. account \in AccountRecord
        BY DEF Sound, Types
      <4>2. Seen \in Sights /\ Seen.version = account.version /\ Current(Seen.version, Seen.password)
        BY <4>1, SeenIsCurrent
      <4>3. Current(Seen.version, Seen.password)'
        <5>1. PICK s : s = Seen
          OBVIOUS
        <5>2. Current(s.version, s.password)'
          BY <1>4, <4>1, <4>2, <5>1, CurrentOnward DEF Sights
        <5>3. Seen' = Seen
          BY <1>2 DEF Seen
        <5> QED BY <5>1, <5>2, <5>3
      <4> QED BY <4>2, <4>3
    <3>3. PICK s : s = Seen
      OBVIOUS
    <3>4. Seen' = Seen
      BY <1>2 DEF Seen
    <3>5. PICK c : c = [r EXCEPT !.stage = "checked", !.seen = s, !.changes = r.changes]
      OBVIOUS
    <3>6. c = [r EXCEPT !.stage = "checked", !.seen = s] /\ r.changes \in SUBSET Changes
      BY <1>1, <3>5, ChangesKept DEF Known
    <3>7. GoodNow(c)'
      <4>1. s \in Sights /\ Current(s.version, s.password)'
        BY <3>2, <3>3, <3>4
      <4>2. r.form = "renew" => r.sent \in Tokens \ {None} /\ r.sent.version = s.version
        BY <3>1, <3>2, <3>3
      <4>3. PICK stage \in {"checked", "saved"} : stage = "checked"
        OBVIOUS
      <4>4. c = [r EXCEPT !.stage = stage, !.seen = s, !.changes = r.changes] /\ r.changes \in SUBSET Changes
        BY <3>5, <3>6, <4>3
      <4>5. stage # "saved"
        BY <4>3
      <4>6. r.form = "renew" => r.sent \in Tokens \ {None}
        BY <4>2
      <4> QED BY <1>6, <4>1, <4>2, <4>4, <4>5, <4>6, GoesOn
    <3> QED BY <2>1, <3>3, <3>6, <3>7
  <2>4. CASE r.form = "google" /\ Becomes(r, LookedUp(r))
    <3>1. r.seen \in Sights /\ RequestType(r) /\ account.known \in BOOLEAN
      BY <1>1, <2>4 DEF Known, InPlace, Sees, Sound, Types, AccountRecord
    <3>2. PICK s : s = [r.seen EXCEPT !.known = account.known]
      OBVIOUS
    <3>3. s \in Sights /\ s.version = r.seen.version /\ s.password = r.seen.password
      BY <3>1, <3>2 DEF Sights
    <3>4. Excepted' \/ Current(s.version, s.password)'
      BY <1>1, <1>6, <2>4, <3>3 DEF Known, GoodRequest, Sees
    <3>5. PICK stage \in {"checked", "saved"} : stage = IF There /\ ~account.linked THEN "checked" ELSE "saved"
      OBVIOUS
    <3>6. PICK changes \in SUBSET Changes : changes = IF There THEN {} ELSE {"known"}
      BY DEF Changes
    <3>7. PICK c : c = [r EXCEPT !.stage = stage, !.seen = s, !.changes = changes]
      OBVIOUS
    <3>8. c = LookedUp(r)
      BY <3>1, <3>2, <3>5, <3>6, <3>7 DEF LookedUp, RequestType
    <3>9. GoodNow(c)'
      BY <1>6, <2>4, <3>3, <3>4, <3>7, GoesOn
    <3> QED BY <2>4, <3>8, <3>9
  <2>2. ASSUME NEW o \in {"refused", "expired"}, Answer(r, o)
        PROVE  \E c : Becomes(r, c) /\ GoodNow(c)'
    <3>1. GoodNow([r EXCEPT !.stage = "answered", !.outcome = o, !.seen = None])'
      BY <1>6, <2>2, Answered
    <3> QED BY <2>2, <3>1 DEF Answer
  <2>3. (IF r.form \in AtLogin \cup {"verify"} THEN "refused" ELSE "expired") \in {"refused", "expired"}
    OBVIOUS
  <2> QED BY <2>1, <2>2, <2>3, <2>4 DEF Load
<1> QED BY <1>2, <1>4, <1>5, <1>7, ServeStep DEF Sound, Types

(* What each step notes in the history.                                    *)
LEMMA SaveNotes ==
  ASSUME history \in HistoryRecord, NEW r,
         history' = [history EXCEPT !.confirmed = @ \/ r.form = "verify",
                                    !.crossed   = @ \/ Crosses(r),
                                    !.outlived  = @ \/ Outlives(r),
                                    !.halfway   = @ \/ (r.form = "email" /\ Halfway),
                                    !.late      = @ \/ (r.form = "verify" /\ stale)]
  PROVE  /\ history' \in HistoryRecord
         /\ Excepted' <=> Excepted \/ Crosses(r) \/ Outlives(r)
         /\ history'.confirmed <=> history.confirmed \/ r.form = "verify"
         /\ history'.halfway <=> history.halfway \/ (r.form = "email" /\ Halfway)
         /\ history'.late <=> history.late \/ (r.form = "verify" /\ stale)
<1> DEFINE a == history.confirmed \/ r.form = "verify"
           b == history.crossed \/ Crosses(r)
           c == history.outlived \/ Outlives(r)
           d == history.halfway \/ (r.form = "email" /\ Halfway)
           e == history.late \/ (r.form = "verify" /\ stale)
           h == [history EXCEPT !.confirmed = a, !.crossed = b, !.outlived = c, !.halfway = d, !.late = e]
<1>1. a \in BOOLEAN /\ b \in BOOLEAN /\ c \in BOOLEAN /\ d \in BOOLEAN /\ e \in BOOLEAN
  BY Zenon DEF HistoryRecord
<1>2. history' = h
  OBVIOUS
<1> HIDE DEF a, b, c, d, e
<1>3. /\ h \in HistoryRecord
      /\ h.confirmed = a /\ h.crossed = b /\ h.outlived = c /\ h.halfway = d /\ h.late = e
      /\ h.stopped = history.stopped
  BY <1>1 DEF HistoryRecord
<1> HIDE DEF h
<1>4. Excepted' <=> b \/ c \/ history.stopped
  BY <1>2, <1>3 DEF Excepted
<1> QED BY <1>2, <1>3, <1>4 DEF a, b, c, d, e, Excepted

LEMMA LinkNotes ==
  ASSUME history \in HistoryRecord, NEW r,
         history' = [history EXCEPT !.confirmed = @ \/ account.is = "none", !.outlived = @ \/ Outlives(r)]
  PROVE  /\ history' \in HistoryRecord
         /\ Excepted' <=> Excepted \/ Outlives(r)
         /\ history'.confirmed <=> history.confirmed \/ account.is = "none"
         /\ history'.halfway = history.halfway /\ history'.late = history.late
<1> DEFINE a == history.confirmed \/ account.is = "none"
           c == history.outlived \/ Outlives(r)
           h == [history EXCEPT !.confirmed = a, !.outlived = c]
<1>1. a \in BOOLEAN /\ c \in BOOLEAN
  BY Zenon DEF HistoryRecord
<1>2. history' = h
  OBVIOUS
<1> HIDE DEF a, c
<1>3. /\ h \in HistoryRecord
      /\ h.confirmed = a /\ h.outlived = c /\ h.halfway = history.halfway /\ h.late = history.late
      /\ h.stopped = history.stopped /\ h.crossed = history.crossed
  BY <1>1 DEF HistoryRecord
<1> HIDE DEF h
<1>4. Excepted' <=> c \/ history.stopped \/ history.crossed
  BY <1>2, <1>3 DEF Excepted
<1> QED BY <1>2, <1>3, <1>4 DEF a, c, Excepted

LEMMA GoogleNotes ==
  ASSUME history \in HistoryRecord, NEW r,
         history' = [history EXCEPT !.confirmed = @ \/ "confirmed" \in r.changes,
                                    !.outlived  = @ \/ Outlives(r),
                                    !.late      = @ \/ ("confirmed" \in r.changes /\ stale)]
  PROVE  /\ history' \in HistoryRecord
         /\ Excepted' <=> Excepted \/ Outlives(r)
         /\ history'.confirmed <=> history.confirmed \/ "confirmed" \in r.changes
         /\ history'.late <=> history.late \/ ("confirmed" \in r.changes /\ stale)
         /\ history'.halfway = history.halfway
<1> DEFINE a == history.confirmed \/ "confirmed" \in r.changes
           c == history.outlived \/ Outlives(r)
           e == history.late \/ ("confirmed" \in r.changes /\ stale)
           h == [history EXCEPT !.confirmed = a, !.outlived = c, !.late = e]
<1>1. a \in BOOLEAN /\ c \in BOOLEAN /\ e \in BOOLEAN
  BY Zenon DEF HistoryRecord
<1>2. history' = h
  OBVIOUS
<1> HIDE DEF a, c, e
<1>3. /\ h \in HistoryRecord
      /\ h.confirmed = a /\ h.outlived = c /\ h.late = e /\ h.halfway = history.halfway
      /\ h.stopped = history.stopped /\ h.crossed = history.crossed
  BY <1>1 DEF HistoryRecord
<1> HIDE DEF h
<1>4. Excepted' <=> c \/ history.stopped \/ history.crossed
  BY <1>2, <1>3 DEF Excepted
<1> QED BY <1>2, <1>3, <1>4 DEF a, c, e, Excepted

LEMMA FinishNotes ==
  ASSUME history \in HistoryRecord, NEW r, history' = [history EXCEPT !.crossed = @ \/ Crosses(r)]
  PROVE  /\ history' \in HistoryRecord
         /\ Excepted' <=> Excepted \/ Crosses(r)
         /\ history'.confirmed = history.confirmed /\ history'.halfway = history.halfway
         /\ history'.late = history.late
<1> DEFINE b == history.crossed \/ Crosses(r)
           h == [history EXCEPT !.crossed = b]
<1>1. b \in BOOLEAN
  BY Zenon DEF HistoryRecord
<1>2. history' = h
  OBVIOUS
<1> HIDE DEF b
<1>3. /\ h \in HistoryRecord
      /\ h.crossed = b /\ h.confirmed = history.confirmed /\ h.halfway = history.halfway /\ h.late = history.late
      /\ h.stopped = history.stopped /\ h.outlived = history.outlived
  BY <1>1 DEF HistoryRecord
<1> HIDE DEF h
<1>4. Excepted' <=> b \/ history.stopped \/ history.outlived
  BY <1>2, <1>3 DEF Excepted
<1> QED BY <1>2, <1>3, <1>4 DEF b, Excepted

LEMMA RestartNotes ==
  ASSUME history \in HistoryRecord,
         history' = [history EXCEPT !.stopped = @ \/ Resetting, !.halfway = @ \/ Halfway]
  PROVE  /\ history' \in HistoryRecord
         /\ Excepted' <=> Excepted \/ Resetting
         /\ history'.halfway <=> history.halfway \/ Halfway
         /\ history'.confirmed = history.confirmed
<1> DEFINE a == history.stopped \/ Resetting
           d == history.halfway \/ Halfway
           h == [history EXCEPT !.stopped = a, !.halfway = d]
<1>1. a \in BOOLEAN /\ d \in BOOLEAN
  BY Zenon DEF HistoryRecord
<1>2. history' = h
  OBVIOUS
<1> HIDE DEF a, d
<1>3. /\ h \in HistoryRecord
      /\ h.stopped = a /\ h.halfway = d /\ h.confirmed = history.confirmed
      /\ h.crossed = history.crossed /\ h.outlived = history.outlived
  BY <1>1 DEF HistoryRecord
<1> HIDE DEF h
<1>4. Excepted' <=> a \/ history.crossed \/ history.outlived
  BY <1>2, <1>3 DEF Excepted
<1> QED BY <1>2, <1>3, <1>4 DEF a, d, Excepted

(* What the account becomes is onward of what it was.                      *)
LEMMA FollowsOnward ==
  ASSUME account \in AccountRecord, Follows(account'), Resetting => Resetting'
  PROVE  Onward
<1>1. account'.version \in Nat /\ account.version \in Nat
  BY DEF Follows, AccountRecord
<1>2. Gone => Gone'
  BY DEF Follows, Gone
<1>3. account.is # "none" => account'.is # "none"
  BY DEF Follows
<1> QED BY <1>1, <1>2, <1>3 DEF Follows, Onward, SamePassword, NextVersion

(* What a save makes of its request: the next stage, or the answer.        *)
LEMMA SaveSound ==
  ASSUME Sound, NEW r \in requests, Save(r)
  PROVE  Sound'
<1>1. r.stage = "checked" /\ r.form \notin {"login", "renew"} /\ Known(r) /\ ~Reset(r)
  BY KnownNow DEF Save, Reset
<1>2. UNCHANGED token /\ account \in AccountRecord /\ history \in HistoryRecord /\ \A l \in links : l.of \in Nat
  BY DEF Save, Sound, Types
<1>3. CASE There
  <2>1. account' = Saved(r)
    BY <1>3 DEF Save
  <2>2. history' \in HistoryRecord /\ (Excepted => Excepted') /\ (Outlives(r) => Excepted')
    BY <1>2, <1>3, SaveNotes DEF Save
  <2>3. \A l \in links' : l.of \in Nat
    <3>1. account.email + 1 \in Nat
      BY <1>2 DEF AccountRecord
    <3>2. links' = links \/ links' = links \cup {ToConfirm(account.email + 1)}
      BY <1>3 DEF Save, Emailed
    <3> QED BY <1>2, <3>1, <3>2 DEF ToConfirm
  <2> DEFINE s == [r EXCEPT !.stage = "saved", !.seen = IF Outlives(r) THEN @ ELSE Seen']
             a == [r EXCEPT !.stage = "answered", !.outcome = "done", !.seen = None]
  <2>4. IF r.form \in {"password", "reset", "google", "verify"} THEN Becomes(r, s) ELSE Becomes(r, a)
    BY <1>3 DEF Save, Answer
  <2>5. Onward
    <3>1. CASE r.form = "reset"
      <4>1. account' \in AccountRecord /\ account'.is = account.is /\ account'.version = account.version
        BY <1>2, <2>1, <3>1, SavedReset
      <4>2. Becomes(r, s) /\ Reset(s)
        BY <1>1, <2>4, <3>1 DEF Reset, Known, RequestType
      <4>3. Resetting'
        BY <1>1, <4>2, BecomesResetting
      <4> QED BY <1>2, <4>1, <4>3 DEF Onward, Gone, AccountRecord
    <3>2. CASE r.form # "reset"
      <4>1. r.form \in {"password", "everywhere", "email", "delete", "google", "verify"}
        BY <1>1, <3>2 DEF Known, RequestType, Forms, AtLogin, NeedsPassword
      <4>2. Follows(account')
        BY <1>2, <2>1, <4>1, SavedFollows
      <4>3. Resetting => Resetting'
        BY <1>1, <2>4, BecomesResetting
      <4> QED BY <1>2, <4>2, <4>3, FollowsOnward
    <3> QED BY <3>1, <3>2
  <2>6. Known(r)'
    BY <2>2, <2>5, KnownNext
  <2>7. CASE r.form \in {"password", "reset", "google", "verify"}
    <3>1. r.form = "reset" => account'.is # "none"
      BY <1>3, <2>5 DEF There, Onward
    <3>2. PICK w : w = Seen'
      OBVIOUS
    <3>3. w \in Sights /\ Current(w.version, w.password)'
      <4>1. account' \in AccountRecord
        BY <2>5 DEF Onward
      <4>2. Seen' \in Sights /\ Current(Seen.version, Seen.password)'
        BY <4>1, SeenIsCurrentNext
      <4> QED BY <3>2, <4>2
    <3>4. r.seen \in Sights
      BY <1>1 DEF Known, InPlace, Sees
    <3>5. PICK v \in Sights : v = IF Outlives(r) THEN r.seen ELSE w
      BY <3>3, <3>4
    <3>6. Excepted' \/ Current(v.version, v.password)'
      BY <2>2, <3>3, <3>5
    <3>7. PICK c : c = [r EXCEPT !.stage = "saved", !.seen = v, !.changes = r.changes]
      OBVIOUS
    <3>8. c = s /\ r.changes \in SUBSET Changes
      <4>1. c = [r EXCEPT !.stage = "saved", !.seen = v] /\ r.changes \in SUBSET Changes
        BY <1>1, <3>7, ChangesKept DEF Known
      <4> QED BY <3>2, <3>5, <4>1
    <3> HIDE DEF s
    <3>9. GoodNow(c)' /\ Becomes(r, c)
      BY <2>4, <2>6, <2>7, <3>1, <3>6, <3>7, <3>8, GoesOn
    <3> QED BY <2>2, <2>3, <2>4, <2>5, <2>7, <1>2, <3>9, ServeStep
  <2>8. CASE r.form \notin {"password", "reset", "google", "verify"}
    <3>1. GoodNow(a)'
      BY <2>6, Answered
    <3> HIDE DEF a
    <3> QED BY <2>2, <2>3, <2>4, <2>5, <2>8, <1>2, <3>1, ServeStep
  <2> QED BY <2>7, <2>8
<1>4. CASE ~There
  <2>1. Answer(r, "refused") /\ UNCHANGED <<account, links, history>>
    BY <1>4 DEF Save
  <2>2. Onward
    BY <1>1, <1>2, <2>1, BecomesResetting, UnchangedOnward DEF Answer
  <2>3. Excepted' <=> Excepted
    BY <2>1 DEF Excepted
  <2>4. GoodNow([r EXCEPT !.stage = "answered", !.outcome = "refused", !.seen = None])'
    BY <2>2, <2>3, KnownNext, Answered
  <2> QED BY <1>2, <2>1, <2>2, <2>3, <2>4, ServeStep DEF Answer
<1> QED BY <1>3, <1>4

(* The token of a handler is of the account as it saw it, or as it is now; *)
(* if the version has moved on meanwhile, so has the claim.                *)
LEMMA WrittenGood ==
  ASSUME Sound, NEW r \in requests, r.form \in {"login", "renew", "password"}, UNCHANGED account,
         r.stage = (IF r.form = "password" THEN "saved" ELSE "checked"), Onward, Excepted \/ Crosses(r) => Excepted',
         NEW t, t = Written(r)
  PROVE  t \in Tokens /\ (Excepted' \/ Good(t)')
<1>1. Known(r) /\ Known(r)'
  BY KnownNow, KnownNext
<1>2. r.seen \in Sights /\ account \in AccountRecord
  BY <1>1 DEF Known, InPlace, Sees, Sound, Types
<1>3. CASE r.form = "login"
  <2>1. t = [version |-> r.seen.version, since |-> r.seen.version, password |-> r.seen.password]
    BY <1>3 DEF Written, Token
  <2>2. Excepted' \/ Current(r.seen.version, r.seen.password)'
    BY <1>1, <1>3 DEF Known, GoodRequest, Sees
  <2> QED BY <1>2, <2>1, <2>2 DEF Tokens, Sights, Good
<1>4. CASE r.form = "renew"
  <2>1. t = [version |-> r.seen.version, since |-> r.sent.since, password |-> r.sent.password]
    BY <1>4 DEF Written, Token
  <2>2. r.sent \in Tokens \ {None}
    BY <1>1, <1>4 DEF Known, InPlace
  <2>3. Excepted' \/ (r.seen.version = r.sent.version /\ Good(r.sent)')
    BY <1>1, <1>4 DEF Known, GoodRequest
  <2> QED BY <1>2, <2>1, <2>2, <2>3 DEF Tokens, Sights, Good
<1>5. CASE r.form = "password"
  <2>1. t = [version |-> account.version, since |-> r.seen.version, password |-> r.seen.password]
    BY <1>5 DEF Written, Token
  <2>2. Excepted' \/ (account.version = r.seen.version /\ Current(r.seen.version, r.seen.password)')
    BY <1>1, <1>5 DEF Known, GoodRequest, Sees, Crosses
  <2> QED BY <1>2, <2>1, <2>2 DEF Tokens, Sights, Good, AccountRecord
<1> QED BY <1>3, <1>4, <1>5

(* Google's token is of the version it was proved with, or the claim is    *)
(* given up.                                                               *)
LEMMA GoogleGood ==
  ASSUME Sound, NEW r \in requests, r.form = "google", r.stage \in {"saved", "linked"}, Onward,
         SamePassword(account'), Excepted => Excepted', Outlives(r) => Excepted', NEW t, t = Written(r)
  PROVE  t \in Tokens /\ (Excepted' \/ Good(t)')
<1>1. Known(r) /\ Known(r)'
  BY KnownNow, KnownNext
<1>2. r.seen \in Sights /\ account \in AccountRecord
  BY <1>1 DEF Known, InPlace, Sees, Sound, Types
<1>3. t = [version |-> account.version, since |-> r.seen.version, password |-> r.seen.password]
  BY DEF Written, Token
<1>4. Excepted' \/ (account.version = r.seen.version /\ Current(r.seen.version, r.seen.password)')
  BY <1>1 DEF Known, GoodRequest, Sees, Outlives
<1> QED BY <1>2, <1>3, <1>4 DEF Tokens, Sights, Good, AccountRecord

LEMMA LinkSound ==
  ASSUME Sound, NEW r \in requests, Link(r)
  PROVE  Sound'
<1>1. r.form = "google" /\ r.stage = "saved" /\ Known(r) /\ UNCHANGED <<token, links>> /\ Types
  BY KnownNow DEF Link, Sound
<1>2. account \in AccountRecord /\ history \in HistoryRecord /\ \A l \in links' : l.of \in Nat
  BY <1>1 DEF Types
<1>3. CASE OfGoogle
  <2> DEFINE b == [r EXCEPT !.stage = "linked", !.changes = ToBeSaved(r, Linked), !.got = Written(r)]
  <2>1. account' = Linked /\ Becomes(r, b)
    BY <1>3 DEF Link
  <2>2. history' \in HistoryRecord /\ (Excepted => Excepted') /\ (Outlives(r) => Excepted')
    BY <1>2, <1>3, LinkNotes DEF Link
  <2>3. account' \in AccountRecord /\ SamePassword(account') /\ account'.is = "there"
    BY <1>2, <2>1, LinkedType
  <2>4. Resetting => Resetting'
    BY <1>1, <2>1, BecomesResetting DEF Reset
  <2>5. Onward
    BY <1>2, <1>3, <2>3, <2>4 DEF Onward, SamePassword, OfGoogle, Gone, There, AccountRecord
  <2>6. PICK t : t = Written(r)
    OBVIOUS
  <2>7. t \in Tokens /\ (Excepted' \/ Good(t)')
    BY <1>1, <2>2, <2>3, <2>5, <2>6, GoogleGood
  <2>8. PICK ch : ch = ToBeSaved(r, Linked)
    OBVIOUS
  <2>9. ch \in SUBSET Changes
    BY <1>1, <2>8 DEF ToBeSaved, Known, RequestType, Changes
  <2>10. PICK c : c = [r EXCEPT !.stage = "linked", !.changes = ch, !.got = t]
    OBVIOUS
  <2>11. Becomes(r, c)
    BY <2>1, <2>6, <2>8, <2>10
  <2> HIDE DEF b
  <2>12. Known(r)'
    BY <2>2, <2>5, KnownNext
  <2>13. RequestType(c) /\ c.stage = "linked" /\ c.form = "google" /\ c.seen = r.seen /\ c.sent = r.sent /\ c.got = t
         /\ c.outcome = r.outcome
    BY <1>1, <2>7, <2>9, <2>10 DEF Known, RequestType
  <2>14. InPlace(c)'
    BY <1>1, <2>7, <2>12, <2>13 DEF Known, InPlace, Sees
  <2>15. Excepted' \/ GoodRequest(c)'
    BY <1>1, <2>7, <2>12, <2>13 DEF Known, GoodRequest, Sees
  <2>16. GoodNow(c)'
    BY <2>13, <2>14, <2>15 DEF GoodNow, RequestType
  <2> QED BY <1>1, <1>2, <2>2, <2>5, <2>11, <2>16, ServeStep
<1>4. CASE ~OfGoogle
  <2>1. account' = account /\ history' = history /\ Answer(r, "refused")
    BY <1>4 DEF Link
  <2>2. Onward
    BY <1>1, <1>2, <2>1, BecomesResetting, UnchangedOnward DEF Answer, Reset
  <2>3. Excepted' <=> Excepted
    BY <2>1 DEF Excepted
  <2>4. GoodNow([r EXCEPT !.stage = "answered", !.outcome = "refused", !.seen = None])'
    BY <2>2, <2>3, KnownNext, Answered
  <2> QED BY <1>1, <1>2, <2>1, <2>2, <2>3, <2>4, ServeStep DEF Answer
<1> QED BY <1>3, <1>4

LEMMA GoogleEndsSound ==
  ASSUME Sound, NEW r \in requests, GoogleEnds(r)
  PROVE  Sound'
<1>1. r.form = "google" /\ r.stage = "linked" /\ Known(r) /\ UNCHANGED <<token, links>> /\ Types
  BY KnownNow DEF GoogleEnds, Sound
<1>2. account \in AccountRecord /\ history \in HistoryRecord /\ \A l \in links' : l.of \in Nat
  BY <1>1 DEF Types
<1>3. CASE /\ account' = Changed(r) /\ AnswerToken(r, Written(r))
           /\ history' = [history EXCEPT !.confirmed = @ \/ "confirmed" \in r.changes,
                                         !.outlived  = @ \/ Outlives(r),
                                         !.late      = @ \/ ("confirmed" \in r.changes /\ stale)]
  <2>1. history' \in HistoryRecord /\ (Excepted => Excepted') /\ (Outlives(r) => Excepted')
    BY <1>2, <1>3, GoogleNotes
  <2>2. account' \in AccountRecord /\ SamePassword(account') /\ account'.is = account.is
    BY <1>2, <1>3, ChangedType
  <2>3. Resetting => Resetting'
    BY <1>1, <1>3, BecomesResetting DEF AnswerToken, Reset
  <2>4. Onward
    BY <1>2, <2>2, <2>3 DEF Onward, SamePassword, Gone, AccountRecord
  <2>5. PICK t : t = Written(r)
    OBVIOUS
  <2>6. t \in Tokens /\ (Excepted' \/ Good(t)')
    BY <1>1, <2>1, <2>2, <2>4, <2>5, GoogleGood
  <2>7. GoodNow([r EXCEPT !.stage = "answered", !.outcome = "token", !.got = t, !.seen = None])'
    BY <2>1, <2>4, <2>6, KnownNext, AnsweredToken
  <2> QED BY <1>1, <1>2, <1>3, <2>1, <2>4, <2>5, <2>7, ServeStep DEF AnswerToken
<1>4. CASE UNCHANGED <<account, history>> /\ AnswerToken(r, r.got)
  <2>1. Onward
    BY <1>1, <1>2, <1>4, BecomesResetting, UnchangedOnward DEF AnswerToken, Reset
  <2>2. Excepted' <=> Excepted
    BY <1>4 DEF Excepted
  <2>3. PICK t : t = r.got
    OBVIOUS
  <2>4. t \in Tokens /\ (Excepted' \/ Good(t)')
    <3>1. r.got \in Tokens
      BY <1>1 DEF Known, InPlace
    <3>2. Known(r)'
      BY <2>1, <2>2, KnownNext
    <3> QED BY <2>3, <3>1, <3>2 DEF Known, GoodRequest
  <2>5. GoodNow([r EXCEPT !.stage = "answered", !.outcome = "token", !.got = t, !.seen = None])'
    BY <2>1, <2>2, <2>4, KnownNext, AnsweredToken
  <2> QED BY <1>1, <1>2, <1>4, <2>1, <2>2, <2>3, <2>5, ServeStep DEF AnswerToken
<1>5. CASE UNCHANGED <<account, history>> /\ Answer(r, "refused")
  <2>1. Onward
    BY <1>1, <1>2, <1>5, BecomesResetting, UnchangedOnward DEF Answer, Reset
  <2>2. Excepted' <=> Excepted
    BY <1>5 DEF Excepted
  <2>3. GoodNow([r EXCEPT !.stage = "answered", !.outcome = "refused", !.seen = None])'
    BY <2>1, <2>2, KnownNext, Answered
  <2> QED BY <1>1, <1>2, <1>5, <2>1, <2>2, <2>3, ServeStep DEF Answer
<1> QED BY <1>3, <1>4, <1>5 DEF GoogleEnds

LEMMA FinishSound ==
  ASSUME Sound, NEW r \in requests, Finish(r)
  PROVE  Sound'
<1>1. r.form # "google" /\ Known(r) /\ UNCHANGED <<token, links>> /\ Types
  BY KnownNow DEF Finish, Sound
<1>2. account \in AccountRecord /\ history \in HistoryRecord /\ \A l \in links' : l.of \in Nat
  BY <1>1 DEF Types
<1>3. history' \in HistoryRecord /\ (Excepted \/ Crosses(r) => Excepted')
  BY <1>2, FinishNotes DEF Finish
<1>4. CASE r.form \in {"reset", "verify"}
  <2>1. /\ r.stage = "saved"
        /\ account' = IF There THEN SavedAgain(r) ELSE account
        /\ Answer(r, IF There THEN "done" ELSE "refused")
    BY <1>4 DEF Finish
  <2>2. ASSUME There, r.form = "reset" PROVE Onward
    <3>1. PICK k : k = (account.known \/ ~r.seen.known)
      OBVIOUS
    <3>2. k \in BOOLEAN
      BY <3>1
    <3>3. account' = [account EXCEPT !.version = SignedOutEverywhere, !.known = k]
      BY <2>1, <2>2, <3>1 DEF SavedAgain
    <3>4. Follows(account') /\ account'.version = account.version + 1
      <4>1. Follows(account')
        BY <1>2, <3>2, <3>3, NewVersionFollows
      <4>2. account'.version = account.version + 1
        BY <1>2, <3>3 DEF AccountRecord, SignedOutEverywhere
      <4> QED BY <4>1, <4>2
    <3>5. account'.version \in Nat /\ account.version \in Nat /\ account'.is # "none"
      BY <1>2, <2>2, <3>4 DEF Follows, AccountRecord, There
    <3> QED BY <2>2, <3>4, <3>5 DEF Onward, Follows, Gone, There
  <2>3. ASSUME There, r.form = "verify" PROVE Onward
    <3>1. account' \in AccountRecord /\ SamePassword(account') /\ account'.is = account.is
      BY <1>2, <2>1, <2>3, ConfirmedType
    <3>2. Resetting => Resetting'
      BY <2>1, <2>3, BecomesResetting DEF Answer, Reset
    <3> QED BY <1>2, <3>1, <3>2 DEF Onward, SamePassword, Gone, AccountRecord
  <2>4. ASSUME ~There, r.form = "reset" PROVE Onward
    <3>1. account' = account /\ account.is # "none"
      BY <1>1, <2>1, <2>4 DEF Known, InPlace
    <3>2. Gone
      BY <1>2, <2>4, <3>1 DEF Gone, There, AccountRecord
    <3> QED BY <1>2, <3>1, <3>2 DEF Onward, Gone, AccountRecord
  <2>5. ASSUME ~There, r.form = "verify" PROVE Onward
    BY <1>2, <2>1, <2>5, BecomesResetting, UnchangedOnward DEF Answer, Reset
  <2>6. Onward
    BY <1>4, <2>2, <2>3, <2>4, <2>5
  <2>7. PICK o \in {"done", "refused"} : Answer(r, o)
    BY <2>1
  <2>8. GoodNow([r EXCEPT !.stage = "answered", !.outcome = o, !.seen = None])'
    BY <1>3, <2>6, KnownNext, Answered
  <2> QED BY <1>1, <1>2, <1>3, <2>6, <2>7, <2>8, ServeStep DEF Answer
<1>5. CASE r.form \notin {"reset", "verify"}
  <2>1. /\ r.stage = (IF r.form \in {"login", "renew"} THEN "checked" ELSE "saved")
        /\ account' = account /\ AnswerToken(r, Written(r))
    BY <1>5 DEF Finish
  <2>2. r.form \in {"login", "renew", "password"}
    BY <1>1, <1>5, <2>1 DEF Known, InPlace
  <2>3. Onward
    BY <1>2, <1>5, <2>1, BecomesResetting, UnchangedOnward DEF AnswerToken, Reset
  <2>4. PICK t : t = Written(r)
    OBVIOUS
  <2>5. t \in Tokens /\ (Excepted' \/ Good(t)')
    BY <1>3, <2>1, <2>2, <2>3, <2>4, WrittenGood
  <2>6. GoodNow([r EXCEPT !.stage = "answered", !.outcome = "token", !.got = t, !.seen = None])'
    BY <1>3, <2>3, <2>5, KnownNext, AnsweredToken
  <2> QED BY <1>1, <1>2, <1>3, <2>1, <2>3, <2>4, <2>6, ServeStep DEF AnswerToken
<1> QED BY <1>4, <1>5

-----------------------------------------------------------------------------
(* The steps of the pages.                                                 *)
LEMMA ReceiveSound ==
  ASSUME Sound, NEW r \in requests, Receive(r)
  PROVE  Sound'
<1>1. Known(r) /\ r.stage = "answered" /\ requests' = requests \ {r} /\ UNCHANGED <<account, links, history>>
  BY KnownNow DEF Receive
<1>2. Types /\ (Excepted' <=> Excepted)
  BY <1>1 DEF Sound, Excepted
<1>3. Onward
  <2>1. Resetting => Resetting'
    BY <1>1 DEF Resetting
  <2> QED BY <1>1, <1>2, <2>1, UnchangedOnward DEF Types
<1>4. PICK t \in Tokens \cup {None} :
        /\ token' = [token EXCEPT ![r.device] = t]
        /\ Excepted \/ Good(t)
  <2>1. token[r.device] \in Tokens \cup {None} /\ (Excepted \/ Good(token[r.device]))
    BY <1>1, <1>2 DEF Known, RequestType, Types, Sound, AllGood
  <2>2. Excepted \/ Good(r.got)
    BY <1>1 DEF Known, GoodRequest
  <2>3. Good(None)
    BY DEF Good
  <2>4. CASE UNCHANGED token
    <3>1. token' = [token EXCEPT ![r.device] = token[r.device]]
      BY <1>2, <2>4 DEF Types
    <3> QED BY <2>1, <3>1
  <2>5. CASE r.outcome = "token" /\ token' = [token EXCEPT ![r.device] = r.got]
    BY <1>1, <2>2, <2>5 DEF Known, InPlace
  <2>6. CASE token' = [token EXCEPT ![r.device] = None]
    BY <2>3, <2>6
  <2>7. CASE token' = [token EXCEPT ![r.device] = token[r.device]]
    BY <2>1, <2>7
  <2> QED BY <2>4, <2>5, <2>6, <2>7
          DEF Receive, Keeps, Refused, Expired, LoggedIn, CameBack, ToldDone, Renewed, PasswordChanged,
              EmailChanged, LoggedOutEverywhere, AccountDeleted
<1>5. Keeping
  <2>1. token' \in [Devices -> Tokens \cup {None}]
    BY <1>2, <1>4 DEF Types
  <2>2. ASSUME ~Excepted', NEW d \in Devices PROVE Good(token[d])'
    <3>1. PICK u : u = token'[d]
      OBVIOUS
    <3>2. u \in {t, token[d]}
      BY <1>2, <1>4, <3>1 DEF Types
    <3>3. u \in Tokens \cup {None} /\ Good(u)
      BY <1>2, <1>4, <2>2, <3>2 DEF Types, Sound, AllGood
    <3>4. Good(u)'
      BY <1>2, <1>3, <3>3, GoodOnward DEF Types
    <3> QED BY <3>1, <3>4 DEF Good
  <2> QED BY <1>1, <1>2, <2>1, <2>2 DEF Keeping, Types
<1> QED BY <1>1, <1>3, <1>5, SoundOnward

(* A step that leaves the account and the tokens as they are, and adds at  *)
(* most good requests.                                                     *)
LEMMA QuietStep ==
  ASSUME Sound, UNCHANGED <<account, token, history>>, \A l \in links' : l.of \in Nat, Resetting => Resetting',
         \A c \in requests' : c \in requests \/ GoodNow(c)'
  PROVE  Sound'
<1>1. Onward
  BY UnchangedOnward DEF Sound, Types
<1>2. Excepted' <=> Excepted
  BY DEF Excepted
<1>3. Keeping
  BY <1>1, <1>2, TokensOnward DEF Keeping, Sound, Types
<1> QED BY <1>1, <1>3, SoundOnward

LEMMA EmailedSound ==
  ASSUME Sound, UNCHANGED <<account, token, history, requests>>, NEW link, link.of \in Nat, Emailed(link)
  PROVE  Sound'
<1>1. \A l \in links' : l.of \in Nat
  BY DEF Emailed, Sound, Types
<1>2. Resetting => Resetting'
  BY DEF Resetting
<1> QED BY <1>1, <1>2, QuietStep

LEMMA SubmitSound ==
  ASSUME Sound, NEW d \in Devices, NEW form \in Forms, Submit(d, form)
  PROVE  Sound'
<1>1. Types /\ UNCHANGED <<account, links, token, history>>
  BY DEF Submit, Sound
<1>2. PICK of \in IF form \in {"reset", "verify"} THEN Addressed(form) ELSE {0} :
        requests' = requests \cup {Request(d, form, of)}
  BY DEF Submit
<1>3. of \in Nat
  BY <1>1, <1>2 DEF Types, Addressed
<1> DEFINE c == Request(d, form, of)
<1>4. token[d] \in Tokens \cup {None}
  BY <1>1 DEF Types
<1>5. /\ RequestType(c) /\ c.form = form
      /\ c.stage = "sent" /\ c.sent \in {token[d], None} /\ c.got = None /\ c.outcome = "none"
      /\ form = "google" => c.seen = Seen
  <2>1. PICK sent \in Tokens \cup {None} : sent = IF form = "verify" THEN None ELSE token[d]
    BY <1>4
  <2>2. PICK seen \in Sights \cup {None} : seen = IF form = "google" THEN Seen ELSE None
    BY <1>1, SeenIsCurrent DEF Types
  <2>3. c = [device |-> d, form |-> form, of |-> of, sent |-> sent, stage |-> "sent", seen |-> seen, changes |-> {},
             outcome |-> "none", got |-> None]
    BY <2>1, <2>2 DEF Request
  <2> QED BY <1>3, <2>1, <2>2, <2>3 DEF RequestType
<1>6. Resetting => Resetting'
  BY <1>2 DEF Resetting
<1> HIDE DEF c
<1>7. GoodNow(c)
  <2>1. Excepted \/ Good(token[d])
    BY DEF Sound, AllGood
  <2>2. Seen \in Sights /\ Current(Seen.version, Seen.password)
    BY <1>1, SeenIsCurrent DEF Types
  <2>3. InPlace(c)
    BY <1>5, <2>2 DEF InPlace, Sees
  <2>4. Good(None)
    BY DEF Good
  <2>5. Excepted \/ Good(c.sent)
    BY <1>5, <2>1, <2>4
  <2> QED BY <1>5, <2>2, <2>3, <2>4, <2>5 DEF GoodNow, GoodRequest, Sees
<1>8. PICK k : k = c
  OBVIOUS
<1>9. GoodNow(k)'
  <2>1. Onward
    BY <1>1, <1>6, UnchangedOnward DEF Types
  <2>2. RequestType(k) /\ InPlace(k)' /\ (GoodRequest(k) => GoodRequest(k)')
    BY <1>1, <1>7, <1>8, <2>1, RequestOnward DEF GoodNow, Types
  <2>3. Excepted' <=> Excepted
    BY <1>1 DEF Excepted
  <2> QED BY <1>7, <1>8, <2>2, <2>3 DEF GoodNow, RequestType
<1> QED BY <1>1, <1>2, <1>6, <1>8, <1>9, QuietStep DEF c, Types

LEMMA LogOutSound ==
  ASSUME Sound, NEW d \in Devices, Log_out(d)
  PROVE  Sound'
<1>1. Types /\ UNCHANGED <<account, links, requests, history>> /\ token' = [token EXCEPT ![d] = None]
  BY DEF Log_out, Sound
<1>2. Onward
  BY <1>1, UnchangedOnward DEF Types, Resetting
<1>3. Excepted' <=> Excepted
  BY <1>1 DEF Excepted
<1>4. ASSUME ~Excepted', NEW e \in Devices PROVE Good(token[e])'
  <2>1. PICK u : u = token'[e]
    OBVIOUS
  <2>2. u \in {None, token[e]}
    BY <1>1, <2>1 DEF Types
  <2>3. u \in Tokens \cup {None} /\ Good(u)
    BY <1>1, <1>3, <1>4, <2>2 DEF Types, Sound, AllGood, Good
  <2>4. Good(u)'
    BY <1>1, <1>2, <2>3, GoodOnward DEF Types
  <2> QED BY <2>1, <2>4 DEF Good
<1>5. Keeping
  BY <1>1, <1>3, <1>4 DEF Keeping, Types
<1> QED BY <1>1, <1>2, <1>5, SoundOnward

(* The rest of the steps change the account, or the history, alone.        *)
LEMMA AccountStep ==
  ASSUME Sound, Onward, UNCHANGED <<token, requests>>, \A l \in links' : l.of \in Nat,
         history' \in HistoryRecord, Excepted => Excepted'
  PROVE  Sound'
<1>1. Keeping
  BY TokensOnward DEF Keeping
<1> QED BY <1>1, SoundOnward

LEMMA SignUpSound ==
  ASSUME Sound, SignUp
  PROVE  Sound'
<1>1. /\ Types /\ account.is = "none" /\ account' = [account EXCEPT !.is = "there"]
      /\ Emailed(ToConfirm(0)) /\ UNCHANGED <<token, requests, history>>
  BY DEF Sound, SignUp
<1>2. Onward
  BY <1>1 DEF Types, AccountRecord, Onward, Gone, Resetting
<1>3. \A l \in links' : l.of \in Nat
  BY <1>1 DEF Types, Emailed, ToConfirm
<1> QED BY <1>1, <1>2, <1>3, AccountStep DEF Types, Excepted

LEMMA SweepDeletesSound ==
  ASSUME Sound, SweepDeletes
  PROVE  Sound'
<1>1. /\ Types /\ account' = IF There THEN [account EXCEPT !.is = "swept"] ELSE account
      /\ UNCHANGED <<links, token, requests, history>>
  BY DEF Sound, SweepDeletes
<1>2. Onward
  BY <1>1 DEF Types, AccountRecord, Onward, Gone, Resetting, There
<1> QED BY <1>1, <1>2, AccountStep DEF Types, Excepted

(* A stop between the two saves of a reset is one of the exceptions.       *)
LEMMA RestartSound ==
  ASSUME Sound, Restart
  PROVE  Sound'
<1>1. /\ Types /\ requests' = {r \in requests : r.stage = "answered"}
      /\ UNCHANGED <<account, links, token>>
  BY DEF Sound, Restart
<1>2. history' \in HistoryRecord /\ (Excepted' <=> Excepted \/ Resetting)
  BY <1>1, RestartNotes DEF Types, Restart
<1>3. CASE Resetting
  <2>1. Types'
    BY <1>1, <1>2 DEF Types, RequestType, InPlace
  <2> QED BY <1>2, <1>3, <2>1 DEF Sound
<1>4. CASE ~Resetting
  <2>1. Onward
    BY <1>1, <1>4, UnchangedOnward DEF Types
  <2>2. Keeping
    BY <1>1, <1>2, <2>1, TokensOnward DEF Keeping, Types
  <2> QED BY <1>1, <2>1, <2>2, SoundOnward
<1> QED BY <1>3, <1>4

LEMMA StepSound ==
  ASSUME Sound, [Next]_avars
  PROVE  Sound'
<1>1. CASE SignUp
  BY <1>1, SignUpSound
<1>2. CASE ResendVerification
  <2>1. account.email \in Nat
    BY DEF Sound, Types, AccountRecord
  <2> QED BY <1>2, <2>1, EmailedSound DEF ResendVerification, ToConfirm
<1>4. CASE ForgotPassword
  <2>1. account.password \in Nat
    BY DEF Sound, Types, AccountRecord
  <2> QED BY <1>4, <2>1, EmailedSound DEF ForgotPassword
<1>5. ASSUME NEW d \in Devices, Log_out(d) \/ \E form \in Forms : Submit(d, form) PROVE Sound'
  <2>1. CASE Log_out(d)
    BY <2>1, LogOutSound
  <2>2. ASSUME NEW form \in Forms, Submit(d, form) PROVE Sound'
    BY <2>2, SubmitSound
  <2> QED BY <1>5, <2>1, <2>2
<1>6. ASSUME NEW r \in requests, Load(r) \/ Save(r) \/ Link(r) \/ Finish(r) \/ GoogleEnds(r) \/ Receive(r)
                                 \/ Lose(r) PROVE Sound'
  <2>1. CASE Load(r)
    BY <2>1, LoadSound
  <2>2. CASE Save(r)
    BY <2>2, SaveSound
  <2>3. CASE Finish(r)
    BY <2>3, FinishSound
  <2>4. CASE Receive(r)
    BY <2>4, ReceiveSound
  <2>5. CASE Lose(r)
    <3>1. Resetting => Resetting'
      BY <2>5 DEF Lose, Resetting
    <3> QED BY <2>5, <3>1, QuietStep DEF Lose, Sound, Types
  <2>6. CASE Link(r)
    BY <2>6, LinkSound
  <2>7. CASE GoogleEnds(r)
    BY <2>7, GoogleEndsSound
  <2> QED BY <1>6, <2>1, <2>2, <2>3, <2>4, <2>5, <2>6, <2>7
<1>7. CASE Restart
  BY <1>7, RestartSound
<1>8. CASE SweepReads
  BY <1>8, QuietStep DEF SweepReads, Sound, Types, Resetting
<1>9. CASE SweepDeletes
  BY <1>9, SweepDeletesSound
<1>10. CASE UNCHANGED avars
  BY <1>10, QuietStep DEF avars, Sound, Types, Resetting
<1> QED BY <1>1, <1>2, <1>4, <1>5, <1>6, <1>7, <1>8, <1>9, <1>10 DEF Next

-----------------------------------------------------------------------------
(* Only the sweep makes an account swept, and only a link or Google        *)
(* confirms an address; what was read before the confirmation is late.     *)
Unmoved ==
  /\ account'.is = "swept" => account.is = "swept"
  /\ stale' => stale
  /\ history'.confirmed => history.confirmed
  /\ history.late => history'.late
  /\ history.halfway => history'.halfway

LEMMA UnmovedStep ==
  ASSUME Unconfirmed, Unmoved
  PROVE  Unconfirmed'
  BY DEF Unconfirmed, Unmoved

(* A request that stands for no second save goes, the account is marked as *)
(* it was.                                                                 *)
LEMMA MarkedOnward ==
  ASSUME Marked, NEW gone, ~Confirming(gone), \A q \in requests : q = gone \/ q \in requests',
         account.is # "none" => account'.is # "none",
         account.is = "none" => account'.is \in {"none", "there"} /\ (account'.is = "none" => account'.email = account.email),
         stale' => stale, history'.confirmed = history.confirmed, history.halfway => history'.halfway,
         account'.confirmed = account.confirmed,
         There' => (There /\ (account.verified => account'.verified)) \/ account.is = "none"
  PROVE  Marked'
<1>1. account'.is = "none" => ~history'.confirmed /\ ~stale' /\ account'.email = 0
  BY DEF Marked
<1>2. ASSUME There', Halfway', ~history'.halfway
      PROVE  account'.verified /\ \E r \in requests' : Confirming(r)
  <2>1. There /\ Halfway /\ ~history.halfway /\ (account.verified => account'.verified)
    BY <1>2 DEF Halfway, Marked
  <2>2. account.verified /\ \E r \in requests : Confirming(r)
    BY <2>1 DEF Marked
  <2> QED BY <2>1, <2>2
<1>3. Marked' = (/\ account'.is = "none" => ~history'.confirmed /\ ~stale' /\ account'.email = 0
                 /\ There' /\ Halfway' /\ ~history'.halfway => account'.verified /\ \E r \in requests' : Confirming(r))
  BY DEF Marked, Confirming
<1> QED BY <1>1, <1>2, <1>3

(* An account marked as confirmed, or gone, needs no second save.          *)
LEMMA MarkedNow ==
  ASSUME account'.is # "none", ~There' \/ account'.confirmed = TRUE \/ (Halfway' => history'.halfway)
  PROVE  Marked'
  BY DEF Marked, Halfway

LEMMA SaveUnconfirmed ==
  ASSUME Types, Unconfirmed, Marked, NEW r \in requests, Save(r)
  PROVE  Unconfirmed' /\ Marked'
<1>1. UNCHANGED stale /\ account \in AccountRecord /\ r.form \in Forms \ {"login", "renew"} /\ r.stage = "checked"
      /\ history \in HistoryRecord /\ RequestType(r)
  BY DEF Save, Types, RequestType
<1>2. ~Confirming(r)
  BY <1>1 DEF Confirming
<1>3. CASE ~There
  <2>1. UNCHANGED <<account, history>> /\ \A q \in requests : q = r \/ q \in requests'
    BY <1>3 DEF Save, Answer, Becomes
  <2>2. Unmoved
    BY <1>1, <2>1 DEF Unmoved
  <2>3. Marked'
    BY <1>1, <1>2, <1>3, <2>1, MarkedOnward DEF There
  <2> QED BY <2>2, <2>3, UnmovedStep
<1>4. CASE There
  <2>1. /\ account' = Saved(r)
        /\ history'.confirmed <=> history.confirmed \/ r.form = "verify"
        /\ history'.halfway <=> history.halfway \/ (r.form = "email" /\ Halfway)
        /\ history'.late <=> history.late \/ (r.form = "verify" /\ stale)
        /\ history' \in HistoryRecord
    BY <1>1, <1>4, SaveNotes DEF Save
  <2>2. account'.is \in {"there", "deleted"} /\ account'.confirmed = account.confirmed
    <3>1. CASE r.form = "reset"
      BY <1>1, <1>4, <2>1, <3>1, SavedReset DEF There
    <3>2. CASE r.form # "reset"
      <4>1. r.form \in {"password", "everywhere", "email", "delete", "google", "verify"}
        BY <1>1, <3>2 DEF Forms, AtLogin, NeedsPassword
      <4>2. Follows(account')
        BY <1>1, <2>1, <4>1, SavedFollows
      <4> QED BY <1>4, <4>2 DEF Follows, There
    <3> QED BY <3>1, <3>2
  <2>3. Unconfirmed'
    BY <1>1, <1>4, <2>1, <2>2 DEF Unconfirmed
  <2>4. CASE r.form = "email"
    <3>1. Halfway' => history'.halfway
      BY <2>1, <2>2, <2>4 DEF Halfway, HistoryRecord
    <3> QED BY <2>2, <2>3, <3>1, MarkedNow
  <2>5. CASE r.form = "verify"
    <3>1. account' = [account EXCEPT !.verified = TRUE]
      BY <2>1, <2>5 DEF Saved
    <3>2. account'.verified = TRUE
      BY <1>1, <3>1 DEF AccountRecord
    <3>3. PICK c : c = [r EXCEPT !.stage = "saved", !.seen = IF Outlives(r) THEN @ ELSE Seen']
      OBVIOUS
    <3>4. c \in requests'
      BY <1>4, <2>5, <3>3 DEF Save, Becomes
    <3>5. Confirming(c)
      BY <1>1, <2>5, <3>3 DEF RequestType, Confirming
    <3>6. Marked'
      BY <2>2, <3>2, <3>4, <3>5 DEF Marked, Confirming
    <3> QED BY <2>3, <3>6
  <2>6. CASE r.form \notin {"email", "verify"}
    <3>1. \A q \in requests : q = r \/ q \in requests'
      BY DEF Save, Answer, Becomes
    <3>2. account'.verified = account.verified
      BY <1>1, <2>1, <2>6 DEF Saved, AccountRecord, Forms, AtLogin, NeedsPassword
    <3>3. history'.confirmed = history.confirmed /\ (history.halfway => history'.halfway)
      BY <1>1, <2>1, <2>6 DEF HistoryRecord
    <3>4. Marked'
      BY <1>1, <1>2, <1>4, <2>2, <3>1, <3>2, <3>3, MarkedOnward DEF There
    <3> QED BY <2>3, <3>4
  <2> QED BY <2>4, <2>5, <2>6
<1> QED BY <1>3, <1>4

LEMMA LinkUnconfirmed ==
  ASSUME Types, Unconfirmed, Marked, NEW r \in requests, Link(r)
  PROVE  Unconfirmed' /\ Marked'
<1>1. UNCHANGED stale /\ account \in AccountRecord /\ r.form = "google" /\ r.stage = "saved"
      /\ history \in HistoryRecord /\ RequestType(r)
  BY DEF Link, Types
<1>2. ~Confirming(r) /\ \A q \in requests : q = r \/ q \in requests'
  BY <1>1 DEF Confirming, Link, Answer, Becomes
<1>3. CASE ~OfGoogle
  <2>1. UNCHANGED <<account, history>>
    BY <1>3 DEF Link
  <2>2. Unmoved
    BY <1>1, <2>1 DEF Unmoved
  <2>3. Marked'
    BY <1>1, <1>2, <2>1, MarkedOnward DEF There
  <2> QED BY <2>2, <2>3, UnmovedStep
<1>4. CASE OfGoogle
  <2>1. /\ account' = Linked
        /\ history'.confirmed <=> history.confirmed \/ account.is = "none"
        /\ history'.halfway = history.halfway /\ history'.late = history.late
        /\ history' \in HistoryRecord
    BY <1>1, <1>4, LinkNotes DEF Link
  <2>2. /\ account'.is = "there" /\ account'.email = account.email /\ account'.confirmed = account.confirmed
        /\ account'.verified = (account.verified \/ account.is = "none")
    BY <1>1, <2>1, LinkedType
  <2>3. CASE account.is = "none"
    <3>1. Unconfirmed'
      BY <1>1, <2>2, <2>3 DEF Unconfirmed, Marked
    <3>2. CASE account.confirmed
      BY <2>2, <3>1, <3>2, MarkedNow
    <3>3. CASE ~account.confirmed
      <4>1. PICK ch : ch = ToBeSaved(r, Linked)
        OBVIOUS
      <4>2. PICK t : t = Written(r)
        OBVIOUS
      <4>3. "confirmed" \in ch
        BY <2>1, <2>2, <2>3, <3>3, <4>1 DEF ToBeSaved, Marked
      <4>4. PICK c : c = [r EXCEPT !.stage = "linked", !.changes = ch, !.got = t]
        OBVIOUS
      <4>5. c \in requests'
        BY <1>4, <4>1, <4>2, <4>4 DEF Link, Becomes
      <4>6. Confirming(c)
        BY <1>1, <4>3, <4>4 DEF RequestType, Confirming
      <4>7. account'.verified
        BY <2>2, <2>3
      <4>8. Marked'
        BY <2>2, <4>5, <4>6, <4>7 DEF Marked, Confirming
      <4> QED BY <3>1, <4>8
    <3> QED BY <1>1, <3>2, <3>3 DEF AccountRecord
  <2>4. CASE account.is # "none"
    <3>1. There /\ There'
      BY <1>4, <2>2, <2>4 DEF OfGoogle, There
    <3>2. history'.confirmed = history.confirmed
      BY <1>1, <2>1, <2>4 DEF HistoryRecord
    <3>3. Unmoved
      BY <1>1, <2>1, <2>2, <3>2 DEF Unmoved
    <3>4. Marked'
      BY <1>1, <1>2, <2>1, <2>2, <2>4, <3>1, <3>2, MarkedOnward
    <3> QED BY <3>3, <3>4, UnmovedStep
  <2> QED BY <2>3, <2>4
<1> QED BY <1>3, <1>4

LEMMA GoogleEndsUnconfirmed ==
  ASSUME Types, Unconfirmed, Marked, NEW r \in requests, GoogleEnds(r)
  PROVE  Unconfirmed' /\ Marked'
<1>1. UNCHANGED stale /\ account \in AccountRecord /\ r.form = "google" /\ r.stage = "linked"
      /\ history \in HistoryRecord /\ RequestType(r)
  BY DEF GoogleEnds, Types
<1>2. \A q \in requests : q = r \/ q \in requests'
  BY DEF GoogleEnds, Answer, AnswerToken, Becomes
<1>3. CASE /\ There /\ account' = Changed(r)
           /\ history' = [history EXCEPT !.confirmed = @ \/ "confirmed" \in r.changes,
                                         !.outlived  = @ \/ Outlives(r),
                                         !.late      = @ \/ ("confirmed" \in r.changes /\ stale)]
  <2>1. /\ history' \in HistoryRecord
        /\ history'.confirmed <=> history.confirmed \/ "confirmed" \in r.changes
        /\ history'.late <=> history.late \/ ("confirmed" \in r.changes /\ stale)
        /\ history'.halfway = history.halfway
    BY <1>1, <1>3, GoogleNotes
  <2>2. /\ account'.is = "there" /\ account'.confirmed = (account.confirmed \/ "confirmed" \in r.changes)
        /\ account.verified => account'.verified
    BY <1>1, <1>3, ChangedType DEF There
  <2>3. Unconfirmed'
    BY <1>1, <1>3, <2>1, <2>2 DEF Unconfirmed, There
  <2>4. CASE "confirmed" \in r.changes
    <3>1. account'.confirmed = TRUE
      BY <2>2, <2>4
    <3> QED BY <2>2, <2>3, <3>1, MarkedNow
  <2>5. CASE "confirmed" \notin r.changes
    <3>1. ~Confirming(r)
      BY <1>1, <2>5 DEF Confirming
    <3>2. history'.confirmed = history.confirmed /\ account'.confirmed = account.confirmed
      BY <1>1, <2>1, <2>2, <2>5 DEF HistoryRecord, AccountRecord
    <3>3. Marked'
      BY <1>1, <1>2, <1>3, <2>1, <2>2, <3>1, <3>2, MarkedOnward DEF There
    <3> QED BY <2>3, <3>3
  <2> QED BY <2>4, <2>5
<1>4. CASE UNCHANGED <<account, history>> /\ (r.changes = {} \/ ~There)
  <2>1. Unmoved
    BY <1>1, <1>4 DEF Unmoved
  <2>2. CASE r.changes = {}
    <3>1. ~Confirming(r)
      BY <1>1, <2>2 DEF Confirming
    <3>2. Marked'
      BY <1>1, <1>2, <1>4, <3>1, MarkedOnward DEF There
    <3> QED BY <2>1, <3>2, UnmovedStep
  <2>3. CASE ~There
    <3>1. Marked'
      BY <1>1, <1>4, <2>3 DEF Marked, There
    <3> QED BY <2>1, <3>1, UnmovedStep
  <2> QED BY <1>4, <2>2, <2>3
<1> QED BY <1>3, <1>4 DEF GoogleEnds

LEMMA FinishUnconfirmed ==
  ASSUME Types, Unconfirmed, Marked, NEW r \in requests, Finish(r)
  PROVE  Unconfirmed' /\ Marked'
<1>1. UNCHANGED stale /\ account \in AccountRecord /\ r.form # "google" /\ history \in HistoryRecord
  BY DEF Finish, Types
<1>2. \A q \in requests : q = r \/ q \in requests'
  BY DEF Finish, Answer, AnswerToken, Becomes
<1>3. history'.confirmed = history.confirmed /\ history'.halfway = history.halfway /\ history'.late = history.late
  BY <1>1, FinishNotes DEF Finish
<1>4. CASE r.form = "verify"
  <2>1. account' = IF There THEN SavedAgain(r) ELSE account
    BY <1>4 DEF Finish
  <2>2. account'.is = account.is /\ (There => account'.confirmed = TRUE) /\ (~There => account' = account)
    BY <1>1, <1>4, <2>1, ConfirmedType DEF There
  <2>3. Unmoved
    BY <1>1, <1>3, <2>2 DEF Unmoved
  <2>4. Marked'
    <3>1. CASE There
      <4>1. account'.is # "none" /\ account'.confirmed = TRUE
        BY <2>2, <3>1 DEF There
      <4> QED BY <4>1, MarkedNow
    <3>2. CASE ~There
      BY <1>1, <1>3, <2>2, <3>2 DEF Marked, There
    <3> QED BY <3>1, <3>2
  <2> QED BY <2>3, <2>4, UnmovedStep
<1>5. CASE r.form # "verify"
  <2>1. ~Confirming(r)
    BY <1>1, <1>5 DEF Confirming
  <2>2. account'.is = account.is /\ account'.confirmed = account.confirmed /\ account'.verified = account.verified
        /\ account'.email = account.email
    BY <1>1, <1>5 DEF Finish, SavedAgain, AccountRecord
  <2>3. Unmoved
    BY <1>1, <1>3, <2>2 DEF Unmoved
  <2>4. Marked'
    BY <1>1, <1>2, <1>3, <2>1, <2>2, MarkedOnward DEF There
  <2> QED BY <2>3, <2>4, UnmovedStep
<1> QED BY <1>4, <1>5

LEMMA StepUnconfirmed ==
  ASSUME Types, Unconfirmed, Marked, [Next]_avars
  PROVE  Unconfirmed' /\ Marked'
<1> USE DEF Types
<1>1. ASSUME NEW r, ~Confirming(r), \A q \in requests : q = r \/ q \in requests', UNCHANGED <<account, history, stale>>
      PROVE  Unconfirmed' /\ Marked'
  <2>1. Unmoved
    BY <1>1 DEF Unmoved
  <2>2. Marked'
    BY <1>1, MarkedOnward DEF There
  <2> QED BY <2>1, <2>2, UnmovedStep
<1>2. PICK none : ~Confirming(none)
  <2>1. PICK c : c = [form |-> "login", stage |-> "sent", changes |-> {}]
    OBVIOUS
  <2>2. ~Confirming(c)
    BY <2>1 DEF Confirming
  <2> QED BY <2>2
<1>3. ASSUME UNCHANGED <<account, history, stale>>, \A q \in requests : q \in requests'
      PROVE  Unconfirmed' /\ Marked'
  BY <1>1, <1>2, <1>3
<1>4. CASE SignUp
  <2>1. /\ account.is = "none" /\ account'.is = "there" /\ account'.confirmed = account.confirmed
        /\ UNCHANGED <<requests, stale, history>>
    BY <1>4 DEF SignUp, AccountRecord
  <2>2. Unmoved
    BY <2>1 DEF Unmoved
  <2>3. Marked'
    BY <1>2, <2>1, MarkedOnward DEF There
  <2> QED BY <2>2, <2>3, UnmovedStep
<1>5. CASE ResendVerification \/ ForgotPassword
  BY <1>3, <1>5 DEF ResendVerification, ForgotPassword
<1>6. ASSUME NEW d \in Devices, Log_out(d) \/ \E form \in Forms : Submit(d, form) PROVE Unconfirmed' /\ Marked'
  BY <1>3, <1>6 DEF Log_out, Submit
<1>7. ASSUME NEW r \in requests, Load(r) \/ Receive(r) \/ Lose(r) PROVE Unconfirmed' /\ Marked'
  <2>1. r.stage \in {"sent", "answered"} /\ UNCHANGED <<account, history, stale>>
        /\ \A q \in requests : q = r \/ q \in requests'
    BY <1>7 DEF Load, Receive, Lose, Answer, Becomes
  <2>2. ~Confirming(r)
    BY <2>1 DEF Confirming
  <2> QED BY <1>1, <2>1, <2>2
<1>8. ASSUME NEW r \in requests, Save(r) PROVE Unconfirmed' /\ Marked'
  BY <1>8, SaveUnconfirmed
<1>9. ASSUME NEW r \in requests, Link(r) PROVE Unconfirmed' /\ Marked'
  BY <1>9, LinkUnconfirmed
<1>10. ASSUME NEW r \in requests, GoogleEnds(r) PROVE Unconfirmed' /\ Marked'
  BY <1>10, GoogleEndsUnconfirmed
<1>11. ASSUME NEW r \in requests, Finish(r) PROVE Unconfirmed' /\ Marked'
  BY <1>11, FinishUnconfirmed
<1>12. CASE Restart
  <2>1. account' = account /\ stale' = FALSE /\ history'.confirmed = history.confirmed
        /\ (history'.halfway <=> history.halfway \/ Halfway)
    BY <1>12, RestartNotes DEF Restart
  <2>2. history'.late = history.late
    BY <1>12 DEF Restart, HistoryRecord
  <2>3. Unmoved
    BY <2>1, <2>2 DEF Unmoved
  <2>4. Marked'
    BY <2>1 DEF Marked, Halfway, There
  <2> QED BY <2>3, <2>4, UnmovedStep
<1>13. CASE SweepReads
  <2>1. There /\ ~account.verified /\ ~account.confirmed /\ UNCHANGED <<account, history, requests>>
    BY <1>13 DEF SweepReads, Abandoned
  <2>2. history.confirmed => history.halfway
    BY <2>1 DEF Marked, Halfway
  <2>3. Unconfirmed'
    BY <2>1, <2>2 DEF Unconfirmed
  <2>4. Marked'
    BY <2>1 DEF Marked, Halfway, There, Confirming
  <2> QED BY <2>3, <2>4
<1>14. CASE SweepDeletes
  <2>1. stale /\ ~stale' /\ UNCHANGED <<history, requests>>
        /\ account' = IF There THEN [account EXCEPT !.is = "swept"] ELSE account
    BY <1>14 DEF SweepDeletes
  <2>2. account.is # "none"
    BY <2>1 DEF Marked
  <2>3. account'.is # "none" /\ ~There'
    BY <2>1, <2>2 DEF AccountRecord, There
  <2>4. Unconfirmed'
    BY <2>1 DEF Unconfirmed
  <2> QED BY <2>3, <2>4, MarkedNow
<1>15. CASE UNCHANGED avars
  BY <1>3, <1>15 DEF avars
<1> QED BY <1>4, <1>5, <1>6, <1>7, <1>8, <1>9, <1>10, <1>11, <1>12, <1>13, <1>14, <1>15 DEF Next

-----------------------------------------------------------------------------
LEMMA StepIInv ==
  ASSUME IInv, [Next]_avars
  PROVE  IInv'
BY StepSound, StepUnconfirmed DEF IInv, Sound

LEMMA IInvSafe == IInv => SessionsOfThePassword /\ SweptNeverConfirmed
<1>1. IInv => SessionsOfThePassword
  <2> SUFFICES ASSUME IInv, NEW d \in Devices, Valid(token[d]),
                      ~history.crossed, ~history.outlived, ~history.stopped
               PROVE  token[d].since = account.version /\ (token[d].password = account.password \/ Resetting)
    BY DEF SessionsOfThePassword
  <2>1. Good(token[d]) /\ token[d] # None /\ There /\ token[d].version = account.version
    BY DEF IInv, Excepted, AllGood, Valid
  <2> QED BY <2>1 DEF Good, Current, There, Gone
<1>2. IInv => SweptNeverConfirmed
  BY DEF IInv, Unconfirmed, SweptNeverConfirmed
<1> QED BY <1>1, <1>2

THEOREM Invariance == Spec => []IInv
BY InitIInv, StepIInv, PTL DEF Spec

(* A sign in works only with the version and the password of the account   *)
(* as it is, whatever was being served meanwhile (VersionedJWTStrategy,    *)
(* sign_out_everywhere), but for a Google sign in that reads the account   *)
(* only after the sign out, a password change that crosses another one and *)
(* a reset cut between its saves.                                          *)
THEOREM WorkingSessionsAreOfThePassword == Spec => []SessionsOfThePassword
BY IInvSafe, Invariance, PTL

(* The sweep deletes no account an address of which was ever confirmed,    *)
(* unless that was between the sweep's read and its delete, or was cut, or *)
(* crossed by a change of the email, between its two saves (cleanup.py,    *)
(* on_after_verify).                                                       *)
THEOREM SweptNeverConfirmedAnAddress == Spec => []SweptNeverConfirmed
BY IInvSafe, Invariance, PTL

=============================================================================
