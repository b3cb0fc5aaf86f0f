----------------------------- MODULE MCAccount -----------------------------
(***************************************************************************)
(* Small instances of the import quota (MCImportCommit) and of what stands *)
(* in front of an account: sign up, sign in and sign out (Accounts), and   *)
(* the app's lock with the Keychain behind it (AppLock). A behaviour is    *)
(* one of them moving while the others wait with no state at all: they are *)
(* explored one by one, and the state spaces add up instead of             *)
(* multiplying.                                                            *)
(***************************************************************************)
EXTENDS MCImportCommit

CONSTANTS
  None,
  Devices, Apps, MaxRequests, MaxAtOnce, MaxEmails,                        \* Accounts
  MaxSignIns, MaxTroubles                                                     \* AppLock

VARIABLES
  part,                                                                    \* the part that moves
  account, links, tokens, asks, asksSent, stale, happened,                 \* Accounts
  start, rendered, front, installed, mirrored, keychain, writes, found, setting, switching,
  lock, sheets, promptOpen, settling, seen                                 \* AppLock

accountVars == <<account, links, tokens, asks, asksSent, stale, happened>>
lockVars    == <<start, rendered, front, installed, mirrored, keychain, writes, found, setting, switching,
                 lock, sheets, promptOpen, settling, seen>>

SignIns == INSTANCE Accounts WITH
  token <- tokens, requests <- asks, asked <- asksSent, history <- happened

Lock == INSTANCE AppLock WITH token <- mirrored, history <- seen

-----------------------------------------------------------------------------
(* The variables of a part that does not move.                             *)
AccountIdle ==
  /\ account = None /\ links = None /\ tokens = None /\ asks = None /\ asksSent = None
  /\ stale = None /\ happened = None

LockIdle ==
  /\ start = None /\ rendered = None /\ front = None /\ installed = None /\ mirrored = None
  /\ keychain = None /\ writes = None /\ found = None /\ setting = None /\ switching = None
  /\ lock = None /\ sheets = None /\ promptOpen = None /\ settling = None /\ seen = None

(* The app was signed in before; the lock may be on.                       *)
AccountInit ==
  /\ part \in {"quota", "account", "lock"}
  /\ Init
  /\ IF part = "account" THEN SignIns!Init ELSE AccountIdle
  /\ IF part = "lock" THEN Lock!Init /\ keychain = Lock!Earlier /\ (installed => setting = "on") ELSE LockIdle

OthersWait ==
  /\ UNCHANGED part
  /\ part # "quota"   => UNCHANGED vars
  /\ part # "account" => UNCHANGED accountVars
  /\ part # "lock"    => UNCHANGED lockVars

QuotaMoves   == part = "quota"   /\ Next         /\ OthersWait
AccountMoves == part = "account" /\ SignIns!Next /\ OthersWait
LockMoves    == part = "lock"    /\ Lock!Next    /\ OthersWait

AccountNext == QuotaMoves \/ AccountMoves \/ LockMoves

AccountSpec ==
  AccountInit /\ [][AccountNext]_<<part, vars, accountVars, lockVars>>

-----------------------------------------------------------------------------
(* A working sign in was proved with the password in use, after the last   *)
(* sign out everywhere (write_token, sign_out_everywhere), with the        *)
(* exceptions Accounts names.                                              *)
SessionsOfThePassword == part = "account" => SignIns!SessionsOfThePassword

(* The sweep deletes no account an address of which was ever confirmed,    *)
(* but for the moments Accounts names (delete_stale_unverified_users).     *)
SweptNeverConfirmed == part = "account" => SignIns!SweptNeverConfirmed

(* With the lock on, nothing is shown unchecked, but for what AppLock      *)
(* names (AppLock.jsx, lockRules.js).                                      *)
ShownOnlyWhenChecked == part = "lock" => Lock!ShownOnlyWhenChecked

(* The Keychain follows the sign in, unless a call that was to tell it     *)
(* failed or met a waiting restore (secureToken.js, bootstrap.js).         *)
KeychainFollows == part = "lock" => Lock!KeychainFollows

=============================================================================
