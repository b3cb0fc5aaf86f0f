---------------------------- MODULE OfflineCopy ----------------------------
(***************************************************************************)
(* How the app's offline copy keeps within its limits                      *)
(* (native/offlineCache.js): replies stored under keys, an index of the    *)
(* keys in use order, a limit for all and one for screens with endless     *)
(* variants, and a storage that may be full. A stored reply takes one unit *)
(* of storage and so does a key of the index. One user and currency;       *)
(* whose reply is kept at all is Session's.                                *)
(***************************************************************************)
EXTENDS Naturals, Sequences, FiniteSets, SequencesExt

CONSTANTS
  Keys,        \* one per path and query
  Limited,     \* the keys of the screen that keeps only its latest few
  Limit,       \* how many of those (LIMITS)
  MaxEntries,  \* how many of all (MAX_ENTRIES)
  Dropped,     \* how many a full storage gives up at once
  Capacity     \* units of storage

VARIABLES
  store,  \* keys with a stored reply
  index,  \* the saved index, least recently used first
  used    \* history: every key kept or found since the last sign out, in use order

ovars == <<store, index, used>>

(* The first k of keys beyond n, the oldest ones.                          *)
Beyond(keys, n) == IF Len(keys) > n THEN Range(SubSeq(keys, 1, Len(keys) - n)) ELSE {}

(* The keys that are not gone, in their order, one after the other.        *)
Filtered(keys, gone) ==
  LET kept[i \in 0..Len(keys)] ==
        IF i = 0 THEN << >>
        ELSE IF keys[i] \in gone THEN kept[i - 1]
        ELSE Append(kept[i - 1], keys[i])
  IN  kept

Without(keys, gone) == Filtered(keys, gone)[Len(keys)]

(* A slip: a key found again keeps its place. *)
Unmoved(key, keys) == IF key \in Range(keys) THEN keys ELSE Append(keys, key)

Used(key, keys) == Append(Without(keys, {key}), key)

Fits(entries, keys) == Cardinality(entries) + Len(keys) <= Capacity

(* save(): what is stored and indexed once the reply is written; a full    *)
(* storage gives up its oldest replies and tries once more.                *)
Dropping == SubSeq(index, 1, IF Len(index) < Dropped THEN Len(index) ELSE Dropped)

Saves(key) ==
  IF Fits(store \cup {key}, index) THEN [store |-> store \cup {key}, index |-> index, ok |-> TRUE]
  ELSE LET rest == store \ Range(Dropping)
           keys == SubSeq(index, Len(Dropping) + 1, Len(index))
       IN IF Fits(rest \cup {key}, keys)
          THEN [store |-> rest \cup {key}, index |-> keys, ok |-> TRUE]
          ELSE [store |-> rest, index |-> keys, ok |-> FALSE]

(* touch(): the key moves to the end and what is beyond the limits goes.   *)
(* The replies are removed before the index is saved, which may fail.      *)
ScreenEvicts(key, keys) ==
  IF key \in Limited THEN Beyond(Without(keys, Range(keys) \ Limited), Limit) ELSE {}

Evicts(key, keys) ==
  LET screen == ScreenEvicts(key, keys)
  IN screen \cup Beyond(Without(keys, screen), MaxEntries)

Touches(key, s) ==
  LET moved == Used(key, s.index)
      gone  == Evicts(key, moved)
      kept  == s.store \ gone
      keys  == Without(moved, gone)
  IN IF Fits(kept, keys) THEN [store |-> kept, index |-> keys, ok |-> TRUE]
     ELSE [store |-> kept, index |-> s.index, ok |-> FALSE]

Init ==
  /\ store = {}
  /\ index = <<>>
  /\ used = <<>>

Becomes(s, key) ==
  /\ store' = s.store
  /\ index' = s.index
  /\ used' = IF key \in s.store THEN Append(Without(used, {key}), key) ELSE used

(* remember(): any failure just leaves the screen without a copy.          *)
Remember(key) ==
  Becomes(IF Saves(key).ok THEN Touches(key, Saves(key)) ELSE Saves(key), key)

(* recall(): a copy found is also used; when that cannot be noted, the     *)
(* screen gets nothing.                                                    *)
Recall(key) ==
  /\ key \in store
  /\ Becomes(Touches(key, [store |-> store, index |-> index]), key)

ForgetAll ==
  /\ store' = {}
  /\ index' = <<>>
  /\ used' = <<>>

Next ==
  \/ \E key \in Keys : Remember(key) \/ Recall(key)
  \/ ForgetAll

Spec == Init /\ [][Next]_ovars

-----------------------------------------------------------------------------
LastUse(key) == CHOOSE i \in DOMAIN used : used[i] = key

SameScreen(k1, k2) == (k1 \in Limited) = (k2 \in Limited)

(* Among the replies the index knows, a screen keeps those used last: one  *)
(* that is gone was used before every one still kept. (A reply whose index *)
(* entry a full storage refused is kept outside the limits.)               *)
KeptAreRecent ==
  \A kept \in store \cap Range(index), gone \in Range(used) \ store :
    SameScreen(kept, gone) => LastUse(kept) > LastUse(gone)

=============================================================================
